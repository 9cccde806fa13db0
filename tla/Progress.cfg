SPECIFICATION Spec
CONSTANTS
  Components = {"status", "storno", "prologue", "receiver", "replay", "write"}
  i1 = i1
  NoInv = NoInv
  Operator = Operator
  Outsider = Outsider
  Gone = Gone
  None = None
PROPERTIES CallsEnd PushesSettle WritesSettle
CHECK_DEADLOCK FALSE
