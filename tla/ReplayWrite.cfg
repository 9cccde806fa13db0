SPECIFICATION Spec
CONSTANTS
  i1 = i1
  i2 = i2
  NoInv = NoInv
  Inv <- MCInvocations
  Orders <- MCOrders
  MaxExec = 2
SYMMETRY MCSymmetry
INVARIANTS TypeOK UncertaintyBlocks DuplicatesNeedOverlap SettledWritesHappened
CHECK_DEADLOCK FALSE
