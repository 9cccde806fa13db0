SPECIFICATION FairSpec
CONSTANTS
  i1 = i1
  i2 = i2
  Inv <- TwoInvocations
  NoInv = NoInv
  Operator = Operator
  Outsider = Outsider
  CreateKind <- InvoiceOnly
  MaxDocs = 1
PROPERTY StoppedOwnerIsRecoverable
CHECK_DEADLOCK FALSE
