SPECIFICATION Spec
CONSTANTS
  i1 = i1
  i2 = i2
  Inv <- TwoInvocations
  NoInv = NoInv
  Operator = Operator
  Outsider = Outsider
  CreateKind <- InvoiceOnly
  MaxDocs = 3
SYMMETRY Symmetric
INVARIANTS TypeOK UncertaintyIsMarked AtMostOneSend OneLiveDocumentPerSlot SettledResultsAreTrue
PROPERTY ImplementsUnresolvedOrder
CHECK_DEADLOCK FALSE
