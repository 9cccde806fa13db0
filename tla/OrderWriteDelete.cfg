SPECIFICATION Spec
CONSTANTS
  i1 = i1
  i2 = i2
  Inv <- TwoInvocations
  NoInv = NoInv
  Operator = Operator
  Outsider = Outsider
  CreateKind <- ProformaOnly
  MaxDocs = 2
SYMMETRY Symmetric
INVARIANT SettledResultsAreTrue
CHECK_DEADLOCK FALSE
