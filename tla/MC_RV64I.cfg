SPECIFICATION Spec
CONSTANTS
  Reg <- MCReg
  Starts <- MCStarts
CHECK_DEADLOCK FALSE
INVARIANTS
  TypeOK
  WordArithmetic
  Identities
  WideArithmetic
  ConstantsLoaded
  CallsReturn
  StoredThenLoaded
  BranchesDecide
  BitsCounted
