SPECIFICATION FairSpec
CONSTANTS
  AddrSpace = 5
  Handler = 0
  Images <- RunImages
  CountMod = 2
  sepc = 2
  Node = {n1, n2}
  Capacity = 2
  End = End
  MaxBlock = 8
CHECK_DEADLOCK FALSE
INVARIANTS
  TypeOK
  UpdateContract
  CacheHoldsUserCode
  ReplayedInOrder
PROPERTIES
  ImplementsRunSingle
  TrapEndsRun
