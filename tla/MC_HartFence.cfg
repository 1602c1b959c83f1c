SPECIFICATION FairSpec
CONSTANTS
  AddrSpace = 5
  Handler = 0
  Images <- FenceImages
  CountMod = 3
  sepc = 0
  Node = {n1, n2}
  Capacity = 2
  End = End
  MaxBlock = 8
CHECK_DEADLOCK FALSE
PROPERTY
  RunEnds
