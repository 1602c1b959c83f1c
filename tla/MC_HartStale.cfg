SPECIFICATION Spec
CONSTANTS
  AddrSpace = 5
  Handler = 0
  Images <- ReturningImages
  CountMod = 3
  sepc = 0
  Node = {n1, n2}
  Capacity = 2
  End = End
  MaxBlock = 6
CHECK_DEADLOCK FALSE
PROPERTY
  TrappedNotExecuted
