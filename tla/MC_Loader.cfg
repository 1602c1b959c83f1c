SPECIFICATION Spec
CONSTANTS
  Levels = 4
  Slots = 2
  Beyond = 2
  Frames = 112
  Elfs <- MCElfs
  StackTop = 7
  StackPages = 1
  Byte <- MCByte
  Trap <- MCTrap
CHECK_DEADLOCK FALSE
INVARIANTS
  TypeOK
  TablesAreATree
  TablesAgree
  ProgramInPlace
