SPECIFICATION Spec
CONSTANTS
  Pc = {0, 4}
  Info = {0}
  PageFault = 13
  Illegal = 2
  Written <- MCWritten
INVARIANTS
  TypeOK
  MachineReturn
  SupervisorTrapKept
  CopiesAgree
PROPERTY
  TrapNeverLowers
