SPECIFICATION Spec
CONSTANTS
  Levels = 3
  Slots = 2
  Beyond = 2
  Frames = 7
  Images <- MCImages
  Contexts <- MCContexts
  Stored <- MCStored
  MachineStores <- MCMachineStores
INVARIANTS
  TypeOK
  Confined
  DirtyRecorded
