SPECIFICATION Spec
CONSTANTS
  Instr <- MCInstr
  mask <- MCMask
  match <- MCMatch
  fields <- MCFields
  Raws <- MCRaws
CHECK_DEADLOCK FALSE
INVARIANTS
  TypeOK
  EncodingsDecode
  ImmediatesInPlace
  OthersRefused
