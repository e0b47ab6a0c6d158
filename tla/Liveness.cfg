SPECIFICATION FairSpec
CONSTANTS
  inscount = 5
  Registers = {a, fp}
  FramePointer = fp
  MCRegister = a
  Labels = {L1}
  NoLabel = NoLabel
  FallThrough = FallThrough
  Codes <- AllCodes
INVARIANTS
  LeastSolution
  LiveIsUsedLater
PROPERTIES
  Terminates
