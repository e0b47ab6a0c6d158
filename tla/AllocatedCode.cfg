SPECIFICATION AllocSpec
CONSTANTS
  inscount = 4
  Machine = m
  Temporaries = {a, b}
  FramePointer = fp
  Registers = {m, a, b, fp}
  MachineRegisters = {m}
  MachineColor <- MCColor
  Colors = {0, 1}
  Values = {0, 1}
  Label = L1
  Labels = {L1}
  NoLabel = NoLabel
  FallThrough = FallThrough
  Codes <- MCCodes
SYMMETRY Symmetry
INVARIANTS
  AllocTypeOK
  ReadsTheSame
