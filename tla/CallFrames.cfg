SPECIFICATION Spec
CONSTANTS
  RAX <- MCRAX
  RDX <- MCRDX
  Arguments <- MCArguments
  Link <- MCLink
  CallerSaved <- MCCallerSaved
  CalleeSaved <- MCCalleeSaved
  Machine <- MCMachine
  RSP = 9
  Preferences <- MCPreferences
  Sources <- MCSources
  FirstNew = 100
  MaxSpills = 2
INVARIANTS
  ArgumentsArrive
  StackIsAligned
  ReturnsToCaller
PROPERTIES
  WritesOwnMemory
