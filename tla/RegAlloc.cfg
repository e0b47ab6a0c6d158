SPECIFICATION FairSpec
CONSTANTS
  nodecount = 5
  inscount = 14
  colorcount = 2
  MCMoveCount = 4
  MCMachines = {0, 2}
  Inputs <- AllInputs
INVARIANTS
  TypeOK
  WorklistsExact
  DegreesBound
  OnlyPrespilledAreSpilled
  SimplifyAssertsHold
  GroupsSeparated
  CoalescedMovesVanish
PROPERTIES
  Terminates
  SelectedSealed
  ImplementsColoring
