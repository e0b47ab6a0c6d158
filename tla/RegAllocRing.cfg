SPECIFICATION FairSpec
CONSTANTS
  nodecount = 5
  inscount = 14
  colorcount = 2
  MCMoveCount = 4
  MCMachines = {}
  Inputs <- RingInputs
INVARIANT FreezeAssertsHold
