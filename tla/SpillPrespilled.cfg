SPECIFICATION Spec
CONSTANTS
  Machine <- MCMachine
  RAX <- MCRAX
  RDX <- MCRDX
  Arguments <- MCArguments
  Link <- MCLink
  CallerSaved <- MCCallerSaved
  Prespilled <- MCPrespilled
  FirstNew <- MCFirstNew
  Sources <- MCSources
  MaxSpills = 1
INVARIANT PrespillAssertsHold
