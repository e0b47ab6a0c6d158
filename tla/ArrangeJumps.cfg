SPECIFICATION Spec
CONSTANTS
  Operations <- MCOperations
  FirstNew <- MCFirstNew
  Sources <- MCSources
INVARIANTS
  PlacedOnce
  RunsTheSame
  FalseDestFollows
