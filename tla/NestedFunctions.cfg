SPECIFICATION NestedSpec
CONSTANTS
  Names = {x, y, z}
  MaxElements = 7
  MaxFunctions = 3
  Program = "main"
  Functions <- MCFunctions
  Parent <- MCParent
  Inside <- MCInside
  MaxDepth = 7
SYMMETRY NamesSymmetry
INVARIANTS
  CapturedInMemory
  MemoryIsNeeded
  
  LinksAreLatest
  VariableInLatest
  LinkIsStored
CHECK_DEADLOCK FALSE
