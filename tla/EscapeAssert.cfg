SPECIFICATION NestedSpec
CONSTANTS
  Names = {x, y, z}
  MaxElements = 7
  MaxFunctions = 3
  Program = "main"
  Functions <- MCFunctions
  Parent <- MCParent
  Inside <- MCInside
  MaxDepth = 7
SYMMETRY NamesSymmetry
INVARIANT
  RegistersStayInFunction
CHECK_DEADLOCK FALSE
