SPECIFICATION Spec
CONSTANTS
  TypeIds = {a, b, c}
  MaxDeclarations = 3
  MaxLayers = 2
INVARIANTS
  RejectsExactly
  
  EverythingResolves
PROPERTIES
  BatchesEnd
CHECK_DEADLOCK FALSE
