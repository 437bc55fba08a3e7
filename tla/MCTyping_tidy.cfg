CONSTANTS
  x = x
  y = y
  Names = {x, y}
  Declarable = {"num", "str"}
  Most = 2
  Careless = FALSE
SPECIFICATION Spec
INVARIANTS SameValues TypesInferred
PROPERTY KeepsItsType
CHECK_DEADLOCK FALSE
