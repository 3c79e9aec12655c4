SPECIFICATION Spec
CONSTANTS
  Ids = {"x"}
  Funcs = {"f", "g"}
  MaxStmts = 5
  MaxExprs = 2
  MaxBlocks = 4
  MaxVals = 2
INVARIANTS
  LookupFindsDeclaration
  AllocatorInput
  JumpsLand
  TypesKept
CHECK_DEADLOCK FALSE
