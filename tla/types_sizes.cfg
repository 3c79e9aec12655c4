SPECIFICATION Spec
CONSTANTS
  Type <- MCType
  height <- MCHeight
  AliasOf <- MCAliasOf
  StructOf <- MCStructOf
  VarOf <- MCVarOf
  FuncOf <- MCFuncOf
  TypeNames <- MCAll
  Literals <- MCLiterals
  MaxDepth = 3
  MaxTotal = 4
  MaxOperands = 2
INVARIANT ConstructorsReturn
CHECK_DEADLOCK FALSE
