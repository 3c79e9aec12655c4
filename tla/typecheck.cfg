SPECIFICATION Spec
CONSTANTS
  Type <- MCType
  height <- MCHeight
  AliasOf <- MCAliasOf
  StructOf <- MCNone
  VarOf <- MCNone
  TypeEquals <- Equals
  Base <- BaseType
  NameType <- IdentRule
  MeaningOf <- Meaning
  Types <- MCTypes
  Returns <- MCReturns
  MaxDepth = 4
  MaxStmts = 6
INVARIANT TypeOK
 
INVARIANT WarnedOnce
INVARIANT NothingUnchecked
PROPERTY Contained
CHECK_DEADLOCK FALSE
