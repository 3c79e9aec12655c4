SPECIFICATION Spec
CONSTANTS
  NodeSet <- MCNodeSet
  Sources <- MCSources
  Conds <- MCConds
  nodeHeight <- MCHeight
INVARIANTS
  LevelByLevel
  DumpIsTree
  FindIsFirst
  BuiltinsLive
PROPERTY DumpEnds
CHECK_DEADLOCK FALSE
