SPECIFICATION Spec
CONSTANTS
    Names = {"int", "a", "as"}
    PrimTypes = {"int"}
    BuiltinFuncs = {}
    BuiltinSym <- MCBuiltinSym
    Plural <- MCPlural
    MaxScopes = 4
    MaxSyms = 4
    MaxDepth = 4
    MaxMentions = 1
INVARIANTS
    TypeOK
    ResolutionStable
    HeaderNamesHold
    DeclsComplete
    JumpsResolve
    AcceptAtRoot
PROPERTIES
    PutNeverShadows
CHECK_DEADLOCK FALSE
