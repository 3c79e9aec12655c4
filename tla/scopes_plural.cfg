SPECIFICATION Spec
CONSTANTS
    Names = {"int", "ints", "a", "as"}
    PrimTypes = {"int"}
    BuiltinFuncs = {}
    BuiltinSym <- MCBuiltinSym
    Plural <- MCPlural
    MaxScopes = 3
    MaxSyms = 4
    MaxDepth = 3
    MaxMentions = 0
INVARIANTS
    ScannerNeverFaults
CHECK_DEADLOCK FALSE
