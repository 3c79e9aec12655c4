SPECIFICATION Spec
CONSTANTS
    NumRegs = 3
    Temps = {t1, t2, t3}
    Locals = {x, y}
    NoName = none
    MaxStack = 2
SYMMETRY NameSymmetry
INVARIANTS
    FreeRegReturnsRegister
CHECK_DEADLOCK FALSE
