SPECIFICATION Spec
CONSTANT
    Inputs <- MCNames
CHECK_DEADLOCK FALSE
INVARIANTS
    NeverPanics
