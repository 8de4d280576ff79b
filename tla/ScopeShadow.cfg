CONSTANTS
    a = a
    f = f
    Names <- MCNames
    MaxDepth = 4
    MaxDecls = 5
SPECIFICATION Spec
INVARIANT ConstantIsBound
CHECK_DEADLOCK TRUE
