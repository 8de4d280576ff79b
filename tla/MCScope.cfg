CONSTANTS
    a = a
    f = f
    Names <- MCNames
    MaxDepth = 5
    MaxDecls = 6
SPECIFICATION Spec
INVARIANTS
    LookupIsLexical
CHECK_DEADLOCK TRUE
