CONSTANTS
    Programs <- MCPrograms
SPECIFICATION Spec
INVARIANT LocalConstDefined
CHECK_DEADLOCK TRUE
