CONSTANTS
    Programs <- MCPrograms
SPECIFICATION Spec
INVARIANTS
    ViewsAgree
    InitialisedAsDefined
CHECK_DEADLOCK TRUE
