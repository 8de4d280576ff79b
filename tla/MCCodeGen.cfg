SPECIFICATION Spec
CONSTANTS
    Functions <- MCFunctions
    Inputs <- MCInputs
    Globals <- MCGlobals
    Half = 512
    Low = 64
    High = 16
    Undef = 900001
    Frame0 = 4096
INVARIANTS
    SlotsDisjoint
    ImmediatesFit
    CallerKept
    StopsAtFirstTodo
PROPERTIES
    ImplementsIR
CHECK_DEADLOCK TRUE
