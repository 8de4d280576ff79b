CONSTANTS
    BlockList <- MCBlockList
    Entry = 1
    Null = Null
    Graphs <- MCGraphs
    Vars <- MCVars
    Programs <- MCPrograms
    MaxInt = 2
SPECIFICATION Spec
INVARIANTS
    StackMatchesFrames
    PhiOperandsComplete
    DefsDominateUses
    SameOutput
    UBOnlyUninitialised
CHECK_DEADLOCK TRUE
