CONSTANTS
    BlockList <- MCBlockList
    Entry = 1
    Null = Null
    Graphs <- MCGraphs
SPECIFICATION Spec
INVARIANTS
    IdomCorrect
    FrontierCorrect
    ThrowsOnlyOnDeadPred
PROPERTIES
    IdomOnlyClimbs
    Terminates
CHECK_DEADLOCK TRUE
