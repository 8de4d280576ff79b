CONSTANTS
    Atoms <- MCAtoms
    Stmts <- MCStmts
    Bodies <- MCBodies
    MaxBlocks = 13
SPECIFICATION PipelineSpec
INVARIANTS
    NoInsertAfterTerminator
    AllBlocksTerminated
    StacksMatchVisits
    SameBehaviour
    ThrowsOnlyOnDeadMerge
PROPERTIES
    LoweringTerminates
CHECK_DEADLOCK TRUE
