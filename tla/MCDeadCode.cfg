CONSTANTS
    Main = 4
    Modules <- MCModules
SPECIFICATION Spec
INVARIANTS
    PurityExact
    ImpurityPending
    OperandsSurvive
    EffectsSurvive
    OnlyNeededLeft
PROPERTIES
    DeadCodeEnds
CHECK_DEADLOCK TRUE
