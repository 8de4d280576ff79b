CONSTANTS
    Statements <- MCStatements
    Symbols <- MCSymbols
    Memory <- MCMemory
    Functions <- MCFunctions
    MinInt <- MCMinInt
    Timers = {"starttime", "stoptime"}
SPECIFICATION Spec
INVARIANTS
    AddressesWhereWanted
    FailsOnlyOnConstants
    SameValue
CHECK_DEADLOCK TRUE
