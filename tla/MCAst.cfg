CONSTANTS
    Files <- MCFiles
    Literals <- MCLiterals
    LongTokens <- MCLongTokens
    MaxInt <- MCMaxInt
SPECIFICATION Spec
INVARIANTS
    SourceKept
    FailsExactlyOnUnreadable
CHECK_DEADLOCK TRUE
