CONSTANTS
    i1 = i1
    i2 = i2
    a = a
    b = b
    Null = Null
    Values <- MCValues
    Users <- MCUsers
    MaxOperands = 2
SPECIFICATION Spec
INVARIANTS
    TypeOK
    UseListExact
    NoDangling
PROPERTIES
    ReplaceComplete
    ReplaceTerminates
CHECK_DEADLOCK TRUE
