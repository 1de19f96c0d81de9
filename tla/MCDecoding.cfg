CONSTANTS
    MaxByte = 4
    Declared <- MCDeclared
    Inputs <- MCInputs
    Capacity = 26
    MovesBook = {1}
    Directory = 2
    NoName = NoName
    MaxPuts = 2
SPECIFICATION MCSpec
INVARIANTS
    ReportsAgree
    DecodedAsSent
    ReadInsideTheFrame
PROPERTIES
    RunEnds
CHECK_DEADLOCK FALSE
