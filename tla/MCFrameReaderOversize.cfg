CONSTANTS
    MaxByte = 2
    Declared <- MCDeclared
    Inputs <- MCInputs
    Capacity = 4
    LongestInput = 6
SPECIFICATION Spec
INVARIANTS
    NeedMoreIsTruncation
CHECK_DEADLOCK FALSE
