CONSTANTS
    MaxByte = 2
    Declared <- MCDeclared
    Inputs <- MCInputs
    Capacity = 4
    LongestInput = 8
    Streams <- MCStreams
    Chunk = 2
    Wants = {0, 1, 2, 3}
    MaxTokens = 4
    MaxYield = 2
SPECIFICATION MCSpec
INVARIANTS
    ReaderSound
    OutcomeExplained
    GzipSound
PROPERTIES
    ImplementsFrameStream
    CallsReturn
    ReadReturns
CHECK_DEADLOCK FALSE
