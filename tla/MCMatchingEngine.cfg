CONSTANTS
    MaxRef = 3
    Refs = {1, 2, 3}
    Prices = {1, 2}
    Quantities = {1, 2}
    Owners = {0, 7}
    NoOrder = NoOrder
SPECIFICATION EngineSpec
INVARIANTS
    EngineSound
    PriceTimePriority
    NoSelfTrade
PROPERTIES
    ReturnsAccounted
    SubmitReturns
