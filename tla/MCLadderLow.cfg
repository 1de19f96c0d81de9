CONSTANTS
    WindowTicks = 8
    RebaseMargin = 1
    TickUnits = 2
    PriceMod = 64
    Prices = {2, 6, 40}
    Handles = {h1, h2, h3}
    NoLevel = NoLevel
    NoPrice = NoPrice
SPECIFICATION Spec
INVARIANTS
    WindowIffInRange
CHECK_DEADLOCK FALSE
