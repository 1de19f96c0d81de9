CONSTANTS
    WindowTicks = 8
    RebaseMargin = 1
    TickUnits = 2
    PriceMod = 64
    Prices <- MCPrices
    Handles = {h1, h2, h3, h4, h5}
    NoLevel = NoLevel
    NoPrice = NoPrice
    TreePrices = {1, 2, 3, 4, 5}
SYMMETRY Symmetry
SPECIFICATION MCSpec
INVARIANTS
    LadderSound
    WalkIsInsideOut
    TreeSound
PROPERTIES
    ImplementsHandleMap
    TreeImplementsHandleMap
