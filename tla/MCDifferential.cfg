CONSTANTS
    Refs = {r1, r2, r3}
    Prices = {1, 2, 3}
    Quantities = {0, 1, 2}
    Owners = {0, 7}
    OrderHandles = {o1, o2, o3}
    LevelHandles = {l1, l2, l3}
    Null = Null
    Free = Free
    NoOrder = NoOrder
SYMMETRY Symmetry
SPECIFICATION AllSpec
INVARIANTS
    RecordsExact
    CachesExact
    Validates
    AnswersAgree
    DigestDeterminesQueues
PROPERTIES
    ImplementsLimitOrderBook
    MapImplementsLimitOrderBook
