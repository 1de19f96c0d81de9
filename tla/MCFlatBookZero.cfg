CONSTANTS
    Refs = {r1, r2}
    Prices = {0, 5}
    Quantities = {1}
    Owners = {0}
    OrderHandles = {o1, o2}
    LevelHandles = {l1, l2}
    Null = Null
    Free = Free
    NoOrder = NoOrder
SPECIFICATION Spec
INVARIANTS
    BestCached
