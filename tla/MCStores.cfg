CONSTANTS
    Capacity = 3
    GenMod = 8
    Limits = {0, 1, 2}
    Null = Null
    Data = Data
    Size = 8
    Ideals = {0, 6, 7}
    Refs = {1, 2, 3, 4}
    RefHandles = {11, 12, 13, 14}
    NullHandle = NullHandle
    Empty = Empty
SPECIFICATION MCSpec
INVARIANTS
    IssuedOnce
    PoolSound
    TableSound
PROPERTIES
    ImplementsSlotAllocator
    EraseReturns
    IndexImplementsHandleMap
