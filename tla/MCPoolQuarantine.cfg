CONSTANTS
    Capacity = 2
    GenMod = 4
    Limits = {1}
    Null = Null
    Data = Data
SPECIFICATION Spec
INVARIANTS
    QuarantineCatchesStale
