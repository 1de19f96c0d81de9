CONSTANTS
    Refs = {1, 2}
    Prices = {1, 2}
    Quantities = {1, 2}
    Owners = {0}
    NoOrder = NoOrder
SPECIFICATION TwoSpec
INVARIANTS
    DigestDeterminesBook
