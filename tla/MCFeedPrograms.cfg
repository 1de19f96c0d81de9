CONSTANTS
    Locates = {1, 2}
    Symbols = {"AAA", "BBB"}
    SymbolOf <- Listed
    NoSymbol = ""
    Refs = {r1, r2, r3}
    Prices = {2, 3, 6, 12}
    FeedPrices = {2, 3}
    Quantities = {1, 2}
    Owners = {0}
    NoOrder = NoOrder
    Wanted = {"", "AAA", "ZZZ"}
    Strict = TRUE
    ValidateEvery = 2
    MaxMessages = 7
    Recordable = {"AAA"}
    RecordedMessages = 5
    Passes = 2
    kPennyUnits = 2
    kMaxTracked = 4
    MaxSamples = 4
    NotRun = NotRun
SYMMETRY Symmetry
SPECIFICATION ProgramSpec
INVARIANTS
    BookIsTheMarkets
    CountsAgree
    RebuildsTheMarket
    TableMatchesTotals
    RangesCoverTheBook
    QueuedExactlyOnce

    
CHECK_DEADLOCK FALSE
