SPECIFICATION SampleSpec
CONSTANTS
    a = a
    b = b
    c = c
    d = d
    w = w
    p = p
    q = q
    NoList = NoList
    Ids <- MCIds
    Workers <- MCWorkers
    Blocks <- MCBlocks
    ListsOf <- MCListsOf
    Payments <- MCPayments
    Random <- MCRandom
    Period = 97
    TIERS = 3
    ITEMS_PER_TIER = 1
    HistorySize = 2
    DelayBlockCount = 1
    Word = 256
INVARIANTS
    HistoryWindow
    ListsExact
    SampleComplete
PROPERTIES
    SampleReproducible
