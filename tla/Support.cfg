SPECIFICATION SupportSpec
CONSTANTS
    SizeMax = 7
    InitialCapacity = 2
    Bytes = {"a", "b"}
    NUL = "NUL"
    Junk = "junk"
    Texts <- SmallTexts
    Numbers = {1, 2, 8, 9}
    NameRank <- Ranks
    UINT64_MAX = 4
    Second = 2
    Clock <- Times
    MaxRows = 3
INVARIANTS TotalsTrue SortDeterministic InBounds ContentKept
PROPERTIES GrowthProgress
