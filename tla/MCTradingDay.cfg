SPECIFICATION FairSpec
CONSTANTS
    s1 = s1
    s2 = s2
    Symbols = {s1, s2}
    MaxOpen = 2
    MaxTrades = 2
    LossCap = 1
    ProfitTarget = 1
    Equities <- MCEquities
    None = None
    MaxDay = 2
    MaxStarts = 2
    MaxMissed = 1
INVARIANTS
    MarkerMeansFlat
    SnapshotLag
PROPERTIES
    SquareOffCompletes
    FlatOvernight
    BaselineFixedForDay
