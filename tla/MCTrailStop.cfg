SPECIFICATION Spec
CONSTANTS
    s1 = s1
    s2 = s2
    Symbols = {s1, s2}
    EntryPrices = {20}
    StopDists = {4, 6}
    TakeDists = {14}
    Quotes = {14, 26, 30}
    Ranges = {0, 5}
    Tick = 4
    LockDen = 2
    TrailMult = 1
INVARIANTS
    LockedIn
PROPERTIES
    NeverLoosened
SYMMETRY MCSymmetry
