SPECIFICATION JSpec
CONSTANTS
    s1 = s1
    s2 = s2
    Symbols <- MCSymbols
    Segments <- MCSegments
    Start = 9
    Prices = {1, 3}
    Fees = {1}
    FuturesMargin <- MCFuturesMargin
    Width = 4
    MaxQty = 3
    MaxHeld = 2
    MaxFills = 4
INVARIANTS
    JournalAgrees
    EquityIsWorthButLongFutures
    DefinedRisk
PROPERTIES
    KeepsLedger
SYMMETRY MCSymmetry
