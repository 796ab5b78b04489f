SPECIFICATION FairSpec
CONSTANTS
    s1 = s1
    s2 = s2
    Symbols = {s1, s2}
    Segments <- MCSegments
    MaxEntries = 1
INVARIANTS
    SweepsOpenNothing
    ExitsWereCredited
    StopSweepsAll
PROPERTIES
    SquareOffHappens
CHECK_DEADLOCK FALSE
