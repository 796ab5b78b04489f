SPECIFICATION Spec
CONSTANTS
  s1 = s1
  s2 = s2
  Symbols <- MCSymbols
  MaxOpen = 1
  MaxTrades = 1
  EntrySides = {1}
  MaxEntries = 2
  MaxStarts = 1
INVARIANTS
    OneEntryPerSymbol
PROPERTIES
    EarlyStopIsEarned
    SquareOffSettles
CHECK_DEADLOCK FALSE
