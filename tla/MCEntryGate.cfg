SPECIFICATION GateSpec
CONSTANTS
  Spot = 200
  Bars = {4, 22, 60}
  Ranges = {0, 4, 40, 100}
  SlMult = 2
  TpMult = 3
  Premiums = {0, 20, 40, 100}
  Credits = {0, 30, 70, 100}
  Wing = 100
  FloorPct = 65
  LockPct = 50
  StopPct = 70
  NoLevel = NoLevel
  Lineups <- MCLineups
  Watch = {A, B}
  Strikes = {1, 2}
  Capital = 100000
  PerTradePct = 1
  DailyCapPct = 2
  Targets = {0, 1}
  Equities = {90000, 120000}
  Tolls = {50}
  MaxToll = 50
  PositionCap = 5000
  OpenCap = 2
  TradesPerDay = 4
  Cash = {900, 9000}
  Lot = 10
  MarginPct = 20
  FeePct = 25
INVARIANTS
    OrdersAreCoherent
    LargestSize
    OpenRiskWithinDailyCap
    DayLossBounded
SYMMETRY MCSymmetry
CHECK_DEADLOCK FALSE
