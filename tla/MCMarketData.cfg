SPECIFICATION Spec
CONSTANTS
  c1 = c1
  c2 = c2
  None = None
  Callers <- MCCallers
  Interval = 2
  Grace = 2
  BarsTTL = 1
  StaleTTL = 4
  HealthTTL = 1
  Slow = 1
  MaxLag = 1
  MaxTime = 5
  DhanConfigured = TRUE
INVARIANTS
    DhanIsAskedFirst
    NoFormingBar
    RecentOrYoung
PROPERTIES
    RequestsEnd
