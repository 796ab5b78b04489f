SPECIFICATION Spec
CONSTANTS
  Segments <- MCSegments
  Values = {1, 2}
  FirstRate = 1
  None = 0
INVARIANTS
    OneRatePerPosition
    Recoverable
PROPERTIES
    PositionsAreClosed
    StopIsFollowedByStart
CHECK_DEADLOCK FALSE
