SPECIFICATION AuditSpec
CONSTANTS
  LawOf <- MCLaw
  Delivery = 1000
  Wrong = {201, 500}
  LastDay = 2
  MaxSpoiled = 1
  NoValue = NoValue
INVARIANTS
    HonestMajority
    NeverOutvoted
    QuietMeansNear
CHECK_DEADLOCK FALSE
