SPECIFICATION UpkeepSpec
CONSTANTS
  MayRun = {"fno"}
  Quiet = 4
PROPERTIES
    GoIsEarned
    GoMeansSane
    UnmanagedIsReported
CHECK_DEADLOCK FALSE
