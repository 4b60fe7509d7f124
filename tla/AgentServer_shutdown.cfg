SPECIFICATION FairSpec
CONSTANTS
  Cap = 2
  MaxCalls = 2
  MaxUnloads = 3
  MayFail = TRUE
INVARIANTS TypeOK AllWaits NoCallDropped
PROPERTIES ShutdownCompletes ScrapedShutdownCompletes
CHECK_DEADLOCK FALSE
