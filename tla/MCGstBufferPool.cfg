SPECIFICATION FairSpec
CONSTANTS
  t1 = t1
  t2 = t2
  t3 = t3
  NONE = NONE
  Threads <- MCThreads
  Configs <- MCConfigs
  AllocMayFail = TRUE
  MaxBuffers = 1
INVARIANTS
  OutstandingCounts
  ActiveKeepsBuffers
PROPERTIES
  ImplementsPollClient
  FlushEndsWaits
CHECK_DEADLOCK FALSE
