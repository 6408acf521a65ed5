SPECIFICATION FairSpec
CONSTANTS
  Leaks <- MCLeaks
  Capacities = {1, 2}
  Thresholds = {0, 2}
  Kinds <- MCKinds
  MaxCalls = 3
  MaxUpsets = 1
  MaxEos = 1
  Strands = FALSE
INVARIANTS InOrder NoStale
PROPERTIES InSegment OwnAnswer CallsReturn EosDelivered
CHECK_DEADLOCK FALSE
