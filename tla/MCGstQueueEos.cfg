SPECIFICATION FairSpec
CONSTANTS
  Leaks <- MCLeaks
  Capacities = {1, 2}
  Thresholds = {0}
  Kinds <- MCKinds
  MaxCalls = 3
  MaxUpsets = 0
  MaxEos = 1
  Strands = FALSE
PROPERTIES EosArrives
CHECK_DEADLOCK FALSE
