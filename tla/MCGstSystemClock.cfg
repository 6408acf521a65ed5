SPECIFICATION FairSpec
CONSTANTS
  s1 = s1
  a1 = a1
  a2 = a2
  NONE = NONE
  Sync <- OneSync
  Async <- TwoAsync
  Uses <- MCUses
  MaxTime = 1
INVARIANTS
  WakeupsCounted
  NotBeforeTime
PROPERTIES
  WaitsEnd
  DisposeEnds
CHECK_DEADLOCK FALSE
