SPECIFICATION FairSpec
CONSTANTS
  c1 = c1
  c2 = c2
  w1 = w1
  w2 = w2
  l1 = l1
  l2 = l2
  NONE = NONE
  Clients <- MCClients
  Workers <- MCWorkers
  Locks <- MCLocks
INVARIANTS
  OneThread
  QuietAfterPause
PROPERTIES
  JoinReturns
  StartedRuns
