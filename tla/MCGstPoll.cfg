SPECIFICATION FairSpec
CONSTANTS
  t1 = t1
  t2 = t2
  t3 = t3
  f1 = f1
  Threads <- MCThreads
  Fds <- MCFds
  Control = Control
  IsTimer = FALSE
  MaxPending = 2
INVARIANTS
  NothingMissed
  SpinEnds
PROPERTY
  FlushEndsWaits
