SPECIFICATION FairSpec
CONSTANTS
  t1 = t1
  t2 = t2
  t3 = t3
  Threads <- MCThreads
  MaxQueued = 3
INVARIANTS
  TypeOK
  NoLostWakeup
  SocketBounded
PROPERTY
  SleeperWakes
