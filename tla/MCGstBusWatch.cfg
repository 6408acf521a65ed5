SPECIFICATION WatchSpec
CONSTANTS
  t1 = t1
  t2 = t2
  t3 = t3
  s1 = s1
  s2 = s2
  NO_SOURCE = NO_SOURCE
  Callers <- MCCallers
  Sources <- MCSources
  MaxWatchers = 3
SYMMETRY Symmetry
INVARIANTS
  SignalWatchServed
  WatchIdAlive
