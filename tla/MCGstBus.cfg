SPECIFICATION FairSpec
CONSTANTS
  streaming = streaming
  main = main
  app = app
  m1 = m1
  m2 = m2
  NONE = NONE
  Threads <- MCThreads
  Posters <- MCPosters
  Poppers <- MCPoppers
  Messages <- MCMessages
  Unwanted <- MCUnwanted
INVARIANTS
  OwnedOnce
PROPERTIES
  ImplementsPollClient
  AsyncDelivered
  FlushEnds
