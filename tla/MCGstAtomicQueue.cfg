SPECIFICATION Spec
CONSTANTS
  p1 = p1
  p2 = p2
  c1 = c1
  c2 = c2
  NULL = NULL
  Producers <- MCProducers
  Consumers <- MCConsumers
  MinSize = 2
  MaxPush = 3
  MaxLength = 2
INVARIANTS
  OnceInOrder
  NothingLostIntact
  EmptyPopJustified
PROPERTIES
  ImplementsQueue
SYMMETRY Symmetry
