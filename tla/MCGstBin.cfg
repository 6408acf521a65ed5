SPECIFICATION FairSpec
CONSTANTS
  c1 = c1
  c2 = c2
  Bin = Bin
  NONE = NONE
  Children <- MCChildren
  Goals <- MCGoals
  MaxSets = 3
  MaxUpsets = 1
  MayFail = TRUE
  LockedSeeks = TRUE
INVARIANTS
  NoneBehind
  NoneAhead
PROPERTIES
  NeverAbove
  PlayTogether
  ChangesEnd
CHECK_DEADLOCK FALSE
