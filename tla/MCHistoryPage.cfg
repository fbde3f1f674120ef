CONSTANTS
  s1 = s1
  s2 = s2
  Selections <- MCSelections
  NoSel = NoSel
  MaxRetries = 2
  MaxPoints = 1
  MaxInstances = 2
  MaxLoads = 2
SPECIFICATION PageFairSpec
INVARIANTS ShownIsSelected EmptyIsTrue
PROPERTIES LoadingEnds
CHECK_DEADLOCK FALSE
