CONSTANTS
  NPorts = 3
  Workers = {w1, w2}
  States = {"open", "closed"}
SPECIFICATION FairSpec
INVARIANTS EachPortOnce ReturnsLast
PROPERTIES AllEnd Implements
CHECK_DEADLOCK FALSE
