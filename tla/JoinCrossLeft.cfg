CONSTANTS
  N = 2
  Plans <- CrossLeft
  Pages <- FewPages
SPECIFICATION Spec
INVARIANT NothingLost
CHECK_DEADLOCK FALSE
