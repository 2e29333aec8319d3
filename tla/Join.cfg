CONSTANTS
  N = 2
  Plans <- SafePlans
  Pages <- FewPages
SPECIFICATION Spec
INVARIANTS NothingWrong NothingLost
CHECK_DEADLOCK FALSE
PROPERTY Terminates
