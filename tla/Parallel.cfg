CONSTANTS
  Length = 7
  Limit = 3
SPECIFICATION Spec
INVARIANTS Bounded SuccessIsWhole
PROPERTIES NothingSentAfterError Settles
CHECK_DEADLOCK FALSE
