SPECIFICATION Spec
CONSTANTS
  p = p
  q = q
  Session = {s}
  Query = {p, q}
  Script <- Texts
  Callback = {"returns"}
  Batches = 2
  Sizes = {0, 2}
  MaxTime = 2
SYMMETRY Symmetry
CHECK_DEADLOCK FALSE
INVARIANTS EventsInOrder OneResultEach OneTime
