SPECIFICATION Spec
CONSTANTS
  A = A
  B = B
  Session = {A, B}
  Database <- Databases
  BuiltIn <- Internal
  Name <- Spelled
  Lower <- LowerSpelled
  Client <- Clients
  MaxStmt = 6
SYMMETRY Symmetry
CHECK_DEADLOCK FALSE
INVARIANTS
  ListedIsStored
  NewTableEmpty
  NothingLeft
