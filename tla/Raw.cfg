SPECIFICATION AnySpec
CONSTANTS
  Key = {1, 2, 3}
  KeyText <- JoinedText
  RowC <- RowValues
  Mode <- AllModes
  Client <- InsertClients
  ModifyClient <- ModifyClients
  BatchSize = 1
CHECK_DEADLOCK FALSE
INVARIANTS AloneExact CountsAreTrue ModifyExact
PROPERTIES OnlySetColumns ModifyTouches
