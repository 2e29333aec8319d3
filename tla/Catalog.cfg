SPECIFICATION FairSpec
CONSTANTS
  q1 = q1
  q2 = q2
  Query = {q1, q2}
  Session = {q1, q2}
  SessionOf <- OwnSession
  Index = {i}
  Client <- Clients
  MaxGen = 3
CHECK_DEADLOCK FALSE
INVARIANTS
  UsesCurrentKey
PROPERTIES
  EffectReported
  EveryStatementEnds
