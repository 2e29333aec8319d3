CONSTANTS
  s1 = s1
  s2 = s2
  p1 = p1
  p2 = p2
  t1 = t1
  t2 = t2
  k1 = k1
  k2 = k2
  Shared = shared
  Session = {s1, s2}
  Query = {p1, p2}
  SessionOf <- TwoSessions
  Table = {t1}
  Key = {k1}
  TempOf <- NoTemp
  Kinds = {"insert", "ignore", "replace", "upsert", "update", "delete"}
  Writes <- WritesAll
  MaxStmt = 2
SPECIFICATION HSpec
INVARIANTS HTypeOK BeginHolds CommittedOnly OwnWritesOnly NoLeakedTx
CHECK_DEADLOCK FALSE
