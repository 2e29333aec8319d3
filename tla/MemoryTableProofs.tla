-------------------------- MODULE MemoryTableProofs --------------------------
(***************************************************************************)
(* Proofs about MemoryTable for every set of keys and values and every     *)
(* length of statement: its types, the agreement of the key index with the *)
(* row list, and that a list of rows still to be updated or deleted is not *)
(* disturbed by the statement itself.                                      *)
(***************************************************************************)
EXTENDS MemoryTable, TLAPS

-----------------------------------------------------------------------------
(* Sequences *)

LEMMA ReplaceAtSeq ==
  ASSUME NEW S, NEW s \in Seq(S), NEW i \in 1..Len(s), NEW e \in S
  PROVE  /\ ReplaceAt(s, i, e) \in Seq(S)
         /\ Len(ReplaceAt(s, i, e)) = Len(s)
         /\ \A j \in 1..Len(s) :
              ReplaceAt(s, i, e)[j] = IF j = i THEN e ELSE s[j]
BY DEF ReplaceAt

LEMMA RemoveAtSeq ==
  ASSUME NEW S, NEW s \in Seq(S), NEW i \in 1..Len(s)
  PROVE  /\ RemoveAt(s, i) \in Seq(S)
         /\ Len(RemoveAt(s, i)) = Len(s) - 1
         /\ \A j \in 1..(Len(s) - 1) :
              RemoveAt(s, i)[j] = IF j < i THEN s[j] ELSE s[j + 1]
<1> DEFINE front == SubSeq(s, 1, i - 1)
           back  == SubSeq(s, i + 1, Len(s))
<1>1. /\ front \in Seq(S)
      /\ Len(front) = i - 1
      /\ \A j \in 1..(i - 1) : front[j] = s[j]
  OBVIOUS
<1>2. /\ back \in Seq(S)
      /\ Len(back) = Len(s) - i
      /\ \A j \in 1..(Len(s) - i) : back[j] = s[j + i]
  OBVIOUS
<1>3. RemoveAt(s, i) = front \o back
  BY DEF RemoveAt
<1> HIDE DEF front, back
<1>4. Len(s) \in Nat /\ i \in 1..Len(s)
  OBVIOUS
<1>5. RemoveAt(s, i) \in Seq(S) /\ Len(RemoveAt(s, i)) = Len(s) - 1
  BY <1>1, <1>2, <1>3, <1>4
<1>6. ASSUME NEW j \in 1..(Len(s) - 1)
      PROVE  (front \o back)[j] = IF j < i THEN s[j] ELSE s[j + 1]
  <2>1. CASE j < i
    BY <1>1, <1>2, <1>4, <2>1
  <2>2. CASE ~(j < i)
    <3>1. (front \o back)[j] = back[j - (i - 1)]
      BY <1>1, <1>2, <1>4, <2>2
    <3>2. j - (i - 1) \in 1..(Len(s) - i) /\ (j - (i - 1)) + i = j + 1
      BY <1>4, <2>2
    <3> QED
      BY <1>2, <2>2, <3>1, <3>2
  <2> QED
    BY <2>1, <2>2
<1> QED
  BY <1>3, <1>5, <1>6

-----------------------------------------------------------------------------
(* One lemma per way the loops change a list and its index. *)

LEMMA IndexedAppend ==
  ASSUME NEW list \in Seq(Row), NEW map, Indexed(list, map),
         NEW row \in Row, row.key \notin DOMAIN map
  PROVE  Indexed(Append(list, row), Rekey(map, row.key, row.key, Len(list) + 1))
BY DEF Indexed, Rekey, Row

LEMMA IndexedOverwrite ==
  ASSUME NEW list \in Seq(Row), NEW map, Indexed(list, map),
         NEW k \in DOMAIN map, NEW new \in Row, new.key = k
  PROVE  Indexed(ReplaceAt(list, map[k], new), map)
<1> DEFINE n   == map[k]
           out == ReplaceAt(list, n, new)
<1>1. n \in 1..Len(list) /\ list[n].key = k
  BY DEF Indexed
<1>2. /\ Len(out) = Len(list)
      /\ \A j \in 1..Len(list) : out[j] = IF j = n THEN new ELSE list[j]
  BY <1>1 DEF ReplaceAt
<1> HIDE DEF n, out
<1>3. \A i \in 1..Len(list) : out[i].key = list[i].key
  BY <1>1, <1>2
<1> QED
  BY <1>2, <1>3 DEF Indexed, n, out

LEMMA IndexedRekey ==
  ASSUME NEW list \in Seq(Row), NEW map, Indexed(list, map),
         NEW k \in DOMAIN map, NEW new \in Row, new.key \notin DOMAIN map
  PROVE  Indexed(ReplaceAt(list, map[k], new), Rekey(map, k, new.key, map[k]))
<1> DEFINE n    == map[k]
           out  == ReplaceAt(list, n, new)
           rmap == Rekey(map, k, new.key, n)
<1>1. n \in 1..Len(list) /\ Len(list) \in Nat /\ list[n].key = k
  BY DEF Indexed
<1>2. /\ Len(out) = Len(list)
      /\ \A j \in 1..Len(list) : out[j] = IF j = n THEN new ELSE list[j]
  BY <1>1 DEF ReplaceAt
<1>3. /\ DOMAIN rmap = (DOMAIN map \ {k}) \cup {new.key}
      /\ \A j \in DOMAIN rmap : rmap[j] = IF j = new.key THEN n ELSE map[j]
  BY DEF Rekey
<1> HIDE DEF n, out, rmap
<1>4. ASSUME NEW j \in DOMAIN rmap
      PROVE  rmap[j] \in 1..Len(out) /\ out[rmap[j]].key = j
  <2>1. CASE j = new.key
    BY <1>1, <1>2, <1>3, <2>1
  <2>2. CASE j # new.key
    <3>1. j \in DOMAIN map /\ j # k /\ rmap[j] = map[j]
      BY <1>3, <2>2
    <3>2. map[j] \in 1..Len(list) /\ list[map[j]].key = j
      BY <3>1 DEF Indexed
    <3>3. map[j] # n
      BY <1>1, <3>1, <3>2
    <3> QED
      BY <1>2, <3>1, <3>2, <3>3
  <2> QED
    BY <2>1, <2>2
<1>5. ASSUME NEW i \in 1..Len(out)
      PROVE  out[i].key \in DOMAIN rmap /\ rmap[out[i].key] = i
  <2>1. CASE i = n
    BY <1>1, <1>2, <1>3, <2>1
  <2>2. CASE i # n
    <3>1. i \in 1..Len(list) /\ out[i] = list[i]
      BY <1>2, <2>2
    <3>2. list[i].key \in DOMAIN map /\ map[list[i].key] = i
      BY <3>1 DEF Indexed
    <3>3. list[i].key # k /\ list[i].key # new.key
      BY <2>2, <3>2 DEF n
    <3> QED
      BY <1>3, <3>1, <3>2, <3>3
  <2> QED
    BY <2>1, <2>2
<1> QED
  BY <1>4, <1>5 DEF Indexed, n, out, rmap

LEMMA IndexedRemove ==
  ASSUME NEW list \in Seq(Row), NEW map, Indexed(list, map), NEW k \in DOMAIN map
  PROVE  Indexed(RemoveAt(list, map[k]), Unlink(map, k))
<1> DEFINE n     == map[k]
           short == RemoveAt(list, n)
           umap  == Unlink(map, k)
<1>1. n \in 1..Len(list) /\ Len(list) \in Nat /\ list[n].key = k
  BY DEF Indexed
<1>2. /\ Len(short) = Len(list) - 1
      /\ \A j \in 1..(Len(list) - 1) :
           short[j] = IF j < n THEN list[j] ELSE list[j + 1]
  BY <1>1, RemoveAtSeq
<1>3. /\ DOMAIN umap = DOMAIN map \ {k}
      /\ \A j \in DOMAIN umap :
           umap[j] = IF map[j] > n THEN map[j] - 1 ELSE map[j]
  BY DEF Unlink
<1> HIDE DEF n, short, umap
<1>4. ASSUME NEW j \in DOMAIN umap
      PROVE  umap[j] \in 1..Len(short) /\ short[umap[j]].key = j
  <2>1. j \in DOMAIN map /\ j # k
    BY <1>3
  <2>2. map[j] \in 1..Len(list) /\ list[map[j]].key = j
    BY <2>1 DEF Indexed
  <2>3. map[j] # n
    BY <1>1, <2>1, <2>2
  <2>4. CASE map[j] > n
    BY <1>1, <1>2, <1>3, <2>2, <2>4
  <2>5. CASE map[j] < n
    BY <1>1, <1>2, <1>3, <2>2, <2>5
  <2> QED
    BY <1>1, <2>2, <2>3, <2>4, <2>5
<1>5. ASSUME NEW i \in 1..Len(short)
      PROVE  short[i].key \in DOMAIN umap /\ umap[short[i].key] = i
  <2> DEFINE o == IF i < n THEN i ELSE i + 1
  <2>1. o \in 1..Len(list) /\ o # n /\ short[i] = list[o]
    BY <1>1, <1>2
  <2> HIDE DEF o
  <2>2. list[o].key \in DOMAIN map /\ map[list[o].key] = o
    BY <2>1 DEF Indexed
  <2>3. list[o].key # k
    BY <2>1, <2>2 DEF n
  <2>4. umap[list[o].key] = IF o > n THEN o - 1 ELSE o
    BY <1>3, <2>2, <2>3
  <2> QED
    BY <1>1, <1>3, <2>1, <2>2, <2>3, <2>4 DEF o
<1> QED
  BY <1>4, <1>5 DEF Indexed, n, short, umap
-----------------------------------------------------------------------------
(* The inductive invariant.  IndexOK is inductive given the types; that a  *)
(* pending row is intact needs IndexOK (positions name rows) and that only *)
(* the two list statements have pending keys.                              *)

PendingMode == mode \notin ListModes => pending = {}

IInv == TypeOK /\ IndexOK /\ PendingMode /\ PendingIntact

LEMMA EmptyIndexed == Indexed(<<>>, NoMap)
BY DEF Indexed, NoMap

LEMMA RowFields ==
  ASSUME NEW row \in Row
  PROVE  row.key \in Key /\ row.val \in Val
BY DEF Row

LEMMA RowsIndexed ==
  ASSUME NEW list, NEW map, Indexed(list, map), NEW k \in DOMAIN map
  PROVE  map[k] \in 1..Len(list)
BY DEF Indexed

LEMMA InitHolds == Init => IInv
<1> SUFFICES ASSUME Init PROVE IInv
  OBVIOUS
<1> QED
  BY EmptyIndexed
  DEF Init, IInv, TypeOK, IndexOK, PendingMode, PendingIntact, ListModes,
      InsertModes, NoMap

(* A map that gains one entry or loses one keeps its domain inside Key. *)
LEMMA MapDomains ==
  ASSUME NEW map, DOMAIN map \subseteq Key, NEW old, NEW new \in Key, NEW n
  PROVE  /\ DOMAIN Rekey(map, old, new, n) \subseteq Key
         /\ DOMAIN Unlink(map, old) \subseteq Key
BY DEF Rekey, Unlink

(* Overwriting the row of one key leaves the rows of the other keys. *)
LEMMA RekeyOthers ==
  ASSUME NEW list \in Seq(Row), NEW map, Indexed(list, map),
         NEW k \in DOMAIN map, NEW new \in Row,
         new.key = k \/ new.key \notin DOMAIN map,
         NEW j \in DOMAIN map, j # k
  PROVE  LET rmap == IF new.key # k THEN Rekey(map, k, new.key, map[k]) ELSE map
         IN  /\ j \in DOMAIN rmap
             /\ ReplaceAt(list, map[k], new)[rmap[j]] = list[map[j]]
<1> DEFINE rmap == IF new.key # k THEN Rekey(map, k, new.key, map[k]) ELSE map
<1>1. j \in DOMAIN rmap /\ rmap[j] = map[j]
  BY DEF Rekey
<1>2. map[j] \in 1..Len(list) /\ map[k] \in 1..Len(list) /\ map[j] # map[k]
  BY DEF Indexed
<1>3. ReplaceAt(list, map[k], new)[map[j]] = list[map[j]]
  BY <1>2 DEF ReplaceAt
<1> QED
  BY <1>1, <1>3

(* Removing the row of one key leaves the rows of the other keys. *)
LEMMA UnlinkOthers ==
  ASSUME NEW list \in Seq(Row), NEW map, Indexed(list, map),
         NEW k \in DOMAIN map, NEW j \in DOMAIN map, j # k
  PROVE  /\ j \in DOMAIN Unlink(map, k)
         /\ RemoveAt(list, map[k])[Unlink(map, k)[j]] = list[map[j]]
<1> DEFINE n == map[k]
           u == Unlink(map, k)[j]
<1>1. n \in 1..Len(list) /\ map[j] \in 1..Len(list) /\ map[j] # n
  BY DEF Indexed
<1>2. \A i \in 1..(Len(list) - 1) :
        RemoveAt(list, n)[i] = IF i < n THEN list[i] ELSE list[i + 1]
  BY <1>1, RemoveAtSeq
<1>3. /\ j \in DOMAIN Unlink(map, k)
      /\ u = IF map[j] > n THEN map[j] - 1 ELSE map[j]
  BY DEF Unlink
<1> HIDE DEF n, u
<1>4. u \in 1..(Len(list) - 1) /\ map[j] = IF u < n THEN u ELSE u + 1
  BY <1>1, <1>3
<1>5. RemoveAt(list, n)[u] = list[map[j]]
  BY <1>2, <1>4
<1> QED
  BY <1>3, <1>5 DEF n, u

-----------------------------------------------------------------------------
LEMMA StartStep ==
  ASSUME IInv, NEW m, NEW keys \in SUBSET Key,
         \/ m \in InsertModes /\ StartInsert(m)
         \/ m \in ListModes /\ StartList(m, keys)
  PROVE  IInv'
<1> USE DEF IInv
<1>1. TypeOK'
  BY DEF TypeOK, StartInsert, StartList, CopyTable
<1>2. IndexOK'
  BY DEF IndexOK, StartInsert, StartList, CopyTable
<1>3. PendingMode'
  BY DEF PendingMode, StartInsert, StartList, ListModes
<1>4. PendingIntact'
  BY DEF PendingIntact, StartInsert, StartList, CopyTable
<1> QED
  BY <1>1, <1>2, <1>3, <1>4

LEMMA InsertRowStep ==
  ASSUME IInv, NEW row \in Row, InsertRow(row)
  PROVE  IInv'
<1> USE DEF IInv
<1>1. TypeOK'
  <2>1. row_list' \in Seq(Row)
    BY DEF TypeOK, InsertRow
  <2>2. DOMAIN primary_map' \subseteq Key
    BY MapDomains, RowFields DEF TypeOK, InsertRow
  <2>3. affectedRows' \in Nat /\ iter' \in Nat
    BY DEF TypeOK, InsertRow
  <2> QED
    BY <2>1, <2>2, <2>3 DEF TypeOK, InsertRow
<1>2. IndexOK'
  BY IndexedAppend DEF IndexOK, InsertRow, TypeOK
<1>3. PendingMode' /\ PendingIntact'
  BY DEF PendingMode, PendingIntact, InsertRow, InsertModes, ListModes
<1> QED
  BY <1>1, <1>2, <1>3

LEMMA UpsertRowStep ==
  ASSUME IInv, NEW row \in Row, NEW new \in Row, UpsertRow(row, new)
  PROVE  IInv'
<1> USE DEF IInv
<1>1. primary_map[row.key] \in 1..Len(row_list)
  BY RowsIndexed DEF UpsertRow, IndexOK
<1>2. TypeOK'
  <2>1. row_list' \in Seq(Row)
    BY <1>1, ReplaceAtSeq DEF TypeOK, UpsertRow
  <2>2. DOMAIN primary_map' \subseteq Key
    BY MapDomains, RowFields DEF TypeOK, UpsertRow
  <2>3. affectedRows' \in Nat /\ changedRows' \in Nat
    BY DEF TypeOK, UpsertRow
  <2> QED
    BY <2>1, <2>2, <2>3 DEF TypeOK, UpsertRow
<1>3. IndexOK'
  BY IndexedOverwrite, IndexedRekey DEF IndexOK, UpsertRow, TypeOK
<1>4. PendingMode' /\ PendingIntact'
  BY DEF PendingMode, PendingIntact, UpsertRow, InsertModes, ListModes
<1> QED
  BY <1>2, <1>3, <1>4

LEMMA ReplaceRowStep ==
  ASSUME IInv, NEW row \in Row, ReplaceRow(row)
  PROVE  IInv'
<1> USE DEF IInv
<1>1. primary_map[row.key] \in 1..Len(row_list)
  BY RowsIndexed DEF ReplaceRow, IndexOK
<1>2. TypeOK'
  <2>1. row_list' \in Seq(Row)
    BY <1>1, ReplaceAtSeq DEF TypeOK, ReplaceRow
  <2>2. affectedRows' \in Nat
    BY DEF TypeOK, ReplaceRow
  <2> QED
    BY <2>1, <2>2 DEF TypeOK, ReplaceRow
<1>3. IndexOK'
  BY IndexedOverwrite DEF IndexOK, ReplaceRow, TypeOK
<1>4. PendingMode' /\ PendingIntact'
  BY DEF PendingMode, PendingIntact, ReplaceRow, InsertModes, ListModes
<1> QED
  BY <1>2, <1>3, <1>4

LEMMA UpdateRowStep ==
  ASSUME IInv, NEW key \in Key, NEW new \in Row, UpdateRow(key, new)
  PROVE  IInv'
<1> USE DEF IInv
<1>1. primary_map[key] \in 1..Len(row_list)
  BY RowsIndexed DEF UpdateRow, IndexOK
<1>2. TypeOK'
  <2>1. row_list' \in Seq(Row)
    BY <1>1, ReplaceAtSeq DEF TypeOK, UpdateRow
  <2>2. DOMAIN primary_map' \subseteq Key
    BY MapDomains, RowFields DEF TypeOK, UpdateRow
  <2>3. affectedRows' \in Nat /\ changedRows' \in Nat
    BY DEF TypeOK, UpdateRow
  <2> QED
    BY <2>1, <2>2, <2>3 DEF TypeOK, UpdateRow
<1>3. IndexOK'
  BY IndexedOverwrite, IndexedRekey DEF IndexOK, UpdateRow, TypeOK
<1>4. PendingMode'
  BY DEF PendingMode, UpdateRow
<1>5. PendingIntact'
  <2> SUFFICES ASSUME NEW j \in pending' \cap DOMAIN table'.primary_map
               PROVE  /\ j \in DOMAIN primary_map'
                      /\ row_list'[primary_map'[j]]
                           = table'.row_list[table'.primary_map[j]]
    BY DEF PendingIntact
  <2>1. j \in pending /\ j # key /\ table' = table
    BY DEF UpdateRow
  <2>2. /\ j \in DOMAIN primary_map
        /\ row_list[primary_map[j]] = table.row_list[table.primary_map[j]]
    BY <2>1 DEF PendingIntact
  <2>3. j \in DOMAIN primary_map' /\ row_list'[primary_map'[j]] = row_list[primary_map[j]]
    BY <2>1, <2>2, RekeyOthers DEF UpdateRow, IndexOK, TypeOK
  <2> QED
    BY <2>1, <2>2, <2>3
<1> QED
  BY <1>2, <1>3, <1>4, <1>5

LEMMA DeleteRowStep ==
  ASSUME IInv, NEW key \in Key, DeleteRow(key)
  PROVE  IInv'
<1> USE DEF IInv
<1>1. primary_map[key] \in 1..Len(row_list)
  BY RowsIndexed DEF DeleteRow, IndexOK
<1>2. TypeOK'
  <2>1. row_list' \in Seq(Row)
    BY <1>1, RemoveAtSeq DEF TypeOK, DeleteRow
  <2>2. DOMAIN primary_map' \subseteq Key
    BY DEF TypeOK, DeleteRow, Unlink
  <2> QED
    BY <2>1, <2>2 DEF TypeOK, DeleteRow
<1>3. IndexOK'
  BY IndexedRemove DEF IndexOK, DeleteRow, TypeOK
<1>4. PendingMode'
  BY DEF PendingMode, DeleteRow
<1>5. PendingIntact'
  <2> SUFFICES ASSUME NEW j \in pending' \cap DOMAIN table'.primary_map
               PROVE  /\ j \in DOMAIN primary_map'
                      /\ row_list'[primary_map'[j]]
                           = table'.row_list[table'.primary_map[j]]
    BY DEF PendingIntact
  <2>1. j \in pending /\ j # key /\ table' = table
    BY DEF DeleteRow
  <2>2. /\ j \in DOMAIN primary_map
        /\ row_list[primary_map[j]] = table.row_list[table.primary_map[j]]
    BY <2>1 DEF PendingIntact
  <2>3. j \in DOMAIN primary_map' /\ row_list'[primary_map'[j]] = row_list[primary_map[j]]
    BY <2>1, <2>2, UnlinkOthers DEF DeleteRow, IndexOK, TypeOK
  <2> QED
    BY <2>1, <2>2, <2>3
<1> QED
  BY <1>2, <1>3, <1>4, <1>5

(* INSERT IGNORE of a duplicate and a key that is gone change no row. *)
LEMMA SkipStep ==
  ASSUME IInv,
         (\E row \in Row : IgnoreRow(row)) \/ (\E key \in Key : MissKey(key))
  PROVE  IInv'
BY DEF IInv, TypeOK, IndexOK, PendingMode, PendingIntact, IgnoreRow, MissKey

LEMMA LeaveStep ==
  ASSUME IInv, SaveTable \/ Throw
  PROVE  IInv'
<1> USE DEF IInv
<1>1. TypeOK'
  <2>1. /\ row_list' \in Seq(Row) /\ DOMAIN primary_map' \subseteq Key
        /\ mode' = "idle" /\ pending' = {} /\ iter' = 0
    <3>1. /\ row_list' = <<>> /\ primary_map' = NoMap
          /\ mode' = "idle" /\ pending' = {} /\ iter' = 0
      BY DEF SaveTable, Throw, DropLocals
    <3>2. <<>> \in Seq(Row) /\ DOMAIN NoMap \subseteq Key
      BY DEF NoMap
    <3> QED
      BY <3>1, <3>2
  <2>2. CASE SaveTable
    BY <2>1, <2>2 DEF TypeOK, SaveTable
  <2>3. CASE Throw
    BY <2>1, <2>3 DEF TypeOK, Throw
  <2> QED
    BY <2>2, <2>3
<1>2. IndexOK'
  BY EmptyIndexed DEF IndexOK, SaveTable, Throw, DropLocals
<1>3. PendingMode' /\ PendingIntact'
  BY DEF PendingMode, PendingIntact, SaveTable, Throw, DropLocals
<1> QED
  BY <1>1, <1>2, <1>3

LEMMA NextStep == IInv /\ [Next]_vars => IInv'
<1> SUFFICES ASSUME IInv, [Next]_vars PROVE IInv'
  OBVIOUS
<1>1. CASE \E m \in InsertModes : StartInsert(m)
  BY <1>1, StartStep
<1>2. CASE \E m \in ListModes, keys \in (SUBSET Key) \ {{}} : StartList(m, keys)
  BY <1>2, StartStep
<1>3. CASE \E row \in Row : InsertRow(row)
  BY <1>3, InsertRowStep
<1>4. CASE \E row \in Row : ReplaceRow(row)
  BY <1>4, ReplaceRowStep
<1>5. CASE \E row, new \in Row : UpsertRow(row, new)
  BY <1>5, UpsertRowStep
<1>6. CASE \E key \in Key, new \in Row : UpdateRow(key, new)
  BY <1>6, UpdateRowStep
<1>7. CASE \E key \in Key : DeleteRow(key)
  BY <1>7, DeleteRowStep
<1>8. CASE (\E row \in Row : IgnoreRow(row)) \/ (\E key \in Key : MissKey(key))
  BY <1>8, SkipStep
<1>9. CASE SaveTable \/ Throw
  BY <1>9, LeaveStep
<1>10. CASE UNCHANGED vars
  BY <1>10 DEF vars, IInv, TypeOK, IndexOK, PendingMode, PendingIntact
<1> QED
  BY <1>1, <1>2, <1>3, <1>4, <1>5, <1>6, <1>7, <1>8, <1>9, <1>10 DEF Next

-----------------------------------------------------------------------------
(* For every set of keys and values and lists of any length, in every      *)
(* state of the memory engine's row loops (insertRowList, multipleUpdate,  *)
(* multipleDelete) the row list and the key index of a table agree.        *)
THEOREM IndexAlwaysOK == Spec => []IndexOK
<1>1. IInv => IndexOK
  BY DEF IInv
<1> QED
  BY <1>1, InitHolds, NextStep, PTL DEF Spec

(* The rows an UPDATE or DELETE has selected and not reached yet are still *)
(* the rows it selected, whatever the earlier entries of its list did.     *)
THEOREM PendingAlwaysIntact == Spec => []PendingIntact
<1>1. IInv => PendingIntact
  BY DEF IInv
<1> QED
  BY <1>1, InitHolds, NextStep, PTL DEF Spec

(* The variables of the row loops keep their types. *)
THEOREM TypeCorrect == Spec => []TypeOK
<1>1. IInv => TypeOK
  BY DEF IInv
<1> QED
  BY <1>1, InitHolds, NextStep, PTL DEF Spec

-----------------------------------------------------------------------------
(* The refinement.  Under IndexOK the rows a scan of the list sees are the *)
(* rows the index leads to, so each iteration changes MapOf at the keys    *)
(* that KeyedTable names.                                                  *)

LEMMA MapOfIndexed ==
  ASSUME NEW list \in Seq(Row), NEW map, Indexed(list, map)
  PROVE  MapOf(list) = [k \in DOMAIN map |-> list[map[k]].val]
<1>1. {list[i].key : i \in 1..Len(list)} = DOMAIN map
  BY DEF Indexed
<1>2. ASSUME NEW k \in DOMAIN map
      PROVE  (CHOOSE i \in 1..Len(list) : list[i].key = k) = map[k]
  BY DEF Indexed
<1>3. MapOf(list) = [k \in DOMAIN map |->
                      list[CHOOSE i \in 1..Len(list) : list[i].key = k].val]
  BY <1>1 DEF MapOf
<1> QED
  BY <1>2, <1>3

LEMMA MapOfAppend ==
  ASSUME NEW list \in Seq(Row), NEW map, Indexed(list, map),
         NEW row \in Row, row.key \notin DOMAIN map
  PROVE  /\ row.key \notin DOMAIN MapOf(list)
         /\ MapOf(Append(list, row)) = KT!Move(MapOf(list), row.key, row.key, row.val)
<1> DEFINE out  == Append(list, row)
           rmap == Rekey(map, row.key, row.key, Len(list) + 1)
<1>1. out \in Seq(Row) /\ Indexed(out, rmap)
  BY IndexedAppend
<1>2. MapOf(list) = [k \in DOMAIN map |-> list[map[k]].val]
  BY MapOfIndexed
<1>3. MapOf(out) = [k \in DOMAIN rmap |-> out[rmap[k]].val]
  BY <1>1, MapOfIndexed
<1>4. DOMAIN rmap = (DOMAIN map \ {row.key}) \cup {row.key}
  BY DEF Rekey
<1>5. out[rmap[row.key]].val = row.val
  BY DEF Rekey
<1>6. ASSUME NEW k \in DOMAIN map, k # row.key
      PROVE  out[rmap[k]].val = list[map[k]].val
  <2>1. map[k] \in 1..Len(list) /\ rmap[k] = map[k]
    BY <1>6 DEF Indexed, Rekey
  <2> QED
    BY <2>1
<1> HIDE DEF out, rmap
<1>7. MapOf(out) = KT!Move(MapOf(list), row.key, row.key, row.val)
  BY <1>2, <1>3, <1>4, <1>5, <1>6 DEF KT!Move
<1> QED
  BY <1>2, <1>7 DEF out

LEMMA MapOfMove ==
  ASSUME NEW list \in Seq(Row), NEW map, Indexed(list, map),
         NEW k \in DOMAIN map, NEW new \in Row,
         new.key = k \/ new.key \notin DOMAIN map
  PROVE  /\ k \in DOMAIN MapOf(list)
         /\ new.key = k \/ new.key \notin DOMAIN MapOf(list)
         /\ MapOf(list)[k] = list[map[k]].val
         /\ MapOf(ReplaceAt(list, map[k], new)) = KT!Move(MapOf(list), k, new.key, new.val)
<1> DEFINE out  == ReplaceAt(list, map[k], new)
           rmap == IF new.key # k THEN Rekey(map, k, new.key, map[k]) ELSE map
<1>1. map[k] \in 1..Len(list)
  BY DEF Indexed
<1>2. out \in Seq(Row) /\ out[map[k]] = new
  <2>1. out \in Seq(Row)
    BY <1>1, ReplaceAtSeq
  <2>2. out[map[k]] = new
    BY <1>1 DEF ReplaceAt
  <2> QED
    BY <2>1, <2>2
<1>3. Indexed(out, rmap)
  BY IndexedOverwrite, IndexedRekey
<1>4. MapOf(list) = [j \in DOMAIN map |-> list[map[j]].val]
  BY MapOfIndexed
<1>5. MapOf(out) = [j \in DOMAIN rmap |-> out[rmap[j]].val]
  BY <1>2, <1>3, MapOfIndexed
<1>6. /\ DOMAIN rmap = (DOMAIN map \ {k}) \cup {new.key}
      /\ rmap[new.key] = map[k]
  BY DEF Rekey
<1>7. ASSUME NEW j \in DOMAIN map, j # k
      PROVE  out[rmap[j]] = list[map[j]]
  BY <1>7, RekeyOthers
<1> HIDE DEF out, rmap
<1>8. MapOf(out) = KT!Move(MapOf(list), k, new.key, new.val)
  BY <1>2, <1>4, <1>5, <1>6, <1>7 DEF KT!Move
<1> QED
  BY <1>4, <1>8 DEF out

LEMMA MapOfRemove ==
  ASSUME NEW list \in Seq(Row), NEW map, Indexed(list, map), NEW k \in DOMAIN map
  PROVE  /\ k \in DOMAIN MapOf(list)
         /\ MapOf(RemoveAt(list, map[k]))
              = [j \in DOMAIN MapOf(list) \ {k} |-> MapOf(list)[j]]
<1> DEFINE out == RemoveAt(list, map[k])
           umap == Unlink(map, k)
<1>1. out \in Seq(Row)
  BY RemoveAtSeq DEF Indexed
<1>2. Indexed(out, umap)
  BY IndexedRemove
<1>3. MapOf(list) = [j \in DOMAIN map |-> list[map[j]].val]
  BY MapOfIndexed
<1>4. MapOf(out) = [j \in DOMAIN umap |-> out[umap[j]].val]
  BY <1>1, <1>2, MapOfIndexed
<1>5. DOMAIN umap = DOMAIN map \ {k}
  BY DEF Unlink
<1>6. ASSUME NEW j \in DOMAIN map, j # k
      PROVE  out[umap[j]] = list[map[j]]
  BY <1>6, UnlinkOthers
<1> HIDE DEF out, umap
<1>7. MapOf(out) = [j \in DOMAIN MapOf(list) \ {k} |-> MapOf(list)[j]]
  BY <1>3, <1>4, <1>5, <1>6
<1> QED
  BY <1>3, <1>7 DEF out

LEMMA MapOfEmpty == MapOf(<<>>) = KT!NoRows
BY DEF MapOf, KT!NoRows

LEMMA SameVal ==
  ASSUME NEW row \in Row, NEW new \in Row
  PROVE  row = new <=> row.key = new.key /\ row.val = new.val
BY DEF Row

LEMMA IndexedRow ==
  ASSUME NEW list \in Seq(Row), NEW map, Indexed(list, map), NEW k \in DOMAIN map
  PROVE  list[map[k]] \in Row /\ list[map[k]].key = k
BY DEF Indexed

LEMMA StartRefines ==
  ASSUME IInv, NEW m, NEW keys,
         \/ m \in InsertModes /\ StartInsert(m)
         \/ m \in ListModes /\ StartList(m, keys)
  PROVE  KT!Next
<1>1. m \in KT!Modes
  BY DEF InsertModes, ListModes, KT!Modes, KT!InsertModes
<1>2. KT!Start(m)
  BY DEF StartInsert, StartList, CopyTable, KT!Start
<1> QED
  BY <1>1, <1>2 DEF KT!Next

LEMMA InsertRefines ==
  ASSUME IInv, NEW row \in Row, InsertRow(row)
  PROVE  KT!Next
<1>1. /\ row.key \notin DOMAIN MapOf(row_list)
      /\ MapOf(row_list') = KT!Move(MapOf(row_list), row.key, row.key, row.val)
  BY MapOfAppend DEF IInv, TypeOK, IndexOK, InsertRow
<1>2. KT!Add(row.key, row.val)
  BY <1>1 DEF KT!Add, InsertRow, InsertModes, KT!InsertModes
<1> QED
  BY <1>2, RowFields DEF KT!Next

LEMMA ReplaceRefines ==
  ASSUME IInv, NEW row \in Row, ReplaceRow(row)
  PROVE  KT!Next
<1> DEFINE old == row_list[primary_map[row.key]]
<1>1. /\ row.key \in DOMAIN MapOf(row_list)
      /\ MapOf(row_list)[row.key] = old.val
      /\ MapOf(row_list') = KT!Move(MapOf(row_list), row.key, row.key, row.val)
  BY MapOfMove DEF IInv, TypeOK, IndexOK, ReplaceRow
<1>2. old = row <=> old.val = row.val
  BY SameVal, IndexedRow DEF IInv, TypeOK, IndexOK, ReplaceRow
<1>3. KT!Replace(row.key, row.val)
  BY <1>1, <1>2 DEF KT!Replace, ReplaceRow
<1> QED
  BY <1>3, RowFields DEF KT!Next

LEMMA UpsertRefines ==
  ASSUME IInv, NEW row \in Row, NEW new \in Row, UpsertRow(row, new)
  PROVE  KT!Next
<1> DEFINE old == row_list[primary_map[row.key]]
<1>1. /\ row.key \in DOMAIN MapOf(row_list)
      /\ new.key = row.key \/ new.key \notin DOMAIN MapOf(row_list)
      /\ MapOf(row_list)[row.key] = old.val
      /\ MapOf(row_list') = KT!Move(MapOf(row_list), row.key, new.key, new.val)
  BY MapOfMove DEF IInv, TypeOK, IndexOK, UpsertRow
<1>2. old = new <=> new.key = row.key /\ old.val = new.val
  BY SameVal, IndexedRow DEF IInv, TypeOK, IndexOK, UpsertRow
<1>3. KT!Upsert(row.key, new.key, new.val)
  BY <1>1, <1>2 DEF KT!Upsert, UpsertRow
<1> QED
  BY <1>3, RowFields DEF KT!Next

LEMMA UpdateRefines ==
  ASSUME IInv, NEW key \in Key, NEW new \in Row, UpdateRow(key, new)
  PROVE  KT!Next
<1> DEFINE old == row_list[primary_map[key]]
<1>1. /\ key \in DOMAIN MapOf(row_list)
      /\ new.key = key \/ new.key \notin DOMAIN MapOf(row_list)
      /\ MapOf(row_list)[key] = old.val
      /\ MapOf(row_list') = KT!Move(MapOf(row_list), key, new.key, new.val)
  BY MapOfMove DEF IInv, TypeOK, IndexOK, UpdateRow
<1>2. old = new <=> new.key = key /\ old.val = new.val
  BY SameVal, IndexedRow DEF IInv, TypeOK, IndexOK, UpdateRow
<1>3. KT!Update(key, new.key, new.val)
  BY <1>1, <1>2 DEF KT!Update, UpdateRow
<1> QED
  BY <1>3, RowFields DEF KT!Next

LEMMA DeleteRefines ==
  ASSUME IInv, NEW key \in Key, DeleteRow(key)
  PROVE  KT!Next
<1>1. /\ key \in DOMAIN MapOf(row_list)
      /\ MapOf(row_list')
           = [j \in DOMAIN MapOf(row_list) \ {key} |-> MapOf(row_list)[j]]
  BY MapOfRemove DEF IInv, TypeOK, IndexOK, DeleteRow
<1>2. KT!Delete(key)
  BY <1>1 DEF KT!Delete, DeleteRow
<1> QED
  BY <1>2 DEF KT!Next

LEMMA LeaveRefines ==
  ASSUME SaveTable \/ Throw
  PROVE  KT!Next
<1>1. MapOf(row_list') = KT!NoRows /\ mode' = "idle"
  BY MapOfEmpty DEF SaveTable, Throw, DropLocals
<1>2. CASE SaveTable
  BY <1>1, <1>2 DEF SaveTable, KT!Return, KT!Next
<1>3. CASE Throw
  <2>1. mode # "idle"
    BY <1>3 DEF Throw, InsertModes
  <2> QED
    BY <1>1, <1>3, <2>1 DEF Throw, KT!Throw, KT!Next
<1> QED
  BY <1>2, <1>3

LEMMA StepRefines == IInv /\ [Next]_vars => [KT!Next]_KT!vars
<1> SUFFICES ASSUME IInv, [Next]_vars PROVE [KT!Next]_KT!vars
  OBVIOUS
<1>1. CASE \E m \in InsertModes : StartInsert(m)
  BY <1>1, StartRefines
<1>2. CASE \E m \in ListModes, keys \in (SUBSET Key) \ {{}} : StartList(m, keys)
  BY <1>2, StartRefines
<1>3. CASE \E row \in Row : InsertRow(row)
  BY <1>3, InsertRefines
<1>4. CASE \E row \in Row : ReplaceRow(row)
  BY <1>4, ReplaceRefines
<1>5. CASE \E row, new \in Row : UpsertRow(row, new)
  BY <1>5, UpsertRefines
<1>6. CASE \E key \in Key, new \in Row : UpdateRow(key, new)
  BY <1>6, UpdateRefines
<1>7. CASE \E key \in Key : DeleteRow(key)
  BY <1>7, DeleteRefines
<1>8. CASE (\E row \in Row : IgnoreRow(row)) \/ (\E key \in Key : MissKey(key))
  BY <1>8 DEF IgnoreRow, MissKey, KT!vars
<1>9. CASE SaveTable \/ Throw
  BY <1>9, LeaveRefines
<1>10. CASE UNCHANGED vars
  BY <1>10 DEF vars, KT!vars
<1> QED
  BY <1>1, <1>2, <1>3, <1>4, <1>5, <1>6, <1>7, <1>8, <1>9, <1>10 DEF Next

(* The row list with its key index implements the keyed table for every    *)
(* set of keys and values and lists of any length: whatever statements the *)
(* memory engine runs, a scan of row_list sees the rows KeyedTable has,    *)
(* and the statements return MySQL's affected and changed counts.          *)
THEOREM ImplementsKeyedTable == Spec => Refines
<1>1. Init => KT!Init
  BY MapOfEmpty DEF Init, KT!Init
<1> QED
  BY <1>1, InitHolds, NextStep, StepRefines, PTL DEF Spec, Refines, KT!Spec
=============================================================================
