-------------------------- MODULE TableCatalogProofs --------------------------
(***************************************************************************)
(* Proofs about TableCatalog for every finite set of statements, every set *)
(* of sessions and indexes and any number of tables under the name: the    *)
(* types, what a statement that reports success has brought about, and     *)
(* that an INSERT of the only session takes a key schema that is current.  *)
(***************************************************************************)
EXTENDS TableCatalog, FiniteSetTheorems, TLAPS

-----------------------------------------------------------------------------
(* The inductive invariant; t is the table and w what has been ACTIVE *)

Op == {"none", "create", "drop", "add", "remove", "insert"}
Gone == {"none", "DELETING"}

StmtType ==
  [op : Op, at : {"idle", "sent", "served", "asleep"}, index : Index \cup {Idle.index},
   call : {"", "create", "delete", "describe", "add", "remove", "cached"},
   since : Nat, target : Nat, result : Description]

\* The table that a statement started now may see.
SinceOf(t) == IF t.status = "none" THEN t.gen + 1 ELSE t.gen

WasType(w) == w \in SUBSET (Gen \X (Index \cup {"table"}))

\* Every table under the name has been ACTIVE, unless it is being made; so has every index
\* that is ACTIVE.
TableOK(t, w) ==
  /\ t \in Description /\ t.status \notin {"in use", "ok"}
  /\ t.status \in {"none", "CREATING"} => t.index = NoIndex
  /\ t.status # "none" => t.gen >= 1
  /\ WasType(w)
  /\ \A g \in 1..t.gen : <<g, "table">> \in w \/ (g = t.gen /\ t.status = "CREATING")
  /\ \A i \in Index : t.index[i] = "ACTIVE" => <<t.gen, i>> \in w

\* What the description that a statement has received says of now and of the past.
DescriptionOK(d, target, since, t, w) ==
  /\ d \in Description /\ d.status \notin {"in use", "ok"}
  /\ d.gen \in target..t.gen
  /\ d.status = "none" => t.status = "none" \/ t.gen > d.gen
  /\ d.status # "none" => d.gen >= 1 /\ d.gen >= since
  /\ d.status = "ACTIVE" => <<d.gen, "table">> \in w
  /\ \A i \in Index : d.index[i] = "ACTIVE" => d.gen >= 1 /\ <<d.gen, i>> \in w

\* The request of a DROP TABLE has been accepted.
Dropped(me) ==
  me.op = "drop" /\ (me.call = "describe" \/ (me.at = "served" /\ me.result.status = "ok"))

\* Which calls a statement makes.
CallsOK(me) ==
  /\ me.op = "none" <=> me.at = "idle"
  /\ me.at = "idle" => me.call = ""
  /\ me.op # "none" => me.index \in Index
  /\ me.at = "asleep" => me.call = "describe"
  /\ me.op = "create" => me.call \in {"create", "describe"}
  /\ me.op = "drop" => me.call \in {"delete", "describe"}
  /\ me.op \in {"add", "remove"} => me.call \in {"describe", me.op}
  /\ me.op = "insert" => me.call \in {"describe", "cached"} /\ me.at # "asleep"

StmtOK(me, t, w) ==
  /\ me \in StmtType /\ CallsOK(me)
  /\ me.target <= t.gen /\ me.since <= SinceOf(t)
  /\ me.at = "served" /\ me.call = "describe" =>
       DescriptionOK(me.result, me.target, me.since, t, w)
  /\ Dropped(me) => t.gen > me.target \/ t.status \in Gone
  /\ Dropped(me) /\ me.at = "served" /\ me.call = "describe" =>
       me.result.gen > me.target \/ me.result.status \in Gone

\* Requests to create a table that DynamoDB has not worked on yet.
Pending == {p \in Query : stmt[p].at = "sent" /\ stmt[p].call = "create"}

\* A session that alone changes the table knows it, or nothing.
OnlySession(q) ==
  client.queries = {q} =>
    /\ \A p \in Query \ {q} : stmt[p].at = "idle"
    /\ cache[SessionOf[q]] # 0 => cache[SessionOf[q]] = table.gen /\ table.status \notin Gone
    /\ stmt[q].call = "delete" => cache[SessionOf[q]] = 0
    /\ stmt[q].at = "served" /\ stmt[q].call = "describe" /\ stmt[q].result.status \notin Gone =>
         stmt[q].result.gen = table.gen /\ table.status \notin Gone
    /\ stmt[q].call = "cached" => stmt[q].target >= stmt[q].since

IInv ==
  /\ client \in Client
  /\ TableOK(table, was)
  /\ stmt \in [Query -> StmtType]
  /\ \A q \in Query : StmtOK(stmt[q], table, was) /\ stmt[q].op \in client.ops \cup {"none"}
  /\ cache \in [Session -> 0..MaxGen] /\ \A s \in Session : cache[s] <= table.gen
  /\ reply \in [Query -> {"ok", "error"}]
  /\ table.gen + Cardinality(Pending) <= client.gens
  /\ \A q \in Query : OnlySession(q)

-----------------------------------------------------------------------------
(* Constants and types *)

LEMMA Bounds == MaxGen \in Nat /\ 0 \in 0..MaxGen /\ \A n \in 0..MaxGen : n \in Nat
<1>1. MaxGen \in Nat
  BY ConstantsAssumption
<1> QED
  BY <1>1

LEMMA ClientType ==
  ASSUME NEW c \in Client
  PROVE  /\ c.queries \subseteq Query /\ c.gens \in 0..MaxGen
         /\ c.ops \subseteq {"create", "drop", "add", "remove", "insert"}
BY ConstantsAssumption

LEMMA NothingDescribed ==
  /\ NoDescription \in Description /\ NoDescription.status = "none" /\ NoDescription.gen = 0
  /\ NoDescription.index = NoIndex /\ \A i \in Index : NoIndex[i] = "none"
<1>1. NoIndex \in [Index -> IndexStatus]
  BY DEF NoIndex, IndexStatus
<1>2. 0 \in 0..MaxGen
  BY Bounds
<1> QED
  BY <1>1, <1>2 DEF NoDescription, Description, NoIndex

LEMMA IdleOK ==
  /\ Idle \in StmtType /\ Idle.op = "none" /\ Idle.at = "idle" /\ Idle.call = ""
  /\ Idle.target = 0 /\ Idle.since = 0
<1>1. NoDescription \in Description
  BY NothingDescribed
<1> QED
  BY <1>1 DEF Idle, StmtType, Op

LEMMA GenType ==
  ASSUME NEW t, NEW w, TableOK(t, w)
  PROVE  /\ t \in Description /\ t.gen \in 0..MaxGen /\ t.gen \in Nat /\ SinceOf(t) \in Nat
         /\ t.index \in [Index -> IndexStatus]
         /\ t.status # "none" => t.gen >= 1 /\ t.gen \in Gen
<1>1. t \in Description /\ t.gen \in 0..MaxGen /\ t.index \in [Index -> IndexStatus]
  BY DEF TableOK, Description
<1>2. t.gen \in Nat
  BY <1>1, Bounds
<1>3. t.status # "none" => t.gen >= 1 /\ t.gen \in Gen
  <2>1. t.status # "none" => t.gen >= 1
    BY DEF TableOK
  <2> QED
    BY <1>1, <1>2, <2>1, Bounds DEF Gen
<1> QED
  BY <1>1, <1>2, <1>3 DEF SinceOf

LEMMA WasGrows ==
  ASSUME NEW w, WasType(w), NEW g \in Gen, NEW X \in SUBSET (Index \cup {"table"})
  PROVE  /\ WasType(w \cup {<<g, x>> : x \in X}) /\ w \subseteq w \cup {<<g, x>> : x \in X}
         /\ \A x \in X : <<g, x>> \in w \cup {<<g, y>> : y \in X}
BY DEF WasType

LEMMA IdleStmtOK ==
  ASSUME NEW t, NEW w, TableOK(t, w)
  PROVE  StmtOK(Idle, t, w)
<1>1. t.gen \in Nat /\ SinceOf(t) \in Nat
  BY GenType
<1>2. CallsOK(Idle) /\ ~Dropped(Idle)
  BY IdleOK DEF CallsOK, Dropped
<1>3. Idle.target <= t.gen /\ Idle.since <= SinceOf(t)
  <2>1. 0 <= t.gen /\ 0 <= SinceOf(t)
    BY <1>1
  <2> QED
    BY <2>1, IdleOK, Zenon
<1>4. Idle \in StmtType /\ Idle.at # "served"
  BY IdleOK
<1> QED
  BY <1>2, <1>3, <1>4 DEF StmtOK

LEMMA InitHolds == Init => IInv
<1> SUFFICES ASSUME Init PROVE IInv
  OBVIOUS
<1>1. table = NoDescription /\ was = {} /\ stmt = [q \in Query |-> Idle]
  BY DEF Init
<1>2. TableOK(table, was)
  BY <1>1, NothingDescribed DEF TableOK, WasType
<1>3. stmt \in [Query -> StmtType] /\ \A q \in Query : StmtOK(stmt[q], table, was)
  BY <1>1, <1>2, IdleOK, IdleStmtOK
<1>4. Pending = {}
  BY <1>1, IdleOK DEF Pending
<1>5. Cardinality(Pending) = 0
  BY <1>4, FS_EmptySet
<1>6. client \in Client /\ client.gens \in 0..MaxGen
  BY ClientType DEF Init
<1>7. table.gen + Cardinality(Pending) <= client.gens
  BY <1>1, <1>5, <1>6, NothingDescribed, ConstantsAssumption
<1>8. /\ cache \in [Session -> 0..MaxGen] /\ \A s \in Session : cache[s] <= table.gen
      /\ cache = [s \in Session |-> 0]
  BY <1>1, NothingDescribed, ConstantsAssumption DEF Init
<1>9. \A q \in Query : OnlySession(q)
  BY <1>1, <1>8, IdleOK, ConstantsAssumption DEF OnlySession
<1> QED
  BY <1>1, <1>2, <1>3, <1>6, <1>7, <1>8, <1>9, IdleOK DEF IInv, Init

-----------------------------------------------------------------------------
(* What may become of the table, and what survives it *)

Moves(t, w, t2, w2) ==
  /\ w \subseteq w2 /\ t.gen <= t2.gen /\ SinceOf(t) <= SinceOf(t2)
  /\ t.status = "none" => t2.status = "none" \/ t2.gen > t.gen
  /\ t.status \in Gone => t2.status \in Gone \/ t2.gen > t.gen

Stays(t, t2) == t.status \notin Gone => t2.status \notin Gone /\ t2.gen = t.gen

LEMMA StmtKept ==
  ASSUME NEW t, NEW w, NEW t2, NEW w2, TableOK(t, w), TableOK(t2, w2), Moves(t, w, t2, w2),
         NEW me, StmtOK(me, t, w)
  PROVE  StmtOK(me, t2, w2)
<1>1. t.gen \in Nat /\ t2.gen \in Nat /\ SinceOf(t) \in Nat /\ SinceOf(t2) \in Nat
  BY GenType
<1>2. me \in StmtType /\ me.target \in Nat /\ me.since \in Nat /\ me.result.gen \in Nat
  <2>1. me \in StmtType
    BY DEF StmtOK
  <2>2. me.target \in Nat /\ me.since \in Nat /\ me.result.gen \in 0..MaxGen
    BY <2>1 DEF StmtType, Description
  <2> QED
    BY <2>1, <2>2, Bounds
<1>3. me.target <= t2.gen /\ me.since <= SinceOf(t2)
  BY <1>1, <1>2 DEF StmtOK, Moves
<1>4. ASSUME me.at = "served", me.call = "describe"
      PROVE  DescriptionOK(me.result, me.target, me.since, t2, w2)
  <2> DEFINE d == me.result
  <2>1. DescriptionOK(d, me.target, me.since, t, w)
    BY <1>4 DEF StmtOK
  <2> HIDE DEF d
  <2>2. d.gen \in me.target..t2.gen
    <3>1. d.gen \in me.target..t.gen /\ t.gen <= t2.gen
      BY <2>1 DEF DescriptionOK, Moves
    <3> QED
      BY <1>1, <1>2, <3>1
  <2>3. d.status = "none" => t2.status = "none" \/ t2.gen > d.gen
    BY <1>1, <1>2, <2>1 DEF DescriptionOK, Moves, d
  <2> QED
    BY <2>1, <2>2, <2>3 DEF DescriptionOK, Moves, d
<1>5. Dropped(me) => t2.gen > me.target \/ t2.status \in Gone
  BY <1>1, <1>2 DEF StmtOK, Moves
<1> QED
  BY <1>2, <1>3, <1>4, <1>5 DEF StmtOK

LEMMA TableSettlesMoves ==
  ASSUME TableOK(table, was), TableSettles
  PROVE  /\ TableOK(table', was') /\ Moves(table, was, table', was') /\ Stays(table, table')
         /\ table'.gen = table.gen
<1>1. table.status \in Busy /\ table.status # "none" /\ WasType(was)
  BY DEF TableOK, TableSettles, Busy
<1>2. /\ table \in Description /\ table.gen \in 0..MaxGen /\ table.gen \in Nat
      /\ table.gen >= 1 /\ table.gen \in Gen
  BY <1>1, GenType
<1>3. CASE table.status = "DELETING"
  <2>1. table' = [NoDescription EXCEPT !.gen = table.gen]
    BY <1>3 DEF TableSettles
  <2>2. /\ table' \in Description /\ table'.status = "none" /\ table'.gen = table.gen
        /\ table'.index = NoIndex
    BY <1>2, <2>1, NothingDescribed DEF Description
  <2>3. was' = was
    BY <2>2, NothingDescribed DEF TableSettles, Notice
  <2>4. \A g \in 1..table.gen : <<g, "table">> \in was
    BY <1>3 DEF TableOK
  <2>5. TableOK(table', was')
    BY <1>1, <2>2, <2>3, <2>4, NothingDescribed DEF TableOK
  <2>6. Moves(table, was, table', was')
    BY <1>2, <1>3, <2>2, <2>3 DEF Moves, SinceOf, Gone
  <2> QED
    BY <1>3, <2>2, <2>5, <2>6 DEF Stays, Gone
<1>4. CASE table.status # "DELETING"
  <2> DEFINE X == {i \in Index : table.index[i] = "ACTIVE"} \cup {"table"}
  <2>1. table' = [table EXCEPT !.status = "ACTIVE"]
    BY <1>4 DEF TableSettles
  <2>2. /\ table' \in Description /\ table'.status = "ACTIVE" /\ table'.gen = table.gen
        /\ table'.index = table.index
    BY <1>2, <2>1 DEF Description
  <2>3. was' = was \cup {<<table.gen, x>> : x \in X}
    BY <2>2 DEF TableSettles, Notice
  <2>4. X \in SUBSET (Index \cup {"table"}) /\ "table" \in X
    OBVIOUS
  <2> HIDE DEF X
  <2>5. WasType(was') /\ was \subseteq was' /\ <<table.gen, "table">> \in was'
    BY <1>1, <1>2, <2>3, <2>4, WasGrows
  <2>6. \A g \in 1..table.gen : <<g, "table">> \in was'
    BY <2>5 DEF TableOK
  <2>7. \A i \in Index : table'.index[i] = "ACTIVE" => <<table.gen, i>> \in was'
    BY <2>2, <2>5 DEF TableOK
  <2>8. TableOK(table', was')
    BY <1>2, <2>2, <2>5, <2>6, <2>7 DEF TableOK
  <2>9. Moves(table, was, table', was')
    BY <1>1, <1>2, <1>4, <2>2, <2>5 DEF Moves, SinceOf, Gone
  <2> QED
    BY <1>1, <1>4, <2>2, <2>8, <2>9 DEF Stays, Gone
<1> QED
  BY <1>3, <1>4

LEMMA IndexSettlesMoves ==
  ASSUME TableOK(table, was), NEW i \in Index, IndexSettles(i)
  PROVE  /\ TableOK(table', was') /\ Moves(table, was, table', was') /\ Stays(table, table')
         /\ table'.gen = table.gen
<1> DEFINE status == IF table.index[i] = "CREATING" THEN "ACTIVE" ELSE "none"
           X == {j \in Index : table'.index[j] = "ACTIVE"}
                \cup (IF table.status = "ACTIVE" THEN {"table"} ELSE {})
<1>1. table.status \notin {"none", "CREATING", "DELETING"} /\ WasType(was)
  BY NothingDescribed DEF TableOK, IndexSettles
<1>2. /\ table \in Description /\ table.gen \in 0..MaxGen /\ table.gen \in Nat
      /\ table.index \in [Index -> IndexStatus] /\ table.gen >= 1 /\ table.gen \in Gen
  BY <1>1, GenType
<1>3. table' = [table EXCEPT !.index[i] = status]
  BY DEF IndexSettles
<1>4. status \in IndexStatus
  BY DEF IndexStatus
<1> HIDE DEF status
<1>5. [table.index EXCEPT ![i] = status] \in [Index -> IndexStatus]
  BY <1>2, <1>4
<1>6. /\ table' \in Description /\ table'.status = table.status /\ table'.gen = table.gen
      /\ table'.index = [table.index EXCEPT ![i] = status]
  BY <1>2, <1>3, <1>5 DEF Description
<1>7. was' = was \cup {<<table.gen, x>> : x \in X}
  BY <1>6 DEF IndexSettles, Notice
<1>8. /\ X \in SUBSET (Index \cup {"table"})
      /\ \A j \in Index : table'.index[j] = "ACTIVE" => j \in X
  OBVIOUS
<1> HIDE DEF X
<1>9. /\ WasType(was') /\ was \subseteq was'
      /\ \A j \in Index : table'.index[j] = "ACTIVE" => <<table.gen, j>> \in was'
  BY <1>1, <1>2, <1>7, <1>8, WasGrows
<1>10. TableOK(table', was')
  BY <1>1, <1>2, <1>6, <1>9 DEF TableOK
<1>11. Moves(table, was, table', was')
  BY <1>1, <1>2, <1>6, <1>9 DEF Moves, SinceOf, Gone
<1> QED
  BY <1>6, <1>10, <1>11 DEF Stays

\* What DynamoDB makes of a call, and how it answers.
ServedAs(call, t, w, e) ==
  /\ TableOK(e.table, w) /\ Moves(t, w, e.table, w)
  /\ call # "delete" => Stays(t, e.table)
  /\ e.answer \in Description /\ e.answer.gen = t.gen
  /\ call = "describe" => e.answer = t /\ e.table = t
  /\ call = "delete" /\ e.answer.status = "ok" => e.table.status = "DELETING"
  /\ IF call = "create" THEN e.table.gen \in {t.gen, t.gen + 1} ELSE e.table.gen = t.gen

LEMMA ServeMoves ==
  ASSUME TableOK(table, was), NEW call, NEW i \in Index, NEW e, e = Effect(call, i),
         call = "create" => table.gen < MaxGen
  PROVE  ServedAs(call, table, was, e)
<1> USE DEF ServedAs
<1>1. /\ table \in Description /\ table.gen \in 0..MaxGen /\ table.gen \in Nat
      /\ table.index \in [Index -> IndexStatus] /\ MaxGen \in Nat
      /\ table.status # "none" => table.gen >= 1
  BY GenType, Bounds
<1>2. \A status \in {"ok", "none", "in use"} :
        /\ Refused(status) \in Description /\ Refused(status).gen = table.gen
        /\ Refused(status).status = status
  BY <1>1 DEF Refused, Description
<1>3. CASE call = "create" /\ table.status = "none"
  <2>1. /\ e.table = [NoDescription EXCEPT !.status = "CREATING", !.gen = table.gen + 1]
        /\ e.answer = Refused("ok")
    BY <1>3 DEF Effect
  <2>2. table.gen + 1 \in 0..MaxGen
    BY <1>1, <1>3
  <2>3. /\ e.table \in Description /\ e.table.status = "CREATING"
        /\ e.table.gen = table.gen + 1 /\ e.table.index = NoIndex
    BY <2>1, <2>2, NothingDescribed DEF Description, Busy
  <2>4. TableOK(e.table, was)
    <3>1. \A g \in 1..table.gen : <<g, "table">> \in was
      BY <1>3 DEF TableOK
    <3>2. \A g \in 1..table.gen + 1 : g \in 1..table.gen \/ g = table.gen + 1
      BY <1>1
    <3>3. \A g \in 1..e.table.gen : <<g, "table">> \in was \/ g = e.table.gen
      BY <2>3, <3>1, <3>2
    <3>4. \A x \in Index : e.table.index[x] # "ACTIVE"
      BY <2>3, NothingDescribed
    <3>5. e.table.gen >= 1
      BY <1>1, <2>3
    <3>6. WasType(was)
      BY DEF TableOK
    <3> QED
      BY <2>3, <3>3, <3>4, <3>5, <3>6 DEF TableOK
  <2>5. Moves(table, was, e.table, was) /\ Stays(table, e.table)
    BY <1>1, <1>3, <2>3 DEF Moves, Stays, SinceOf, Gone
  <2> QED
    BY <1>2, <1>3, <2>1, <2>3, <2>4, <2>5
<1>4. CASE call = "delete" /\ table.status \in {"ACTIVE", "DELETING"}
  <2>1. e.table = [table EXCEPT !.status = "DELETING"] /\ e.answer = Refused("ok")
    BY <1>4 DEF Effect
  <2>2. /\ e.table \in Description /\ e.table.status = "DELETING"
        /\ e.table.gen = table.gen /\ e.table.index = table.index
    BY <1>1, <2>1 DEF Description, Busy
  <2>3. TableOK(e.table, was)
    BY <1>4, <2>2 DEF TableOK
  <2>4. Moves(table, was, e.table, was)
    BY <1>1, <1>4, <2>2 DEF Moves, SinceOf, Gone
  <2> QED
    BY <1>2, <1>4, <2>1, <2>2, <2>3, <2>4
<1>5. CASE call = "add" /\ table.status = "ACTIVE" /\ table.index[i] = "none"
  <2>1. /\ e.table = [table EXCEPT !.status = "UPDATING", !.index[i] = "CREATING"]
        /\ e.answer = Refused("ok")
    BY <1>5 DEF Effect
  <2>2. /\ e.table \in Description /\ e.table.status = "UPDATING"
        /\ e.table.gen = table.gen /\ e.table.index = [table.index EXCEPT ![i] = "CREATING"]
    <3>1. [table.index EXCEPT ![i] = "CREATING"] \in [Index -> IndexStatus]
      BY <1>1 DEF IndexStatus
    <3> QED
      BY <1>1, <2>1, <3>1 DEF Description, Busy
  <2>3. TableOK(e.table, was)
    BY <1>1, <1>5, <2>2 DEF TableOK
  <2>4. Moves(table, was, e.table, was) /\ Stays(table, e.table)
    BY <1>1, <1>5, <2>2 DEF Moves, Stays, SinceOf, Gone
  <2> QED
    BY <1>2, <1>5, <2>1, <2>2, <2>3, <2>4
<1>6. CASE call = "remove" /\ table.status = "ACTIVE" /\ table.index[i] = "ACTIVE"
  <2>1. /\ e.table = [table EXCEPT !.status = "UPDATING", !.index[i] = "DELETING"]
        /\ e.answer = Refused("ok")
    BY <1>6 DEF Effect
  <2>2. /\ e.table \in Description /\ e.table.status = "UPDATING"
        /\ e.table.gen = table.gen /\ e.table.index = [table.index EXCEPT ![i] = "DELETING"]
    <3>1. [table.index EXCEPT ![i] = "DELETING"] \in [Index -> IndexStatus]
      BY <1>1 DEF IndexStatus
    <3> QED
      BY <1>1, <2>1, <3>1 DEF Description, Busy
  <2>3. TableOK(e.table, was)
    BY <1>1, <1>6, <2>2 DEF TableOK
  <2>4. Moves(table, was, e.table, was) /\ Stays(table, e.table)
    BY <1>1, <1>6, <2>2 DEF Moves, Stays, SinceOf, Gone
  <2> QED
    BY <1>2, <1>6, <2>1, <2>2, <2>3, <2>4
<1>7. CASE ~ \/ call = "create" /\ table.status = "none"
             \/ call = "delete" /\ table.status \in {"ACTIVE", "DELETING"}
             \/ call = "add" /\ table.status = "ACTIVE" /\ table.index[i] = "none"
             \/ call = "remove" /\ table.status = "ACTIVE" /\ table.index[i] = "ACTIVE"
  <2> DEFINE refusal == IF table.status = "none"
                           \/ (call = "remove" /\ table.index[i] = "none")
                        THEN Refused("none") ELSE Refused("in use")
  <2>1. /\ e.table = table
        /\ e.answer = IF call = "describe" THEN table ELSE refusal
    BY <1>7 DEF Effect
  <2>2. /\ e.table = table
        /\ \/ e.answer = table /\ call = "describe"
           \/ e.answer \in {Refused("none"), Refused("in use")} /\ call # "describe"
    <3>1. refusal \in {Refused("none"), Refused("in use")}
      OBVIOUS
    <3> HIDE DEF refusal
    <3> QED
      BY <2>1, <3>1
  <2>3. Moves(table, was, e.table, was) /\ Stays(table, e.table)
    <3>1. SinceOf(table) <= SinceOf(table) /\ table.gen <= table.gen
      BY <1>1, GenType
    <3> QED
      BY <2>2, <3>1 DEF Moves, Stays
  <2> QED
    BY <1>1, <1>2, <2>2, <2>3
<1> QED
  BY <1>3, <1>4, <1>5, <1>6, <1>7

-----------------------------------------------------------------------------
(* The steps of DynamoDB *)

LEMMA PendingType ==
  /\ IsFiniteSet(Pending) /\ Cardinality(Pending) \in Nat
  /\ \A S \in SUBSET Query : IsFiniteSet(S) /\ Cardinality(S) \in Nat
<1>1. IsFiniteSet(Query)
  BY ConstantsAssumption
<1>2. \A S \in SUBSET Query : IsFiniteSet(S) /\ Cardinality(S) \in Nat
  BY <1>1, FS_Subset, FS_CardinalityType
<1>3. Pending \in SUBSET Query
  BY DEF Pending
<1> QED
  BY <1>2, <1>3

LEMMA SettlesStep ==
  ASSUME IInv, TableSettles \/ \E i \in Index : IndexSettles(i)
  PROVE  IInv'
<1>1. UNCHANGED <<client, cache, stmt, reply>>
  BY DEF TableSettles, IndexSettles
<1>2. TableOK(table, was)
  BY DEF IInv
<1>3. /\ TableOK(table', was') /\ Moves(table, was, table', was') /\ Stays(table, table')
      /\ table'.gen = table.gen
  BY <1>2, TableSettlesMoves, IndexSettlesMoves
<1>4. \A q \in Query : StmtOK(stmt'[q], table', was')
  <2> SUFFICES ASSUME NEW q \in Query PROVE StmtOK(stmt'[q], table', was')
    OBVIOUS
  <2>1. StmtOK(stmt[q], table, was)
    BY DEF IInv
  <2> QED
    BY <1>1, <1>2, <1>3, <2>1, StmtKept
<1>5. Pending' = Pending
  BY <1>1 DEF Pending
<1>6. \A q \in Query : OnlySession(q)'
  BY <1>1, <1>3 DEF IInv, OnlySession, Stays
<1> QED
  BY <1>1, <1>3, <1>4, <1>5, <1>6 DEF IInv

\* The answer that a request gets from DynamoDB, as it arrives at the statement.
LEMMA ServeStep == ASSUME IInv, NEW q \in Query, Serve(q) PROVE IInv'
<1> DEFINE me == stmt[q]
           e == Effect(me.call, me.index)
           target == IF me.call = "describe" THEN me.target ELSE e.table.gen
           new == [me EXCEPT !.at = "served", !.result = e.answer, !.target = target]
<1>1. /\ TableOK(table, was) /\ me \in StmtType /\ StmtOK(me, table, was)
      /\ me.at = "sent" /\ CallsOK(me) /\ me.op \in client.ops \cup {"none"}
  BY DEF IInv, Serve, StmtOK
<1>2. /\ UNCHANGED <<client, cache, reply, was>> /\ table' = e.table
      /\ stmt' = [stmt EXCEPT ![q] = new]
  BY DEF Serve, IInv, StmtType
<1>3. /\ client \in Client /\ client.gens \in Nat /\ client.gens <= MaxGen /\ MaxGen \in Nat
      /\ table.gen \in Nat /\ SinceOf(table) \in Nat /\ Cardinality(Pending) \in Nat
      /\ table.gen + Cardinality(Pending) <= client.gens
      /\ table \in Description
  BY <1>1, ClientType, Bounds, GenType, PendingType DEF IInv
<1>4. me.index \in Index
  BY <1>1 DEF CallsOK
<1>5. /\ me.call = "create" => table.gen < MaxGen /\ Cardinality(Pending) >= 1
      /\ me.call = "create" =>
           Pending' = Pending \ {q} /\ Cardinality(Pending') = Cardinality(Pending) - 1
      /\ me.call # "create" => Pending' = Pending
  <2> USE DEF StmtType
  <2>1. stmt \in [Query -> StmtType]
    BY DEF IInv
  <2>2. new.at = "served"
    BY <1>1
  <2>3. Pending' = Pending \ {q}
    BY <1>2, <2>1, <2>2 DEF Pending
  <2>4. me.call # "create" => q \notin Pending
    BY DEF Pending
  <2>5. me.call = "create" => q \in Pending
    BY <1>1 DEF Pending
  <2>6. me.call = "create" => Cardinality(Pending \ {q}) = Cardinality(Pending) - 1
    BY <2>5, PendingType, FS_RemoveElement
  <2>7. Pending \ {q} \in SUBSET Query
    BY DEF Pending
  <2>8. me.call = "create" => Cardinality(Pending) >= 1
    <3>1. Cardinality(Pending \ {q}) \in Nat
      BY <2>7, PendingType
    <3> QED
      BY <1>3, <2>6, <3>1
  <2> QED
    BY <1>3, <2>3, <2>4, <2>6, <2>8
<1>6. /\ TableOK(e.table, was) /\ Moves(table, was, e.table, was)
      /\ me.call # "delete" => Stays(table, e.table)
      /\ e.answer \in Description /\ e.answer.gen = table.gen
      /\ me.call = "describe" => e.answer = table /\ e.table = table
      /\ me.call = "delete" /\ e.answer.status = "ok" => e.table.status = "DELETING"
      /\ IF me.call = "create" THEN e.table.gen \in {table.gen, table.gen + 1}
                               ELSE e.table.gen = table.gen
  <2> DEFINE call == me.call
             i == me.index
  <2>1. e = Effect(call, i) /\ i \in Index /\ (call = "create" => table.gen < MaxGen)
    BY <1>4, <1>5
  <2> HIDE DEF e, call, i
  <2>2. TableOK(table, was)
    BY <1>1
  <2>3. ServedAs(call, table, was, e)
    BY <2>1, <2>2, ServeMoves
  <2> QED
    BY <2>3 DEF call, ServedAs
<1>7. e.table.gen \in Nat /\ SinceOf(e.table) \in Nat
  BY <1>6, GenType
<1> HIDE DEF e
<1>8. /\ me.target \in Nat /\ me.since \in Nat /\ target \in Nat
      /\ me.target <= table.gen /\ me.since <= SinceOf(table)
      /\ table.gen <= e.table.gen /\ SinceOf(table) <= SinceOf(e.table)
  BY <1>1, <1>6, <1>7 DEF StmtType, StmtOK, Moves
<1>9. me.target <= target /\ target <= e.table.gen /\ me.since <= SinceOf(e.table)
  BY <1>3, <1>7, <1>8
<1> HIDE DEF target
<1>10. /\ new \in StmtType /\ new.at = "served" /\ new.result = e.answer /\ new.target = target
       /\ new.op = me.op /\ new.call = me.call /\ new.since = me.since /\ new.index = me.index
  <2> HIDE DEF me
  <2> QED
    BY <1>1, <1>6, <1>8 DEF StmtType
<1> HIDE DEF me, new
<1>11. StmtOK(new, e.table, was)
  <2>1. CallsOK(new)
    BY <1>1, <1>10 DEF CallsOK
  <2>2. ASSUME new.call = "describe"
        PROVE  DescriptionOK(table, me.target, me.since, table, was) /\ target = me.target
    <3>1. target = me.target
      BY <1>10, <2>2 DEF target
    <3>2. table.gen \in me.target..table.gen
      BY <1>3, <1>8
    <3>3. table.status # "none" => table.gen >= 1 /\ table.gen >= me.since
      BY <1>1, <1>8, GenType DEF SinceOf
    <3>4. table.status = "ACTIVE" => <<table.gen, "table">> \in was
      <4>1. table.gen >= 1 => table.gen \in 1..table.gen
        BY <1>3
      <4> QED
        BY <1>1, <3>3, <4>1 DEF TableOK
    <3>5. \A i \in Index : table.index[i] = "ACTIVE" =>
            table.gen >= 1 /\ <<table.gen, i>> \in was
      BY <1>1, <3>3, NothingDescribed DEF TableOK
    <3>6. table.status \notin {"in use", "ok"}
      BY <1>1 DEF TableOK
    <3> QED
      BY <1>3, <3>1, <3>2, <3>3, <3>4, <3>5, <3>6 DEF DescriptionOK
  <2>3. new.call = "describe" => DescriptionOK(new.result, new.target, new.since, e.table, was)
    BY <1>6, <1>10, <2>2
  <2>4. Dropped(new) /\ new.call = "describe" => table.gen > me.target \/ table.status \in Gone
    BY <1>1, <1>10 DEF Dropped, StmtOK
  <2>5. Dropped(new) => e.table.gen > target \/ e.table.status \in Gone
    <3>1. CASE new.call = "describe"
      BY <1>6, <1>10, <2>2, <2>4, <3>1
    <3>2. CASE new.call # "describe"
      <4>1. Dropped(new) => new.call = "delete" /\ e.answer.status = "ok"
        BY <1>1, <1>10, <3>2 DEF Dropped, CallsOK
      <4> QED
        BY <1>6, <1>10, <4>1 DEF Gone
    <3> QED
      BY <3>1, <3>2
  <2>6. Dropped(new) /\ new.call = "describe" =>
          new.result.gen > new.target \/ new.result.status \in Gone
    BY <1>6, <1>10, <2>2, <2>4
  <2> QED
    BY <1>9, <1>10, <2>1, <2>3, <2>5, <2>6 DEF StmtOK
<1>12. stmt' \in [Query -> StmtType] /\ stmt'[q] = new
       /\ \A p \in Query \ {q} : stmt'[p] = stmt[p]
  BY <1>2, <1>10 DEF IInv
<1>13. \A p \in Query : StmtOK(stmt'[p], e.table, was) /\ stmt'[p].op \in client.ops \cup {"none"}
  <2> SUFFICES ASSUME NEW p \in Query \ {q}
               PROVE  StmtOK(stmt[p], e.table, was) /\ stmt[p].op \in client.ops \cup {"none"}
    BY <1>1, <1>10, <1>11, <1>12
  <2>1. StmtOK(stmt[p], table, was) /\ stmt[p].op \in client.ops \cup {"none"}
    BY DEF IInv
  <2> QED
    BY <1>1, <1>6, <2>1, StmtKept
<1>14. \A s \in Session : cache[s] <= e.table.gen
  <2> SUFFICES ASSUME NEW s \in Session PROVE cache[s] <= e.table.gen
    OBVIOUS
  <2>1. cache[s] \in 0..MaxGen /\ cache[s] <= table.gen
    BY DEF IInv
  <2>2. cache[s] \in Nat
    BY <2>1, Bounds
  <2> QED
    BY <1>3, <1>7, <1>8, <2>1, <2>2
<1>15. table'.gen + Cardinality(Pending') <= client.gens
  <2>1. CASE me.call = "create"
    <3>1. Cardinality(Pending') = Cardinality(Pending) - 1
      BY <1>5, <2>1 DEF me
    <3>2. e.table.gen \in {table.gen, table.gen + 1}
      BY <1>6, <2>1
    <3> QED
      BY <1>2, <1>3, <3>1, <3>2
  <2>2. CASE me.call # "create"
    BY <1>2, <1>3, <1>5, <1>6, <2>2 DEF me
  <2> QED
    BY <2>1, <2>2
<1>16. \A p \in Query \ {q} : OnlySession(p)'
  BY <1>1, <1>2 DEF IInv, OnlySession, me
<1>17. OnlySession(q)'
  <2> SUFFICES ASSUME client.queries = {q} PROVE OnlySession(q)'
    BY <1>2 DEF OnlySession
  <2>1. /\ \A p \in Query \ {q} : stmt[p].at = "idle"
        /\ cache[SessionOf[q]] # 0 => cache[SessionOf[q]] = table.gen /\ table.status \notin Gone
        /\ me.call = "delete" => cache[SessionOf[q]] = 0
        /\ me.call = "cached" => me.target >= me.since
    BY DEF IInv, OnlySession, me
  <2>2. cache[SessionOf[q]] # 0 =>
          cache[SessionOf[q]] = e.table.gen /\ e.table.status \notin Gone
    BY <1>6, <2>1 DEF Stays
  <2>3. new.call = "describe" /\ new.result.status \notin Gone =>
          new.result.gen = e.table.gen /\ e.table.status \notin Gone
    BY <1>6, <1>10
  <2>4. new.call = "cached" => new.target >= new.since
    <3>1. me.target >= me.since => target >= me.since
      BY <1>8, <1>9
    <3> QED
      BY <1>10, <2>1, <3>1
  <2> QED
    BY <1>2, <1>10, <1>12, <2>1, <2>2, <2>3, <2>4 DEF OnlySession
<1> QED
  BY <1>2, <1>3, <1>6, <1>12, <1>13, <1>14, <1>15, <1>16, <1>17 DEF IInv

-----------------------------------------------------------------------------
(* The steps of a statement *)

\* What a statement makes of the cache of its session.
CacheMoves(q) ==
  \E n \in 0..MaxGen :
    /\ n <= table.gen /\ cache' \in {cache, [cache EXCEPT ![SessionOf[q]] = n]}
    /\ n # 0 /\ client.queries = {q} => n = table.gen /\ table.status \notin Gone

LEMMA UncacheMoves ==
  ASSUME IInv, NEW q \in Query, Uncache(q) \/ UNCHANGED cache
  PROVE  CacheMoves(q)
<1>1. 0 \in 0..MaxGen /\ 0 <= table.gen
  BY Bounds, GenType DEF IInv
<1> QED
  BY <1>1 DEF CacheMoves, Uncache

LEMMA StoreMoves ==
  ASSUME IInv, NEW q \in Query, stmt[q].at = "served", stmt[q].call = "describe",
         Store(q, stmt[q].result)
  PROVE  CacheMoves(q)
<1> DEFINE d == stmt[q].result
<1>1. /\ DescriptionOK(d, stmt[q].target, stmt[q].since, table, was)
      /\ client.queries = {q} /\ d.status \notin Gone =>
           d.gen = table.gen /\ table.status \notin Gone
      /\ stmt[q].target \in Nat /\ table.gen \in Nat
  BY GenType DEF IInv, StmtOK, OnlySession, StmtType
<1> HIDE DEF d
<1>2. d.gen \in 0..MaxGen /\ d.gen <= table.gen /\ 0 \in 0..MaxGen /\ 0 <= table.gen
  <2>1. d.gen \in stmt[q].target..table.gen /\ d \in Description
    BY <1>1 DEF DescriptionOK
  <2>2. d.gen \in 0..MaxGen
    BY <2>1 DEF Description
  <2> QED
    BY <1>1, <2>1, <2>2, Bounds
<1>3. cache' = [cache EXCEPT ![SessionOf[q]] = IF d.status \in Gone THEN 0 ELSE d.gen]
  BY DEF Store, d, Gone
<1>4. CASE d.status \in Gone
  BY <1>2, <1>3, <1>4 DEF CacheMoves
<1>5. CASE d.status \notin Gone
  BY <1>1, <1>2, <1>3, <1>5 DEF CacheMoves
<1> QED
  BY <1>4, <1>5

LEMMA CacheAfter ==
  ASSUME IInv, NEW q \in Query, CacheMoves(q)
  PROVE  /\ cache' \in [Session -> 0..MaxGen] /\ \A s \in Session : cache'[s] <= table.gen
         /\ client.queries = {q} /\ cache'[SessionOf[q]] # 0 =>
              cache'[SessionOf[q]] = table.gen /\ table.status \notin Gone
<1>1. /\ SessionOf[q] \in Session /\ cache \in [Session -> 0..MaxGen]
      /\ \A s \in Session : cache[s] <= table.gen
      /\ client.queries = {q} /\ cache[SessionOf[q]] # 0 =>
           cache[SessionOf[q]] = table.gen /\ table.status \notin Gone
  BY ConstantsAssumption DEF IInv, OnlySession
<1>2. PICK n \in 0..MaxGen :
        /\ n <= table.gen /\ cache' \in {cache, [cache EXCEPT ![SessionOf[q]] = n]}
        /\ n # 0 /\ client.queries = {q} => n = table.gen /\ table.status \notin Gone
  BY DEF CacheMoves
<1> QED
  BY <1>1, <1>2

LEMMA StmtStep ==
  ASSUME IInv, NEW q \in Query, NEW new, stmt' = [stmt EXCEPT ![q] = new],
         UNCHANGED <<client, table, was>>, CacheMoves(q),
         reply' \in [Query -> {"ok", "error"}],
         stmt[q].at # "idle" \/ q \in client.queries,
         StmtOK(new, table, was), new.op \in client.ops \cup {"none"},
         new.at = "served" => new.call # "describe",
         new.call = "delete" => cache'[SessionOf[q]] = 0,
         client.queries = {q} /\ new.call = "cached" => new.target >= new.since,
         table.gen + Cardinality(Pending') <= client.gens
  PROVE  IInv'
<1>1. /\ stmt' \in [Query -> StmtType] /\ stmt'[q] = new
      /\ \A p \in Query \ {q} : stmt'[p] = stmt[p]
  BY DEF IInv, StmtOK
<1>2. /\ \A p \in Query : StmtOK(stmt'[p], table, was)
      /\ \A p \in Query : stmt'[p].op \in client.ops \cup {"none"}
  BY <1>1 DEF IInv
<1>3. /\ cache' \in [Session -> 0..MaxGen] /\ \A s \in Session : cache'[s] <= table.gen
      /\ client.queries = {q} /\ cache'[SessionOf[q]] # 0 =>
           cache'[SessionOf[q]] = table.gen /\ table.status \notin Gone
  BY CacheAfter
<1>4. OnlySession(q)'
  BY <1>1, <1>3 DEF IInv, OnlySession
<1>5. \A p \in Query \ {q} : OnlySession(p)'
  BY DEF IInv, OnlySession
<1> QED
  BY <1>1, <1>2, <1>3, <1>4, <1>5 DEF IInv

\* No other request to create a table is on its way afterwards.
LEMMA PendingKept ==
  ASSUME IInv, NEW q \in Query, NEW new, stmt' = [stmt EXCEPT ![q] = new],
         new.at = "sent" => new.call # "create"
  PROVE  table.gen + Cardinality(Pending') <= client.gens
<1>1. Pending' \in SUBSET Pending
  BY DEF Pending, IInv
<1>2. Cardinality(Pending') <= Cardinality(Pending)
  BY <1>1, PendingType, FS_Subset
<1>3. Pending' \in SUBSET Query
  BY <1>1 DEF Pending
<1>4. Cardinality(Pending') \in Nat /\ Cardinality(Pending) \in Nat /\ table.gen \in Nat
  BY <1>3, PendingType, GenType DEF IInv
<1>5. client.gens \in Nat /\ table.gen + Cardinality(Pending) <= client.gens
  BY ClientType, Bounds DEF IInv
<1> QED
  BY <1>2, <1>4, <1>5

LEMMA EndStep ==
  ASSUME IInv, NEW q \in Query, NEW how \in {"ok", "error"}, End(q, how), CacheMoves(q),
         UNCHANGED <<client, table, was>>, stmt[q].at # "idle"
  PROVE  IInv'
<1>1. stmt' = [stmt EXCEPT ![q] = Idle] /\ reply' \in [Query -> {"ok", "error"}]
  BY DEF End, IInv
<1>2. StmtOK(Idle, table, was)
  BY IdleStmtOK DEF IInv
<1>3. table.gen + Cardinality(Pending') <= client.gens
  BY <1>1, IdleOK, PendingKept
<1> QED
  BY <1>1, <1>2, <1>3, IdleOK, StmtStep

\* A statement sends its next request.
LEMMA SendStep ==
  ASSUME IInv, NEW q \in Query, NEW call \in {"describe", "add", "remove"},
         Send(q, stmt[q], call), CacheMoves(q), UNCHANGED <<client, table, reply, was>>,
         stmt[q].at # "idle", stmt[q].op = "insert" => call = "describe",
         call # "describe" => call = stmt[q].op,
         stmt[q].op = "drop" => Dropped(stmt[q])
  PROVE  IInv'
<1> DEFINE me == stmt[q]
           new == [me EXCEPT !.at = "sent", !.call = call, !.result = NoDescription]
<1>1. StmtOK(me, table, was) /\ me \in StmtType /\ CallsOK(me)
      /\ me.op \in client.ops \cup {"none"} /\ stmt' = [stmt EXCEPT ![q] = new]
  BY DEF IInv, StmtOK, Send
<1> HIDE DEF me
<1>2. /\ new \in StmtType /\ new.at = "sent" /\ new.call = call /\ new.op = me.op
      /\ new.index = me.index /\ new.target = me.target /\ new.since = me.since
  BY <1>1, NothingDescribed DEF StmtType
<1> HIDE DEF new
<1>3. CallsOK(new)
  BY <1>1, <1>2 DEF CallsOK, me
<1>4. Dropped(new) => table.gen > new.target \/ table.status \in Gone
  BY <1>1, <1>2 DEF Dropped, StmtOK, me
<1>5. StmtOK(new, table, was)
  BY <1>1, <1>2, <1>3, <1>4 DEF StmtOK
<1>6. table.gen + Cardinality(Pending') <= client.gens
  BY <1>1, <1>2, PendingKept
<1>7. reply' \in [Query -> {"ok", "error"}]
  BY DEF IInv
<1> QED
  BY <1>1, <1>2, <1>5, <1>6, <1>7, StmtStep

LEMMA RequestedStep == ASSUME IInv, NEW q \in Query, Requested(q) PROVE IInv'
<1>1. /\ stmt[q].at = "served" /\ stmt[q].call \notin {"describe", "cached"}
      /\ Uncache(q) \/ UNCHANGED cache
      /\ UNCHANGED <<client, table, was>>
  BY DEF Requested
<1>2. CacheMoves(q)
  BY <1>1, UncacheMoves
<1>3. CASE stmt[q].result.status = "ok"
  <2>1. Send(q, stmt[q], "describe") /\ UNCHANGED reply
    BY <1>3 DEF Requested
  <2>2. stmt[q].op = "drop" => Dropped(stmt[q])
    BY <1>1, <1>3 DEF Dropped
  <2> QED
    BY <1>1, <1>2, <2>1, <2>2, SendStep
<1>4. CASE stmt[q].result.status # "ok"
  <2>1. End(q, "error")
    BY <1>4 DEF Requested
  <2> QED
    BY <1>1, <1>2, <2>1, EndStep
<1> QED
  BY <1>3, <1>4

LEMMA AlteringStep == ASSUME IInv, NEW q \in Query, Altering(q) PROVE IInv'
<1>1. /\ stmt[q].at = "served" /\ stmt[q].call = "describe" /\ stmt[q].op \in {"add", "remove"}
      /\ Store(q, stmt[q].result) /\ UNCHANGED <<client, table, was>>
  BY DEF Altering
<1>2. CacheMoves(q)
  BY <1>1, StoreMoves
<1>3. CASE stmt[q].result.status = "none"
  <2>1. End(q, "error")
    BY <1>3 DEF Altering
  <2> QED
    BY <1>1, <1>2, <2>1, EndStep
<1>4. CASE stmt[q].result.status # "none"
  <2> DEFINE call == stmt[q].op
  <2>1. Send(q, stmt[q], call) /\ UNCHANGED reply
    BY <1>4 DEF Altering
  <2>2. call \in {"describe", "add", "remove"} /\ call = stmt[q].op
    BY <1>1
  <2> QED
    BY <1>1, <1>2, <2>1, <2>2, SendStep
<1> QED
  BY <1>3, <1>4

LEMMA PolledStep == ASSUME IInv, NEW q \in Query, Polled(q) PROVE IInv'
<1>1. /\ stmt[q].at = "served" /\ stmt[q].call = "describe" /\ stmt[q].op # "insert"
      /\ Store(q, stmt[q].result) /\ UNCHANGED <<client, table, was>>
      /\ \/ \E how \in {"ok", "error"} : End(q, how)
         \/ stmt' = [stmt EXCEPT ![q].at = "asleep"] /\ UNCHANGED reply
  BY DEF Polled
<1>2. CacheMoves(q)
  BY <1>1, StoreMoves
<1>3. CASE \E how \in {"ok", "error"} : End(q, how)
  BY <1>1, <1>2, <1>3, EndStep
<1>4. CASE stmt' = [stmt EXCEPT ![q].at = "asleep"] /\ UNCHANGED reply
  <2> DEFINE me == stmt[q]
             new == [me EXCEPT !.at = "asleep"]
  <2>1. StmtOK(me, table, was) /\ me \in StmtType /\ CallsOK(me) /\ me.at = "served"
        /\ me.call = "describe" /\ me.op # "insert"
        /\ me.op \in client.ops \cup {"none"} /\ stmt' = [stmt EXCEPT ![q] = new]
    BY <1>1, <1>4 DEF IInv, StmtOK
  <2> HIDE DEF me
  <2>2. /\ new \in StmtType /\ new.at = "asleep" /\ new.call = me.call /\ new.op = me.op
        /\ new.index = me.index /\ new.target = me.target /\ new.since = me.since
    BY <2>1 DEF StmtType
  <2> HIDE DEF new
  <2>3. CallsOK(new)
    BY <2>1, <2>2 DEF CallsOK
  <2>4. Dropped(new) => table.gen > new.target \/ table.status \in Gone
    BY <2>1, <2>2 DEF Dropped, StmtOK
  <2>5. StmtOK(new, table, was)
    BY <2>1, <2>2, <2>3, <2>4 DEF StmtOK
  <2>6. table.gen + Cardinality(Pending') <= client.gens
    BY <2>1, <2>2, PendingKept
  <2>7. reply' \in [Query -> {"ok", "error"}]
    BY <1>4 DEF IInv
  <2> QED
    BY <1>1, <1>2, <2>1, <2>2, <2>5, <2>6, <2>7, StmtStep
<1> QED
  BY <1>1, <1>3, <1>4

LEMMA WakeStep == ASSUME IInv, NEW q \in Query, Wake(q) PROVE IInv'
<1>1. /\ stmt[q].at = "asleep" /\ Send(q, stmt[q], "describe")
      /\ UNCHANGED <<client, table, cache, reply, was>>
  BY DEF Wake
<1>2. CacheMoves(q)
  BY <1>1, UncacheMoves
<1>3. stmt[q].op = "drop" => Dropped(stmt[q])
  BY <1>1 DEF IInv, StmtOK, CallsOK, Dropped
<1> QED
  BY <1>1, <1>2, <1>3, SendStep

LEMMA DescribedStep == ASSUME IInv, NEW q \in Query, Described(q) PROVE IInv'
<1>1. /\ stmt[q].at = "served" /\ stmt[q].call = "describe" /\ stmt[q].op = "insert"
      /\ Store(q, stmt[q].result) /\ UNCHANGED <<client, table, was>>
  BY DEF Described
<1>2. CacheMoves(q)
  BY <1>1, StoreMoves
<1>3. CASE stmt[q].result.status = "none"
  <2>1. End(q, "error")
    BY <1>3 DEF Described
  <2> QED
    BY <1>1, <1>2, <2>1, EndStep
<1>4. CASE stmt[q].result.status # "none"
  <2> DEFINE me == stmt[q]
             d == me.result
             new == [me EXCEPT !.call = "cached", !.target = d.gen]
  <2>1. StmtOK(me, table, was) /\ me \in StmtType /\ CallsOK(me) /\ me.at = "served"
        /\ me.call = "describe" /\ me.op = "insert"
        /\ me.op \in client.ops \cup {"none"} /\ stmt' = [stmt EXCEPT ![q] = new]
    <3>1. stmt' = [stmt EXCEPT ![q].call = "cached", ![q].target = d.gen]
      BY <1>4 DEF Described
    <3>2. stmt \in [Query -> StmtType]
      BY DEF IInv
    <3>3. stmt' = [stmt EXCEPT ![q] = new]
      BY <3>1, <3>2 DEF StmtType
    <3> QED
      BY <1>1, <3>3 DEF IInv, StmtOK
  <2>2. DescriptionOK(d, me.target, me.since, table, was)
    BY <2>1 DEF StmtOK
  <2> HIDE DEF me, d
  <2>3. d.gen \in me.target..table.gen /\ d \in Description /\ d.gen >= me.since
    BY <1>4, <2>2 DEF DescriptionOK, d, me
  <2>4. d.gen \in Nat /\ d.gen <= table.gen
    <3>1. d.gen \in 0..MaxGen
      BY <2>3 DEF Description
    <3>2. table.gen \in Nat /\ me.target \in Nat
      BY <2>1, GenType DEF IInv, StmtType
    <3> QED
      BY <2>3, <3>1, <3>2, Bounds
  <2>5. /\ new \in StmtType /\ new.at = "served" /\ new.call = "cached" /\ new.op = "insert"
        /\ new.index = me.index /\ new.target = d.gen /\ new.since = me.since
    BY <2>1, <2>4 DEF StmtType
  <2> HIDE DEF new
  <2>6. CallsOK(new) /\ ~Dropped(new)
    BY <2>1, <2>5 DEF CallsOK, Dropped
  <2>7. StmtOK(new, table, was)
    BY <2>1, <2>4, <2>5, <2>6 DEF StmtOK
  <2>8. table.gen + Cardinality(Pending') <= client.gens
    BY <2>1, <2>5, PendingKept
  <2>9. reply' \in [Query -> {"ok", "error"}]
    BY <1>4 DEF IInv, Described
  <2> QED
    BY <1>1, <1>2, <2>1, <2>3, <2>5, <2>7, <2>8, <2>9, StmtStep
<1> QED
  BY <1>3, <1>4

LEMMA InsertStep == ASSUME IInv, NEW q \in Query, Insert(q) PROVE IInv'
<1>1. stmt[q].at = "served" /\ End(q, "ok") /\ UNCHANGED <<client, table, cache, was>>
  BY DEF Insert
<1> QED
  BY <1>1, UncacheMoves, EndStep

LEMMA FailStep == ASSUME IInv, NEW q \in Query, Fail(q) PROVE IInv'
<1>1. /\ stmt[q].at # "idle" /\ End(q, "error") /\ UNCHANGED <<client, table, was>>
      /\ Uncache(q) \/ UNCHANGED cache
  BY DEF Fail
<1> QED
  BY <1>1, UncacheMoves, EndStep

\* The requests to create a table that are on their way are of statements under way, and
\* one more of them is what Start's guard allows for.
LEMMA PendingStarted ==
  ASSUME IInv, NEW q \in Query, NEW new, stmt' = [stmt EXCEPT ![q] = new],
         table.gen + Cardinality({p \in Query : stmt[p].op = "create"}) < client.gens
  PROVE  table.gen + Cardinality(Pending') <= client.gens
<1> DEFINE C == {p \in Query : stmt[p].op = "create"}
<1>1. /\ C \in SUBSET Query /\ IsFiniteSet(C) /\ Cardinality(C) \in Nat
      /\ Pending' \in SUBSET Query /\ Cardinality(Pending') \in Nat
      /\ IsFiniteSet(C \cup {q})
  BY PendingType DEF Pending
<1>2. Pending \subseteq C
  BY DEF IInv, StmtOK, CallsOK, StmtType, Op, Pending
<1>3. Pending' \subseteq Pending \cup {q}
  BY DEF Pending, IInv
<1> HIDE DEF C
<1>4. Pending' \subseteq C \cup {q}
  BY <1>2, <1>3
<1>5. Cardinality(Pending') <= Cardinality(C \cup {q})
  BY <1>1, <1>4, FS_Subset
<1>6. Cardinality(C \cup {q}) \in {Cardinality(C), Cardinality(C) + 1}
  BY <1>1, FS_AddElement
<1>7. table.gen \in Nat /\ client.gens \in Nat
  BY ClientType, Bounds, GenType DEF IInv
<1>8. table.gen + Cardinality(C) < client.gens
  BY DEF C
<1> QED
  BY <1>1, <1>5, <1>6, <1>7, <1>8

LEMMA StartStep ==
  ASSUME IInv, NEW q \in Query, NEW op \in {"create", "drop", "add", "remove", "insert"},
         NEW i \in Index, Start(q, op, i)
  PROVE  IInv'
<1> DEFINE me == [Idle EXCEPT !.op = op, !.index = i, !.since = Since]
           hit == op = "insert" /\ cache[SessionOf[q]] # 0
           call == IF op = "create" THEN "create" ELSE IF op = "drop" THEN "delete"
                   ELSE "describe"
           sent == [me EXCEPT !.at = "sent", !.call = call, !.result = NoDescription]
           cached == [me EXCEPT !.at = "served", !.call = "cached",
                                !.target = cache[SessionOf[q]]]
<1>1. /\ stmt[q].at = "idle" /\ q \in client.queries /\ op \in client.ops
      /\ UNCHANGED <<client, table, reply, was>>
      /\ op = "create" =>
           table.gen + Cardinality({p \in Query : stmt[p].op = "create"}) < client.gens
  BY DEF Start
<1>2. /\ hit => stmt' = [stmt EXCEPT ![q] = cached] /\ UNCHANGED cache
      /\ ~hit => stmt' = [stmt EXCEPT ![q] = sent]
      /\ IF op \in {"create", "drop"} THEN Uncache(q) ELSE UNCHANGED cache
  BY DEF Start, Send
<1>3. /\ table.gen \in Nat /\ Since \in Nat /\ SinceOf(table) \in Nat /\ Since = SinceOf(table)
      /\ cache \in [Session -> 0..MaxGen] /\ cache[SessionOf[q]] \in Nat
      /\ cache[SessionOf[q]] <= table.gen
  <2>1. /\ table.gen \in Nat /\ SinceOf(table) \in Nat
        /\ cache \in [Session -> 0..MaxGen] /\ \A s \in Session : cache[s] <= table.gen
    BY GenType DEF IInv
  <2>2. SessionOf[q] \in Session
    BY ConstantsAssumption
  <2>3. cache[SessionOf[q]] \in Nat
    BY <2>1, <2>2, Bounds
  <2> QED
    BY <2>1, <2>2, <2>3 DEF Since, SinceOf
<1>4. /\ me \in StmtType /\ me.op = op /\ me.index = i /\ me.since = Since /\ me.target = 0
  <2>1. op \in Op /\ i \in Index \cup {Idle.index}
    BY DEF Op
  <2> QED
    BY <1>3, <2>1, IdleOK DEF StmtType
<1> HIDE DEF me
<1>5. /\ sent \in StmtType /\ sent.op = op /\ sent.index = i /\ sent.since = Since
      /\ sent.target = 0 /\ sent.at = "sent" /\ sent.call = call
  <2>1. call \in {"create", "delete", "describe"}
    OBVIOUS
  <2> HIDE DEF call
  <2> QED
    BY <1>4, <2>1, NothingDescribed DEF StmtType
<1>6. /\ cached \in StmtType /\ cached.op = op /\ cached.index = i /\ cached.since = Since
      /\ cached.target = cache[SessionOf[q]] /\ cached.at = "served" /\ cached.call = "cached"
  BY <1>3, <1>4 DEF StmtType
<1> HIDE DEF sent, cached
<1>7. CacheMoves(q)
  BY <1>2, UncacheMoves
<1>8. reply' \in [Query -> {"ok", "error"}]
  BY <1>1 DEF IInv
<1>9. CASE hit
  <2>1. CallsOK(cached) /\ ~Dropped(cached)
    BY <1>6, <1>9 DEF CallsOK, Dropped
  <2>2. StmtOK(cached, table, was)
    BY <1>3, <1>6, <2>1 DEF StmtOK
  <2>3. table.gen + Cardinality(Pending') <= client.gens
    BY <1>2, <1>6, <1>9, PendingKept
  <2>4. client.queries = {q} => cached.target >= cached.since
    <3>1. client.queries = {q} => cache[SessionOf[q]] = table.gen /\ table.status \notin Gone
      BY <1>9 DEF IInv, OnlySession
    <3> QED
      BY <1>3, <1>6, <3>1 DEF SinceOf, Gone
  <2> QED
    BY <1>1, <1>2, <1>6, <1>7, <1>8, <1>9, <2>2, <2>3, <2>4, StmtStep
<1>10. CASE ~hit
  <2>1. CallsOK(sent) /\ ~Dropped(sent)
    BY <1>5 DEF CallsOK, Dropped
  <2>2. StmtOK(sent, table, was)
    BY <1>3, <1>5, <2>1 DEF StmtOK
  <2>3. table.gen + Cardinality(Pending') <= client.gens
    <3>1. CASE op = "create"
      BY <1>1, <1>2, <1>10, <3>1, PendingStarted
    <3>2. CASE op # "create"
      BY <1>2, <1>5, <1>10, <3>2, PendingKept
    <3> QED
      BY <3>1, <3>2
  <2>4. sent.call = "delete" => cache'[SessionOf[q]] = 0
    <3>1. sent.call = "delete" => op = "drop"
      BY <1>5
    <3>2. SessionOf[q] \in Session
      BY ConstantsAssumption
    <3> QED
      BY <1>2, <1>3, <3>1, <3>2 DEF Uncache
  <2>5. sent.call # "cached"
    BY <1>5
  <2> QED
    BY <1>1, <1>2, <1>5, <1>7, <1>8, <1>10, <2>2, <2>3, <2>4, <2>5, StmtStep
<1> QED
  BY <1>9, <1>10

LEMMA NextStep == IInv /\ [Next]_vars => IInv'
<1> SUFFICES ASSUME IInv, [Next]_vars PROVE IInv'
  OBVIOUS
<1>1. CASE TableSettles \/ \E i \in Index : IndexSettles(i)
  BY <1>1, SettlesStep
<1>2. CASE \E q \in Query : Step(q) \/ Fail(q)
  BY <1>2, ServeStep, RequestedStep, AlteringStep, PolledStep, WakeStep, DescribedStep,
     InsertStep, FailStep DEF Step
<1>3. CASE \E q \in Query, op \in {"create", "drop", "add", "remove", "insert"}, i \in Index :
             Start(q, op, i)
  BY <1>3, StartStep
<1>4. CASE UNCHANGED vars
  <2>1. Pending' = Pending
    BY <1>4 DEF vars, Pending
  <2>2. \A q \in Query : OnlySession(q)' <=> OnlySession(q)
    BY <1>4 DEF vars, OnlySession
  <2> QED
    BY <1>4, <2>1, <2>2 DEF vars, IInv
<1> QED
  BY <1>1, <1>2, <1>3, <1>4 DEF Next

LEMMA Invariance == Spec => []IInv
<1> QED
  BY InitHolds, NextStep, PTL DEF Spec

-----------------------------------------------------------------------------
(* What statements promise *)

\* The types of the model, TypeOK; and that a table that is gone or in the making has no
\* index, that every statement is of a kind its client sends, and that none refers to a
\* table that was not made yet.
THEOREM TypeCorrect == Spec => []TypeOK
<1>1. IInv => TypeOK
  <2> SUFFICES ASSUME IInv PROVE TypeOK
    OBVIOUS
  <2>1. was \in SUBSET (Gen \X (Index \cup {"table"}))
    BY DEF IInv, TableOK, WasType
  <2>2. \A q \in Query :
          /\ stmt[q].op \in client.ops \cup {"none"} /\ (stmt[q].op = "none" <=> stmt[q].at = "idle")
          /\ stmt[q].at \in {"idle", "sent", "served", "asleep"}
          /\ stmt[q].result \in Description
          /\ stmt[q].target <= table.gen
    BY DEF IInv, StmtOK, CallsOK, StmtType
  <2> QED
    BY <2>1, <2>2 DEF TypeOK, IInv, TableOK
<1> QED
  BY <1>1, Invariance, PTL

\* UsesCurrentKey (getTableCached, and the session's table cache that CREATE and DROP TABLE
\* clear): while one session alone changes the table, the INSERT of that session takes the
\* key schema of a table that was there when the statement began, or of a later one.
THEOREM AlwaysCurrentKey == Spec => []UsesCurrentKey
<1>1. IInv => \A q \in Query : stmt[q].call = "cached" /\ client.queries = {q} =>
                stmt[q].target >= stmt[q].since
  BY DEF IInv, OnlySession
<1>2. TypeOK /\ IInv => UsesCurrentKey
  BY <1>1 DEF UsesCurrentKey
<1> QED
  BY <1>2, TypeCorrect, Invariance, PTL

\* Only the last poll of a statement, or the end of an INSERT, reports success.
LEMMA WhoReports ==
  ASSUME IInv, Next, NEW q \in Query, stmt'[q].at = "idle", stmt[q].at # "idle",
         reply'[q] = "ok"
  PROVE  Insert(q) \/ (Polled(q) /\ End(q, "ok"))
<1>1. stmt \in [Query -> StmtType] /\ reply \in [Query -> {"ok", "error"}]
  BY DEF IInv
<1>2. ~TableSettles /\ \A i \in Index : ~IndexSettles(i)
  BY DEF TableSettles, IndexSettles
<1>3. \A p \in Query, op \in {"create", "drop", "add", "remove", "insert"}, i \in Index :
        ~Start(p, op, i)
  <2> SUFFICES ASSUME NEW p \in Query,
                      NEW op \in {"create", "drop", "add", "remove", "insert"},
                      NEW i \in Index, Start(p, op, i)
               PROVE  FALSE
    OBVIOUS
  <2>1. stmt[p].at = "idle" /\ \E new : stmt' = [stmt EXCEPT ![p] = new]
    BY DEF Start, Send
  <2> QED
    BY <1>1, <2>1
<1>4. ~End(q, "error")
  BY <1>1 DEF End
<1>5. ASSUME NEW p \in Query, Step(p) \/ Fail(p) PROVE p = q
  <2>1. \E new : stmt' = [stmt EXCEPT ![p] = new]
    <3>1. ASSUME Serve(p) PROVE \E new : stmt' = [stmt EXCEPT ![p] = new]
      <4>1. PICK e \in {Effect(stmt[p].call, stmt[p].index)} :
              stmt' = [stmt EXCEPT ![p].at = "served", ![p].result = e.answer,
                ![p].target = IF stmt[p].call = "describe" THEN @ ELSE e.table.gen]
        BY <3>1 DEF Serve
      <4> QED
        BY <4>1
    <3>2. ASSUME Described(p) PROVE \E new : stmt' = [stmt EXCEPT ![p] = new]
      BY <3>2 DEF Described, End
    <3> QED
      BY <1>5, <3>1, <3>2 DEF Step, Requested, Altering, Polled, Wake, Insert, Fail, Send, End
  <2> QED
    BY <1>1, <2>1
<1>6. Step(q) \/ Fail(q)
  BY <1>2, <1>3, <1>5 DEF Next
<1>7. \A rec, call : ~Send(q, rec, call)
  <2> SUFFICES ASSUME NEW rec, NEW call, Send(q, rec, call) PROVE FALSE
    OBVIOUS
  <2> QED
    BY <1>1 DEF Send
<1>8. ~Serve(q)
  <2> SUFFICES ASSUME Serve(q) PROVE FALSE
    OBVIOUS
  <2> DEFINE e == Effect(stmt[q].call, stmt[q].index)
             target == IF stmt[q].call = "describe" THEN stmt[q].target ELSE e.table.gen
             new == [stmt[q] EXCEPT !.at = "served", !.result = e.answer, !.target = target]
  <2>1. stmt' = [stmt EXCEPT ![q] = new]
    BY <1>1 DEF Serve, StmtType
  <2> HIDE DEF e, target
  <2>2. stmt[q] \in StmtType
    BY <1>1
  <2>3. new.at = "served"
    BY <2>2 DEF StmtType
  <2> HIDE DEF new
  <2> QED
    BY <1>1, <2>1, <2>3
<1>9. ~Requested(q) /\ ~Altering(q) /\ ~Wake(q) /\ ~Fail(q)
  BY <1>4, <1>7 DEF Requested, Altering, Wake, Fail
<1>10. ~Described(q)
  BY ZenonT(40), <1>1, <1>4 DEF Described, StmtType
<1>11. Polled(q) => End(q, "ok")
  <2>1. ~(stmt' = [stmt EXCEPT ![q].at = "asleep"])
    BY <1>1 DEF StmtType
  <2> QED
    BY <1>4, <2>1 DEF Polled
<1> QED
  BY <1>6, <1>8, <1>9, <1>10, <1>11 DEF Step

\* EffectReported (_waitForTable): a statement reports success only when the table has come
\* to what it was for.  A CREATE TABLE has seen the table that it made, or a later one, which
\* then has been ACTIVE; a DROP TABLE has seen that there is no table, or a later one that is
\* not the one it deleted; an ADD INDEX has seen the index ACTIVE.
THEOREM AlwaysEffectReported == Spec => EffectReported
<1> DEFINE Reported(q) ==
      /\ stmt[q].op = "create" => <<stmt[q].target, "table">> \in was
      /\ stmt[q].op = "drop" => table.gen > stmt[q].target \/ table.status = "none"
      /\ stmt[q].op = "add" =>
           \E g \in Gen : g >= stmt[q].target /\ <<g, stmt[q].index>> \in was
<1>1. ASSUME IInv, Next, NEW q \in Query, stmt'[q].at = "idle", stmt[q].at # "idle",
             reply'[q] = "ok"
      PROVE  Reported(q)
  <2>1. Insert(q) \/ (Polled(q) /\ End(q, "ok"))
    BY <1>1, WhoReports
  <2>2. CASE Insert(q)
    <3>1. stmt[q].call = "cached" /\ CallsOK(stmt[q])
      BY <1>1, <2>2 DEF IInv, StmtOK, Insert
    <3>2. stmt[q].op \notin {"create", "drop", "add"}
      BY <3>1 DEF CallsOK
    <3> QED
      BY <3>2
  <2>3. CASE Polled(q) /\ End(q, "ok")
    <3> DEFINE d == stmt[q].result
               target == stmt[q].target
    <3>1. /\ stmt[q].at = "served" /\ stmt[q].call = "describe" /\ target # 0
          /\ DescriptionOK(d, target, stmt[q].since, table, was)
          /\ TableOK(table, was) /\ stmt[q] \in StmtType /\ StmtOK(stmt[q], table, was)
      BY <1>1, <2>3 DEF Polled, IInv, StmtOK
    <3>2. /\ d.status = "none" => stmt[q].op = "drop"
          /\ d.status # "none" => d.status \notin Busy
          /\ stmt[q].op = "add" => d.index[stmt[q].index] = "ACTIVE"
      <4>1. ~End(q, "error")
        BY <1>1 DEF End, IInv
      <4>2. ~(stmt' = [stmt EXCEPT ![q].at = "asleep"])
        BY <1>1 DEF IInv, StmtType
      <4>3. \/ d.status = "none" /\ stmt[q].op = "drop"
            \/ d.status # "none" /\ ~Unsettled(d, stmt[q].op \in {"add", "remove"}, stmt[q].index)
        BY <2>3, <4>1, <4>2, Zenon DEF Polled
      <4> QED
        BY <4>3 DEF Unsettled
    <3>3. d.status \in Busy \cup {"none", "ACTIVE"} /\ d \in Description
      BY <3>1 DEF DescriptionOK, Description
    <3>4. /\ table.gen \in Nat /\ target \in Nat /\ d.gen \in Nat
          /\ target <= d.gen /\ d.gen <= table.gen /\ d.gen \in 0..MaxGen /\ target >= 1
      <4>1. table.gen \in Nat /\ target \in Nat
        BY <3>1, GenType DEF StmtType
      <4>2. d.gen \in target..table.gen /\ d.gen \in 0..MaxGen
        BY <3>1 DEF DescriptionOK, Description
      <4> HIDE DEF d, target
      <4> QED
        BY <3>1, <4>1, <4>2, Bounds
    <3>5. stmt[q].op = "create" => <<target, "table">> \in was
      <4> SUFFICES ASSUME stmt[q].op = "create" PROVE <<target, "table">> \in was
        OBVIOUS
      <4>1. <<d.gen, "table">> \in was
        BY <3>1, <3>2, <3>3 DEF DescriptionOK
      <4>2. target \in 1..table.gen
        BY <3>4
      <4>3. <<target, "table">> \in was \/ target = table.gen
        BY <3>1, <4>2 DEF TableOK
      <4> HIDE DEF d, target
      <4>4. target = table.gen => d.gen = target
        BY <3>4
      <4> QED
        BY <4>1, <4>3, <4>4
    <3>6. stmt[q].op = "drop" => table.gen > target \/ table.status = "none"
      <4> SUFFICES ASSUME stmt[q].op = "drop"
                   PROVE  table.gen > target \/ table.status = "none"
        OBVIOUS
      <4>1. d.gen > target \/ d.status \in Gone
        BY <3>1 DEF StmtOK, Dropped
      <4>2. d.status \in Gone => d.status = "none"
        BY <3>2 DEF Gone, Busy
      <4>3. d.status = "none" => table.status = "none" \/ table.gen > d.gen
        BY <3>1 DEF DescriptionOK
      <4> HIDE DEF d, target
      <4> QED
        BY <3>4, <4>1, <4>2, <4>3
    <3>7. stmt[q].op = "add" => \E g \in Gen : g >= target /\ <<g, stmt[q].index>> \in was
      <4> SUFFICES ASSUME stmt[q].op = "add"
                   PROVE  \E g \in Gen : g >= target /\ <<g, stmt[q].index>> \in was
        OBVIOUS
      <4>1. stmt[q].index \in Index
        BY <3>1 DEF StmtOK, CallsOK
      <4>2. d.gen >= 1 /\ <<d.gen, stmt[q].index>> \in was
        BY <3>1, <3>2, <4>1 DEF DescriptionOK
      <4>3. d.gen \in Gen /\ d.gen >= target
        BY <3>4, <4>2, Bounds DEF Gen
      <4> QED
        BY <4>2, <4>3
    <3> QED
      BY <3>5, <3>6, <3>7
  <2> QED
    BY <2>1, <2>2, <2>3
<1>2. IInv /\ [Next]_vars =>
        [\A q \in Query : stmt'[q].at = "idle" /\ stmt[q].at # "idle" /\ reply'[q] = "ok" =>
           Reported(q)]_vars
  BY <1>1 DEF vars
<1> QED
  BY <1>2, Invariance, PTL DEF Spec, EffectReported
=============================================================================
