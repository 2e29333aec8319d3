--------------------------- MODULE SchemaDDLProofs ---------------------------
(***************************************************************************)
(* Proofs about SchemaDDL for every set of sessions, databases and names   *)
(* and any number of statements: what is listed is stored, nothing else is *)
(* stored, and no row of a dropped table returns.                          *)
(*                                                                         *)
(* A table and its entry in the catalog change at different times: the     *)
(* engine's table when the statement is called, the entry in a microtask.  *)
(* What the catalog will say is therefore in the queue, and the invariants *)
(* speak of the statements that wait there and of their order.             *)
(***************************************************************************)
EXTENDS SchemaDDL, TLAPS

-----------------------------------------------------------------------------
(* Types *)

At == {"idle", "selecting", "creating", "dropping", "dropping table of db", "installing", "clearing"}
StmtType == [at : At, id : Nat, d : Database \cup {Idle.d}, n : Name \cup {Idle.n}, sch : Nat,
             temp : BOOLEAN, as : BOOLEAN]
TxData == UNION {[K -> SUBSET Id] : K \in SUBSET Key}
TxType == [open : BOOLEAN, auto : BOOLEAN, data : TxData]

Quiet == {"idle", "selecting"}

Types ==
  /\ client \in Client
  /\ Maps(schemaMap, Database, DOMAIN tables) /\ DOMAIN tables \subseteq Id
  /\ \A i \in DOMAIN tables : Maps(tables[i], Name, Entry)
  /\ Maps(tableMap, Key, Data)
  /\ DOMAIN temp = Session /\ \A s \in Session : Maps(temp[s], Key, Data)
  /\ tx \in [Session -> TxType]
  /\ jobs \in Seq(Session)
  /\ stmt \in [Session -> StmtType]
  /\ clock \in 0..MaxStmt
  /\ reply \in [Session -> {"ok", "error"}]

-----------------------------------------------------------------------------
(* The queue *)

Ahead(q, a, b) == \E i, j \in DOMAIN q : i < j /\ q[i] = a /\ q[j] = b
Waits(q, s) == \E i \in DOMAIN q : q[i] = s
Distinct(q) == \A i, j \in DOMAIN q : i # j => q[i] # q[j]

\* The job of a is in the queue before that of b.
Before(a, b) == Ahead(jobs, a, b)

\* Each session that is not idle and does not wait for the network has one job.
Queue == Distinct(jobs) /\ \A s \in Session : Waits(jobs, s) <=> stmt[s].at \notin Quiet

\* What a statement that waits will do to the entry lc of the object sch.
Creates(s, sch, lc) ==
  stmt[s].at = "creating" /\ ~stmt[s].temp /\ stmt[s].sch = sch /\ Lower[stmt[s].n] = lc
Drops(s, sch, lc) ==
  /\ stmt[s].sch = sch
  /\ \/ stmt[s].at = "dropping" /\ Lower[stmt[s].n] = lc
     \/ stmt[s].at = "dropping table of db" /\ stmt[s].n = lc
Touches(s, sch, lc) == Creates(s, sch, lc) \/ Drops(s, sch, lc)

-----------------------------------------------------------------------------
(* The catalog *)

\* What a statement under way remembers of the catalog.
OwnedBy(s) ==
  /\ stmt[s].sch \in DOMAIN tables \cup {0} /\ stmt[s].id <= clock
  /\ stmt[s].at \in {"selecting", "creating"} => stmt[s].id \in Id
  /\ stmt[s].at \in {"selecting", "creating", "dropping", "dropping table of db"} =>
       stmt[s].d \in Database /\ stmt[s].n \in Name
  /\ stmt[s].at = "creating" /\ ~stmt[s].temp => stmt[s].sch # 0
  /\ stmt[s].at \in {"dropping", "dropping table of db"} => stmt[s].sch # 0
  /\ stmt[s].at \in {"creating", "dropping", "dropping table of db"} =>
       \A d \in DOMAIN schemaMap : schemaMap[d] = stmt[s].sch => d = stmt[s].d

\* A database's object is its own and is as new as its CREATE DATABASE.
Owned ==
  /\ DOMAIN schemaMap \cap BuiltIn = {}
  /\ \A c, d \in DOMAIN schemaMap : schemaMap[c] = schemaMap[d] => c = d
  /\ \A i \in DOMAIN tables : i <= clock
  /\ \A s \in Session : OwnedBy(s)

\* An entry is kept under the lower-case name of its table.
Named == \A i \in DOMAIN tables : \A lc \in DOMAIN tables[i] : Lower[tables[i][lc].table] = lc

\* A session that drops a database has no temporary table in it.
TempGone ==
  \A s \in Session : stmt[s].at = "dropping table of db" =>
    \A k \in DOMAIN temp[s] : k[1] # stmt[s].d

\* A DROP DATABASE that has been overtaken by another one and by a CREATE DATABASE finds
\* nothing in the new database: every CREATE TABLE there is behind it.
Overtaken(s, d) ==
  stmt[s].at = "dropping table of db" /\ stmt[s].d = d /\ stmt[s].sch # schemaMap[d]
Stale ==
  \A s \in Session : \A d \in DOMAIN schemaMap : Overtaken(s, d) =>
    /\ DOMAIN tables[schemaMap[d]] = {}
    /\ \A c \in Session : \A lc \in Name : Creates(c, schemaMap[d], lc) => Before(s, c)

\* A table is created while it is not listed and dropped while it is: what waits is first
\* of the kind that the catalog shows already.
Alternates ==
  \A i \in DOMAIN tables : \A lc \in Name : \A c, s \in Session :
    Creates(c, i, lc) /\ Drops(s, i, lc) =>
      IF lc \in DOMAIN tables[i] THEN Before(c, s) ELSE Before(s, c)

IsStored(d, n, id) == <<d, n>> \in DOMAIN tableMap /\ tableMap[<<d, n>>].gen = id

\* The last of the statements that wait for an entry has left the table as the entry will
\* say; if none waits, the table is as the entry says.
LastIsStored ==
  \A d \in DOMAIN schemaMap : \A c \in Session : \A lc \in Name :
    Creates(c, schemaMap[d], lc)
    /\ (\A s \in Session : Touches(s, schemaMap[d], lc) => s = c \/ Before(s, c)) =>
      IsStored(d, stmt[c].n, stmt[c].id)
EntryIsStored ==
  \A d \in DOMAIN schemaMap : \A lc \in DOMAIN tables[schemaMap[d]] :
    (\A s \in Session : ~Touches(s, schemaMap[d], lc)) =>
      IsStored(d, tables[schemaMap[d]][lc].table, tables[schemaMap[d]][lc].gen)

Catalog ==
  Types /\ Queue /\ Owned /\ Named /\ TempGone /\ Stale /\ Alternates
  /\ LastIsStored /\ EntryIsStored

-----------------------------------------------------------------------------
(* Names in lower case *)

\* The names that statements and the engine use are the clients'.
SpelledBy(s) ==
  /\ stmt[s].at \in {"selecting", "creating", "dropping"} => stmt[s].n \in client.names
  /\ \A k \in DOMAIN temp[s] : k[2] \in client.names
Spelled ==
  /\ \A s \in Session : SpelledBy(s)
  /\ \A i \in DOMAIN tables : \A lc \in DOMAIN tables[i] : tables[i][lc].table \in client.names
  /\ \A k \in DOMAIN tableMap : k[2] \in client.names

\* A table that is listed and stored is dropped by no statement that waits.
ListedStays ==
  LowerCase => \A k \in DOMAIN tableMap : Listed(k[1], k[2]) =>
    \A s \in Session : ~Drops(s, schemaMap[k[1]], k[2])

\* Without DROP DATABASE, a table that is stored is listed or will be.
Kept ==
  LowerCase /\ ~client.drops =>
    /\ \A s \in Session : stmt[s].at # "dropping table of db"
    /\ \A k \in DOMAIN tableMap :
         /\ k[1] \in DOMAIN schemaMap
         /\ Listed(k[1], k[2]) \/ \E c \in Session : Creates(c, schemaMap[k[1]], k[2])

Names == Spelled /\ ListedStays /\ Kept

-----------------------------------------------------------------------------
(* Rows *)

NotOlder(rows, gen) == \A r \in rows : r >= gen

\* An INSERT that waits for its commit is ahead of every statement that might drop the table.
InsertSafe(s) ==
  \A k \in DOMAIN tx[s].data :
    IF k \in DOMAIN temp[s] THEN NotOlder(tx[s].data[k], temp[s][k].gen)
    ELSE /\ Listed(k[1], k[2])
         /\ k[2] \in client.names
         /\ \A r \in Session : Drops(r, schemaMap[k[1]], k[2]) => Before(s, r)
         /\ k \in DOMAIN tableMap => NotOlder(tx[s].data[k], tableMap[k].gen)

\* A session has a transaction for as long as one INSERT.
RowsBy(s) ==
  /\ \A k \in DOMAIN temp[s] : NotOlder(temp[s][k].rows, temp[s][k].gen) /\ temp[s][k].gen <= clock
  /\ stmt[s].at \notin {"installing", "clearing"} => tx[s] = NoTx
  /\ stmt[s].at = "installing" => InsertSafe(s)

Rows ==
  ~client.begins /\ LowerCase =>
    /\ \A k \in DOMAIN tableMap :
         NotOlder(tableMap[k].rows, tableMap[k].gen) /\ tableMap[k].gen <= clock
    /\ \A s \in Session : RowsBy(s)

IInv == Catalog /\ Names /\ Rows

-----------------------------------------------------------------------------
(* Queues *)

LEMMA AheadOrder ==
  ASSUME NEW S, NEW q \in Seq(S), Distinct(q), NEW a, NEW b
  PROVE  /\ Ahead(q, a, b) => Waits(q, a) /\ Waits(q, b) /\ a # b /\ ~Ahead(q, b, a)
         /\ Waits(q, a) /\ Waits(q, b) => a = b \/ Ahead(q, a, b) \/ Ahead(q, b, a)
<1>1. DOMAIN q = 1..Len(q) /\ Len(q) \in Nat
  OBVIOUS
<1> QED
  BY <1>1 DEF Ahead, Waits, Distinct

LEMMA AheadAppend ==
  ASSUME NEW S, NEW q \in Seq(S), Distinct(q), NEW s \in S, ~Waits(q, s)
  PROVE  /\ Append(q, s) \in Seq(S) /\ Distinct(Append(q, s))
         /\ \A a : Waits(Append(q, s), a) <=> Waits(q, a) \/ a = s
         /\ \A a, b : Ahead(Append(q, s), a, b) <=> Ahead(q, a, b) \/ (Waits(q, a) /\ b = s)
<1> DEFINE w == Append(q, s)
<1>1. /\ w \in Seq(S) /\ DOMAIN q = 1..Len(q) /\ Len(q) \in Nat /\ DOMAIN w = 1..(Len(q) + 1)
      /\ w[Len(q) + 1] = s /\ \A i \in 1..Len(q) : w[i] = q[i]
  OBVIOUS
<1> HIDE DEF w
<1>2. Distinct(w)
  BY <1>1 DEF Distinct, Waits
<1>3. \A a : Waits(w, a) <=> Waits(q, a) \/ a = s
  BY <1>1 DEF Waits
<1>4. ASSUME NEW a, NEW b PROVE Ahead(w, a, b) <=> Ahead(q, a, b) \/ (Waits(q, a) /\ b = s)
  <2>1. Ahead(w, a, b) => Ahead(q, a, b) \/ (Waits(q, a) /\ b = s)
    <3> SUFFICES ASSUME NEW i \in DOMAIN w, NEW j \in DOMAIN w, i < j, w[i] = a, w[j] = b
                 PROVE  Ahead(q, a, b) \/ (Waits(q, a) /\ b = s)
      BY DEF Ahead
    <3>1. CASE j = Len(q) + 1
      BY <3>1, <1>1 DEF Waits
    <3>2. CASE j # Len(q) + 1
      BY <3>2, <1>1 DEF Ahead
    <3> QED
      BY <3>1, <3>2
  <2>2. Ahead(q, a, b) => Ahead(w, a, b)
    BY <1>1 DEF Ahead
  <2>3. Waits(q, a) /\ b = s => Ahead(w, a, b)
    <3> SUFFICES ASSUME NEW i \in DOMAIN q, q[i] = a, b = s PROVE Ahead(w, a, b)
      BY DEF Waits
    <3>1. i \in DOMAIN w /\ Len(q) + 1 \in DOMAIN w /\ i < Len(q) + 1 /\ w[i] = a /\ w[Len(q) + 1] = b
      BY <1>1
    <3> QED
      BY <3>1 DEF Ahead
  <2> QED
    BY <2>1, <2>2, <2>3
<1> QED
  BY <1>1, <1>2, <1>3, <1>4 DEF w

LEMMA AheadTail ==
  ASSUME NEW S, NEW q \in Seq(S), Distinct(q), q # <<>>
  PROVE  /\ Head(q) \in S /\ Waits(q, Head(q))
         /\ Tail(q) \in Seq(S) /\ Distinct(Tail(q))
         /\ \A a : Waits(Tail(q), a) <=> Waits(q, a) /\ a # Head(q)
         /\ \A a, b : Ahead(Tail(q), a, b) <=> Ahead(q, a, b) /\ a # Head(q)
         /\ \A b : Waits(q, b) /\ b # Head(q) => Ahead(q, Head(q), b)
<1> DEFINE w == Tail(q)
           h == Head(q)
<1>1. /\ w \in Seq(S) /\ DOMAIN q = 1..Len(q) /\ Len(q) \in Nat \ {0} /\ DOMAIN w = 1..(Len(q) - 1)
      /\ h = q[1] /\ h \in S /\ \A i \in 1..(Len(q) - 1) : w[i] = q[i + 1]
  OBVIOUS
<1> HIDE DEF w, h
<1>2. \A i \in DOMAIN q : q[i] = h <=> i = 1
  BY <1>1 DEF Distinct
<1>3. Distinct(w)
  <2> SUFFICES ASSUME NEW i \in DOMAIN w, NEW j \in DOMAIN w, i # j PROVE w[i] # w[j]
    BY DEF Distinct
  <2>1. i + 1 \in DOMAIN q /\ j + 1 \in DOMAIN q /\ i + 1 # j + 1
    BY <1>1
  <2>2. q[i + 1] # q[j + 1]
    BY <2>1 DEF Distinct
  <2>3. w[i] = q[i + 1] /\ w[j] = q[j + 1]
    BY <1>1
  <2> QED
    BY <2>2, <2>3, Zenon
<1>4. ASSUME NEW a PROVE Waits(w, a) <=> Waits(q, a) /\ a # h
  <2>1. ASSUME NEW i \in DOMAIN w, w[i] = a PROVE Waits(q, a) /\ a # h
    <3>1. i + 1 \in DOMAIN q /\ q[i + 1] = a /\ i + 1 # 1
      BY <2>1, <1>1
    <3> QED
      BY <3>1, <1>2 DEF Waits
  <2>2. ASSUME NEW i \in DOMAIN q, q[i] = a, a # h PROVE Waits(w, a)
    <3>1. i - 1 \in DOMAIN w /\ w[i - 1] = a
      BY <2>2, <1>1
    <3> QED
      BY <3>1 DEF Waits
  <2> QED
    BY <2>1, <2>2 DEF Waits
<1>5. ASSUME NEW a, NEW b PROVE Ahead(w, a, b) <=> Ahead(q, a, b) /\ a # h
  <2>1. ASSUME NEW i \in DOMAIN w, NEW j \in DOMAIN w, i < j, w[i] = a, w[j] = b
        PROVE  Ahead(q, a, b) /\ a # h
    <3>1. i + 1 \in DOMAIN q /\ j + 1 \in DOMAIN q /\ i + 1 < j + 1 /\ q[i + 1] = a /\ q[j + 1] = b
          /\ i + 1 # 1
      BY <2>1, <1>1
    <3> QED
      BY <3>1, <1>2 DEF Ahead
  <2>2. ASSUME NEW i \in DOMAIN q, NEW j \in DOMAIN q, i < j, q[i] = a, q[j] = b, a # h
        PROVE  Ahead(w, a, b)
    <3>1. i - 1 \in DOMAIN w /\ j - 1 \in DOMAIN w /\ i - 1 < j - 1 /\ w[i - 1] = a /\ w[j - 1] = b
      BY <2>2, <1>1
    <3> QED
      BY <3>1 DEF Ahead
  <2> QED
    BY <2>1, <2>2 DEF Ahead
<1>6. ASSUME NEW b, Waits(q, b), b # h PROVE Ahead(q, h, b)
  BY <1>1, <1>6 DEF Waits, Ahead
<1>7. Waits(q, h)
  BY <1>1 DEF Waits
<1> QED
  BY <1>1, <1>3, <1>4, <1>5, <1>6, <1>7 DEF w, h

-----------------------------------------------------------------------------
(* Maps *)

LEMMA WithOne ==
  ASSUME NEW k, NEW v
  PROVE  DOMAIN With(Empty, k, v) = {k} /\ With(Empty, k, v)[k] = v
BY DEF With, Empty

LEMMA WithoutIs ==
  ASSUME NEW f, NEW k
  PROVE  /\ DOMAIN Without(f, k) = DOMAIN f \ {k}
         /\ \A j \in DOMAIN f : j # k => Without(f, k)[j] = f[j]
BY DEF Without

LEMMA MapsWith ==
  ASSUME NEW f, NEW D, NEW R, Maps(f, D, R), NEW k \in D, NEW v \in R
  PROVE  Maps(With(f, k, v), D, R)
BY DEF Maps, With

LEMMA MapsWithout ==
  ASSUME NEW f, NEW D, NEW R, Maps(f, D, R), NEW k
  PROVE  Maps(Without(f, k), D, R)
BY DEF Maps, Without

LEMMA MapsEmpty ==
  ASSUME NEW D, NEW R
  PROVE  Maps(Empty, D, R) /\ DOMAIN Empty = {}
BY DEF Maps, Empty

LEMMA TxDataIs ==
  ASSUME NEW data \in TxData
  PROVE  Maps(data, Key, SUBSET Id)
BY DEF TxData, Maps

LEMMA TxDataWith ==
  ASSUME NEW data \in TxData, NEW k \in Key, NEW rows \in SUBSET Id
  PROVE  With(data, k, rows) \in TxData
<1>1. PICK K \in SUBSET Key : data \in [K -> SUBSET Id]
  BY DEF TxData
<1>2. With(data, k, rows) \in [K \cup {k} -> SUBSET Id] /\ K \cup {k} \in SUBSET Key
  BY <1>1 DEF With
<1> QED
  BY <1>2 DEF TxData

LEMMA NoTxType == NoTx \in TxType /\ Empty \in TxData
<1>1. Empty \in [{} -> SUBSET Id]
  BY DEF Empty
<1>2. Empty \in TxData
  BY <1>1 DEF TxData
<1> QED
  BY <1>2 DEF NoTx, TxType

LEMMA IdleType == Idle \in StmtType
BY DEF Idle, StmtType, At

-----------------------------------------------------------------------------
(* What a step of s does to the queue *)

\* The other jobs keep their order, and the job of s is the last if there is one.
Moves(s) ==
  /\ Queue'
  /\ \A r \in Session \ {s} : stmt'[r] = stmt[r]
  /\ \A a, b \in Session \ {s} : Ahead(jobs', a, b) <=> Before(a, b)
  /\ stmt'[s].at \notin Quiet =>
       \A r \in Session \ {s} : stmt[r].at \notin Quiet => Ahead(jobs', r, s)

\* The job of s is the first.
IsFirst(s) == \A r \in Session \ {s} : stmt[r].at \notin Quiet => Before(s, r)

\* The two ways in which a step ends.
Ends(s, rest) == jobs' = rest /\ stmt'[s].at \in Quiet
Waiting(s, rest) == jobs' = Append(rest, s) /\ stmt'[s].at \notin Quiet

LEMMA InOrder ==
  ASSUME Types, Queue, NEW a \in Session, NEW b \in Session
  PROVE  /\ Before(a, b) => stmt[a].at \notin Quiet /\ stmt[b].at \notin Quiet /\ a # b /\ ~Before(b, a)
         /\ stmt[a].at \notin Quiet /\ stmt[b].at \notin Quiet => a = b \/ Before(a, b) \/ Before(b, a)
<1>1. jobs \in Seq(Session) /\ Distinct(jobs)
  BY DEF Types, Queue
<1>2. /\ Ahead(jobs, a, b) => Waits(jobs, a) /\ Waits(jobs, b) /\ a # b /\ ~Ahead(jobs, b, a)
      /\ Waits(jobs, a) /\ Waits(jobs, b) => a = b \/ Ahead(jobs, a, b) \/ Ahead(jobs, b, a)
  BY <1>1, AheadOrder
<1> QED
  BY <1>2 DEF Before, Queue

LEMMA CallMoves ==
  ASSUME Types, Queue, NEW s \in Session, stmt[s].at \in Quiet,
         \A r \in Session \ {s} : stmt'[r] = stmt[r],
         Ends(s, jobs) \/ Waiting(s, jobs)
  PROVE  Moves(s)
<1>1. jobs \in Seq(Session) /\ Distinct(jobs) /\ ~Waits(jobs, s)
      /\ \A r \in Session : Waits(jobs, r) <=> stmt[r].at \notin Quiet
  BY DEF Types, Queue
<1>2. CASE Ends(s, jobs)
  <2>1. jobs' = jobs /\ stmt'[s].at \in Quiet
    BY <1>2 DEF Ends
  <2>2. Queue'
    BY <1>1, <2>1 DEF Queue
  <2> QED
    BY <2>1, <2>2 DEF Moves, Before
<1>3. CASE Waiting(s, jobs)
  <2>1. jobs' = Append(jobs, s) /\ stmt'[s].at \notin Quiet
    BY <1>3 DEF Waiting
  <2>2. /\ Distinct(jobs') /\ \A a : Waits(jobs', a) <=> Waits(jobs, a) \/ a = s
        /\ \A a, b : Ahead(jobs', a, b) <=> Ahead(jobs, a, b) \/ (Waits(jobs, a) /\ b = s)
    BY <1>1, <2>1, AheadAppend
  <2>3. Queue'
    BY <1>1, <2>1, <2>2 DEF Queue
  <2> QED
    BY <1>1, <2>1, <2>2, <2>3 DEF Moves, Before
<1> QED
  BY <1>2, <1>3

LEMMA TurnMoves ==
  ASSUME Types, Queue, NEW s \in Session, jobs # <<>>, Head(jobs) = s,
         \A r \in Session \ {s} : stmt'[r] = stmt[r],
         Ends(s, Tail(jobs)) \/ Waiting(s, Tail(jobs))
  PROVE  Moves(s)
<1> DEFINE rest == Tail(jobs)
<1>1. jobs \in Seq(Session) /\ Distinct(jobs)
      /\ \A r \in Session : Waits(jobs, r) <=> stmt[r].at \notin Quiet
  BY DEF Types, Queue
<1>2. /\ rest \in Seq(Session) /\ Distinct(rest)
      /\ \A a : Waits(rest, a) <=> Waits(jobs, a) /\ a # s
      /\ \A a, b : Ahead(rest, a, b) <=> Ahead(jobs, a, b) /\ a # s
  BY <1>1, AheadTail
<1> HIDE DEF rest
<1>3. CASE Ends(s, rest)
  <2>1. jobs' = rest /\ stmt'[s].at \in Quiet
    BY <1>3 DEF Ends
  <2>2. Queue'
    BY <1>1, <1>2, <2>1 DEF Queue
  <2> QED
    BY <1>2, <2>1, <2>2 DEF Moves, Before
<1>4. CASE Waiting(s, rest)
  <2>1. jobs' = Append(rest, s) /\ stmt'[s].at \notin Quiet
    BY <1>4 DEF Waiting
  <2>2. ~Waits(rest, s)
    BY <1>2
  <2>3. /\ Distinct(jobs') /\ \A a : Waits(jobs', a) <=> Waits(rest, a) \/ a = s
        /\ \A a, b : Ahead(jobs', a, b) <=> Ahead(rest, a, b) \/ (Waits(rest, a) /\ b = s)
    BY <1>2, <2>1, <2>2, AheadAppend
  <2>4. Queue'
    BY <1>1, <1>2, <2>1, <2>3 DEF Queue
  <2> QED
    BY <1>1, <1>2, <2>1, <2>3, <2>4 DEF Moves, Before
<1> QED
  BY <1>3, <1>4 DEF rest

LEMMA TurnIsFirst ==
  ASSUME Types, Queue, NEW s \in Session, NEW at, Turn(s, at)
  PROVE  IsFirst(s)
<1>1. jobs \in Seq(Session) /\ Distinct(jobs) /\ jobs # <<>> /\ Head(jobs) = s
      /\ \A r \in Session : Waits(jobs, r) <=> stmt[r].at \notin Quiet
  BY DEF Types, Queue, Turn
<1>2. \A b : Waits(jobs, b) /\ b # s => Ahead(jobs, s, b)
  BY <1>1, AheadTail
<1> QED
  BY <1>1, <1>2 DEF IsFirst, Before

\* Answer and Await as equations.
LEMMA AnswerIs ==
  ASSUME stmt \in [Session -> StmtType], NEW s \in Session, NEW how, Answer(s, how)
  PROVE  stmt'[s] = Idle /\ stmt'[s].at \in Quiet /\ \A r \in Session \ {s} : stmt'[r] = stmt[r]
BY DEF Answer, Idle, Quiet

LEMMA AwaitIs ==
  ASSUME stmt \in [Session -> StmtType], NEW s \in Session, NEW rest, NEW rec, Await(s, rest, rec)
  PROVE  stmt'[s] = rec /\ jobs' = Append(rest, s) /\ \A r \in Session \ {s} : stmt'[r] = stmt[r]
BY DEF Await

LEMMA CallEnds ==
  ASSUME Types, Queue, NEW s \in Session, Call(s), NEW how, Answer(s, how), jobs' = jobs
  PROVE  Moves(s)
<1>1. stmt \in [Session -> StmtType] /\ stmt[s].at \in Quiet
  BY DEF Types, Call, Quiet
<1>2. Ends(s, jobs) /\ \A r \in Session \ {s} : stmt'[r] = stmt[r]
  BY <1>1, AnswerIs DEF Ends
<1> QED
  BY <1>1, <1>2, CallMoves

LEMMA CallWaits ==
  ASSUME Types, Queue, NEW s \in Session, Call(s), NEW rec, Await(s, jobs, rec), rec.at \notin Quiet
  PROVE  Moves(s)
<1>1. stmt \in [Session -> StmtType] /\ stmt[s].at \in Quiet
  BY DEF Types, Call, Quiet
<1>2. Waiting(s, jobs) /\ \A r \in Session \ {s} : stmt'[r] = stmt[r]
  BY <1>1, AwaitIs DEF Waiting
<1> QED
  BY <1>1, <1>2, CallMoves

LEMMA TurnEnds ==
  ASSUME Types, Queue, NEW s \in Session, NEW at, Turn(s, at), NEW how, Answer(s, how),
         jobs' = Tail(jobs)
  PROVE  Moves(s)
<1>1. stmt \in [Session -> StmtType] /\ jobs # <<>> /\ Head(jobs) = s
  BY DEF Types, Turn
<1>2. Ends(s, Tail(jobs)) /\ \A r \in Session \ {s} : stmt'[r] = stmt[r]
  BY <1>1, AnswerIs DEF Ends
<1> QED
  BY <1>1, <1>2, TurnMoves

LEMMA TurnWaits ==
  ASSUME Types, Queue, NEW s \in Session, NEW at, Turn(s, at), NEW rec,
         Await(s, Tail(jobs), rec), rec.at \notin Quiet
  PROVE  Moves(s)
<1>1. stmt \in [Session -> StmtType] /\ jobs # <<>> /\ Head(jobs) = s
  BY DEF Types, Turn
<1>2. Waiting(s, Tail(jobs)) /\ \A r \in Session \ {s} : stmt'[r] = stmt[r]
  BY <1>1, AwaitIs DEF Waiting
<1> QED
  BY <1>1, <1>2, TurnMoves

\* A CREATE TABLE is called or, with AS SELECT, comes back from the network.
LEMMA CreateMoves ==
  ASSUME Types, Queue, NEW s \in Session, stmt[s].at \in Quiet, NEW me, NEW pk, Create(s, me, pk, jobs),
         DOMAIN me = DOMAIN Idle, me = [f \in DOMAIN me |-> me[f]]
  PROVE  Moves(s)
<1>1. stmt \in [Session -> StmtType]
  BY DEF Types
<1>2. CASE Answer(s, "error") /\ jobs' = jobs
  <2>1. Ends(s, jobs) /\ \A r \in Session \ {s} : stmt'[r] = stmt[r]
    BY <1>1, <1>2, AnswerIs DEF Ends
  <2> QED
    BY <2>1, CallMoves
<1>3. ASSUME NEW sch, Await(s, jobs, [me EXCEPT !.at = "creating", !.sch = sch]) PROVE Moves(s)
  <2> DEFINE rec == [me EXCEPT !.at = "creating", !.sch = sch]
  <2>1. rec.at = "creating"
    BY DEF Idle
  <2> HIDE DEF rec
  <2>2. Waiting(s, jobs) /\ \A r \in Session \ {s} : stmt'[r] = stmt[r]
    BY <1>1, <1>3, <2>1, AwaitIs DEF Waiting, Quiet, rec
  <2> QED
    BY <2>2, CallMoves
<1> QED
  BY <1>2, <1>3 DEF Create

LEMMA StepMoves ==
  ASSUME Types, Queue, NEW s \in Session, Issue(s) \/ Continue(s)
  PROVE  Moves(s)
<1>1. ASSUME NEW d, CreateDatabase(s, d) PROVE Moves(s)
  BY <1>1, CallEnds DEF CreateDatabase
<1>2. ASSUME NEW d, DropDatabase(s, d) PROVE Moves(s)
  <2>1. Call(s)
    BY <1>2 DEF DropDatabase
  <2>2. ASSUME NEW how, Answer(s, how), jobs' = jobs PROVE Moves(s)
    BY <2>1, <2>2, CallEnds
  <2>3. ASSUME NEW id, NEW lc, NEW sch,
               Await(s, jobs, [Idle EXCEPT !.at = "dropping table of db", !.id = id,
                                           !.d = d, !.n = lc, !.sch = sch])
        PROVE  Moves(s)
    <3> DEFINE rec == [Idle EXCEPT !.at = "dropping table of db", !.id = id,
                                   !.d = d, !.n = lc, !.sch = sch]
    <3>1. rec.at \notin Quiet
      BY DEF Idle, Quiet
    <3> HIDE DEF rec
    <3> QED
      BY <2>1, <2>3, <3>1, CallWaits DEF rec
  <2> QED
    BY <1>2, <2>2, <2>3 DEF DropDatabase, EndDropDatabase
<1>3. CASE DroppedOfDatabase(s)
  <2> DEFINE left == Without(tables[stmt[s].sch], stmt[s].n)
  <2>1. /\ Turn(s, "dropping table of db")
        /\ DropNext(s, stmt[s].id, stmt[s].d, stmt[s].sch, left, Tail(jobs))
    BY <1>3 DEF DroppedOfDatabase
  <2> HIDE DEF left
  <2>2. ASSUME NEW how, Answer(s, how), jobs' = Tail(jobs) PROVE Moves(s)
    BY <2>1, <2>2, TurnEnds
  <2>3. ASSUME NEW id, NEW d, NEW lc, NEW sch,
               Await(s, Tail(jobs), [Idle EXCEPT !.at = "dropping table of db", !.id = id,
                                           !.d = d, !.n = lc, !.sch = sch])
        PROVE  Moves(s)
    <3> DEFINE rec == [Idle EXCEPT !.at = "dropping table of db", !.id = id,
                                   !.d = d, !.n = lc, !.sch = sch]
    <3>1. rec.at \notin Quiet
      BY DEF Idle, Quiet
    <3> HIDE DEF rec
    <3> QED
      BY <2>1, <2>3, <3>1, TurnWaits DEF rec
  <2> QED
    BY <2>1, <2>2, <2>3 DEF DropNext, EndDropDatabase
<1>4. ASSUME NEW d, NEW n, NEW is_temp, NEW pk, CreateTable(s, d, n, is_temp, pk) PROVE Moves(s)
  <2> DEFINE me == [Idle EXCEPT !.id = clock', !.d = d, !.n = n, !.temp = is_temp]
  <2>1. stmt[s].at \in Quiet /\ Create(s, me, pk, jobs)
    BY <1>4 DEF CreateTable, Call, Quiet
  <2>2. DOMAIN me = DOMAIN Idle /\ me = [f \in DOMAIN me |-> me[f]]
    BY DEF Idle
  <2> HIDE DEF me
  <2> QED
    BY <2>1, <2>2, CreateMoves
<1>5. ASSUME NEW d, NEW n, NEW is_temp, CreateTableAs(s, d, n, is_temp) PROVE Moves(s)
  <2>1. stmt \in [Session -> StmtType] /\ stmt[s].at \in Quiet
    BY <1>5 DEF CreateTableAs, Call, Types, Quiet
  <2>2. Ends(s, jobs) /\ \A r \in Session \ {s} : stmt'[r] = stmt[r]
    BY <2>1, <1>5 DEF CreateTableAs, Ends, Quiet
  <2> QED
    BY <2>1, <2>2, CallMoves
<1>6. ASSUME NEW fine, SelectedAs(s, fine) PROVE Moves(s)
  <2>1. stmt[s].at \in Quiet /\ Create(s, stmt[s], fine, jobs)
    BY <1>6 DEF SelectedAs, Quiet
  <2>2. stmt[s] \in StmtType
    BY DEF Types
  <2>3. DOMAIN stmt[s] = DOMAIN Idle /\ stmt[s] = [f \in DOMAIN stmt[s] |-> stmt[s][f]]
    BY <2>2 DEF StmtType, Idle
  <2> QED
    BY <2>1, <2>3, CreateMoves
<1>7. CASE Created(s) \/ Dropped(s) \/ Cleared(s)
  BY <1>7, TurnEnds DEF Created, Dropped, Cleared
<1>8. CASE CreatedAs(s)
  BY <1>8, TurnEnds DEF CreatedAs
<1>9. ASSUME NEW d, NEW n, DropTable(s, d, n) PROVE Moves(s)
  <2>1. Call(s)
    BY <1>9 DEF DropTable
  <2>2. ASSUME NEW how, Answer(s, how), jobs' = jobs PROVE Moves(s)
    BY <2>1, <2>2, CallEnds
  <2>3. ASSUME NEW sch, Await(s, jobs, [Idle EXCEPT !.at = "dropping", !.id = clock',
                                                    !.d = d, !.n = n, !.sch = sch])
        PROVE  Moves(s)
    <3> DEFINE rec == [Idle EXCEPT !.at = "dropping", !.id = clock', !.d = d, !.n = n, !.sch = sch]
    <3>1. rec.at \notin Quiet
      BY DEF Idle, Quiet
    <3> HIDE DEF rec
    <3> QED
      BY <2>1, <2>3, <3>1, CallWaits DEF rec
  <2> QED
    BY <1>9, <2>2, <2>3 DEF DropTable
<1>10. CASE Begin(s)
  BY <1>10, CallEnds DEF Begin
<1>11. ASSUME NEW at, Call(s), Await(s, jobs, [Idle EXCEPT !.at = at, !.id = clock']), at \notin Quiet
       PROVE  Moves(s)
  <2> DEFINE rec == [Idle EXCEPT !.at = at, !.id = clock']
  <2>1. rec.at \notin Quiet
    BY <1>11 DEF Idle
  <2> HIDE DEF rec
  <2> QED
    BY <1>11, <2>1, CallWaits DEF rec
<1>12. CASE Commit(s)
  <2>1. /\ Call(s)
        /\ \/ Answer(s, "ok") /\ jobs' = jobs
           \/ Await(s, jobs, [Idle EXCEPT !.at = "clearing", !.id = clock'])
    BY <1>12 DEF Commit
  <2>2. "clearing" \notin Quiet
    BY DEF Quiet
  <2> QED
    BY <2>1, <2>2, <1>11, CallEnds, Zenon
<1>13. ASSUME NEW d, NEW n, Insert(s, d, n) PROVE Moves(s)
  <2>1. /\ Call(s)
        /\ \/ Answer(s, "ok") /\ jobs' = jobs
           \/ Await(s, jobs, [Idle EXCEPT !.at = "installing", !.id = clock'])
    BY <1>13 DEF Insert
  <2>2. "installing" \notin Quiet
    BY DEF Quiet
  <2> QED
    BY <2>1, <2>2, <1>11, CallEnds, Zenon
<1>14. CASE Installed(s)
  <2> DEFINE rec == [stmt[s] EXCEPT !.at = "clearing"]
  <2>1. Turn(s, "installing") /\ Await(s, Tail(jobs), rec)
    BY <1>14 DEF Installed
  <2>2. stmt[s] \in StmtType
    BY DEF Types
  <2>3. rec.at \notin Quiet
    BY <2>2 DEF StmtType, Quiet
  <2> HIDE DEF rec
  <2> QED
    BY <2>1, <2>3, TurnWaits
<1> QED
  BY <1>1, <1>2, <1>3, <1>4, <1>5, <1>6, <1>7, <1>8, <1>9, <1>10, <1>12, <1>13, <1>14
     DEF Issue, Continue

-----------------------------------------------------------------------------
(* Types *)

LEMMA Constants ==
  /\ BuiltIn \subseteq Database
  /\ \A n \in Name : Lower[n] \in Name /\ Lower[Lower[n]] = Lower[n]
  /\ MaxStmt \in Nat
  /\ \A c \in Client : /\ c.databases \subseteq Database /\ c.names \subseteq Name
                       /\ c.drops \in BOOLEAN /\ c.begins \in BOOLEAN /\ c.stmts \in 0..MaxStmt
BY ConstantsAssumption

LEMMA IdIs == Id \subseteq Nat /\ \A i \in Id : i # 0
BY Constants DEF Id

LEMMA ClockIs ==
  ASSUME Types
  PROVE  clock \in Nat /\ clock \in 0..MaxStmt /\ clock <= clock
BY Constants DEF Types

\* A call has the next number.
LEMMA CallIs ==
  ASSUME Types, NEW s \in Session, Call(s)
  PROVE  /\ stmt[s].at = "idle" /\ clock' = clock + 1 /\ clock' \in Id /\ clock' \in Nat
         /\ clock' \in 0..MaxStmt
BY Constants DEF Types, Call, Id

LEMMA RestType ==
  ASSUME Types, NEW s \in Session
  PROVE  /\ Append(jobs, s) \in Seq(Session)
         /\ jobs # <<>> => Tail(jobs) \in Seq(Session) /\ Append(Tail(jobs), s) \in Seq(Session)
BY DEF Types

LEMMA AnswerTypes ==
  ASSUME Types, NEW s \in Session, NEW how \in {"ok", "error"}, Answer(s, how)
  PROVE  stmt' \in [Session -> StmtType] /\ reply' \in [Session -> {"ok", "error"}]
BY IdleType DEF Types, Answer

LEMMA AwaitTypes ==
  ASSUME Types, NEW s \in Session, NEW rest, NEW rec \in StmtType, Await(s, rest, rec)
  PROVE  stmt' \in [Session -> StmtType] /\ reply' \in [Session -> {"ok", "error"}]
BY DEF Types, Await

\* The catalog and the storage are maps.
CatalogTypes ==
  /\ Maps(schemaMap, Database, DOMAIN tables) /\ DOMAIN tables \subseteq Id
  /\ \A i \in DOMAIN tables : Maps(tables[i], Name, Entry)
  /\ Maps(tableMap, Key, Data)
  /\ DOMAIN temp = Session /\ \A s \in Session : Maps(temp[s], Key, Data)
OtherTypes ==
  /\ tx \in [Session -> TxType]
  /\ jobs \in Seq(Session)
  /\ stmt \in [Session -> StmtType]
  /\ clock \in 0..MaxStmt
  /\ reply \in [Session -> {"ok", "error"}]

LEMMA TypesAre == Types <=> client \in Client /\ CatalogTypes /\ OtherTypes
BY DEF Types, CatalogTypes, OtherTypes

DropRec(at, id, d, n, sch) == [Idle EXCEPT !.at = at, !.id = id, !.d = d, !.n = n, !.sch = sch]

IsDropRec(rec, at, id, d, n, sch) ==
  /\ rec \in StmtType
  /\ rec.at = at /\ rec.id = id /\ rec.d = d /\ rec.n = n /\ rec.sch = sch

LEMMA DropRecord ==
  ASSUME NEW id \in Nat, NEW d \in Database, NEW n \in Name, NEW sch \in Nat,
         NEW at \in {"dropping table of db", "dropping"}
  PROVE  IsDropRec(DropRec(at, id, d, n, sch), at, id, d, n, sch)
<1> DEFINE rec == [Idle EXCEPT !.at = at, !.id = id, !.d = d, !.n = n, !.sch = sch]
<1>1. rec.at = at /\ rec.id = id /\ rec.d = d /\ rec.n = n /\ rec.sch = sch
  BY DEF Idle
<1>2. rec \in StmtType
  BY DEF Idle, StmtType, At
<1> QED
  BY <1>1, <1>2 DEF DropRec, IsDropRec

LEMMA OtherRecord ==
  ASSUME NEW id \in Nat, NEW at \in {"clearing", "installing"}
  PROVE  \E rec \in StmtType :
           /\ [Idle EXCEPT !.at = at, !.id = id] = rec
           /\ rec.at = at /\ rec.id = id /\ rec.sch = 0
<1> DEFINE rec == [Idle EXCEPT !.at = at, !.id = id]
<1>1. rec.at = at /\ rec.id = id /\ rec.sch = 0
  BY DEF Idle
<1>2. rec \in StmtType
  BY DEF Idle, StmtType, At
<1> QED
  BY <1>1, <1>2

LEMMA EngineDropTypes ==
  ASSUME CatalogTypes, NEW s \in Session, NEW d, NEW n, EngineDrop(s, d, n)
  PROVE  /\ Maps(tableMap', Key, Data)
         /\ DOMAIN temp' = Session /\ \A r \in Session : Maps(temp'[r], Key, Data)
         /\ \A r \in Session \ {s} : temp'[r] = temp[r]
<1>1. Maps(temp[s], Key, Data) /\ Maps(tableMap, Key, Data) /\ DOMAIN temp = Session
  BY DEF CatalogTypes
<1>2. Maps(Without(temp[s], <<d, n>>), Key, Data) /\ Maps(Without(tableMap, <<d, n>>), Key, Data)
  BY <1>1, MapsWithout
<1>3. CASE <<d, n>> \in DOMAIN temp[s]
  <2>1. temp' = [temp EXCEPT ![s] = Without(temp[s], <<d, n>>)] /\ tableMap' = tableMap
    BY <1>3 DEF EngineDrop
  <2> QED
    BY <2>1, <1>1, <1>2 DEF CatalogTypes
<1>4. CASE <<d, n>> \notin DOMAIN temp[s]
  BY <1>4, <1>1, <1>2 DEF EngineDrop, CatalogTypes
<1> QED
  BY <1>3, <1>4

LEMMA InstallTypes ==
  ASSUME CatalogTypes, tx \in [Session -> TxType], NEW s \in Session, Install(s)
  PROVE  /\ Maps(tableMap', Key, Data)
         /\ DOMAIN temp' = Session /\ \A r \in Session : Maps(temp'[r], Key, Data)
         /\ \A r \in Session \ {s} : temp'[r] = temp[r]
         /\ DOMAIN tableMap' = DOMAIN tableMap /\ DOMAIN temp'[s] = DOMAIN temp[s]
         /\ \A k \in DOMAIN tableMap :
              /\ tableMap'[k].gen = tableMap[k].gen
              /\ tableMap'[k].rows = IF k \in DOMAIN tx[s].data /\ k \notin DOMAIN temp[s]
                                     THEN tx[s].data[k] ELSE tableMap[k].rows
         /\ \A k \in DOMAIN temp[s] :
              /\ temp'[s][k].gen = temp[s][k].gen
              /\ temp'[s][k].rows = IF k \in DOMAIN tx[s].data
                                    THEN tx[s].data[k] ELSE temp[s][k].rows
<1> DEFINE data == tx[s].data
           own == temp[s]
<1>1. /\ Maps(data, Key, SUBSET Id) /\ Maps(own, Key, Data) /\ Maps(tableMap, Key, Data)
      /\ DOMAIN temp = Session
  <2>1. data \in TxData
    BY DEF TxType
  <2> QED
    BY <2>1, TxDataIs DEF CatalogTypes
<1>2. ASSUME NEW e \in Data, NEW rows \in SUBSET Id
      PROVE  [e EXCEPT !.rows = rows] \in Data /\ [e EXCEPT !.rows = rows].gen = e.gen
             /\ [e EXCEPT !.rows = rows].rows = rows
  BY DEF Data
<1>3. /\ tableMap' = [k \in DOMAIN tableMap |->
                       IF k \in DOMAIN data /\ k \notin DOMAIN own
                       THEN [tableMap[k] EXCEPT !.rows = data[k]] ELSE tableMap[k]]
      /\ temp' = [temp EXCEPT ![s] = [k \in DOMAIN own |->
                       IF k \in DOMAIN data
                       THEN [own[k] EXCEPT !.rows = data[k]] ELSE own[k]]]
  BY DEF Install, Update
<1> HIDE DEF data, own
<1>4. \A r \in Session \ {s} : temp'[r] = temp[r]
  BY <1>1, <1>3
<1>5. temp'[s] = [k \in DOMAIN own |-> IF k \in DOMAIN data
                                       THEN [own[k] EXCEPT !.rows = data[k]] ELSE own[k]]
  BY <1>1, <1>3
<1>6. /\ DOMAIN tableMap' = DOMAIN tableMap
      /\ \A k \in DOMAIN tableMap :
           /\ tableMap'[k] \in Data
           /\ tableMap'[k].gen = tableMap[k].gen
           /\ tableMap'[k].rows = IF k \in DOMAIN data /\ k \notin DOMAIN own
                                  THEN data[k] ELSE tableMap[k].rows
  <2> SUFFICES ASSUME NEW k \in DOMAIN tableMap
               PROVE  /\ tableMap'[k] \in Data
                      /\ tableMap'[k].gen = tableMap[k].gen
                      /\ tableMap'[k].rows = IF k \in DOMAIN data /\ k \notin DOMAIN own
                                             THEN data[k] ELSE tableMap[k].rows
    BY <1>3
  <2>1. tableMap[k] \in Data
    BY <1>1 DEF Maps
  <2>2. CASE k \in DOMAIN data /\ k \notin DOMAIN own
    <3>1. data[k] \in SUBSET Id
      BY <1>1, <2>2 DEF Maps
    <3>2. tableMap'[k] = [tableMap[k] EXCEPT !.rows = data[k]]
      BY <1>3, <2>2
    <3> QED
      BY <2>1, <2>2, <3>1, <3>2, <1>2
  <2>3. CASE ~(k \in DOMAIN data /\ k \notin DOMAIN own)
    BY <1>3, <2>1, <2>3
  <2> QED
    BY <2>2, <2>3
<1>7. /\ DOMAIN temp'[s] = DOMAIN own
      /\ \A k \in DOMAIN own :
           /\ temp'[s][k] \in Data
           /\ temp'[s][k].gen = own[k].gen
           /\ temp'[s][k].rows = IF k \in DOMAIN data THEN data[k] ELSE own[k].rows
  <2> SUFFICES ASSUME NEW k \in DOMAIN own
               PROVE  /\ temp'[s][k] \in Data
                      /\ temp'[s][k].gen = own[k].gen
                      /\ temp'[s][k].rows = IF k \in DOMAIN data THEN data[k] ELSE own[k].rows
    BY <1>5
  <2>1. own[k] \in Data
    BY <1>1 DEF Maps
  <2>2. CASE k \in DOMAIN data
    <3>1. data[k] \in SUBSET Id
      BY <1>1, <2>2 DEF Maps
    <3>2. temp'[s][k] = [own[k] EXCEPT !.rows = data[k]]
      BY <1>5, <2>2
    <3> QED
      BY <2>1, <2>2, <3>1, <3>2, <1>2
  <2>3. CASE k \notin DOMAIN data
    BY <1>5, <2>1, <2>3
  <2> QED
    BY <2>2, <2>3
<1>8. DOMAIN temp' = Session
  BY <1>1, <1>3
<1>9. \A r \in Session : Maps(temp'[r], Key, Data)
  <2> SUFFICES ASSUME NEW r \in Session PROVE Maps(temp'[r], Key, Data)
    OBVIOUS
  <2>1. CASE r = s
    BY <2>1, <1>1, <1>7 DEF Maps
  <2>2. CASE r # s
    BY <2>2, <1>4 DEF CatalogTypes
  <2> QED
    BY <2>1, <2>2
<1> QED
  BY <1>1, <1>4, <1>6, <1>7, <1>8, <1>9 DEF Maps, data, own

-----------------------------------------------------------------------------
(* Steps that list no table *)

\* What a statement does to the catalog unless it makes a database or a table: databases
\* disappear when they are empty, entries when it is the turn of the statement that has
\* dropped their tables, and tables when their entries wait for that.
Shrinks(s) ==
  /\ clock <= clock'
  /\ \A d \in DOMAIN schemaMap' : d \in DOMAIN schemaMap /\ schemaMap'[d] = schemaMap[d]
  /\ \A d \in DOMAIN schemaMap : d \in DOMAIN schemaMap' \/ DOMAIN tables'[schemaMap[d]] = {}
  /\ DOMAIN tables' = DOMAIN tables
  /\ \A i \in DOMAIN tables : \A lc \in DOMAIN tables'[i] :
       lc \in DOMAIN tables[i] /\ tables'[i][lc] = tables[i][lc]
  /\ \A i \in DOMAIN tables : \A lc \in DOMAIN tables[i] :
       lc \in DOMAIN tables'[i] \/ Drops(s, i, lc)
  /\ \A i, lc : Drops(s, i, lc) => IsFirst(s) /\ lc \notin DOMAIN tables'[i]
  /\ \A k \in DOMAIN tableMap' : k \in DOMAIN tableMap /\ tableMap'[k].gen = tableMap[k].gen
  /\ \A k \in DOMAIN tableMap :
       \/ k \in DOMAIN tableMap'
       \/ \E i \in DOMAIN tables : /\ k[1] \in DOMAIN schemaMap /\ schemaMap[k[1]] = i
                                   /\ Drops(s, i, Lower[k[2]])'
  /\ \A r \in Session \ {s} : temp'[r] = temp[r]

\* The statement itself before and afterwards.
Outcome(s) ==
  /\ \A i, lc : ~Creates(s, i, lc) /\ ~Creates(s, i, lc)'
  /\ \A i, lc : Drops(s, i, lc)' => lc \in DOMAIN tables'[i]
  /\ \A d \in DOMAIN schemaMap' : ~Overtaken(s, d)'
  /\ stmt'[s].at = "dropping table of db" => \A k \in DOMAIN temp'[s] : k[1] # stmt'[s].d
  /\ OwnedBy(s)'

\* What others will do is what they would have done.
LEMMA OthersSame ==
  ASSUME NEW s \in Session, Moves(s), NEW r \in Session, r # s, NEW i, NEW lc
  PROVE  /\ Creates(r, i, lc)' <=> Creates(r, i, lc)
         /\ Drops(r, i, lc)' <=> Drops(r, i, lc)
         /\ Touches(r, i, lc)' <=> Touches(r, i, lc)
<1>1. stmt'[r] = stmt[r]
  BY DEF Moves
<1>2. Creates(r, i, lc)' <=> Creates(r, i, lc)
  BY <1>1 DEF Creates
<1>3. Drops(r, i, lc)' <=> Drops(r, i, lc)
  BY <1>1 DEF Drops
<1> QED
  BY <1>2, <1>3 DEF Touches

\* Only statements in the queue touch entries.
LEMMA TouchWaits ==
  ASSUME NEW s \in Session, NEW i, NEW lc, Touches(s, i, lc)
  PROVE  stmt[s].at \notin Quiet
BY DEF Touches, Creates, Drops, Quiet

LEMMA TouchWaitsLater ==
  ASSUME NEW s \in Session, NEW i, NEW lc, Touches(s, i, lc)'
  PROVE  stmt'[s].at \notin Quiet
BY DEF Touches, Creates, Drops, Quiet

\* The order of two statements after a step of s.
LEMMA OrderLater ==
  ASSUME Types, Queue, NEW s \in Session, Moves(s), NEW a \in Session, NEW b \in Session
  PROVE  /\ a # s /\ b # s => (Before(a, b)' <=> Before(a, b))
         /\ b = s /\ a # s /\ stmt[a].at \notin Quiet /\ stmt'[s].at \notin Quiet => Before(a, b)'
BY DEF Moves, Before

LEMMA OrderIsOneWay ==
  ASSUME Types', Queue', NEW a \in Session, NEW b \in Session, Before(a, b)'
  PROVE  ~Before(b, a)' /\ a # b
<1>1. jobs' \in Seq(Session) /\ Distinct(jobs')
  BY DEF Types, Queue
<1>2. Ahead(jobs', a, b)
  BY DEF Before
<1>3. a # b /\ ~Ahead(jobs', b, a)
  BY <1>1, <1>2, AheadOrder
<1> QED
  BY <1>3 DEF Before

LEMMA ShrinksAlternates ==
  ASSUME Catalog, Types', NEW s \in Session, Moves(s), Shrinks(s), Outcome(s)
  PROVE  Alternates'
<1> SUFFICES ASSUME NEW i \in DOMAIN tables', NEW lc \in Name, NEW c \in Session, NEW r \in Session,
                    Creates(c, i, lc)', Drops(r, i, lc)'
             PROVE  IF lc \in DOMAIN tables'[i] THEN Before(c, r)' ELSE Before(r, c)'
  BY DEF Alternates
<1>1. Types /\ Queue /\ Alternates
  BY DEF Catalog
<1>2. c # s /\ i \in DOMAIN tables
  <2>1. c # s
    BY DEF Outcome
  <2>2. DOMAIN tables' = DOMAIN tables
    BY DEF Shrinks
  <2> QED
    BY <2>1, <2>2
<1>3. Creates(c, i, lc) /\ stmt[c].at \notin Quiet
  BY <1>2, OthersSame, TouchWaits DEF Touches
<1>4. CASE r = s
  <2>1. lc \in DOMAIN tables'[i]
    BY <1>4 DEF Outcome
  <2>2. stmt'[s].at \notin Quiet
    BY <1>4, TouchWaitsLater DEF Touches
  <2> QED
    BY <2>1, <2>2, <1>1, <1>2, <1>3, <1>4, OrderLater
<1>5. CASE r # s
  <2>1. Drops(r, i, lc)
    BY <1>5, OthersSame
  <2>2. IF lc \in DOMAIN tables[i] THEN Before(c, r) ELSE Before(r, c)
    BY <2>1, <1>1, <1>2, <1>3 DEF Alternates
  <2>3. lc \in DOMAIN tables[i] <=> lc \in DOMAIN tables'[i]
    <3>1. ASSUME lc \in DOMAIN tables[i], lc \notin DOMAIN tables'[i] PROVE FALSE
      <4>1. Drops(s, i, lc)
        BY <3>1, <1>2 DEF Shrinks
      <4>2. IsFirst(s)
        BY <4>1 DEF Shrinks
      <4>3. Before(s, c) /\ Before(c, s)
        BY <4>1, <4>2, <3>1, <1>1, <1>2, <1>3 DEF Alternates, IsFirst
      <4> QED
        BY <4>3, <1>1, InOrder
    <3> QED
      BY <3>1, <1>2 DEF Shrinks
  <2>4. (Before(c, r)' <=> Before(c, r)) /\ (Before(r, c)' <=> Before(r, c))
    BY <1>1, <1>2, <1>5, OrderLater
  <2> QED
    BY <2>2, <2>3, <2>4
<1> QED
  BY <1>4, <1>5

LEMMA ShrinksLastIsStored ==
  ASSUME Catalog, Types', NEW s \in Session, Moves(s), Shrinks(s), Outcome(s)
  PROVE  LastIsStored'
<1> SUFFICES ASSUME NEW d \in DOMAIN schemaMap', NEW c \in Session, NEW lc \in Name,
                    Creates(c, schemaMap[d], lc)',
                    \A r \in Session : Touches(r, schemaMap[d], lc)' => r = c \/ Before(r, c)'
             PROVE  IsStored(d, stmt[c].n, stmt[c].id)'
  BY DEF LastIsStored
<1> SUFFICES ASSUME NEW i, i = schemaMap'[d], Creates(c, i, lc)',
                    \A r \in Session : Touches(r, i, lc)' => r = c \/ Before(r, c)'
             PROVE  IsStored(d, stmt[c].n, stmt[c].id)'
  BY DEF Touches, Creates, Drops
<1>1. Types /\ Queue /\ Queue' /\ LastIsStored
  BY DEF Catalog, Moves
<1>2. d \in DOMAIN schemaMap /\ schemaMap[d] = i /\ i \in DOMAIN tables
  BY <1>1 DEF Shrinks, Types, Maps
<1>3. c # s
  BY DEF Outcome
<1>4. Creates(c, i, lc) /\ stmt[c].at \notin Quiet /\ stmt'[c] = stmt[c]
  BY <1>3, OthersSame, TouchWaits DEF Touches, Moves
<1>5. ~Touches(s, i, lc)'
  <2> SUFFICES ASSUME Touches(s, i, lc)' PROVE FALSE
    OBVIOUS
  <2>1. stmt'[s].at \notin Quiet
    BY TouchWaitsLater
  <2>2. Before(c, s)' /\ Before(s, c)'
    BY <2>1, <1>1, <1>3, <1>4, OrderLater
  <2> QED
    BY <2>2, <1>1, OrderIsOneWay
<1>6. ASSUME NEW r \in Session, Touches(r, i, lc) PROVE r = c \/ Before(r, c)
  <2>1. CASE r = s
    <3>1. Drops(s, i, lc)
      BY <2>1, <1>6 DEF Touches, Outcome
    <3>2. IsFirst(s)
      BY <3>1 DEF Shrinks
    <3> QED
      BY <2>1, <3>2, <1>3, <1>4 DEF IsFirst
  <2>2. CASE r # s
    <3>1. Touches(r, i, lc)'
      BY <2>2, <1>6, OthersSame
    <3>2. r = c \/ Before(r, c)'
      BY <3>1
    <3> QED
      BY <3>2, <2>2, <1>1, <1>3, OrderLater
  <2> QED
    BY <2>1, <2>2
<1>7. IsStored(d, stmt[c].n, stmt[c].id)
  BY <1>1, <1>2, <1>4, <1>6 DEF LastIsStored
<1>8. PICK k : k = <<d, stmt[c].n>>
  OBVIOUS
<1>9. k \in DOMAIN tableMap /\ tableMap[k].gen = stmt[c].id /\ k[1] = d /\ k[2] = stmt[c].n
  BY <1>7, <1>8 DEF IsStored
<1>10. k \in DOMAIN tableMap'
  <2>1. Lower[k[2]] = lc
    BY <1>4, <1>9 DEF Creates
  <2>2. ~Drops(s, i, Lower[k[2]])'
    BY <2>1, <1>5 DEF Touches
  <2> QED
    BY <2>2, <1>2, <1>9 DEF Shrinks
<1>11. tableMap'[k].gen = stmt[c].id
  BY <1>9, <1>10 DEF Shrinks
<1> QED
  BY <1>4, <1>8, <1>10, <1>11 DEF IsStored

LEMMA ShrinksEntryIsStored ==
  ASSUME Catalog, Types', NEW s \in Session, Moves(s), Shrinks(s), Outcome(s)
  PROVE  EntryIsStored'
<1> SUFFICES ASSUME NEW d \in DOMAIN schemaMap', NEW i, i = schemaMap'[d],
                    NEW lc \in DOMAIN tables'[i],
                    \A r \in Session : ~Touches(r, i, lc)'
             PROVE  <<d, tables'[i][lc].table>> \in DOMAIN tableMap'
                    /\ tableMap'[<<d, tables'[i][lc].table>>].gen = tables'[i][lc].gen
  BY DEF EntryIsStored, IsStored, Touches, Creates, Drops
<1>1. Types /\ EntryIsStored /\ Named
  BY DEF Catalog
<1>2. d \in DOMAIN schemaMap /\ schemaMap[d] = i /\ i \in DOMAIN tables
  BY <1>1 DEF Shrinks, Types, Maps
<1>3. PICK e, k : e = tables[i][lc] /\ k = <<d, e.table>>
  OBVIOUS
<1>4. lc \in DOMAIN tables[i] /\ tables'[i][lc] = e
  BY <1>2, <1>3 DEF Shrinks
<1>5. Lower[e.table] = lc
  BY <1>1, <1>2, <1>3, <1>4 DEF Named
<1>6. ASSUME NEW r \in Session PROVE ~Touches(r, i, lc)
  <2>1. CASE r = s
    <3>1. ~Drops(s, i, lc)
      BY DEF Shrinks
    <3> QED
      BY <2>1, <3>1 DEF Touches, Outcome
  <2>2. CASE r # s
    BY <2>2, OthersSame
  <2> QED
    BY <2>1, <2>2
<1>7. IsStored(d, e.table, e.gen)
  BY <1>1, <1>2, <1>3, <1>4, <1>6 DEF EntryIsStored
<1>8. k \in DOMAIN tableMap /\ tableMap[k].gen = e.gen /\ k[1] = d /\ k[2] = e.table
  BY <1>3, <1>7 DEF IsStored
<1>9. k \in DOMAIN tableMap'
  <2>1. ~Drops(s, i, Lower[k[2]])'
    BY <1>5, <1>8 DEF Touches
  <2> QED
    BY <2>1, <1>2, <1>8 DEF Shrinks
<1>10. tableMap'[k].gen = e.gen
  BY <1>8, <1>9 DEF Shrinks
<1> QED
  BY <1>3, <1>4, <1>9, <1>10

LEMMA ShrinksStale ==
  ASSUME Catalog, Types', NEW s \in Session, Moves(s), Shrinks(s), Outcome(s)
  PROVE  Stale' /\ TempGone' /\ Named' /\ Owned'
<1>1. Types /\ Queue /\ Stale /\ TempGone /\ Named /\ Owned
  BY DEF Catalog
<1>2. ASSUME NEW r \in Session, NEW d \in DOMAIN schemaMap', Overtaken(r, d)', NEW i, i = schemaMap'[d]
      PROVE  /\ DOMAIN tables'[i] = {}
             /\ \A c \in Session : \A lc \in Name : Creates(c, i, lc)' => Before(r, c)'
  <2>1. r # s /\ d \in DOMAIN schemaMap /\ schemaMap[d] = i
    <3>1. r # s
      BY <1>2 DEF Outcome
    <3>2. d \in DOMAIN schemaMap /\ schemaMap'[d] = schemaMap[d]
      BY DEF Shrinks
    <3> QED
      BY <3>1, <3>2, <1>2
  <2>2. Overtaken(r, d)
    BY <1>2, <2>1 DEF Overtaken, Moves
  <2>3. i \in DOMAIN tables
    BY <1>1, <2>1 DEF Types, Maps
  <2>4. DOMAIN tables'[i] = {}
    BY <2>1, <2>2, <2>3, <1>1 DEF Stale, Shrinks
  <2>5. ASSUME NEW c \in Session, NEW lc \in Name, Creates(c, i, lc)' PROVE Before(r, c)'
    <3>1. c # s
      BY <2>5 DEF Outcome
    <3>2. Creates(c, i, lc)
      BY <2>5, <3>1, OthersSame
    <3>3. Before(r, c)
      BY <3>2, <2>1, <2>2, <1>1 DEF Stale
    <3> QED
      BY <3>1, <3>3, <2>1, <1>1, OrderLater
  <2> QED
    BY <2>4, <2>5
<1>3. Stale'
  BY <1>2 DEF Stale, Creates
<1>4. TempGone'
  <2> SUFFICES ASSUME NEW r \in Session, stmt'[r].at = "dropping table of db", NEW k \in DOMAIN temp'[r]
               PROVE  k[1] # stmt'[r].d
    BY DEF TempGone
  <2>1. CASE r = s
    BY <2>1 DEF Outcome
  <2>2. CASE r # s
    <3>1. temp'[r] = temp[r]
      BY <2>2 DEF Shrinks
    <3>2. stmt'[r] = stmt[r]
      BY <2>2 DEF Moves
    <3> QED
      BY <3>1, <3>2, <1>1 DEF TempGone
  <2> QED
    BY <2>1, <2>2
<1>5. Named'
  BY <1>1 DEF Named, Shrinks
<1>6. Owned'
  <2>1. DOMAIN schemaMap' \cap BuiltIn = {}
    BY <1>1 DEF Owned, Shrinks
  <2>2. \A c, d \in DOMAIN schemaMap' : schemaMap'[c] = schemaMap'[d] => c = d
    BY <1>1 DEF Owned, Shrinks
  <2>3. clock \in Nat /\ clock' \in Nat /\ clock <= clock' /\ \A i \in DOMAIN tables : i \in Nat
    BY <1>1, Constants DEF Types, Shrinks, Id
  <2>4. \A i \in DOMAIN tables' : i <= clock'
    BY <1>1, <2>3 DEF Owned, Shrinks
  <2>5. ASSUME NEW r \in Session PROVE OwnedBy(r)'
    <3>1. CASE r = s
      BY <3>1 DEF Outcome
    <3>2. CASE r # s
      <4>1. stmt'[r] = stmt[r] /\ OwnedBy(r) /\ stmt[r] \in StmtType
        BY <3>2, <1>1 DEF Moves, Owned, Types
      <4>2. stmt[r].id \in Nat
        BY <4>1 DEF StmtType
      <4>3. stmt[r].id <= clock'
        <5>1. stmt[r].id <= clock
          BY <4>1 DEF OwnedBy
        <5> QED
          BY <4>2, <5>1, <2>3
      <4>4. \A d \in DOMAIN schemaMap' : d \in DOMAIN schemaMap /\ schemaMap'[d] = schemaMap[d]
        BY DEF Shrinks
      <4>5. DOMAIN tables' = DOMAIN tables
        BY DEF Shrinks
      <4> QED
        BY <4>1, <4>3, <4>4, <4>5 DEF OwnedBy
    <3> QED
      BY <3>1, <3>2
  <2> QED
    BY <2>1, <2>2, <2>4, <2>5 DEF Owned
<1> QED
  BY <1>3, <1>4, <1>5, <1>6

LEMMA ShrinksKeeps ==
  ASSUME Catalog, Types', NEW s \in Session, Moves(s), Shrinks(s), Outcome(s)
  PROVE  Catalog'
BY ShrinksAlternates, ShrinksLastIsStored, ShrinksEntryIsStored, ShrinksStale DEF Catalog, Moves

\* What such a statement does where names are in lower case.
NamesStep(s) ==
  /\ client' = client
  /\ SpelledBy(s)'
  /\ LowerCase => \A d \in DOMAIN schemaMap' : \A i, lc :
       schemaMap'[d] = i /\ Drops(s, i, lc)' => <<d, lc>> \notin DOMAIN tableMap'
  /\ LowerCase /\ ~client.drops => schemaMap' = schemaMap /\ stmt'[s].at # "dropping table of db"

LEMMA NamesKept ==
  ASSUME Catalog, Names, Types', NEW s \in Session, Moves(s), Shrinks(s), Outcome(s), NamesStep(s)
  PROVE  Names'
<1>1. Types /\ Queue /\ Spelled /\ ListedStays /\ Kept /\ client' = client /\ (LowerCase' <=> LowerCase)
  BY DEF Catalog, Names, NamesStep, LowerCase
<1>2. Spelled'
  <2>1. ASSUME NEW r \in Session PROVE SpelledBy(r)'
    <3>1. CASE r = s
      BY <3>1 DEF NamesStep
    <3>2. CASE r # s
      <4>1. temp'[r] = temp[r]
        BY <3>2 DEF Shrinks
      <4>2. stmt'[r] = stmt[r]
        BY <3>2 DEF Moves
      <4> QED
        BY <4>1, <4>2, <1>1 DEF Spelled, SpelledBy
    <3> QED
      BY <3>1, <3>2
  <2>2. \A i \in DOMAIN tables' : \A lc \in DOMAIN tables'[i] : tables'[i][lc].table \in client'.names
    BY <1>1 DEF Spelled, Shrinks
  <2>3. \A k \in DOMAIN tableMap' : k[2] \in client'.names
    BY <1>1 DEF Spelled, Shrinks
  <2> QED
    BY <2>1, <2>2, <2>3 DEF Spelled
\* What is listed and stored was listed and stored.
<1>3. ASSUME LowerCase, NEW k \in DOMAIN tableMap', NEW i, k[1] \in DOMAIN schemaMap',
             i = schemaMap'[k[1]]
      PROVE  /\ k \in DOMAIN tableMap /\ Lower[k[2]] = k[2] /\ k = <<k[1], k[2]>>
             /\ k[1] \in DOMAIN schemaMap /\ schemaMap[k[1]] = i /\ i \in DOMAIN tables
             /\ k[2] \in DOMAIN tables'[i] => k[2] \in DOMAIN tables[i]
             /\ k[2] \in DOMAIN tables[i] =>
                  k[2] \in DOMAIN tables'[i] /\ \A r \in Session : ~Drops(r, i, k[2])
  <2>1. k \in DOMAIN tableMap
    BY DEF Shrinks
  <2>2. k \in Key /\ k[2] \in client.names
    BY <2>1, <1>1 DEF Types, Maps, Spelled
  <2>3. Lower[k[2]] = k[2] /\ k = <<k[1], k[2]>>
    BY <1>3, <2>2 DEF LowerCase, Key
  <2>4. k[1] \in DOMAIN schemaMap /\ schemaMap[k[1]] = i
    BY <1>3 DEF Shrinks
  <2>5. i \in DOMAIN tables
    BY <2>4, <1>1 DEF Types, Maps
  <2>6. k[2] \in DOMAIN tables'[i] => k[2] \in DOMAIN tables[i]
    BY <2>5 DEF Shrinks
  <2>7. ASSUME k[2] \in DOMAIN tables[i]
        PROVE  k[2] \in DOMAIN tables'[i] /\ \A r \in Session : ~Drops(r, i, k[2])
    <3>1. Listed(k[1], k[2])
      BY <2>3, <2>4, <2>7 DEF Listed
    <3>2. \A r \in Session : ~Drops(r, i, k[2])
      BY <3>1, <2>1, <2>4, <1>1, <1>3 DEF ListedStays
    <3>3. k[2] \in DOMAIN tables'[i] \/ Drops(s, i, k[2])
      BY <2>5, <2>7 DEF Shrinks
    <3> QED
      BY <3>2, <3>3
  <2> QED
    BY <2>1, <2>3, <2>4, <2>5, <2>6, <2>7
<1>4. ListedStays'
  <2> SUFFICES ASSUME LowerCase, NEW k \in DOMAIN tableMap', NEW i,
                      k[1] \in DOMAIN schemaMap', i = schemaMap'[k[1]],
                      Lower[k[2]] \in DOMAIN tables'[i],
                      NEW r \in Session, Drops(r, i, k[2])'
               PROVE  FALSE
    BY <1>1 DEF ListedStays, Listed, Drops
  <2>1. /\ Lower[k[2]] = k[2] /\ k = <<k[1], k[2]>> /\ k[2] \in DOMAIN tables[i]
        /\ ~Drops(r, i, k[2])
    BY <1>3
  <2>2. r = s
    BY <2>1, OthersSame
  <2>3. <<k[1], k[2]>> \notin DOMAIN tableMap'
    BY <2>2 DEF NamesStep
  <2> QED
    BY <2>1, <2>3
<1>5. Kept'
  <2> SUFFICES ASSUME LowerCase, ~client.drops
               PROVE  /\ \A r \in Session : stmt'[r].at # "dropping table of db"
                      /\ \A k \in DOMAIN tableMap' :
                           /\ k[1] \in DOMAIN schemaMap'
                           /\ \/ Lower[k[2]] \in DOMAIN tables'[schemaMap'[k[1]]]
                              \/ \E c \in Session : \E i : i = schemaMap'[k[1]] /\ Creates(c, i, k[2])'
    BY <1>1 DEF Kept, Listed, Creates
  <2>1. \A r \in Session : stmt'[r].at # "dropping table of db"
    BY <1>1 DEF Kept, NamesStep, Moves
  <2>2. ASSUME NEW k \in DOMAIN tableMap'
        PROVE  /\ k[1] \in DOMAIN schemaMap'
               /\ \/ Lower[k[2]] \in DOMAIN tables'[schemaMap'[k[1]]]
                  \/ \E c \in Session : \E i : i = schemaMap'[k[1]] /\ Creates(c, i, k[2])'
    <3>1. k \in DOMAIN tableMap /\ schemaMap' = schemaMap
      BY DEF Shrinks, NamesStep
    <3>2. /\ k[1] \in DOMAIN schemaMap
          /\ Listed(k[1], k[2]) \/ \E c \in Session : Creates(c, schemaMap[k[1]], k[2])
      BY <3>1, <1>1 DEF Kept
    <3>3. PICK i : i = schemaMap'[k[1]]
      OBVIOUS
    <3>4. CASE Listed(k[1], k[2])
      BY <3>1, <3>2, <3>3, <3>4, <1>3 DEF Listed
    <3>5. CASE \E c \in Session : Creates(c, schemaMap[k[1]], k[2])
      <4>1. PICK c \in Session : Creates(c, i, k[2])
        BY <3>1, <3>3, <3>5
      <4>2. c # s
        BY <4>1 DEF Outcome
      <4>3. Creates(c, i, k[2])'
        BY <4>1, <4>2, OthersSame
      <4> QED
        BY <3>1, <3>2, <3>3, <4>3
    <3> QED
      BY <3>2, <3>4, <3>5
  <2> QED
    BY <2>1, <2>2
<1> QED
  BY <1>2, <1>4, <1>5 DEF Names

\* What such a statement does to rows.
RowsStep(s) ==
  ~client.begins /\ LowerCase =>
    /\ \A k \in DOMAIN tableMap' : NotOlder(tableMap'[k].rows, tableMap'[k].gen)
    /\ \A r \in Session \ {s} : tx'[r] = tx[r]
    /\ RowsBy(s)'

LEMMA RowsKept ==
  ASSUME Catalog, Names, Rows, Types', NEW s \in Session, Moves(s), Shrinks(s), Outcome(s),
         NamesStep(s),
         RowsStep(s)
  PROVE  Rows'
<1>1. Types /\ Queue /\ Spelled /\ Stale /\ client' = client /\ (LowerCase' <=> LowerCase)
  BY DEF Catalog, Names, NamesStep, LowerCase
<1> SUFFICES ASSUME ~client.begins, LowerCase
             PROVE  /\ \A k \in DOMAIN tableMap' :
                         NotOlder(tableMap'[k].rows, tableMap'[k].gen) /\ tableMap'[k].gen <= clock'
                    /\ \A r \in Session : RowsBy(r)'
  BY <1>1 DEF Rows, NotOlder
<1>2. clock \in Nat /\ clock' \in Nat /\ clock <= clock' /\ \A g \in Id : g \in Nat
  BY <1>1, Constants DEF Types, Shrinks, Id
<1>3. ASSUME NEW k \in DOMAIN tableMap' PROVE tableMap'[k].gen <= clock'
  <2>1. k \in DOMAIN tableMap /\ tableMap'[k].gen = tableMap[k].gen
    BY DEF Shrinks
  <2>2. tableMap[k] \in Data
    BY <2>1, <1>1 DEF Types, Maps
  <2>3. tableMap[k].gen \in Id
    BY <2>2 DEF Data
  <2>4. tableMap[k].gen <= clock
    BY <2>1 DEF Rows
  <2> QED
    BY <2>1, <2>3, <2>4, <1>2
<1>4. ASSUME NEW r \in Session, r # s PROVE RowsBy(r)'
  <2>1. temp'[r] = temp[r]
    BY <1>4 DEF Shrinks
  <2>2. stmt'[r] = stmt[r] /\ tx'[r] = tx[r]
    BY <1>4 DEF Moves, RowsStep
  <2>3. RowsBy(r)
    BY DEF Rows
  <2>4. ASSUME NEW k \in DOMAIN temp[r] PROVE temp[r][k].gen <= clock'
    <3>1. temp[r][k] \in Data
      BY <1>1 DEF Types, Maps
    <3>2. temp[r][k].gen \in Id
      BY <3>1 DEF Data
    <3>3. temp[r][k].gen <= clock
      BY <2>3 DEF RowsBy
    <3> QED
      BY <3>2, <3>3, <1>2
  <2>5. ASSUME stmt[r].at = "installing", NEW k \in DOMAIN tx[r].data, k \notin DOMAIN temp[r]
        PROVE  /\ k[1] \in DOMAIN schemaMap' /\ k[2] \in client.names
               /\ \A i : i = schemaMap'[k[1]] =>
                    Lower[k[2]] \in DOMAIN tables'[i]
                    /\ \A q \in Session : Drops(q, i, k[2])' => Before(r, q)'
               /\ k \in DOMAIN tableMap' => NotOlder(tx[r].data[k], tableMap'[k].gen)
    <3>1. InsertSafe(r)
      BY <2>3, <2>5 DEF RowsBy
    <3>2. /\ Listed(k[1], k[2]) /\ k[2] \in client.names
          /\ \A q \in Session : Drops(q, schemaMap[k[1]], k[2]) => Before(r, q)
          /\ k \in DOMAIN tableMap => NotOlder(tx[r].data[k], tableMap[k].gen)
      BY <3>1, <2>5 DEF InsertSafe
    <3>3. Lower[k[2]] = k[2]
      BY <3>2 DEF LowerCase
    <3>4. PICK i : i = schemaMap[k[1]]
      OBVIOUS
    <3>5. k[1] \in DOMAIN schemaMap /\ k[2] \in DOMAIN tables[i] /\ i \in DOMAIN tables
      BY <3>2, <3>3, <3>4, <1>1 DEF Listed, Types, Maps
    <3>6. k[2] \in DOMAIN tables'[i]
      <4> SUFFICES ASSUME k[2] \notin DOMAIN tables'[i] PROVE FALSE
        OBVIOUS
      <4>1. Drops(s, i, k[2])
        BY <3>5 DEF Shrinks
      <4>2. IsFirst(s)
        BY <4>1 DEF Shrinks
      <4>3. Before(s, r)
        BY <4>2, <1>4, <2>5 DEF IsFirst, Quiet
      <4>4. Before(r, s)
        BY <4>1, <3>2, <3>4
      <4> QED
        BY <4>3, <4>4, <1>1, InOrder
    <3>7. k[1] \in DOMAIN schemaMap' /\ schemaMap'[k[1]] = i
      <4>1. k[1] \in DOMAIN schemaMap' \/ DOMAIN tables'[i] = {}
        BY <3>4, <3>5 DEF Shrinks
      <4>2. k[1] \in DOMAIN schemaMap'
        BY <4>1, <3>6
      <4> QED
        BY <4>2, <3>4 DEF Shrinks
    <3>8. ASSUME NEW q \in Session, Drops(q, i, k[2])' PROVE Before(r, q)'
      <4>1. CASE q = s
        <5>1. stmt'[s].at \notin Quiet
          BY <4>1, <3>8, TouchWaitsLater DEF Touches
        <5>2. stmt[r].at \notin Quiet
          BY <2>5 DEF Quiet
        <5> QED
          BY <5>1, <5>2, <4>1, <1>1, <1>4, OrderLater
      <4>2. CASE q # s
        <5>1. Drops(q, i, k[2])
          BY <4>2, <3>8, OthersSame
        <5>2. Before(r, q)
          BY <5>1, <3>2, <3>4
        <5> QED
          BY <5>2, <4>2, <1>1, <1>4, OrderLater
      <4> QED
        BY <4>1, <4>2
    <3>9. ASSUME k \in DOMAIN tableMap' PROVE NotOlder(tx[r].data[k], tableMap'[k].gen)
      <4>1. k \in DOMAIN tableMap /\ tableMap'[k].gen = tableMap[k].gen
        BY <3>9 DEF Shrinks
      <4> QED
        BY <4>1, <3>2
    <3> QED
      BY <3>2, <3>3, <3>6, <3>7, <3>8, <3>9
  <2>6. ASSUME stmt[r].at = "installing" PROVE InsertSafe(r)'
    <3> SUFFICES ASSUME NEW k \in DOMAIN tx[r].data
                 PROVE IF k \in DOMAIN temp[r] THEN NotOlder(tx[r].data[k], temp[r][k].gen)
                       ELSE /\ Listed(k[1], k[2])'
                            /\ k[2] \in client.names
                            /\ \A q \in Session : Drops(q, schemaMap[k[1]], k[2])' => Before(r, q)'
                            /\ k \in DOMAIN tableMap' => NotOlder(tx[r].data[k], tableMap'[k].gen)
      BY <2>1, <2>2, <1>1 DEF InsertSafe, NotOlder
    <3>1. CASE k \in DOMAIN temp[r]
      BY <3>1, <2>3, <2>6 DEF RowsBy, InsertSafe
    <3>2. CASE k \notin DOMAIN temp[r]
      BY <3>2, <2>5, <2>6 DEF Listed, Drops
    <3> QED
      BY <3>1, <3>2
  <2> QED
    BY <2>1, <2>2, <2>3, <2>4, <2>6 DEF RowsBy, NotOlder
<1>5. RowsBy(s)'
  BY DEF RowsStep
<1>6. \A k \in DOMAIN tableMap' : NotOlder(tableMap'[k].rows, tableMap'[k].gen)
  BY DEF RowsStep
<1> QED
  BY <1>3, <1>4, <1>5, <1>6

LEMMA ShrinksKeepsAll ==
  ASSUME IInv, Types', NEW s \in Session, Moves(s), Shrinks(s), Outcome(s), NamesStep(s), RowsStep(s)
  PROVE  IInv'
BY ShrinksKeeps, NamesKept, RowsKept DEF IInv

-----------------------------------------------------------------------------
(* Statements that leave the catalog alone *)

Silent == {"idle", "selecting", "installing", "clearing"}

LEMMA IdleIs == Idle.at = "idle" /\ Idle.sch = 0 /\ Idle.id = 0 /\ ~Idle.temp
BY DEF Idle

\* A statement that is not in DDL remembers nothing of the catalog.
LEMMA IdleOwned ==
  ASSUME Types', NEW s \in Session, stmt'[s] = Idle
  PROVE  OwnedBy(s)'
<1>1. clock' \in Nat
  BY Constants DEF Types
<1>2. stmt'[s].at = "idle" /\ stmt'[s].sch = 0 /\ stmt'[s].id = 0
  BY IdleIs
<1> QED
  BY <1>1, <1>2 DEF OwnedBy

LEMMA LatterOwned ==
  ASSUME NEW s \in Session, clock' \in Nat, stmt'[s].at \in {"clearing", "installing"},
         stmt'[s].sch = 0, stmt'[s].id = clock'
  PROVE  OwnedBy(s)'
<1>1. stmt'[s].id <= clock'
  OBVIOUS
<1> QED
  BY <1>1 DEF OwnedBy

\* Neither before nor afterwards has s to do with an entry.
Aside(s) ==
  /\ \A i, lc : ~Touches(s, i, lc)
  /\ stmt'[s].at \in Silent \/ (stmt'[s].at = "creating" /\ stmt'[s].temp)
  /\ OwnedBy(s)'

LEMMA AsideShrinks ==
  ASSUME Catalog, Types', NEW s \in Session, Moves(s), Aside(s),
         clock' \in {clock, clock + 1}, schemaMap' = schemaMap, tables' = tables,
         DOMAIN tableMap' = DOMAIN tableMap,
         \A k \in DOMAIN tableMap : tableMap'[k].gen = tableMap[k].gen,
         \A r \in Session \ {s} : temp'[r] = temp[r]
  PROVE  Shrinks(s) /\ Outcome(s)
<1>1. clock <= clock'
  BY Constants DEF Catalog, Types
<1>2. \A i, lc : ~Creates(s, i, lc) /\ ~Drops(s, i, lc)
  BY DEF Aside, Touches
<1>3. /\ \A i, lc : ~Creates(s, i, lc)' /\ ~Drops(s, i, lc)'
      /\ stmt'[s].at # "dropping table of db"
  BY DEF Aside, Silent, Creates, Drops
<1>4. \A d \in DOMAIN schemaMap' : ~Overtaken(s, d)'
  BY <1>3 DEF Overtaken
<1>5. Shrinks(s)
  BY <1>1, <1>2 DEF Shrinks
<1>6. Outcome(s)
  BY <1>2, <1>3, <1>4 DEF Outcome, Aside
<1> QED
  BY <1>5, <1>6

LEMMA AsideNames ==
  ASSUME Catalog, Names, NEW s \in Session, Moves(s), Aside(s), client' = client,
         schemaMap' = schemaMap, SpelledBy(s)'
  PROVE  NamesStep(s)
<1>1. /\ \A i, lc : ~Drops(s, i, lc)'
      /\ stmt'[s].at # "dropping table of db"
  BY DEF Aside, Silent, Drops
<1> QED
  BY <1>1 DEF NamesStep

\* A statement that is answered at once and changes nothing but the temporary tables of s
\* and its transaction.
LEMMA AnsweredKeeps ==
  ASSUME IInv, NEW s \in Session, stmt[s].at \in Quiet, clock' \in {clock, clock + 1},
         clock' \in 0..MaxStmt, NEW how \in {"ok", "error"}, Answer(s, how),
         client' = client, schemaMap' = schemaMap, tables' = tables, tableMap' = tableMap, jobs' = jobs,
         NEW own, DOMAIN temp' = Session, temp'[s] = own, Maps(own, Key, Data),
         \A r \in Session \ {s} : temp'[r] = temp[r],
         \A k \in DOMAIN own : k \in DOMAIN temp[s] /\ own[k] = temp[s][k],
         tx' \in [Session -> TxType], \A r \in Session \ {s} : tx'[r] = tx[r],
         client.begins \/ tx'[s] = NoTx \/ tx' = tx
  PROVE  IInv'
<1>1. Types /\ Queue /\ CatalogTypes /\ OtherTypes /\ Catalog /\ Names /\ Rows /\ client \in Client
  BY TypesAre DEF IInv, Catalog
<1>2. stmt[s].at \in {"idle", "selecting"} /\ clock' \in Nat
  BY Constants DEF Quiet
<1>3. stmt'[s] = Idle /\ stmt' \in [Session -> StmtType] /\ reply' \in [Session -> {"ok", "error"}]
      /\ stmt'[s].at \in Quiet /\ \A r \in Session \ {s} : stmt'[r] = stmt[r]
  BY <1>1, AnswerTypes, AnswerIs DEF OtherTypes
<1>5. Types'
  <2>1. CatalogTypes'
    BY <1>1 DEF CatalogTypes, Maps
  <2>2. OtherTypes'
    BY <1>1, <1>2, <1>3 DEF OtherTypes
  <2> QED
    BY <2>1, <2>2, <1>1, TypesAre DEF Types, CatalogTypes, OtherTypes
<1>6. Moves(s)
  BY <1>1, <1>3, CallMoves DEF Ends
<1>7. Aside(s)
  <2>1. \A i, lc : ~Touches(s, i, lc)
    BY <1>2 DEF Touches, Creates, Drops
  <2>2. stmt'[s].at = "idle"
    BY <1>3, IdleIs
  <2> QED
    BY <2>1, <2>2, <1>3, <1>5, IdleOwned DEF Aside, Silent
<1>8. Shrinks(s) /\ Outcome(s)
  BY <1>1, <1>2, <1>5, <1>6, <1>7, AsideShrinks
<1>9. NamesStep(s)
  <2>1. SpelledBy(s)
    BY <1>1 DEF Names, Spelled
  <2>2. SpelledBy(s)'
    BY <2>1, <1>3, IdleIs DEF SpelledBy
  <2> QED
    BY <2>2, <1>1, <1>6, <1>7, AsideNames
<1>10. RowsStep(s)
  <2> SUFFICES ASSUME ~client.begins, LowerCase
               PROVE  /\ \A k \in DOMAIN tableMap : NotOlder(tableMap[k].rows, tableMap[k].gen)
                      /\ RowsBy(s)'
    BY DEF RowsStep
  <2>1. \A k \in DOMAIN tableMap : NotOlder(tableMap[k].rows, tableMap[k].gen)
    BY <1>1 DEF Rows
  <2>2. RowsBy(s)
    BY <1>1 DEF Rows
  <2>3. tx'[s] = NoTx
    BY <2>2, <1>2 DEF RowsBy
  <2>4. stmt'[s].at = "idle"
    BY <1>3, IdleIs
  <2>5. ASSUME NEW k \in DOMAIN own PROVE NotOlder(own[k].rows, own[k].gen) /\ own[k].gen <= clock'
    <3>1. NotOlder(own[k].rows, own[k].gen) /\ own[k].gen <= clock
      BY <2>2 DEF RowsBy
    <3>2. own[k] \in Data
      BY DEF Maps
    <3>3. own[k].gen \in Nat /\ clock \in Nat
      BY <3>2, <1>1, Constants DEF Data, Id, Types
    <3> QED
      BY <3>1, <3>3, <1>2
  <2> QED
    BY <2>1, <2>3, <2>4, <2>5 DEF RowsBy, NotOlder
<1> QED
  BY <1>5, <1>6, <1>8, <1>9, <1>10, ShrinksKeepsAll

\* The same where nothing changes at all.
LEMMA RefusedKeeps ==
  ASSUME IInv, NEW s \in Session, stmt[s].at \in Quiet, clock' \in {clock, clock + 1},
         clock' \in 0..MaxStmt, NEW how \in {"ok", "error"}, Answer(s, how),
         UNCHANGED <<client, schemaMap, tables, tableMap, jobs, temp, tx>>
  PROVE  IInv'
<1>1. Types
  BY DEF IInv, Catalog
<1>2. DOMAIN temp = Session /\ Maps(temp[s], Key, Data) /\ tx \in [Session -> TxType]
  BY <1>1 DEF Types
<1> QED
  BY <1>2, AnsweredKeeps

LEMMA BeginKeeps ==
  ASSUME IInv, NEW s \in Session, Begin(s), client' = client
  PROVE  IInv'
<1>1. Types /\ Call(s) /\ client.begins
  BY DEF IInv, Catalog, Begin
<1>2. DOMAIN temp = Session /\ Maps(temp[s], Key, Data) /\ tx \in [Session -> TxType]
  BY <1>1 DEF Types
<1>3. stmt[s].at \in Quiet /\ clock' \in {clock, clock + 1} /\ clock' \in 0..MaxStmt
  BY <1>1, CallIs DEF Quiet
<1>4. tx' \in [Session -> TxType] /\ \A r \in Session \ {s} : tx'[r] = tx[r]
  <2>1. [NoTx EXCEPT !.open = TRUE] \in TxType
    BY NoTxType DEF NoTx, TxType
  <2> QED
    BY <2>1, <1>2 DEF Begin
<1>5. Answer(s, "ok") /\ UNCHANGED <<schemaMap, tables, tableMap, temp, jobs>>
  BY DEF Begin
<1> QED
  BY <1>1, <1>2, <1>3, <1>4, <1>5, AnsweredKeeps

\* The commit of the data of a transaction, by COMMIT or at the end of an INSERT.
LEMMA InstallKeeps ==
  ASSUME IInv, NEW s \in Session, Install(s), client' = client, tx' = tx,
         schemaMap' = schemaMap, tables' = tables, clock' \in {clock, clock + 1}, clock' \in 0..MaxStmt,
         stmt[s].at \in {"idle", "installing"}, Moves(s), jobs' \in Seq(Session),
         stmt' \in [Session -> StmtType], reply' = reply,
         stmt'[s].at = "clearing", OwnedBy(s)',
         client.begins \/ stmt[s].at = "installing"
  PROVE  IInv'
<1>1. Types /\ Queue /\ CatalogTypes /\ OtherTypes /\ Catalog /\ Names /\ Rows /\ client \in Client
  BY TypesAre DEF IInv, Catalog
<1>2. tx \in [Session -> TxType]
  BY <1>1 DEF OtherTypes
<1>3. /\ Maps(tableMap', Key, Data)
      /\ DOMAIN temp' = Session /\ \A r \in Session : Maps(temp'[r], Key, Data)
      /\ \A r \in Session \ {s} : temp'[r] = temp[r]
      /\ DOMAIN tableMap' = DOMAIN tableMap /\ DOMAIN temp'[s] = DOMAIN temp[s]
      /\ \A k \in DOMAIN tableMap :
           /\ tableMap'[k].gen = tableMap[k].gen
           /\ tableMap'[k].rows = IF k \in DOMAIN tx[s].data /\ k \notin DOMAIN temp[s]
                                  THEN tx[s].data[k] ELSE tableMap[k].rows
      /\ \A k \in DOMAIN temp[s] :
           /\ temp'[s][k].gen = temp[s][k].gen
           /\ temp'[s][k].rows = IF k \in DOMAIN tx[s].data
                                 THEN tx[s].data[k] ELSE temp[s][k].rows
  BY <1>1, <1>2, InstallTypes
<1>4. Types'
  <2>1. CatalogTypes'
    BY <1>1, <1>3 DEF CatalogTypes
  <2>2. OtherTypes'
    BY <1>1 DEF OtherTypes
  <2> QED
    BY <2>1, <2>2, <1>1, TypesAre DEF Types, CatalogTypes, OtherTypes
<1>5. Aside(s)
  <2>1. \A i, lc : ~Touches(s, i, lc)
    BY DEF Touches, Creates, Drops
  <2> QED
    BY <2>1 DEF Aside, Silent
<1>6. Shrinks(s) /\ Outcome(s)
  BY <1>1, <1>3, <1>4, <1>5, AsideShrinks
<1>7. NamesStep(s)
  <2>1. SpelledBy(s)
    BY <1>1 DEF Names, Spelled
  <2>2. SpelledBy(s)'
    BY <2>1, <1>3 DEF SpelledBy
  <2> QED
    BY <2>2, <1>1, <1>5, AsideNames
<1>8. RowsStep(s)
  <2> SUFFICES ASSUME ~client.begins, LowerCase
               PROVE  /\ \A k \in DOMAIN tableMap : NotOlder(tableMap'[k].rows, tableMap[k].gen)
                      /\ RowsBy(s)'
    BY <1>3 DEF RowsStep
  <2>1. stmt[s].at = "installing" /\ RowsBy(s)
    BY <1>1 DEF Rows
  <2>2. InsertSafe(s)
    BY <2>1 DEF RowsBy
  <2>3. ASSUME NEW k \in DOMAIN tableMap PROVE NotOlder(tableMap'[k].rows, tableMap[k].gen)
    <3>1. NotOlder(tableMap[k].rows, tableMap[k].gen)
      BY <1>1 DEF Rows
    <3>2. k \in DOMAIN tx[s].data /\ k \notin DOMAIN temp[s] => NotOlder(tx[s].data[k], tableMap[k].gen)
      BY <2>2 DEF InsertSafe
    <3> QED
      BY <3>1, <3>2, <1>3
  <2>4. ASSUME NEW k \in DOMAIN temp[s]
        PROVE  NotOlder(temp'[s][k].rows, temp'[s][k].gen) /\ temp'[s][k].gen <= clock'
    <3>1. NotOlder(temp[s][k].rows, temp[s][k].gen) /\ temp[s][k].gen <= clock
      BY <2>1 DEF RowsBy
    <3>2. k \in DOMAIN tx[s].data => NotOlder(tx[s].data[k], temp[s][k].gen)
      BY <2>2 DEF InsertSafe
    <3>3. NotOlder(temp'[s][k].rows, temp'[s][k].gen)
      BY <3>1, <3>2, <1>3
    <3>4. temp[s][k] \in Data
      BY <1>1 DEF CatalogTypes, Maps
    <3>5. temp[s][k].gen \in Nat /\ clock \in Nat
      BY <3>4, <1>1, Constants DEF Data, Id, Types
    <3>6. temp[s][k].gen <= clock'
      BY <3>1, <3>5
    <3> QED
      BY <3>3, <3>6, <1>3
  <2> QED
    BY <2>3, <2>4, <1>3 DEF RowsBy, NotOlder
<1> QED
  BY <1>4, <1>6, <1>7, <1>8, ShrinksKeepsAll

LEMMA CommitKeeps ==
  ASSUME IInv, NEW s \in Session, Commit(s), client' = client
  PROVE  IInv'
<1>1. Types /\ Queue /\ Call(s) /\ client.begins
  BY DEF IInv, Catalog, Commit
<1>2. DOMAIN temp = Session /\ Maps(temp[s], Key, Data) /\ tx \in [Session -> TxType]
      /\ stmt \in [Session -> StmtType]
  BY <1>1 DEF Types
<1>3. /\ stmt[s].at = "idle" /\ stmt[s].at \in Quiet
      /\ clock' \in {clock, clock + 1} /\ clock' \in 0..MaxStmt
      /\ clock' \in Nat
  BY <1>1, CallIs DEF Quiet
<1>4. CASE tx[s].data = Empty
  <2>1. tx' \in [Session -> TxType] /\ \A r \in Session \ {s} : tx'[r] = tx[r]
    BY <1>2, <1>4, NoTxType DEF Commit
  <2>2. Answer(s, "ok") /\ UNCHANGED <<schemaMap, tables, tableMap, temp, jobs>>
    BY <1>4 DEF Commit
  <2> QED
    BY <2>1, <2>2, <1>1, <1>2, <1>3, AnsweredKeeps
<1>5. CASE tx[s].data # Empty
  <2>1. PICK rec \in StmtType :
          /\ [Idle EXCEPT !.at = "clearing", !.id = clock'] = rec
          /\ rec.at = "clearing" /\ rec.id = clock' /\ rec.sch = 0
    BY <1>3, OtherRecord
  <2>2. Install(s) /\ Await(s, jobs, rec) /\ UNCHANGED <<tx, schemaMap, tables>>
    BY <2>1, <1>5 DEF Commit
  <2>3. stmt'[s] = rec /\ jobs' = Append(jobs, s) /\ reply' = reply
    BY <2>2, <1>2, AwaitIs DEF Await
  <2>4. Moves(s)
    <3>1. rec.at \notin Quiet
      BY <2>1 DEF Quiet
    <3> QED
      BY <2>2, <3>1, <1>1, CallWaits
  <2>5. stmt' \in [Session -> StmtType] /\ jobs' \in Seq(Session)
    BY <2>2, <2>3, <1>1, AwaitTypes, RestType
  <2>6. stmt'[s].at = "clearing" /\ stmt'[s].sch = 0 /\ stmt'[s].id = clock'
    BY <2>1, <2>3
  <2>7. stmt'[s].at = "clearing" /\ OwnedBy(s)'
    BY <2>6, <1>3, LatterOwned
  <2> QED
    BY <2>2, <2>3, <2>4, <2>5, <2>7, <1>1, <1>3, InstallKeeps
<1> QED
  BY <1>4, <1>5

LEMMA InstalledKeeps ==
  ASSUME IInv, NEW s \in Session, Installed(s), client' = client
  PROVE  IInv'
<1>1. Types /\ Queue /\ Owned /\ Turn(s, "installing")
  BY DEF IInv, Catalog, Installed
<1>2. DOMAIN temp = Session /\ Maps(temp[s], Key, Data) /\ tx \in [Session -> TxType]
      /\ stmt \in [Session -> StmtType] /\ clock \in 0..MaxStmt
  BY <1>1 DEF Types
<1>3. stmt[s].at = "installing" /\ jobs # <<>>
  BY <1>1 DEF Turn
<1>4. PICK rec : rec = [stmt[s] EXCEPT !.at = "clearing"]
  OBVIOUS
<1>5. rec \in StmtType /\ rec.at = "clearing" /\ rec.id = stmt[s].id /\ rec.sch = stmt[s].sch
  <2>1. stmt[s] \in StmtType
    BY <1>2
  <2> QED
    BY <2>1, <1>4 DEF StmtType, At
<1>6. Install(s) /\ Await(s, Tail(jobs), rec) /\ UNCHANGED <<tx, schemaMap, tables, clock>>
  BY <1>4 DEF Installed
<1>7. stmt'[s] = rec /\ jobs' = Append(Tail(jobs), s) /\ reply' = reply
  BY <1>6, <1>2, AwaitIs DEF Await
<1>8. Moves(s)
  <2>1. rec.at \notin Quiet
    BY <1>5 DEF Quiet
  <2> QED
    BY <2>1, <1>1, <1>6, TurnWaits
<1>9. stmt' \in [Session -> StmtType] /\ jobs' \in Seq(Session)
  BY <1>1, <1>3, <1>5, <1>6, <1>7, AwaitTypes, RestType
<1>10. OwnedBy(s)'
  <2>1. OwnedBy(s)
    BY <1>1 DEF Owned
  <2> QED
    BY <2>1, <1>5, <1>6, <1>7 DEF OwnedBy
<1> QED
  BY <1>2, <1>3, <1>5, <1>6, <1>7, <1>8, <1>9, <1>10, InstallKeeps

\* A statement that leaves catalog and tables as they are.
LEMMA AsideKeeps ==
  ASSUME IInv, NEW s \in Session, client' = client, schemaMap' = schemaMap, tables' = tables,
         tableMap' = tableMap, temp' = temp, clock' \in {clock, clock + 1}, clock' \in 0..MaxStmt,
         Moves(s), jobs' \in Seq(Session), stmt' \in [Session -> StmtType],
         reply' \in [Session -> {"ok", "error"}],
         tx' \in [Session -> TxType], \A r \in Session \ {s} : tx'[r] = tx[r],
         Aside(s), SpelledBy(s)',
         ~client.begins /\ LowerCase =>
           /\ stmt'[s].at \notin {"installing", "clearing"} => tx'[s] = NoTx
           /\ stmt'[s].at = "installing" => InsertSafe(s)'
  PROVE  IInv'
<1>1. Types /\ CatalogTypes /\ OtherTypes /\ Catalog /\ Names /\ Rows /\ client \in Client
  BY TypesAre DEF IInv, Catalog
<1>2. Types'
  <2>1. CatalogTypes'
    BY <1>1 DEF CatalogTypes, Maps
  <2>2. OtherTypes'
    BY <1>1 DEF OtherTypes
  <2> QED
    BY <2>1, <2>2, <1>1, TypesAre DEF Types, CatalogTypes, OtherTypes
<1>3. Shrinks(s) /\ Outcome(s) /\ NamesStep(s)
  BY <1>1, <1>2, AsideShrinks, AsideNames
<1>4. RowsStep(s)
  <2> SUFFICES ASSUME ~client.begins, LowerCase
               PROVE  /\ \A k \in DOMAIN tableMap : NotOlder(tableMap[k].rows, tableMap[k].gen)
                      /\ RowsBy(s)'
    BY DEF RowsStep
  <2>1. \A k \in DOMAIN tableMap : NotOlder(tableMap[k].rows, tableMap[k].gen)
    BY <1>1 DEF Rows
  <2>2. RowsBy(s)
    BY <1>1 DEF Rows
  <2>3. ASSUME NEW k \in DOMAIN temp[s]
        PROVE  NotOlder(temp[s][k].rows, temp[s][k].gen) /\ temp[s][k].gen <= clock'
    <3>1. NotOlder(temp[s][k].rows, temp[s][k].gen) /\ temp[s][k].gen <= clock
      BY <2>2 DEF RowsBy
    <3>2. temp[s][k] \in Data
      BY <1>1 DEF CatalogTypes, Maps
    <3>3. temp[s][k].gen \in Nat /\ clock \in Nat
      BY <3>2, <1>1, Constants DEF Data, Id, Types
    <3> QED
      BY <3>1, <3>3
  <2> QED
    BY <2>1, <2>3 DEF RowsBy, NotOlder
<1> QED
  BY <1>2, <1>3, <1>4, ShrinksKeepsAll

LEMMA ClearedKeeps ==
  ASSUME IInv, NEW s \in Session, Cleared(s), client' = client
  PROVE  IInv'
<1>1. Types /\ Queue /\ Names /\ Turn(s, "clearing")
  BY DEF IInv, Catalog, Cleared
<1>2. stmt \in [Session -> StmtType] /\ tx \in [Session -> TxType] /\ clock \in 0..MaxStmt
  BY <1>1 DEF Types
<1>3. stmt[s].at = "clearing" /\ jobs # <<>>
  BY <1>1 DEF Turn
<1>4. /\ Answer(s, "ok") /\ jobs' = Tail(jobs)
      /\ UNCHANGED <<schemaMap, tables, tableMap, temp, clock>>
  BY DEF Cleared
<1>5. tx' \in [Session -> TxType] /\ tx'[s] = NoTx /\ \A r \in Session \ {s} : tx'[r] = tx[r]
  BY <1>2, NoTxType DEF Cleared
<1>6. Moves(s)
  BY <1>1, <1>4, TurnEnds
<1>7. stmt'[s] = Idle
  BY <1>2, <1>4, AnswerIs
<1>8. /\ stmt' \in [Session -> StmtType] /\ reply' \in [Session -> {"ok", "error"}]
      /\ jobs' \in Seq(Session)
  BY <1>1, <1>3, <1>4, AnswerTypes, RestType
<1>9. stmt'[s].at = "idle" /\ stmt'[s].sch = 0 /\ stmt'[s].id = 0
  BY <1>7, IdleIs
<1>10. Aside(s)
  <2>1. \A i, lc : ~Touches(s, i, lc)
    BY <1>3 DEF Touches, Creates, Drops
  <2>2. clock' \in Nat
    BY <1>2, <1>4, Constants
  <2>3. OwnedBy(s)'
    BY <1>9, <2>2 DEF OwnedBy
  <2> QED
    BY <2>1, <2>3, <1>9 DEF Aside, Silent
<1>11. SpelledBy(s)'
  <2>1. SpelledBy(s)
    BY <1>1 DEF Names, Spelled
  <2> QED
    BY <2>1, <1>4, <1>9 DEF SpelledBy
<1> QED
  BY <1>2, <1>4, <1>5, <1>6, <1>8, <1>9, <1>10, <1>11, AsideKeeps

LEMMA CreateTableAsKeeps ==
  ASSUME IInv, NEW s \in Session, NEW d \in client.databases, NEW n \in client.names,
         NEW is_temp \in BOOLEAN, CreateTableAs(s, d, n, is_temp), client' = client
  PROVE  IInv'
<1>1. Types /\ Queue /\ Names /\ Rows /\ Call(s) /\ Issue(s)
  BY DEF IInv, Catalog, CreateTableAs, Issue
<1>2. stmt \in [Session -> StmtType] /\ tx \in [Session -> TxType] /\ jobs \in Seq(Session)
      /\ d \in Database /\ n \in Name /\ reply \in [Session -> {"ok", "error"}]
  BY <1>1, Constants DEF Types
<1>3. /\ stmt[s].at = "idle" /\ clock' = clock + 1
      /\ clock' \in Id /\ clock' \in Nat /\ clock' \in 0..MaxStmt
  BY <1>1, CallIs
<1>4. PICK rec : rec = [at |-> "selecting", id |-> clock', d |-> d, n |-> n,
                        sch |-> 0, temp |-> is_temp, as |-> TRUE]
  OBVIOUS
<1>5. /\ rec \in StmtType /\ rec.at = "selecting" /\ rec.id = clock'
      /\ rec.d = d /\ rec.n = n /\ rec.sch = 0
  BY <1>2, <1>3, <1>4 DEF StmtType, At
<1>6. /\ stmt' = [stmt EXCEPT ![s] = rec]
      /\ UNCHANGED <<schemaMap, tables, tableMap, temp, tx, jobs, reply>>
  BY <1>4 DEF CreateTableAs
<1>7. Moves(s)
  BY <1>1, StepMoves
<1>8. stmt'[s] = rec /\ stmt' \in [Session -> StmtType]
  BY <1>2, <1>5, <1>6
<1>9. /\ stmt'[s].at = "selecting" /\ stmt'[s].id = clock' /\ stmt'[s].d = d /\ stmt'[s].n = n
      /\ stmt'[s].sch = 0
  BY <1>5, <1>8
<1>10. Aside(s)
  <2>1. \A i, lc : ~Touches(s, i, lc)
    BY <1>3 DEF Touches, Creates, Drops
  <2>2. stmt'[s].id <= clock' /\ stmt'[s].id \in Id
    BY <1>3, <1>9
  <2>3. OwnedBy(s)'
    BY <1>2, <1>9, <2>2 DEF OwnedBy
  <2> QED
    BY <2>1, <2>3, <1>9 DEF Aside, Silent
<1>11. SpelledBy(s)'
  <2>1. SpelledBy(s)
    BY <1>1 DEF Names, Spelled
  <2> QED
    BY <2>1, <1>6, <1>9 DEF SpelledBy
<1>12. ~client.begins /\ LowerCase => tx[s] = NoTx
  <2> SUFFICES ASSUME ~client.begins, LowerCase PROVE tx[s] = NoTx
    OBVIOUS
  <2>1. RowsBy(s)
    BY <1>1 DEF Rows
  <2> QED
    BY <2>1, <1>3 DEF RowsBy
<1> QED
  BY <1>2, <1>3, <1>6, <1>7, <1>8, <1>9, <1>10, <1>11, <1>12, AsideKeeps

\* The rows that an INSERT finds are not older than the table, and neither is its own.
LEMMA InsertTypes ==
  ASSUME Types, NEW s \in Session, NEW d \in Database, NEW n \in Name, Insert(s, d, n)
  PROVE  /\ tx' \in [Session -> TxType] /\ \A r \in Session \ {s} : tx'[r] = tx[r]
         /\ tx[s] = NoTx =>
              tx'[s].data = With(Empty, <<d, n>>, View(s, d, n) \cup {clock'})
<1> DEFINE open == IF tx[s].open THEN tx[s] ELSE [NoTx EXCEPT !.open = TRUE, !.auto = TRUE]
           rows == View(s, d, n) \cup {clock'}
           rec == [open EXCEPT !.data = With(open.data, <<d, n>>, rows)]
<1>1. tx \in [Session -> TxType] /\ tx[s] \in TxType /\ Call(s) /\ Stored(s, d, n)
  BY DEF Insert, Types
<1>2. Maps(tx[s].data, Key, SUBSET Id) /\ Maps(temp[s], Key, Data) /\ Maps(tableMap, Key, Data)
  <2>1. tx[s].data \in TxData
    BY <1>1 DEF TxType
  <2> QED
    BY <2>1, TxDataIs DEF Types
<1>3. View(s, d, n) \in SUBSET Id
  <2> DEFINE k == <<d, n>>
  <2>1. k \in DOMAIN tx[s].data => tx[s].data[k] \in SUBSET Id
    BY <1>2 DEF Maps
  <2>2. k \in DOMAIN temp[s] => temp[s][k].rows \in SUBSET Id
    BY <1>2 DEF Maps, Data
  <2>3. k \in DOMAIN tableMap => tableMap[k].rows \in SUBSET Id
    BY <1>2 DEF Maps, Data
  <2>4. k \in DOMAIN temp[s] \/ k \in DOMAIN tableMap
    BY <1>1 DEF Stored
  <2>5. View(s, d, n) = IF k \in DOMAIN tx[s].data THEN tx[s].data[k]
                        ELSE IF k \in DOMAIN temp[s] THEN temp[s][k].rows ELSE tableMap[k].rows
    BY DEF View
  <2> HIDE DEF k
  <2> QED
    BY <2>1, <2>2, <2>3, <2>4, <2>5
<1>4. rows \in SUBSET Id /\ <<d, n>> \in Key
  BY <1>1, <1>3, CallIs DEF Key
<1>5. open \in TxType /\ (tx[s] = NoTx => open.data = Empty)
  BY <1>1, NoTxType DEF NoTx, TxType
<1>6. tx' = [tx EXCEPT ![s] = rec]
  BY DEF Insert
<1> HIDE DEF open, rows
<1>7. open.data \in TxData
  BY <1>5 DEF TxType
<1>8. With(open.data, <<d, n>>, rows) \in TxData
  BY <1>4, <1>7, TxDataWith
<1>9. rec \in TxType /\ rec.data = With(open.data, <<d, n>>, rows)
  BY <1>5, <1>8 DEF TxType
<1> HIDE DEF rec
<1>10. tx' \in [Session -> TxType] /\ tx'[s] = rec /\ \A r \in Session \ {s} : tx'[r] = tx[r]
  BY <1>1, <1>6, <1>9
<1> QED
  BY <1>5, <1>9, <1>10 DEF rows

LEMMA InsertIsSafe ==
  ASSUME IInv, ~client.begins, LowerCase, NEW s \in Session, NEW d \in client.databases,
         NEW n \in client.names, Insert(s, d, n), client' = client, Moves(s),
         stmt'[s].at \in {"installing", "clearing"}
  PROVE  InsertSafe(s)'
<1>1. Types /\ Queue /\ Names /\ Rows /\ ListedStays /\ Call(s) /\ client \in Client
  BY DEF IInv, Catalog, Names, Insert, Types
<1>2. d \in Database /\ n \in Name /\ Lower[n] = n
  BY <1>1, Constants DEF LowerCase
<1>3. stmt[s].at = "idle" /\ clock' = clock + 1 /\ clock \in Nat /\ clock' \in Id
  BY <1>1, CallIs, Constants DEF Types
<1>4. RowsBy(s) /\ tx[s] = NoTx
  <2>1. RowsBy(s)
    BY <1>1 DEF Rows
  <2> QED
    BY <2>1, <1>3 DEF RowsBy
<1>5. PICK k, rows : k = <<d, n>> /\ rows = View(s, d, n) \cup {clock'}
  OBVIOUS
<1>6. tx'[s].data = With(Empty, k, rows)
  BY <1>1, <1>2, <1>4, <1>5, InsertTypes
<1>7. DOMAIN tx'[s].data = {k} /\ tx'[s].data[k] = rows /\ k[1] = d /\ k[2] = n
  <2>2. PICK f : f = With(Empty, k, rows)
    OBVIOUS
  <2>3. DOMAIN f = {k} /\ f[k] = rows
    BY <2>2, WithOne
  <2>4. k[1] = d /\ k[2] = n
    BY <1>5
  <2>5. tx'[s].data = f
    BY <2>2, <1>6
  <2> QED
    BY <2>3, <2>4, <2>5
<1>8. /\ HasEngine(s, d, n) /\ Stored(s, d, n)
      /\ UNCHANGED <<schemaMap, tables, tableMap, temp>>
  BY DEF Insert
<1>9. View(s, d, n) = IF k \in DOMAIN temp[s] THEN temp[s][k].rows ELSE tableMap[k].rows
  BY <1>4, <1>5, MapsEmpty DEF View, NoTx
<1>10. CASE k \in DOMAIN temp[s]
  <2>1. NotOlder(temp[s][k].rows, temp[s][k].gen) /\ temp[s][k].gen <= clock
    BY <1>4, <1>10 DEF RowsBy
  <2>2. temp[s][k] \in Data
    BY <1>1, <1>10 DEF Types, Maps
  <2>3. temp[s][k].gen \in Nat /\ clock' >= temp[s][k].gen
    BY <2>1, <2>2, <1>3 DEF Data, Id
  <2>4. NotOlder(rows, temp[s][k].gen)
    BY <2>1, <2>3, <1>5, <1>9, <1>10 DEF NotOlder
  <2> QED
    BY <2>4, <1>7, <1>8, <1>10 DEF InsertSafe, NotOlder
<1>11. CASE k \notin DOMAIN temp[s]
  <2>1. k \in DOMAIN tableMap /\ Listed(d, n)
    BY <1>2, <1>5, <1>8, <1>11 DEF HasEngine, Stored, LcKey
  <2>2. PICK i : i = schemaMap[d]
    OBVIOUS
  <2>3. \A r \in Session : ~Drops(r, i, n)
    <3>1. Listed(k[1], k[2])
      BY <2>1, <1>7
    <3> QED
      BY <3>1, <2>1, <2>2, <1>1, <1>7 DEF ListedStays
  <2>4. ASSUME NEW r \in Session PROVE ~Drops(r, i, n)'
    <3>1. CASE r = s
      BY <3>1 DEF Drops
    <3>2. CASE r # s
      BY <3>2, <2>3, OthersSame
    <3> QED
      BY <3>1, <3>2
  <2>5. NotOlder(rows, tableMap[k].gen)
    <3>1. NotOlder(tableMap[k].rows, tableMap[k].gen) /\ tableMap[k].gen <= clock
      BY <2>1, <1>1 DEF Rows
    <3>2. tableMap[k] \in Data
      BY <2>1, <1>1 DEF Types, Maps
    <3>3. tableMap[k].gen \in Nat /\ clock' >= tableMap[k].gen
      BY <3>1, <3>2, <1>3 DEF Data, Id
    <3> QED
      BY <3>1, <3>3, <1>5, <1>9, <1>11 DEF NotOlder
  <2>6. Listed(d, n)'
    BY <2>1, <1>8 DEF Listed
  <2> QED
    BY <2>2, <2>4, <2>5, <2>6, <1>7, <1>8, <1>11 DEF InsertSafe, NotOlder, Drops
<1> QED
  BY <1>10, <1>11

LEMMA InsertKeeps ==
  ASSUME IInv, NEW s \in Session, NEW d \in client.databases, NEW n \in client.names,
         Insert(s, d, n), client' = client
  PROVE  IInv'
<1>1. Types /\ Queue /\ Names /\ Rows /\ Call(s) /\ Issue(s) /\ client \in Client
  BY DEF IInv, Catalog, Insert, Issue, Types
<1>2. stmt \in [Session -> StmtType] /\ jobs \in Seq(Session)
      /\ d \in Database /\ n \in Name /\ reply \in [Session -> {"ok", "error"}]
  BY <1>1, Constants DEF Types
<1>3. stmt[s].at = "idle" /\ clock' = clock + 1 /\ clock' \in Nat /\ clock' \in 0..MaxStmt
  BY <1>1, CallIs
<1>4. /\ tx' \in [Session -> TxType] /\ \A r \in Session \ {s} : tx'[r] = tx[r]
  BY <1>1, <1>2, InsertTypes
<1>5. Moves(s)
  BY <1>1, StepMoves
<1>6. UNCHANGED <<schemaMap, tables, tableMap, temp>>
  BY DEF Insert
<1>7. PICK rec \in StmtType :
        /\ [Idle EXCEPT !.at = "installing", !.id = clock'] = rec
        /\ rec.at = "installing" /\ rec.id = clock' /\ rec.sch = 0
  BY <1>3, OtherRecord
<1>8. \/ Await(s, jobs, rec)
      \/ Answer(s, "ok") /\ UNCHANGED jobs /\ tx[s].open
  BY <1>7 DEF Insert, NoTx
<1>9. /\ \/ stmt'[s].at = "installing" /\ stmt'[s].id = clock'
         \/ stmt'[s].at = "idle" /\ stmt'[s].id = 0 /\ tx[s].open
      /\ stmt'[s].sch = 0
      /\ stmt' \in [Session -> StmtType] /\ jobs' \in Seq(Session)
      /\ reply' \in [Session -> {"ok", "error"}]
  <2>1. CASE Await(s, jobs, rec)
    <3>1. stmt'[s] = rec /\ jobs' = Append(jobs, s)
      BY <2>1, <1>2, AwaitIs
    <3>2. stmt' \in [Session -> StmtType] /\ reply' \in [Session -> {"ok", "error"}]
      BY <2>1, <1>1, AwaitTypes
    <3>3. Append(jobs, s) \in Seq(Session)
      BY <1>1, RestType
    <3> QED
      BY <3>1, <3>2, <3>3, <1>7
  <2>2. CASE Answer(s, "ok") /\ UNCHANGED jobs /\ tx[s].open
    BY <2>2, <1>1, <1>2, AnswerIs, AnswerTypes, IdleIs
  <2> QED
    BY <2>1, <2>2, <1>8
<1>10. Aside(s)
  <2>1. \A i, lc : ~Touches(s, i, lc)
    BY <1>3 DEF Touches, Creates, Drops
  <2>2. stmt'[s].id <= clock'
    BY <1>3, <1>9
  <2>3. OwnedBy(s)'
    BY <1>9, <2>2 DEF OwnedBy
  <2> QED
    BY <2>1, <2>3, <1>9 DEF Aside, Silent
<1>11. SpelledBy(s)'
  <2>1. SpelledBy(s)
    BY <1>1 DEF Names, Spelled
  <2> QED
    BY <2>1, <1>6, <1>9 DEF SpelledBy
<1>12. ASSUME ~client.begins, LowerCase
       PROVE  /\ stmt'[s].at \notin {"installing", "clearing"} => tx'[s] = NoTx
              /\ stmt'[s].at = "installing" => InsertSafe(s)'
  <2>1. RowsBy(s)
    BY <1>1, <1>12 DEF Rows
  <2>2. ~tx[s].open
    BY <2>1, <1>3 DEF RowsBy, NoTx
  <2> QED
    BY <2>2, <1>5, <1>9, <1>12, InsertIsSafe
<1> QED
  BY <1>3, <1>4, <1>5, <1>6, <1>9, <1>10, <1>11, <1>12, AsideKeeps

-----------------------------------------------------------------------------
(* Statements that drop tables *)

Part(f, g) == \A k \in DOMAIN f : k \in DOMAIN g /\ f[k] = g[k]

LEMMA PartMaps ==
  ASSUME NEW f, NEW g, Part(f, g), NEW D, NEW R, Maps(g, D, R)
  PROVE  Maps(f, D, R)
BY DEF Part, Maps

LEMMA PartWithout ==
  ASSUME NEW f, NEW k
  PROVE  Part(Without(f, k), f)
BY DEF Part, Without

LEMMA PartSame ==
  ASSUME NEW f
  PROVE  Part(f, f)
BY DEF Part

\* A step that only takes away: databases, entries, tables and temporary tables of s.
Takes(s) ==
  /\ client' = client /\ tx' = tx
  /\ clock' \in {clock, clock + 1} /\ clock' \in 0..MaxStmt
  /\ Part(schemaMap', schemaMap)
  /\ DOMAIN tables' = DOMAIN tables /\ \A i \in DOMAIN tables : Part(tables'[i], tables[i])
  /\ Part(tableMap', tableMap)
  /\ DOMAIN temp' = Session /\ Part(temp'[s], temp[s])
  /\ \A r \in Session \ {s} : temp'[r] = temp[r]
  /\ jobs' \in Seq(Session) /\ stmt' \in [Session -> StmtType]
  /\ reply' \in [Session -> {"ok", "error"}]

LEMMA TakesTypes ==
  ASSUME IInv, NEW s \in Session, Takes(s)
  PROVE  Types'
<1>1. client \in Client /\ CatalogTypes /\ OtherTypes
  BY TypesAre DEF IInv, Catalog
<1>2. CatalogTypes'
  <2>1. Maps(schemaMap', Database, DOMAIN tables')
    <3>1. Maps(schemaMap, Database, DOMAIN tables) /\ Part(schemaMap', schemaMap)
      BY <1>1 DEF CatalogTypes, Takes
    <3>2. Maps(schemaMap', Database, DOMAIN tables)
      BY <3>1, PartMaps
    <3> QED
      BY <3>2 DEF Takes
  <2>2. \A i \in DOMAIN tables' : Maps(tables'[i], Name, Entry)
    <3> SUFFICES ASSUME NEW i \in DOMAIN tables PROVE Maps(tables'[i], Name, Entry)
      BY DEF Takes
    <3>1. Maps(tables[i], Name, Entry) /\ Part(tables'[i], tables[i])
      BY <1>1 DEF CatalogTypes, Takes
    <3> QED
      BY <3>1, PartMaps
  <2>3. Maps(tableMap', Key, Data)
    <3>1. Maps(tableMap, Key, Data) /\ Part(tableMap', tableMap)
      BY <1>1 DEF CatalogTypes, Takes
    <3> QED
      BY <3>1, PartMaps
  <2>4. ASSUME NEW r \in Session PROVE Maps(temp'[r], Key, Data)
    <3>1. Maps(temp[r], Key, Data)
      BY <1>1 DEF CatalogTypes
    <3>2. Part(temp'[r], temp[r])
      BY PartSame DEF Takes
    <3> QED
      BY <3>1, <3>2, PartMaps
  <2>5. DOMAIN tables' \subseteq Id /\ DOMAIN temp' = Session
    BY <1>1 DEF CatalogTypes, Takes
  <2> QED
    BY <2>1, <2>2, <2>3, <2>4, <2>5 DEF CatalogTypes
<1>3. OtherTypes' /\ client' \in Client
  BY <1>1 DEF OtherTypes, Takes
<1> QED
  BY <1>2, <1>3 DEF Types, CatalogTypes, OtherTypes

LEMMA TakesRows ==
  ASSUME IInv, NEW s \in Session, Takes(s), stmt[s].at \notin {"installing", "clearing"},
         stmt'[s].at # "installing"
  PROVE  RowsStep(s)
<1> SUFFICES ASSUME ~client.begins, LowerCase
             PROVE  /\ \A k \in DOMAIN tableMap' : NotOlder(tableMap'[k].rows, tableMap'[k].gen)
                    /\ \A r \in Session \ {s} : tx'[r] = tx[r]
                    /\ RowsBy(s)'
  BY DEF RowsStep
<1>1. Types /\ Rows
  BY DEF IInv, Catalog
<1>2. \A k \in DOMAIN tableMap' : NotOlder(tableMap'[k].rows, tableMap'[k].gen)
  BY <1>1 DEF Rows, Takes, Part
<1>3. RowsBy(s) /\ tx[s] = NoTx
  <2>1. RowsBy(s)
    BY <1>1 DEF Rows
  <2> QED
    BY <2>1 DEF RowsBy
<1>4. ASSUME NEW k \in DOMAIN temp'[s]
      PROVE  NotOlder(temp'[s][k].rows, temp'[s][k].gen) /\ temp'[s][k].gen <= clock'
  <2>1. k \in DOMAIN temp[s] /\ temp'[s][k] = temp[s][k]
    BY DEF Takes, Part
  <2>2. NotOlder(temp[s][k].rows, temp[s][k].gen) /\ temp[s][k].gen <= clock
    BY <2>1, <1>3 DEF RowsBy
  <2>3. temp[s][k] \in Data
    BY <2>1, <1>1 DEF Types, Maps
  <2>4. temp[s][k].gen \in Nat /\ clock \in Nat /\ clock' \in {clock, clock + 1}
    BY <2>3, <1>1, Constants DEF Data, Id, Types, Takes
  <2>5. temp[s][k].gen <= clock'
    BY <2>2, <2>4
  <2> QED
    BY <2>1, <2>2, <2>5
<1>5. tx' = tx
  BY DEF Takes
<1> QED
  BY <1>2, <1>3, <1>4, <1>5 DEF RowsBy, NotOlder

\* What the engine takes away.
LEMMA EngineDropIs ==
  ASSUME Types, NEW s \in Session, NEW d, NEW n, EngineDrop(s, d, n)
  PROVE  /\ Part(tableMap', tableMap) /\ DOMAIN temp' = Session /\ Part(temp'[s], temp[s])
         /\ \A r \in Session \ {s} : temp'[r] = temp[r]
         /\ \A k \in DOMAIN tableMap : k \in DOMAIN tableMap' \/ k = <<d, n>>
         /\ <<d, n>> \notin DOMAIN temp[s] => <<d, n>> \notin DOMAIN tableMap' /\ temp' = temp
<1>1. DOMAIN temp = Session
  BY DEF Types
<1>2. CASE <<d, n>> \in DOMAIN temp[s]
  <2>1. temp' = [temp EXCEPT ![s] = Without(temp[s], <<d, n>>)] /\ tableMap' = tableMap
    BY <1>2 DEF EngineDrop
  <2> QED
    BY <2>1, <1>1, <1>2, PartWithout, PartSame
<1>3. CASE <<d, n>> \notin DOMAIN temp[s]
  <2>1. tableMap' = Without(tableMap, <<d, n>>) /\ temp' = temp
    BY <1>3 DEF EngineDrop
  <2>2. DOMAIN Without(tableMap, <<d, n>>) = DOMAIN tableMap \ {<<d, n>>}
    BY WithoutIs
  <2> QED
    BY <2>1, <2>2, <1>1, <1>3, PartWithout, PartSame
<1> QED
  BY <1>2, <1>3

\* An entry goes.
LEMMA EntryGoes ==
  ASSUME NEW i \in DOMAIN tables, NEW lc, tables' = [tables EXCEPT ![i] = Without(tables[i], lc)]
  PROVE  /\ DOMAIN tables' = DOMAIN tables /\ \A j \in DOMAIN tables : Part(tables'[j], tables[j])
         /\ tables'[i] = Without(tables[i], lc) /\ DOMAIN tables'[i] = DOMAIN tables[i] \ {lc}
         /\ \A j \in DOMAIN tables \ {i} : tables'[j] = tables[j]
BY PartWithout, PartSame, WithoutIs

LEMMA TakesKeeps ==
  ASSUME IInv, NEW s \in Session, Takes(s), Moves(s), Shrinks(s), Outcome(s), NamesStep(s),
         stmt[s].at \notin {"installing", "clearing"}, stmt'[s].at # "installing"
  PROVE  IInv'
BY TakesTypes, TakesRows, ShrinksKeepsAll

\* Such a step at the end of a statement.
LEMMA TakesAndEnds ==
  ASSUME IInv, NEW s \in Session, Takes(s), Moves(s), Shrinks(s),
         stmt[s].at \in {"idle", "dropping", "dropping table of db"}, NEW how, Answer(s, how),
         LowerCase /\ ~client.drops => schemaMap' = schemaMap
  PROVE  IInv'
<1>1. Types /\ Names /\ stmt \in [Session -> StmtType]
  BY DEF IInv, Catalog, Types
<1>2. stmt'[s] = Idle /\ stmt'[s].at = "idle"
  BY <1>1, AnswerIs, IdleIs
<1>3. Types'
  BY TakesTypes
<1>4. OwnedBy(s)'
  BY <1>2, <1>3, IdleOwned
<1>5. Outcome(s)
  BY <1>2, <1>4 DEF Outcome, Creates, Drops, Overtaken
<1>6. NamesStep(s)
  <2>1. SpelledBy(s)
    BY <1>1 DEF Names, Spelled
  <2>2. SpelledBy(s)'
    BY <2>1, <1>2 DEF SpelledBy, Takes, Part
  <2>3. \A i, lc : ~Drops(s, i, lc)'
    BY <1>2 DEF Drops
  <2> QED
    BY <2>2, <2>3, <1>2 DEF NamesStep, Takes
<1> QED
  BY <1>2, <1>5, <1>6, TakesKeeps

WillDrop(s, d, lc) ==
  \/ stmt'[s].at = "dropping" /\ stmt'[s].n \in client.names /\ lc = Lower[stmt'[s].n]
  \/ /\ stmt'[s].at = "dropping table of db" /\ lc = stmt'[s].n
     /\ \A k \in DOMAIN temp'[s] : k[1] # d
     /\ LowerCase => client.drops

\* Such a step of a statement that goes on: it will drop the entry lc of the database d.
LEMMA TakesAndWaits ==
  ASSUME IInv, NEW s \in Session, Takes(s), Moves(s), Shrinks(s),
         stmt[s].at \in {"idle", "dropping", "dropping table of db"},
         NEW i \in DOMAIN tables, NEW d \in DOMAIN schemaMap, schemaMap[d] = i, schemaMap' = schemaMap,
         NEW lc \in DOMAIN tables'[i],
         stmt'[s].sch = i, stmt'[s].d = d, stmt'[s].n \in Name, stmt'[s].id <= clock',
         WillDrop(s, d, lc),
         LowerCase => <<d, lc>> \notin DOMAIN tableMap'
  PROVE  IInv'
<1>1. Types /\ Names /\ Owned
  BY DEF IInv, Catalog
<1>0. stmt'[s].at \in {"dropping", "dropping table of db"}
  BY DEF WillDrop
<1>2. \A c \in DOMAIN schemaMap : schemaMap[c] = i => c = d
  BY <1>1 DEF Owned
<1>3. d \in Database /\ i # 0
  <2>1. d \in Database
    BY <1>1 DEF Types, Maps
  <2>2. i \in Id
    BY <1>1 DEF Types
  <2>3. \A j \in Id : j # 0
    BY IdIs
  <2> QED
    BY <2>1, <2>2, <2>3
<1>4. OwnedBy(s)'
  <2>1. DOMAIN tables' = DOMAIN tables
    BY DEF Takes
  <2> QED
    BY <2>1, <1>2, <1>3, <1>0 DEF OwnedBy
<1>5. \A j, e : Drops(s, j, e)' <=> j = i /\ e = lc
  BY <1>0 DEF Drops, WillDrop
<1>6. Outcome(s)
  <2>1. \A j, e : ~Creates(s, j, e) /\ ~Creates(s, j, e)'
    BY <1>0 DEF Creates
  <2>2. \A c \in DOMAIN schemaMap' : ~Overtaken(s, c)'
    BY DEF Overtaken
  <2>3. \A j, e : Drops(s, j, e)' => e \in DOMAIN tables'[j]
    BY <1>5
  <2>4. stmt'[s].at = "dropping table of db" => \A k \in DOMAIN temp'[s] : k[1] # stmt'[s].d
    BY DEF WillDrop
  <2> QED
    BY <2>1, <2>2, <2>3, <2>4, <1>4 DEF Outcome
<1>7. NamesStep(s)
  <2>1. SpelledBy(s)
    BY <1>1 DEF Names, Spelled
  <2>2. SpelledBy(s)'
    BY <2>1 DEF SpelledBy, Takes, Part, WillDrop
  <2>3. ASSUME LowerCase, NEW c \in DOMAIN schemaMap', NEW j, NEW e, schemaMap'[c] = j, Drops(s, j, e)'
        PROVE  <<c, e>> \notin DOMAIN tableMap'
    <3>1. j = i /\ e = lc
      BY <2>3 DEF Drops, WillDrop
    <3>2. c = d
      BY <2>3, <3>1, <1>2
    <3> QED
      BY <2>3, <3>1, <3>2
  <2>4. LowerCase /\ ~client.drops => stmt'[s].at # "dropping table of db"
    BY DEF WillDrop
  <2> QED
    BY <2>2, <2>3, <2>4 DEF NamesStep, Takes
<1> QED
  BY <1>6, <1>7, <1>0, TakesKeeps

LEMMA DroppedKeeps ==
  ASSUME IInv, NEW s \in Session, Dropped(s), client' = client
  PROVE  IInv'
<1>1. Types /\ Queue /\ Owned /\ Turn(s, "dropping") /\ Continue(s)
  BY DEF IInv, Catalog, Dropped, Continue
<1>2. stmt[s].at = "dropping" /\ jobs # <<>> /\ OwnedBy(s) /\ clock \in 0..MaxStmt /\ clock \in Nat
  BY <1>1, Constants DEF Turn, Owned, Types
<1>3. PICK i, lc : i = stmt[s].sch /\ lc = Lower[stmt[s].n]
  OBVIOUS
<1>4. /\ tables' = [tables EXCEPT ![i] = Without(tables[i], lc)]
      /\ Answer(s, "ok") /\ jobs' = Tail(jobs)
      /\ UNCHANGED <<schemaMap, tableMap, temp, tx, clock>>
  BY <1>3 DEF Dropped
<1>5. i \in DOMAIN tables
  BY <1>2, <1>3 DEF OwnedBy
<1>6. /\ DOMAIN tables' = DOMAIN tables /\ \A j \in DOMAIN tables : Part(tables'[j], tables[j])
      /\ DOMAIN tables'[i] = DOMAIN tables[i] \ {lc}
      /\ \A j \in DOMAIN tables \ {i} : tables'[j] = tables[j]
  BY <1>4, <1>5, EntryGoes
<1>7. Moves(s) /\ IsFirst(s)
  BY <1>1, StepMoves, TurnIsFirst
<1>8. Takes(s)
  <2>1. /\ stmt' \in [Session -> StmtType] /\ reply' \in [Session -> {"ok", "error"}]
        /\ jobs' \in Seq(Session)
    BY <1>1, <1>2, <1>4, AnswerTypes, RestType
  <2>2. DOMAIN temp = Session
    BY <1>1 DEF Types
  <2> QED
    BY <2>1, <2>2, <1>2, <1>4, <1>6, PartSame DEF Takes
<1>9. \A j, e : Drops(s, j, e) <=> j = i /\ e = lc
  BY <1>2, <1>3 DEF Drops
<1>10. Shrinks(s)
  BY <1>2, <1>4, <1>6, <1>7, <1>9 DEF Shrinks, Part
<1> QED
  BY <1>2, <1>4, <1>7, <1>8, <1>10, TakesAndEnds

LEMMA DropTableKeeps ==
  ASSUME IInv, NEW s \in Session, NEW d \in client.databases, NEW n \in client.names,
         DropTable(s, d, n), client' = client
  PROVE  IInv'
<1>1. Types /\ Queue /\ Owned /\ Call(s) /\ Issue(s) /\ client \in Client
  BY DEF IInv, Catalog, DropTable, Issue, Types
<1>2. /\ DOMAIN temp = Session /\ Maps(temp[s], Key, Data) /\ tx \in [Session -> TxType]
      /\ stmt \in [Session -> StmtType] /\ d \in Database /\ n \in Name
  BY <1>1, Constants DEF Types
<1>3. /\ stmt[s].at = "idle" /\ stmt[s].at \in Quiet /\ clock' \in {clock, clock + 1}
      /\ clock' \in 0..MaxStmt /\ clock \in Nat /\ clock' \in Nat /\ clock' = clock + 1
  BY <1>1, CallIs, Constants DEF Quiet, Types
<1>4. UNCHANGED <<schemaMap, tables, tx>>
  BY DEF DropTable
<1>5. CASE LcKey(d, n) \in DOMAIN temp[s] /\ UNCHANGED <<tableMap, jobs>> /\ Answer(s, "ok")
           /\ temp' = [temp EXCEPT ![s] = Without(temp[s], LcKey(d, n))]
  <2>1. PICK own : own = Without(temp[s], LcKey(d, n))
    OBVIOUS
  <2>2. Part(own, temp[s]) /\ Maps(own, Key, Data)
    BY <2>1, <1>2, PartWithout, PartMaps
  <2>3. DOMAIN temp' = Session /\ temp'[s] = own /\ \A r \in Session \ {s} : temp'[r] = temp[r]
    BY <2>1, <1>2, <1>5
  <2> QED
    BY <2>2, <2>3, <1>2, <1>3, <1>4, <1>5, AnsweredKeeps DEF Part
<1>6. CASE Answer(s, "error") /\ UNCHANGED <<tableMap, temp, jobs>>
  BY <1>3, <1>4, <1>6, RefusedKeeps
<1>7. PICK i : i = schemaMap[d]
  OBVIOUS
<1>8. CASE /\ LcKey(d, n) \notin DOMAIN temp[s] /\ Listed(d, n)
           /\ EngineDrop(s, d, n)
           /\ Await(s, jobs, [Idle EXCEPT !.at = "dropping", !.id = clock', !.d = d, !.n = n,
                                          !.sch = i])
  <2>1. d \in DOMAIN schemaMap /\ i \in DOMAIN tables /\ Lower[n] \in DOMAIN tables[i] /\ i \in Nat
    <3>1. d \in DOMAIN schemaMap /\ Lower[n] \in DOMAIN tables[i]
      BY <1>7, <1>8 DEF Listed
    <3>2. i \in DOMAIN tables /\ DOMAIN tables \subseteq Id
      BY <3>1, <1>1, <1>7 DEF Types, Maps
    <3> QED
      BY <3>1, <3>2, IdIs
  <2>2. PICK rec : rec = DropRec("dropping", clock', d, n, i)
    OBVIOUS
  <2>0. IsDropRec(rec, "dropping", clock', d, n, i)
    <3>1. clock' \in Nat /\ d \in Database /\ n \in Name /\ i \in Nat
      BY <2>1, <1>2, <1>3
    <3> QED
      BY <3>1, <2>2, DropRecord
  <2>3. Await(s, jobs, rec) /\ rec \in StmtType
    BY <2>2, <2>0, <1>8 DEF DropRec, IsDropRec
  <2>4. stmt'[s] = rec /\ jobs' = Append(jobs, s)
    BY <2>3, <1>2, AwaitIs
  <2>5. /\ stmt'[s].at = "dropping" /\ stmt'[s].id = clock' /\ stmt'[s].d = d /\ stmt'[s].n = n
        /\ stmt'[s].sch = i
    BY <2>0, <2>4 DEF IsDropRec
  <2>6. /\ stmt' \in [Session -> StmtType] /\ reply' \in [Session -> {"ok", "error"}]
        /\ jobs' \in Seq(Session)
    BY <2>3, <2>4, <1>1, AwaitTypes, RestType
  <2>7. /\ Part(tableMap', tableMap) /\ DOMAIN temp' = Session /\ Part(temp'[s], temp[s])
        /\ \A r \in Session \ {s} : temp'[r] = temp[r]
        /\ \A k \in DOMAIN tableMap : k \in DOMAIN tableMap' \/ k = <<d, n>>
        /\ <<d, n>> \notin DOMAIN temp[s] => <<d, n>> \notin DOMAIN tableMap' /\ temp' = temp
    BY <1>1, <1>8, EngineDropIs
  <2>8. Takes(s)
    BY <2>6, <2>7, <1>3, <1>4, PartSame DEF Takes
  <2>9. Moves(s)
    BY <1>1, StepMoves
  <2>10. Shrinks(s)
    <3>1. \A j, e : ~Drops(s, j, e)
      BY <1>3 DEF Drops
    <3>2. ASSUME NEW k \in DOMAIN tableMap, k \notin DOMAIN tableMap'
          PROVE  \E j \in DOMAIN tables : k[1] \in DOMAIN schemaMap /\ schemaMap[k[1]] = j
                                          /\ Drops(s, j, Lower[k[2]])'
      <4>1. k = <<d, n>>
        BY <3>2, <2>7
      <4>2. k[1] = d /\ k[2] = n
        BY <4>1
      <4>3. Drops(s, i, Lower[n])'
        BY <2>5 DEF Drops
      <4> QED
        BY <4>2, <4>3, <2>1, <1>7
    <3>3. clock <= clock'
      BY <1>3
    <3> QED
      BY <3>1, <3>2, <3>3, <2>7, <1>4 DEF Shrinks, Part
  <2>11. LowerCase => <<d, Lower[n]>> \notin DOMAIN tableMap'
    BY <2>7, <1>8 DEF LowerCase, LcKey
  <2>12. stmt'[s].id <= clock' /\ stmt'[s].n \in Name /\ Lower[n] \in DOMAIN tables'[i]
    BY <2>1, <2>5, <1>2, <1>3, <1>4
  <2>13. WillDrop(s, d, Lower[n])
    BY <2>5 DEF WillDrop
  <2> QED
    BY <2>1, <2>5, <2>8, <2>9, <2>10, <2>11, <2>12, <2>13, <1>3, <1>4, <1>7, TakesAndWaits
<1> QED
  BY <1>5, <1>6, <1>7, <1>8 DEF DropTable

LEMMA DropDatabaseKeeps ==
  ASSUME IInv, NEW s \in Session, NEW d \in client.databases, DropDatabase(s, d), client' = client
  PROVE  IInv'
<1>1. /\ Types /\ Queue /\ Owned /\ Named /\ Spelled /\ Call(s) /\ Issue(s) /\ client \in Client
      /\ client.drops
  BY DEF IInv, Catalog, Names, DropDatabase, Issue, Types
<1>2. /\ DOMAIN temp = Session /\ Maps(temp[s], Key, Data) /\ tx \in [Session -> TxType]
      /\ stmt \in [Session -> StmtType] /\ d \in Database
  BY <1>1, Constants DEF Types
<1>3. /\ stmt[s].at = "idle" /\ stmt[s].at \in Quiet /\ clock' \in {clock, clock + 1}
      /\ clock' \in 0..MaxStmt /\ clock \in Nat /\ clock' \in Nat /\ clock' = clock + 1
  BY <1>1, CallIs, Constants DEF Quiet, Types
<1>4. UNCHANGED <<tables, tx>> /\ Moves(s)
  BY <1>1, StepMoves DEF DropDatabase
<1>5. PICK i, own : i = schemaMap[d] /\ own = [k \in {j \in DOMAIN temp[s] : j[1] # d} |-> temp[s][k]]
  OBVIOUS
<1>6. Part(own, temp[s]) /\ \A k \in DOMAIN own : k[1] # d
  BY <1>5 DEF Part
<1>7. \A j, e : ~Drops(s, j, e)
  BY <1>3 DEF Drops
<1>8. CASE Answer(s, "error") /\ UNCHANGED <<schemaMap, tableMap, temp, jobs>>
  BY <1>3, <1>4, <1>8, RefusedKeeps
<1>9. CASE d \in DOMAIN schemaMap /\ tables[i] = Empty /\ EndDropDatabase(s, d, jobs)
           /\ temp' = [temp EXCEPT ![s] = own] /\ UNCHANGED tableMap
  <2>1. schemaMap' = Without(schemaMap, d) /\ Answer(s, "ok") /\ jobs' = jobs
    BY <1>9 DEF EndDropDatabase
  <2>2. Part(schemaMap', schemaMap) /\ DOMAIN schemaMap' = DOMAIN schemaMap \ {d}
    BY <2>1, PartWithout, WithoutIs
  <2>3. Takes(s)
    <3>1. /\ stmt' \in [Session -> StmtType] /\ reply' \in [Session -> {"ok", "error"}]
          /\ jobs' \in Seq(Session)
      BY <2>1, <1>1, AnswerTypes DEF Types
    <3>2. DOMAIN temp' = Session /\ temp'[s] = own /\ \A r \in Session \ {s} : temp'[r] = temp[r]
      BY <1>2, <1>9
    <3> QED
      BY <3>1, <3>2, <2>2, <1>3, <1>4, <1>6, <1>9, PartSame DEF Takes
  <2>4. Shrinks(s)
    <3>1. DOMAIN tables'[schemaMap[d]] = {}
      BY <1>4, <1>5, <1>9, MapsEmpty
    <3>2. \A c \in DOMAIN schemaMap : c \in DOMAIN schemaMap' \/ DOMAIN tables'[schemaMap[c]] = {}
      BY <3>1, <2>2
    <3>3. clock <= clock'
      BY <1>3
    <3>4. \A r \in Session \ {s} : temp'[r] = temp[r]
      BY <1>2, <1>9
    <3> QED
      BY <3>2, <3>3, <3>4, <2>2, <1>4, <1>7, <1>9 DEF Shrinks, Part
  <2> QED
    BY <2>1, <2>3, <2>4, <1>1, <1>3, <1>4, TakesAndEnds
<1>10. ASSUME d \in DOMAIN schemaMap, NEW lc \in DOMAIN tables[i],
              temp' = [temp EXCEPT ![s] = own],
              tableMap' = Without(tableMap, <<d, tables[i][lc].table>>),
              Await(s, jobs, DropRec("dropping table of db", clock', d, lc, i)),
              UNCHANGED schemaMap
       PROVE  IInv'
  <2>1. i \in DOMAIN tables /\ i \in Nat /\ lc \in Name
    <3>1. i \in DOMAIN tables /\ DOMAIN tables \subseteq Id
      BY <1>1, <1>5, <1>10 DEF Types, Maps
    <3>2. lc \in Name
      BY <3>1, <1>1, <1>10 DEF Types, Maps
    <3> QED
      BY <3>1, <3>2, IdIs
  <2>2. PICK rec : rec = DropRec("dropping table of db", clock', d, lc, i)
    OBVIOUS
  <2>3. IsDropRec(rec, "dropping table of db", clock', d, lc, i)
    <3>1. clock' \in Nat /\ d \in Database /\ lc \in Name /\ i \in Nat
      BY <2>1, <1>2, <1>3
    <3> QED
      BY <3>1, <2>2, DropRecord
  <2>4. Await(s, jobs, rec) /\ rec \in StmtType
    BY <2>2, <2>3, <1>10 DEF IsDropRec
  <2>5. stmt'[s] = rec /\ jobs' = Append(jobs, s)
    BY <2>4, <1>2, AwaitIs
  <2>6. /\ stmt'[s].at = "dropping table of db" /\ stmt'[s].id = clock' /\ stmt'[s].d = d
        /\ stmt'[s].n = lc /\ stmt'[s].sch = i
    BY <2>3, <2>5 DEF IsDropRec
  <2>7. PICK key : key = <<d, tables[i][lc].table>>
    OBVIOUS
  <2>8. Part(tableMap', tableMap) /\ DOMAIN tableMap' = DOMAIN tableMap \ {key}
    BY <2>7, <1>10, PartWithout, WithoutIs
  <2>9. DOMAIN temp' = Session /\ temp'[s] = own /\ \A r \in Session \ {s} : temp'[r] = temp[r]
    BY <1>2, <1>10
  <2>10. Takes(s)
    <3>1. /\ stmt' \in [Session -> StmtType] /\ reply' \in [Session -> {"ok", "error"}]
          /\ jobs' \in Seq(Session)
      BY <2>4, <2>5, <1>1, AwaitTypes, RestType
    <3> QED
      BY <3>1, <2>8, <2>9, <1>3, <1>4, <1>6, <1>10, PartSame DEF Takes
  <2>11. Lower[tables[i][lc].table] = lc /\ tables[i][lc].table \in client.names
    BY <2>1, <1>1, <1>10 DEF Named, Spelled
  <2>12. Shrinks(s)
    <3>1. key[1] = d /\ Lower[key[2]] = lc
      BY <2>7, <2>11
    <3>2. Drops(s, i, lc)'
      BY <2>6 DEF Drops
    <3>3. ASSUME NEW k \in DOMAIN tableMap, k \notin DOMAIN tableMap'
          PROVE  \E j \in DOMAIN tables : k[1] \in DOMAIN schemaMap /\ schemaMap[k[1]] = j
                                          /\ Drops(s, j, Lower[k[2]])'
      <4>1. k = key
        BY <3>3, <2>8
      <4> QED
        BY <4>1, <3>1, <3>2, <2>1, <1>5, <1>10
    <3>4. clock <= clock'
      BY <1>3
    <3> QED
      BY <3>3, <3>4, <2>8, <2>9, <1>4, <1>7, <1>10 DEF Shrinks, Part
  <2>13. WillDrop(s, d, lc)
    BY <2>6, <2>9, <1>1, <1>6 DEF WillDrop
  <2>14. LowerCase => <<d, lc>> \notin DOMAIN tableMap'
    BY <2>7, <2>8, <2>11 DEF LowerCase
  <2>15. stmt'[s].id <= clock' /\ stmt'[s].n \in Name /\ lc \in DOMAIN tables'[i]
    <3>1. stmt'[s].id <= clock'
      <4>1. stmt'[s].id = clock' /\ clock' \in Nat
        BY <2>6, <1>3
      <4> HIDE <2>6, <1>3
      <4> QED
        BY <4>1
    <3>2. lc \in DOMAIN tables'[i]
      BY <1>4, <1>10
    <3> QED
      BY <3>1, <3>2, <2>1, <2>6
  <2> QED
    BY <2>1, <2>6, <2>10, <2>12, <2>13, <2>14, <2>15, <1>3, <1>4, <1>5, <1>10, TakesAndWaits
<1>11. CASE d \in BuiltIn \/ d \notin DOMAIN schemaMap
  BY <1>8, <1>11 DEF DropDatabase
<1>12. CASE ~(d \in BuiltIn \/ d \notin DOMAIN schemaMap)
  <2>1. \/ /\ tables[i] = Empty
           /\ EndDropDatabase(s, d, jobs)
           /\ temp' = [temp EXCEPT ![s] = own]
           /\ UNCHANGED tableMap
        \/ \E lc \in DOMAIN tables[i] :
           /\ temp' = [temp EXCEPT ![s] = own]
           /\ tableMap' = Without(tableMap, <<d, tables[i][lc].table>>)
           /\ Await(s, jobs, DropRec("dropping table of db", clock', d, lc, i))
           /\ UNCHANGED schemaMap
    BY <1>5, <1>12 DEF DropDatabase, DropRec
  <2> QED
    BY <2>1, <1>9, <1>10, <1>12
<1> QED
  BY <1>11, <1>12

LEMMA DroppedOfDatabaseKeeps ==
  ASSUME IInv, NEW s \in Session, DroppedOfDatabase(s), client' = client
  PROVE  IInv'
<1>1. /\ Types /\ Queue /\ Owned /\ Named /\ Spelled /\ Stale /\ TempGone /\ Kept
      /\ Turn(s, "dropping table of db") /\ Continue(s)
  BY DEF IInv, Catalog, Names, DroppedOfDatabase, Continue
<1>2. /\ stmt[s].at = "dropping table of db" /\ jobs # <<>> /\ clock \in 0..MaxStmt /\ clock \in Nat
      /\ stmt \in [Session -> StmtType] /\ stmt[s] \in StmtType /\ OwnedBy(s) /\ DOMAIN temp = Session
  <2>1. stmt[s].at = "dropping table of db" /\ jobs # <<>>
    BY <1>1 DEF Turn
  <2>2. /\ stmt \in [Session -> StmtType] /\ stmt[s] \in StmtType /\ DOMAIN temp = Session
        /\ clock \in 0..MaxStmt /\ clock \in Nat
    BY <1>1, ClockIs DEF Types
  <2>3. OwnedBy(s)
    BY <1>1 DEF Owned
  <2> QED
    BY <2>1, <2>2, <2>3
<1>3. PICK i, d, n, id : i = stmt[s].sch /\ d = stmt[s].d /\ n = stmt[s].n /\ id = stmt[s].id
  OBVIOUS
<1>4. i \in DOMAIN tables /\ d \in Database /\ n \in Name /\ id \in Nat /\ i \in Nat /\ id <= clock
  <2>1. i \in DOMAIN tables /\ d \in Database /\ n \in Name /\ id <= clock
    BY <1>2, <1>3 DEF OwnedBy
  <2>2. i \in Nat /\ id \in Nat
    BY <1>2, <1>3 DEF StmtType
  <2> QED
    BY <2>1, <2>2
<1>5. PICK left : left = Without(tables[i], n)
  OBVIOUS
<1>6. /\ tables' = [tables EXCEPT ![i] = left]
      /\ DropNext(s, id, d, i, left, Tail(jobs))
      /\ UNCHANGED <<tx, clock>>
  BY <1>3, <1>5 DEF DroppedOfDatabase
<1>0. clock <= clock' /\ clock' = clock
  <2>1. clock' = clock
    BY <1>6
  <2> QED
    BY <2>1, <1>1, ClockIs
<1>7. /\ DOMAIN tables' = DOMAIN tables /\ \A j \in DOMAIN tables : Part(tables'[j], tables[j])
      /\ tables'[i] = left /\ DOMAIN tables'[i] = DOMAIN tables[i] \ {n}
      /\ \A j \in DOMAIN tables \ {i} : tables'[j] = tables[j]
  BY <1>4, <1>5, <1>6, EntryGoes
<1>8. Moves(s) /\ IsFirst(s)
  BY <1>1, StepMoves, TurnIsFirst
<1>9. \A j, e : Drops(s, j, e) <=> j = i /\ e = n
  BY <1>2, <1>3 DEF Drops
<1>10. \A k \in DOMAIN temp[s] : k[1] # d
  BY <1>1, <1>2, <1>3 DEF TempGone
<1>11. LowerCase => client.drops
  BY <1>1, <1>2 DEF Kept
\* The database has another object by now, and nothing is in it.
<1>12. d \in DOMAIN schemaMap /\ schemaMap[d] # i => DOMAIN tables[schemaMap[d]] = {}
  BY <1>1, <1>2, <1>3 DEF Stale, Overtaken
\* The last table is gone, or the next one is not to be found.
<1>13. ASSUME NEW how \in {"ok", "error"}, Answer(s, how), jobs' = Tail(jobs),
              UNCHANGED <<tableMap, temp>>,
              schemaMap' = schemaMap \/ (left = Empty /\ schemaMap' = Without(schemaMap, d))
       PROVE  IInv'
  <2>1. /\ Part(schemaMap', schemaMap)
        /\ \A c \in DOMAIN schemaMap : c \in DOMAIN schemaMap' \/ (left = Empty /\ c = d)
    <3>1. /\ Part(Without(schemaMap, d), schemaMap)
          /\ DOMAIN Without(schemaMap, d) = DOMAIN schemaMap \ {d}
      BY PartWithout, WithoutIs
    <3> QED
      BY <3>1, <1>13, PartSame
  <2>2. Takes(s)
    <3>1. /\ stmt' \in [Session -> StmtType] /\ reply' \in [Session -> {"ok", "error"}]
          /\ jobs' \in Seq(Session)
      BY <1>1, <1>2, <1>13, AnswerTypes, RestType
    <3> QED
      BY <3>1, <2>1, <1>2, <1>6, <1>7, <1>13, PartSame DEF Takes
  <2>3. Shrinks(s)
    <3>1. ASSUME NEW c \in DOMAIN schemaMap, c \notin DOMAIN schemaMap'
          PROVE  DOMAIN tables'[schemaMap[c]] = {}
      <4>1. left = Empty /\ c = d
        BY <3>1, <2>1
      <4>2. CASE schemaMap[d] = i
        BY <4>1, <4>2, <1>7, MapsEmpty
      <4>3. CASE schemaMap[d] # i
        <5>1. schemaMap[d] \in DOMAIN tables
          BY <3>1, <4>1, <1>1 DEF Types, Maps
        <5> QED
          BY <3>1, <4>1, <4>3, <5>1, <1>7, <1>12
      <4> QED
        BY <4>2, <4>3
    <3> QED
      BY <3>1, <2>1, <1>0, <1>7, <1>8, <1>9, <1>13 DEF Shrinks, Part
  <2> QED
    BY <2>2, <2>3, <1>2, <1>8, <1>11, <1>13, TakesAndEnds
\* The next table is dropped.
<1>14. ASSUME NEW lc \in DOMAIN left, HasEngine(s, d, lc), UNCHANGED schemaMap,
              EngineDrop(s, d, left[lc].table),
              Await(s, Tail(jobs), DropRec("dropping table of db", id, d, lc, i))
       PROVE  IInv'
  <2>1. lc \in DOMAIN tables[i] /\ left[lc] = tables[i][lc] /\ lc \in Name /\ lc \in DOMAIN tables'[i]
    <3>1. lc \in DOMAIN tables[i] /\ left[lc] = tables[i][lc]
      BY <1>5, <1>14, PartWithout DEF Part
    <3>2. lc \in Name
      BY <3>1, <1>1, <1>4 DEF Types, Maps
    <3> QED
      BY <3>1, <3>2, <1>7, <1>14
  <2>2. d \in DOMAIN schemaMap /\ schemaMap[d] = i
    <3>1. Listed(d, lc)
      <4>1. <<d, Lower[lc]>> \notin DOMAIN temp[s]
        BY <1>10
      <4> QED
        BY <4>1, <1>14 DEF HasEngine, LcKey
    <3> QED
      BY <3>1, <1>12 DEF Listed
  <2>3. PICK rec : rec = DropRec("dropping table of db", id, d, lc, i)
    OBVIOUS
  <2>4. IsDropRec(rec, "dropping table of db", id, d, lc, i)
    BY <2>1, <2>3, <1>4, DropRecord
  <2>5. Await(s, Tail(jobs), rec) /\ rec \in StmtType
    BY <2>3, <2>4, <1>14 DEF IsDropRec
  <2>6. stmt'[s] = rec /\ jobs' = Append(Tail(jobs), s)
    BY <2>5, <1>2, AwaitIs
  <2>7. /\ stmt'[s].at = "dropping table of db" /\ stmt'[s].id = id /\ stmt'[s].d = d
        /\ stmt'[s].n = lc /\ stmt'[s].sch = i
    BY <2>4, <2>6 DEF IsDropRec
  <2>8. PICK key : key = <<d, left[lc].table>>
    OBVIOUS
  <2>9. /\ Part(tableMap', tableMap) /\ DOMAIN temp' = Session /\ temp' = temp
        /\ \A k \in DOMAIN tableMap : k \in DOMAIN tableMap' \/ k = key
        /\ key \notin DOMAIN tableMap'
    <3>1. PICK gone : gone = left[lc].table
      OBVIOUS
    <3>2. EngineDrop(s, d, gone) /\ key = <<d, gone>> /\ key \notin DOMAIN temp[s]
      BY <3>1, <2>8, <1>10, <1>14
    <3>3. /\ Part(tableMap', tableMap) /\ DOMAIN temp' = Session
          /\ \A k \in DOMAIN tableMap : k \in DOMAIN tableMap' \/ k = key
          /\ key \notin DOMAIN tableMap' /\ temp' = temp
      BY <3>2, <1>1, EngineDropIs
    <3> QED
      BY <3>3
  <2>10. Takes(s)
    <3>1. /\ stmt' \in [Session -> StmtType] /\ reply' \in [Session -> {"ok", "error"}]
          /\ jobs' \in Seq(Session)
      BY <2>5, <2>6, <1>1, <1>2, AwaitTypes, RestType
    <3> QED
      BY <3>1, <2>9, <1>2, <1>6, <1>7, <1>14, PartSame DEF Takes
  <2>11. Lower[left[lc].table] = lc /\ left[lc].table \in client.names
    BY <2>1, <1>1, <1>4 DEF Named, Spelled
  <2>12. Shrinks(s)
    <3>1. key[1] = d /\ Lower[key[2]] = lc
      BY <2>8, <2>11
    <3>2. Drops(s, i, lc)'
      BY <2>7 DEF Drops
    <3>3. ASSUME NEW k \in DOMAIN tableMap, k \notin DOMAIN tableMap'
          PROVE  \E j \in DOMAIN tables : k[1] \in DOMAIN schemaMap /\ schemaMap[k[1]] = j
                                          /\ Drops(s, j, Lower[k[2]])'
      <4>1. k = key
        BY <3>3, <2>9
      <4> QED
        BY <4>1, <3>1, <3>2, <2>2, <1>4
    <3> QED
      <4>1. \A j, e : Drops(s, j, e) => IsFirst(s) /\ e \notin DOMAIN tables'[j]
        BY <1>7, <1>8, <1>9
      <4>2. \A j \in DOMAIN tables : \A e \in DOMAIN tables[j] :
              e \in DOMAIN tables'[j] \/ Drops(s, j, e)
        BY <1>7, <1>9
      <4> QED
        BY <4>1, <4>2, <3>3, <2>9, <1>0, <1>7, <1>14 DEF Shrinks, Part
  <2>13. WillDrop(s, d, lc)
    BY <2>7, <2>9, <1>10, <1>11 DEF WillDrop
  <2>14. LowerCase => <<d, lc>> \notin DOMAIN tableMap'
    BY <2>8, <2>9, <2>11 DEF LowerCase
  <2>15. stmt'[s].id <= clock' /\ stmt'[s].n \in Name
    BY <2>1, <2>7, <1>4, <1>6
  <2> QED
    BY <2>1, <2>2, <2>7, <2>10, <2>12, <2>13, <2>14, <2>15, <1>2, <1>4, <1>8, <1>14, TakesAndWaits
<1>15. \/ left = Empty /\ schemaMap' = Without(schemaMap, d) /\ Answer(s, "ok") /\ jobs' = Tail(jobs)
          /\ UNCHANGED <<tableMap, temp>>
       \/ Answer(s, "error") /\ jobs' = Tail(jobs) /\ UNCHANGED <<schemaMap, tableMap, temp>>
       \/ \E lc \in DOMAIN left :
            /\ HasEngine(s, d, lc) /\ UNCHANGED schemaMap /\ EngineDrop(s, d, left[lc].table)
            /\ Await(s, Tail(jobs), DropRec("dropping table of db", id, d, lc, i))
  BY <1>6 DEF DropNext, EndDropDatabase, DropRec
<1> QED
  BY <1>13, <1>14, <1>15

-----------------------------------------------------------------------------
(* CREATE TABLE: the table *)

\* The statement of s stores a new table and will list it in the object i of database d.
Adds(s, i, d, n, id) ==
  /\ client' = client /\ schemaMap' = schemaMap /\ tables' = tables /\ temp' = temp /\ tx' = tx
  /\ clock' \in {clock, clock + 1} /\ clock' \in 0..MaxStmt
  /\ jobs' \in Seq(Session) /\ stmt' \in [Session -> StmtType]
  /\ reply' \in [Session -> {"ok", "error"}]
  /\ stmt[s].at \in Quiet
  /\ d \in DOMAIN schemaMap /\ schemaMap[d] = i /\ i \in DOMAIN tables
  /\ d \in Database /\ n \in Name /\ n \in client.names
  /\ id \in Id /\ id <= clock'
  /\ Lower[n] \notin DOMAIN tables[i]
  /\ tableMap' = With(tableMap, <<d, n>>, [gen |-> id, rows |-> {}])
  /\ stmt'[s].at = "creating" /\ ~stmt'[s].temp /\ stmt'[s].sch = i
  /\ stmt'[s].d = d /\ stmt'[s].n = n /\ stmt'[s].id = id

LEMMA AddsTouches ==
  ASSUME NEW s \in Session, NEW i, NEW d, NEW n, NEW id, Adds(s, i, d, n, id), NEW j, NEW e
  PROVE  /\ Creates(s, j, e)' <=> j = i /\ e = Lower[n]
         /\ ~Drops(s, j, e)' /\ ~Creates(s, j, e) /\ ~Drops(s, j, e)
<1>1. stmt'[s].at = "creating" /\ ~stmt'[s].temp /\ stmt'[s].sch = i /\ stmt'[s].n = n
  BY DEF Adds
<1>2. stmt[s].at \in Quiet
  BY DEF Adds
<1>3. ~Creates(s, j, e) /\ ~Drops(s, j, e)
  BY <1>2 DEF Creates, Drops, Quiet
<1>4. Creates(s, j, e)' <=> j = i /\ e = Lower[n]
  BY <1>1 DEF Creates
<1>5. ~Drops(s, j, e)'
  BY <1>1 DEF Drops
<1> QED
  BY <1>3, <1>4, <1>5

LEMMA AddsTables ==
  ASSUME NEW s \in Session, NEW i, NEW d, NEW n, NEW id, Adds(s, i, d, n, id), NEW key, key = <<d, n>>
  PROVE  /\ DOMAIN tableMap' = DOMAIN tableMap \cup {key} /\ key[1] = d /\ key[2] = n
         /\ tableMap'[key].gen = id /\ tableMap'[key].rows = {}
         /\ \A k \in DOMAIN tableMap : k # key => tableMap'[k] = tableMap[k]
<1>1. PICK new : new = [gen |-> id, rows |-> {}]
  OBVIOUS
<1>2. tableMap' = With(tableMap, key, new)
  BY <1>1 DEF Adds
<1>3. /\ DOMAIN With(tableMap, key, new) = DOMAIN tableMap \cup {key}
      /\ With(tableMap, key, new)[key] = new
      /\ \A k \in DOMAIN tableMap : k # key => With(tableMap, key, new)[k] = tableMap[k]
  BY DEF With
<1>4. new.gen = id /\ new.rows = {}
  BY <1>1
<1>5. DOMAIN tableMap' = DOMAIN tableMap \cup {key} /\ tableMap'[key] = new
      /\ \A k \in DOMAIN tableMap : k # key => tableMap'[k] = tableMap[k]
  BY <1>2, <1>3
<1> QED
  BY <1>4, <1>5

LEMMA AddsTypes ==
  ASSUME IInv, NEW s \in Session, NEW i, NEW d, NEW n, NEW id, Adds(s, i, d, n, id)
  PROVE  Types'
<1>1. client \in Client /\ CatalogTypes /\ OtherTypes
  BY TypesAre DEF IInv, Catalog
<1>2. CatalogTypes'
  <2>1. [gen |-> id, rows |-> {}] \in Data /\ <<d, n>> \in Key
    BY DEF Adds, Data, Key
  <2>2. Maps(With(tableMap, <<d, n>>, [gen |-> id, rows |-> {}]), Key, Data)
    BY <2>1, <1>1, MapsWith DEF CatalogTypes
  <2>3. Maps(tableMap', Key, Data)
    BY <2>2 DEF Adds
  <2> QED
    BY <2>3, <1>1 DEF CatalogTypes, Adds
<1>3. OtherTypes' /\ client' \in Client
  BY <1>1 DEF OtherTypes, Adds
<1> QED
  BY <1>2, <1>3 DEF Types, CatalogTypes, OtherTypes

LEMMA AddsOwned ==
  ASSUME IInv, NEW s \in Session, NEW i, NEW d, NEW n, NEW id, Adds(s, i, d, n, id), Moves(s)
  PROVE  Owned' /\ Named' /\ TempGone'
<1>1. Types /\ Owned /\ Named /\ TempGone
  BY DEF IInv, Catalog
<1>2. schemaMap' = schemaMap /\ tables' = tables /\ temp' = temp
  BY DEF Adds
<1>3. clock \in Nat /\ clock' \in Nat /\ clock' \in {clock, clock + 1}
  BY <1>1, ClockIs DEF Adds
<1>4. Named'
  BY <1>1, <1>2 DEF Named
<1>5. TempGone'
  <2>1. stmt'[s].at # "dropping table of db"
    BY DEF Adds
  <2> QED
    BY <2>1, <1>1, <1>2 DEF TempGone, Moves
<1>6. ASSUME NEW j \in Nat, j <= clock PROVE j <= clock'
  BY <1>3, <1>6
<1>7. \A j \in DOMAIN tables' : j <= clock'
  BY <1>1, <1>2, <1>6, IdIs DEF Owned, Types
<1>8. ASSUME NEW r \in Session PROVE OwnedBy(r)'
  <2>1. CASE r = s
    <3>1. \A c \in DOMAIN schemaMap : schemaMap[c] = i => c = d
      BY <1>1 DEF Owned, Adds
    <3>2. i # 0
      BY <1>1, IdIs DEF Types, Adds
    <3>3. /\ stmt'[s].at = "creating" /\ stmt'[s].sch = i /\ i \in DOMAIN tables /\ stmt'[s].id = id
          /\ id \in Id /\ id <= clock' /\ stmt'[s].d = d /\ stmt'[s].n = n
          /\ d \in Database /\ n \in Name
      BY DEF Adds
    <3> QED
      BY <3>1, <3>2, <3>3, <2>1, <1>2 DEF OwnedBy
  <2>2. CASE r # s
    <3>1. stmt'[r] = stmt[r] /\ OwnedBy(r) /\ stmt[r] \in StmtType
      BY <2>2, <1>1 DEF Moves, Owned, Types
    <3>2. stmt[r].id \in Nat
      BY <3>1 DEF StmtType
    <3>3. stmt[r].id <= clock'
      <4>1. stmt[r].id <= clock
        BY <3>1 DEF OwnedBy
      <4> QED
        BY <3>2, <4>1, <1>6
    <3> QED
      BY <3>1, <3>3, <1>2 DEF OwnedBy
  <2> QED
    BY <2>1, <2>2
<1>9. Owned'
  BY <1>1, <1>2, <1>7, <1>8 DEF Owned
<1> QED
  BY <1>4, <1>5, <1>9

\* The new job is the last one, so it is behind what drops the entry.
LEMMA AddsOrder ==
  ASSUME IInv, NEW s \in Session, NEW i, NEW d, NEW n, NEW id, Adds(s, i, d, n, id), Moves(s)
  PROVE  Stale' /\ Alternates'
<1>1. Types /\ Queue /\ Stale /\ Alternates
  BY DEF IInv, Catalog
<1>2. schemaMap' = schemaMap /\ tables' = tables /\ Lower[n] \notin DOMAIN tables[i]
      /\ stmt'[s].at = "creating" /\ stmt'[s].at \notin Quiet
  BY DEF Adds, Quiet
<1>3. ASSUME NEW r \in Session, NEW c \in DOMAIN schemaMap, NEW j, j = schemaMap[c], Overtaken(r, c)'
      PROVE  /\ DOMAIN tables[j] = {}
             /\ \A q \in Session : \A lc \in Name : Creates(q, j, lc)' => Before(r, q)'
  <2>1. r # s
    BY <1>2, <1>3 DEF Overtaken
  <2>2. Overtaken(r, c)
    BY <2>1, <1>2, <1>3 DEF Overtaken, Moves
  <2>3. DOMAIN tables[j] = {}
    BY <2>2, <1>1, <1>3 DEF Stale
  <2>4. ASSUME NEW q \in Session, NEW lc \in Name, Creates(q, j, lc)' PROVE Before(r, q)'
    <3>1. CASE q = s
      <4>1. stmt[r].at \notin Quiet
        BY <2>2 DEF Overtaken, Quiet
      <4> QED
        BY <4>1, <3>1, <2>1, <1>1, <1>2, OrderLater
    <3>2. CASE q # s
      <4>1. Creates(q, j, lc)
        BY <3>2, <2>4, OthersSame
      <4>2. Before(r, q)
        BY <4>1, <2>2, <1>1, <1>3 DEF Stale
      <4> QED
        BY <4>2, <3>2, <2>1, <1>1, OrderLater
    <3> QED
      BY <3>1, <3>2
  <2> QED
    BY <2>3, <2>4
<1>4. Stale'
  BY <1>2, <1>3 DEF Stale, Creates
<1>5. ASSUME NEW j \in DOMAIN tables, NEW lc \in Name, NEW c \in Session, NEW r \in Session,
             Creates(c, j, lc)', Drops(r, j, lc)'
      PROVE  IF lc \in DOMAIN tables[j] THEN Before(c, r)' ELSE Before(r, c)'
  <2>1. r # s
    BY <1>5, AddsTouches
  <2>2. Drops(r, j, lc) /\ stmt[r].at \notin Quiet
    BY <2>1, <1>5, OthersSame, TouchWaits DEF Touches
  <2>3. CASE c = s
    <3>1. j = i /\ lc = Lower[n]
      BY <2>3, <1>5, AddsTouches
    <3>2. Before(r, s)'
      BY <2>1, <2>2, <1>1, <1>2, OrderLater
    <3> QED
      BY <3>1, <3>2, <2>3, <1>2
  <2>4. CASE c # s
    <3>1. Creates(c, j, lc)
      BY <2>4, <1>5, OthersSame
    <3>2. IF lc \in DOMAIN tables[j] THEN Before(c, r) ELSE Before(r, c)
      BY <3>1, <2>2, <1>1 DEF Alternates
    <3> QED
      BY <3>2, <2>1, <2>4, <1>1, OrderLater
  <2> QED
    BY <2>3, <2>4
<1>6. Alternates'
  BY <1>2, <1>5 DEF Alternates
<1> QED
  BY <1>4, <1>6

LEMMA AddsStored ==
  ASSUME IInv, NEW s \in Session, NEW i, NEW d, NEW n, NEW id, Adds(s, i, d, n, id), Moves(s)
  PROVE  LastIsStored' /\ EntryIsStored'
<1>1. Types /\ Queue /\ Queue' /\ Owned /\ Named /\ LastIsStored /\ EntryIsStored /\ Types'
  BY AddsTypes DEF IInv, Catalog, Moves
<1>2. /\ schemaMap' = schemaMap /\ tables' = tables /\ d \in DOMAIN schemaMap /\ schemaMap[d] = i
      /\ Lower[n] \notin DOMAIN tables[i]
      /\ stmt'[s].n = n /\ stmt'[s].id = id
  BY DEF Adds
<1>3. PICK key : key = <<d, n>>
  OBVIOUS
<1>4. /\ DOMAIN tableMap' = DOMAIN tableMap \cup {key}
      /\ tableMap'[key].gen = id
      /\ \A k \in DOMAIN tableMap : k # key => tableMap'[k] = tableMap[k]
  BY <1>3, AddsTables
<1>5. ASSUME NEW c, NEW m, NEW g, IsStored(c, m, g), NEW k, k = <<c, m>>, k # key
      PROVE  k \in DOMAIN tableMap' /\ tableMap'[k].gen = g
  <2>1. k \in DOMAIN tableMap /\ tableMap[k].gen = g
    BY <1>5 DEF IsStored
  <2> QED
    BY <2>1, <1>4, <1>5
<1>6. ASSUME NEW e \in DOMAIN schemaMap, NEW c \in Session, NEW lc \in Name,
             NEW j, j = schemaMap[e], Creates(c, j, lc)',
             \A r \in Session : Touches(r, j, lc)' => r = c \/ Before(r, c)',
             NEW k, k = <<e, stmt'[c].n>>
      PROVE  k \in DOMAIN tableMap' /\ tableMap'[k].gen = stmt'[c].id
  <2>1. CASE c = s
    <3>1. j = i
      BY <2>1, <1>6, AddsTouches
    <3>2. e = d
      BY <3>1, <1>1, <1>2, <1>6 DEF Owned
    <3>3. k = key
      BY <3>2, <2>1, <1>2, <1>3, <1>6
    <3> QED
      BY <3>3, <2>1, <1>2, <1>4
  <2>2. CASE c # s
    <3>1. Creates(c, j, lc) /\ stmt[c].at \notin Quiet /\ stmt'[c] = stmt[c]
      BY <2>2, <1>6, OthersSame, TouchWaits DEF Touches, Moves
    <3>2. ~Touches(s, j, lc)'
      <4> SUFFICES ASSUME Touches(s, j, lc)' PROVE FALSE
        OBVIOUS
      <4>1. stmt'[s].at \notin Quiet
        BY TouchWaitsLater
      <4>2. Before(c, s)' /\ Before(s, c)'
        BY <4>1, <3>1, <2>2, <1>1, <1>6, OrderLater
      <4> QED
        BY <4>2, <1>1, OrderIsOneWay
    <3>3. ASSUME NEW r \in Session, Touches(r, j, lc) PROVE r = c \/ Before(r, c)
      <4>1. r # s
        BY <3>3, AddsTouches DEF Touches
      <4>2. Touches(r, j, lc)'
        BY <4>1, <3>3, OthersSame
      <4>3. r = c \/ Before(r, c)'
        BY <4>2, <1>6
      <4> QED
        BY <4>1, <4>3, <2>2, <1>1, OrderLater
    <3>4. IsStored(e, stmt[c].n, stmt[c].id)
      BY <3>1, <3>3, <1>1, <1>6 DEF LastIsStored
    <3>5. k # key
      <4> SUFFICES ASSUME k = key PROVE FALSE
        OBVIOUS
      <4>1. e = d /\ stmt[c].n = n
        BY <3>1, <1>3, <1>6
      <4>2. j = i /\ lc = Lower[n]
        BY <4>1, <3>1, <1>2, <1>6 DEF Creates
      <4>3. Creates(s, j, lc)'
        BY <4>2, AddsTouches
      <4> QED
        BY <4>3, <3>2 DEF Touches
    <3> QED
      BY <3>1, <3>4, <3>5, <1>5, <1>6
  <2> QED
    BY <2>1, <2>2
<1>7. ASSUME NEW e \in DOMAIN schemaMap, NEW j, j = schemaMap[e], NEW lc \in DOMAIN tables[j],
             \A r \in Session : ~Touches(r, j, lc)',
             NEW k, k = <<e, tables[j][lc].table>>
      PROVE  k \in DOMAIN tableMap' /\ tableMap'[k].gen = tables[j][lc].gen
  <2>1. j \in DOMAIN tables
    BY <1>1, <1>7 DEF Types, Maps
  <2>2. Lower[tables[j][lc].table] = lc
    BY <2>1, <1>1, <1>7 DEF Named
  <2>3. k # key
    <3> SUFFICES ASSUME k = key PROVE FALSE
      OBVIOUS
    <3>1. e = d /\ tables[j][lc].table = n
      BY <1>3, <1>7
    <3> QED
      BY <3>1, <2>2, <1>2, <1>7
  <2>4. ASSUME NEW r \in Session PROVE ~Touches(r, j, lc)
    <3>1. CASE r = s
      BY <3>1, AddsTouches DEF Touches
    <3>2. CASE r # s
      BY <3>2, <1>7, OthersSame
    <3> QED
      BY <3>1, <3>2
  <2>5. IsStored(e, tables[j][lc].table, tables[j][lc].gen)
    BY <2>4, <1>1, <1>7 DEF EntryIsStored
  <2> QED
    BY <2>3, <2>5, <1>5, <1>7
<1>8. LastIsStored'
  <2> SUFFICES ASSUME NEW e \in DOMAIN schemaMap', NEW c \in Session, NEW lc \in Name,
                      Creates(c, schemaMap[e], lc)',
                      \A r \in Session : Touches(r, schemaMap[e], lc)' => r = c \/ Before(r, c)'
               PROVE  IsStored(e, stmt[c].n, stmt[c].id)'
    BY DEF LastIsStored
  <2> SUFFICES ASSUME NEW j, j = schemaMap'[e], Creates(c, j, lc)',
                      \A r \in Session : Touches(r, j, lc)' => r = c \/ Before(r, c)'
               PROVE  IsStored(e, stmt[c].n, stmt[c].id)'
    BY DEF Touches, Creates, Drops
  <2> QED
    BY <1>2, <1>6 DEF IsStored
<1>9. EntryIsStored'
  <2> SUFFICES ASSUME NEW e \in DOMAIN schemaMap', NEW j, j = schemaMap'[e],
                      NEW lc \in DOMAIN tables'[j],
                      \A r \in Session : ~Touches(r, j, lc)'
               PROVE  <<e, tables'[j][lc].table>> \in DOMAIN tableMap'
                      /\ tableMap'[<<e, tables'[j][lc].table>>].gen = tables'[j][lc].gen
    BY DEF EntryIsStored, IsStored, Touches, Creates, Drops
  <2> QED
    BY <1>2, <1>7
<1> QED
  BY <1>8, <1>9

LEMMA AddsNames ==
  ASSUME IInv, NEW s \in Session, NEW i, NEW d, NEW n, NEW id, Adds(s, i, d, n, id), Moves(s)
  PROVE  Names'
<1>1. Types /\ Spelled /\ ListedStays /\ Kept
  BY DEF IInv, Catalog, Names
<1>2. /\ schemaMap' = schemaMap /\ tables' = tables /\ temp' = temp /\ client' = client
      /\ d \in DOMAIN schemaMap /\ schemaMap[d] = i /\ Lower[n] \notin DOMAIN tables[i]
      /\ n \in client.names /\ stmt'[s].n = n /\ stmt'[s].at = "creating"
      /\ (LowerCase' <=> LowerCase)
  BY DEF Adds, LowerCase
<1>3. PICK key : key = <<d, n>>
  OBVIOUS
<1>4. DOMAIN tableMap' = DOMAIN tableMap \cup {key} /\ key[1] = d /\ key[2] = n
  BY <1>3, AddsTables
<1>5. Spelled'
  <2>1. ASSUME NEW r \in Session PROVE SpelledBy(r)'
    <3>1. SpelledBy(r)
      BY <1>1 DEF Spelled
    <3>2. CASE r = s
      BY <3>1, <3>2, <1>2 DEF SpelledBy
    <3>3. CASE r # s
      BY <3>1, <3>3, <1>2 DEF SpelledBy, Moves
    <3> QED
      BY <3>2, <3>3
  <2>2. \A k \in DOMAIN tableMap' : k[2] \in client.names
    BY <1>1, <1>2, <1>4 DEF Spelled
  <2> QED
    BY <2>1, <2>2, <1>1, <1>2 DEF Spelled
<1>6. ASSUME NEW k, k = key PROVE ~Listed(k[1], k[2])
  BY <1>2, <1>4, <1>6 DEF Listed
<1>7. ListedStays'
  <2> SUFFICES ASSUME LowerCase, NEW k \in DOMAIN tableMap', Listed(k[1], k[2]), NEW r \in Session,
                      NEW j, j = schemaMap[k[1]], Drops(r, j, k[2])'
               PROVE  FALSE
    BY <1>2 DEF ListedStays, Listed, Drops
  <2>1. k \in DOMAIN tableMap
    BY <1>4, <1>6
  <2>2. ~Drops(r, j, k[2])
    BY <2>1, <1>1 DEF ListedStays
  <2> QED
    BY <2>2, OthersSame, AddsTouches
<1>8. Kept'
  <2> SUFFICES ASSUME LowerCase, ~client.drops
               PROVE  /\ \A r \in Session : stmt'[r].at # "dropping table of db"
                      /\ \A k \in DOMAIN tableMap' :
                           /\ k[1] \in DOMAIN schemaMap
                           /\ \/ Listed(k[1], k[2])
                              \/ \E c \in Session : \E j : j = schemaMap[k[1]] /\ Creates(c, j, k[2])'
    BY <1>2 DEF Kept, Listed, Creates
  <2>1. \A r \in Session : stmt'[r].at # "dropping table of db"
    BY <1>1, <1>2 DEF Kept, Moves
  <2>2. ASSUME NEW k \in DOMAIN tableMap'
        PROVE  /\ k[1] \in DOMAIN schemaMap
               /\ \/ Listed(k[1], k[2])
                  \/ \E c \in Session : \E j : j = schemaMap[k[1]] /\ Creates(c, j, k[2])'
    <3>1. CASE k = key
      <4>1. Lower[n] = n
        BY <1>2 DEF LowerCase
      <4>2. Creates(s, i, n)'
        BY <4>1, AddsTouches
      <4> QED
        BY <4>2, <3>1, <1>2, <1>4
    <3>2. CASE k # key
      <4>1. /\ k[1] \in DOMAIN schemaMap
            /\ Listed(k[1], k[2]) \/ \E c \in Session : Creates(c, schemaMap[k[1]], k[2])
        BY <3>2, <1>1, <1>4 DEF Kept
      <4>2. ASSUME NEW c \in Session, NEW j, j = schemaMap[k[1]], Creates(c, j, k[2])
            PROVE  Creates(c, j, k[2])'
        <5>1. c # s
          BY <4>2, AddsTouches
        <5> QED
          BY <5>1, <4>2, OthersSame
      <4> QED
        BY <4>1, <4>2
    <3> QED
      BY <3>1, <3>2
  <2> QED
    BY <2>1, <2>2
<1> QED
  BY <1>5, <1>7, <1>8 DEF Names

LEMMA AddsRows ==
  ASSUME IInv, NEW s \in Session, NEW i, NEW d, NEW n, NEW id, Adds(s, i, d, n, id), Moves(s)
  PROVE  Rows'
<1>1. Types /\ Queue /\ Rows
  BY DEF IInv, Catalog
<1>2. /\ schemaMap' = schemaMap /\ tables' = tables /\ temp' = temp /\ client' = client /\ tx' = tx
      /\ d \in DOMAIN schemaMap /\ schemaMap[d] = i /\ Lower[n] \notin DOMAIN tables[i]
      /\ stmt'[s].at = "creating" /\ stmt[s].at \in Quiet
      /\ id \in Id /\ id <= clock'
      /\ (LowerCase' <=> LowerCase)
  BY DEF Adds, LowerCase
<1>3. PICK key : key = <<d, n>>
  OBVIOUS
<1>4. /\ DOMAIN tableMap' = DOMAIN tableMap \cup {key} /\ key[1] = d /\ key[2] = n
      /\ tableMap'[key].gen = id /\ tableMap'[key].rows = {}
      /\ \A k \in DOMAIN tableMap : k # key => tableMap'[k] = tableMap[k]
  BY <1>3, AddsTables
<1>5. clock \in Nat /\ clock' \in Nat /\ clock' \in {clock, clock + 1}
  BY <1>1, ClockIs DEF Adds
<1>6. ASSUME NEW g \in Id, g <= clock PROVE g <= clock'
  <2>1. g \in Nat
    BY IdIs
  <2> QED
    BY <2>1, <1>5, <1>6
<1> SUFFICES ASSUME ~client.begins, LowerCase
             PROVE  /\ \A k \in DOMAIN tableMap' :
                         NotOlder(tableMap'[k].rows, tableMap'[k].gen) /\ tableMap'[k].gen <= clock'
                    /\ \A r \in Session : RowsBy(r)'
  BY <1>2 DEF Rows, NotOlder
<1>7. ASSUME NEW k \in DOMAIN tableMap'
      PROVE  NotOlder(tableMap'[k].rows, tableMap'[k].gen) /\ tableMap'[k].gen <= clock'
  <2>1. CASE k = key
    BY <2>1, <1>2, <1>4 DEF NotOlder
  <2>2. CASE k # key
    <3>1. k \in DOMAIN tableMap /\ tableMap'[k] = tableMap[k]
      BY <2>2, <1>4
    <3>2. NotOlder(tableMap[k].rows, tableMap[k].gen) /\ tableMap[k].gen <= clock
      BY <3>1, <1>1 DEF Rows
    <3>3. tableMap[k] \in Data
      BY <3>1, <1>1 DEF Types, Maps
    <3>4. tableMap[k].gen \in Id
      BY <3>3 DEF Data
    <3> QED
      BY <3>1, <3>2, <3>4, <1>6
  <2> QED
    BY <2>1, <2>2
<1>8. ASSUME NEW r \in Session PROVE RowsBy(r)'
  <2>1. RowsBy(r)
    BY <1>1 DEF Rows
  <2>2. ASSUME NEW k \in DOMAIN temp[r]
        PROVE  NotOlder(temp[r][k].rows, temp[r][k].gen) /\ temp[r][k].gen <= clock'
    <3>1. temp[r][k] \in Data
      BY <1>1 DEF Types, Maps
    <3>2. temp[r][k].gen \in Id
      BY <3>1 DEF Data
    <3> QED
      BY <3>2, <2>1, <1>6 DEF RowsBy
  <2>3. CASE r = s
    <3>1. tx[s] = NoTx
      BY <2>1, <2>3, <1>2 DEF RowsBy, Quiet
    <3> QED
      BY <3>1, <2>2, <2>3, <1>2 DEF RowsBy, NotOlder
  <2>4. CASE r # s
    <3>1. stmt'[r] = stmt[r]
      BY <2>4 DEF Moves
    <3>2. ASSUME stmt[r].at = "installing" PROVE InsertSafe(r)'
      <4>1. InsertSafe(r)
        BY <2>1, <3>2 DEF RowsBy
      <4>2. ASSUME NEW k \in DOMAIN tx[r].data, k \notin DOMAIN temp[r], NEW j, j = schemaMap[k[1]]
            PROVE  /\ Listed(k[1], k[2]) /\ k[2] \in client.names
                   /\ \A q \in Session : Drops(q, j, k[2])' => Before(r, q)'
                   /\ k \in DOMAIN tableMap' => NotOlder(tx[r].data[k], tableMap'[k].gen)
        <5>1. /\ Listed(k[1], k[2]) /\ k[2] \in client.names
              /\ \A q \in Session : Drops(q, j, k[2]) => Before(r, q)
              /\ k \in DOMAIN tableMap => NotOlder(tx[r].data[k], tableMap[k].gen)
          BY <4>1, <4>2 DEF InsertSafe
        <5>2. k # key
          BY <5>1, <1>2, <1>4 DEF Listed
        <5>3. ASSUME NEW q \in Session, Drops(q, j, k[2])' PROVE Before(r, q)'
          <6>1. q # s
            BY <5>3, AddsTouches
          <6>2. Drops(q, j, k[2])
            BY <6>1, <5>3, OthersSame
          <6>3. Before(r, q)
            BY <6>2, <5>1
          <6> QED
            BY <6>1, <6>3, <2>4, <1>1, OrderLater
        <5>4. k \in DOMAIN tableMap' => k \in DOMAIN tableMap /\ tableMap'[k] = tableMap[k]
          BY <5>2, <1>4
        <5> QED
          BY <5>1, <5>3, <5>4
      <4>3. \A k \in DOMAIN tx[r].data : k \in DOMAIN temp[r] => NotOlder(tx[r].data[k], temp[r][k].gen)
        BY <4>1 DEF InsertSafe
      <4> QED
        BY <4>2, <4>3, <1>2 DEF InsertSafe, NotOlder, Listed, Drops
    <3> QED
      BY <3>1, <3>2, <2>1, <2>2, <1>2 DEF RowsBy, NotOlder
  <2> QED
    BY <2>3, <2>4
<1> QED
  BY <1>7, <1>8

LEMMA AddsKeeps ==
  ASSUME IInv, NEW s \in Session, NEW i, NEW d, NEW n, NEW id, Adds(s, i, d, n, id), Moves(s)
  PROVE  IInv'
BY AddsTypes, AddsOwned, AddsOrder, AddsStored, AddsNames, AddsRows DEF IInv, Catalog, Moves

CreateRec(me, sch) == [me EXCEPT !.at = "creating", !.sch = sch]
IsCreateRec(rec, me, sch) ==
  /\ rec \in StmtType
  /\ rec.at = "creating" /\ rec.sch = sch
  /\ rec.id = me.id /\ rec.d = me.d /\ rec.n = me.n /\ rec.temp = me.temp

LEMMA CreateRecord ==
  ASSUME NEW me \in StmtType, NEW sch \in Nat
  PROVE  IsCreateRec(CreateRec(me, sch), me, sch)
<1> DEFINE rec == [me EXCEPT !.at = "creating", !.sch = sch]
<1>1. /\ rec.at = "creating" /\ rec.sch = sch
      /\ rec.id = me.id /\ rec.d = me.d /\ rec.n = me.n /\ rec.temp = me.temp
  BY DEF StmtType
<1>2. rec \in StmtType
  BY DEF StmtType, At
<1> QED
  BY <1>1, <1>2 DEF CreateRec, IsCreateRec

\* A temporary table is nobody else's business.
LEMMA CreateTempKeeps ==
  ASSUME IInv, NEW s \in Session, stmt[s].at \in Quiet, Moves(s),
         clock' \in {clock, clock + 1}, clock' \in 0..MaxStmt,
         client' = client, UNCHANGED <<schemaMap, tables, tx, tableMap>>,
         NEW d \in Database, NEW n \in Name, n \in client.names, NEW id \in Id, id <= clock',
         temp' = [temp EXCEPT ![s] = With(temp[s], <<d, n>>, [gen |-> id, rows |-> {}])],
         stmt' \in [Session -> StmtType], jobs' \in Seq(Session),
         reply' \in [Session -> {"ok", "error"}],
         stmt'[s].at = "creating", stmt'[s].temp, stmt'[s].d = d, stmt'[s].n = n, stmt'[s].id = id,
         stmt'[s].sch \in DOMAIN tables \cup {0},
         \A c \in DOMAIN schemaMap : schemaMap[c] = stmt'[s].sch => c = d
  PROVE  IInv'
<1>1. Types /\ Queue /\ CatalogTypes /\ OtherTypes /\ Catalog /\ Names /\ Rows /\ client \in Client
  BY TypesAre DEF IInv, Catalog
<1>2. DOMAIN temp = Session /\ Maps(temp[s], Key, Data)
  BY <1>1 DEF CatalogTypes
<1>3. PICK key, new : key = <<d, n>> /\ new = [gen |-> id, rows |-> {}]
  OBVIOUS
<1>4. new \in Data /\ new.gen = id /\ new.rows = {} /\ key \in Key /\ key[2] = n
  BY <1>3 DEF Data, Key
<1>5. PICK own : own = With(temp[s], key, new)
  OBVIOUS
<1>6. /\ Maps(own, Key, Data) /\ DOMAIN own = DOMAIN temp[s] \cup {key} /\ own[key] = new
      /\ \A k \in DOMAIN temp[s] : k # key => own[k] = temp[s][k]
  <2>1. Maps(own, Key, Data)
    BY <1>2, <1>4, <1>5, MapsWith
  <2> QED
    BY <2>1, <1>5 DEF With
<1>7. DOMAIN temp' = Session /\ temp'[s] = own /\ \A r \in Session \ {s} : temp'[r] = temp[r]
  BY <1>2, <1>3, <1>5
<1>8. Types'
  <2>1. CatalogTypes'
    BY <1>1, <1>6, <1>7 DEF CatalogTypes
  <2>2. OtherTypes'
    BY <1>1 DEF OtherTypes
  <2> QED
    BY <2>1, <2>2, <1>1, TypesAre DEF Types, CatalogTypes, OtherTypes
<1>9. Aside(s)
  <2>1. \A i, lc : ~Touches(s, i, lc)
    BY DEF Touches, Creates, Drops, Quiet
  <2>2. OwnedBy(s)'
    BY DEF OwnedBy
  <2> QED
    BY <2>1, <2>2 DEF Aside
<1>10. Shrinks(s) /\ Outcome(s)
  BY <1>1, <1>7, <1>8, <1>9, AsideShrinks
<1>11. NamesStep(s)
  <2>1. SpelledBy(s)
    BY <1>1 DEF Names, Spelled
  <2>2. SpelledBy(s)'
    BY <2>1, <1>4, <1>6, <1>7 DEF SpelledBy
  <2> QED
    BY <2>2, <1>1, <1>9, AsideNames
<1>12. RowsStep(s)
  <2> SUFFICES ASSUME ~client.begins, LowerCase
               PROVE  /\ \A k \in DOMAIN tableMap : NotOlder(tableMap[k].rows, tableMap[k].gen)
                      /\ RowsBy(s)'
    BY DEF RowsStep
  <2>1. \A k \in DOMAIN tableMap : NotOlder(tableMap[k].rows, tableMap[k].gen)
    BY <1>1 DEF Rows
  <2>2. RowsBy(s)
    BY <1>1 DEF Rows
  <2>3. tx[s] = NoTx
    BY <2>2 DEF RowsBy, Quiet
  <2>4. ASSUME NEW k \in DOMAIN own PROVE NotOlder(own[k].rows, own[k].gen) /\ own[k].gen <= clock'
    <3>1. CASE k = key
      BY <3>1, <1>4, <1>6 DEF NotOlder
    <3>2. CASE k # key
      <4>1. k \in DOMAIN temp[s] /\ own[k] = temp[s][k] /\ own[k] \in Data
        BY <3>2, <1>6 DEF Maps
      <4>2. NotOlder(temp[s][k].rows, temp[s][k].gen) /\ temp[s][k].gen <= clock
        BY <4>1, <2>2 DEF RowsBy
      <4>3. own[k].gen \in Nat /\ clock \in Nat
        BY <4>1, <1>1, IdIs, ClockIs DEF Data
      <4>4. own[k].gen <= clock'
        BY <4>1, <4>2, <4>3
      <4> QED
        BY <4>1, <4>2, <4>4
    <3> QED
      BY <3>1, <3>2
  <2>5. \A k \in DOMAIN temp'[s] :
          NotOlder(temp'[s][k].rows, temp'[s][k].gen) /\ temp'[s][k].gen <= clock'
    BY <2>4, <1>7
  <2>6. stmt'[s].at # "installing" /\ tx'[s] = NoTx
    BY <2>3
  <2> QED
    BY <2>1, <2>5, <2>6 DEF RowsBy, NotOlder
<1> QED
  BY <1>8, <1>10, <1>11, <1>12, ShrinksKeepsAll

LEMMA CreateKeeps ==
  ASSUME IInv, NEW s \in Session, stmt[s].at \in Quiet, NEW me \in StmtType, NEW pk,
         Create(s, me, pk, jobs), Moves(s),
         clock' \in {clock, clock + 1}, clock' \in 0..MaxStmt,
         client' = client, UNCHANGED <<schemaMap, tables, tx>>,
         me.d \in Database, me.n \in Name, me.n \in client.names, me.id \in Id, me.id <= clock'
  PROVE  IInv'
<1>1. Types /\ Owned /\ stmt \in [Session -> StmtType]
  BY DEF IInv, Catalog, Types
<1>2. CASE Answer(s, "error") /\ UNCHANGED <<temp, tableMap, jobs>>
  BY <1>2, RefusedKeeps
<1>3. PICK d, n, id, sch :
        /\ d = me.d /\ n = me.n /\ id = me.id
        /\ sch = IF me.d \in DOMAIN schemaMap THEN schemaMap[me.d] ELSE 0
  OBVIOUS
<1>4. d \in Database /\ n \in Name /\ n \in client.names /\ id \in Id /\ id <= clock'
  BY <1>3
<1>5. /\ sch \in DOMAIN tables \cup {0} /\ sch \in Nat
      /\ d \in DOMAIN schemaMap => sch = schemaMap[d] /\ sch \in DOMAIN tables
      /\ \A c \in DOMAIN schemaMap : schemaMap[c] = sch => c = d
  <2>1. CASE d \in DOMAIN schemaMap
    <3>1. sch = schemaMap[d]
      BY <2>1, <1>3
    <3>2. sch \in DOMAIN tables /\ DOMAIN tables \subseteq Id
      BY <2>1, <3>1, <1>1 DEF Types, Maps
    <3>3. \A c \in DOMAIN schemaMap : schemaMap[c] = sch => c = d
      BY <2>1, <3>1, <1>1 DEF Owned
    <3> QED
      BY <3>1, <3>2, <3>3, IdIs
  <2>2. CASE d \notin DOMAIN schemaMap
    <3>1. sch = 0
      BY <2>2, <1>3
    <3>2. \A c \in DOMAIN schemaMap : schemaMap[c] \in Id
      BY <1>1 DEF Types, Maps
    <3> QED
      BY <2>2, <3>1, <3>2, IdIs
  <2> QED
    BY <2>1, <2>2
<1>6. ASSUME ~HasEngine(s, d, n), me.temp \/ d \in DOMAIN schemaMap,
             Await(s, jobs, CreateRec(me, sch)),
             IF me.temp
             THEN /\ temp' = [temp EXCEPT ![s] = With(temp[s], <<d, n>>, [gen |-> id, rows |-> {}])]
                  /\ UNCHANGED tableMap
             ELSE tableMap' = With(tableMap, <<d, n>>, [gen |-> id, rows |-> {}]) /\ UNCHANGED temp
      PROVE  IInv'
  <2>1. PICK rec : rec = CreateRec(me, sch)
    OBVIOUS
  <2>2. IsCreateRec(rec, me, sch)
    BY <2>1, <1>5, CreateRecord
  <2>3. Await(s, jobs, rec) /\ rec \in StmtType
    BY <2>1, <2>2, <1>6 DEF IsCreateRec
  <2>4. stmt'[s] = rec /\ jobs' = Append(jobs, s)
    BY <2>3, <1>1, AwaitIs
  <2>5. /\ stmt'[s].at = "creating" /\ stmt'[s].id = id /\ stmt'[s].d = d /\ stmt'[s].n = n
        /\ stmt'[s].sch = sch /\ stmt'[s].temp = me.temp
    BY <2>2, <2>4, <1>3 DEF IsCreateRec
  <2>6. /\ stmt' \in [Session -> StmtType] /\ reply' \in [Session -> {"ok", "error"}]
        /\ jobs' \in Seq(Session)
    BY <2>3, <2>4, <1>1, AwaitTypes, RestType
  <2>7. CASE me.temp
    <3>1. /\ UNCHANGED tableMap /\ stmt'[s].temp
          /\ temp' = [temp EXCEPT ![s] = With(temp[s], <<d, n>>, [gen |-> id, rows |-> {}])]
      BY <2>5, <2>7, <1>6
    <3> QED
      BY <3>1, <2>5, <2>6, <1>4, <1>5, CreateTempKeeps
  <2>8. CASE ~me.temp
    <3>1. /\ UNCHANGED temp /\ d \in DOMAIN schemaMap
          /\ tableMap' = With(tableMap, <<d, n>>, [gen |-> id, rows |-> {}])
      BY <2>8, <1>6
    <3>2. Lower[n] \notin DOMAIN tables[sch]
      BY <3>1, <1>5, <1>6 DEF HasEngine, Listed
    <3>3. Adds(s, sch, d, n, id)
      BY <3>1, <3>2, <2>5, <2>6, <2>8, <1>4, <1>5 DEF Adds
    <3> QED
      BY <3>3, AddsKeeps
  <2> QED
    BY <2>7, <2>8
<1>7. \/ Answer(s, "error") /\ UNCHANGED <<temp, tableMap, jobs>>
      \/ /\ ~HasEngine(s, d, n) /\ (me.temp \/ d \in DOMAIN schemaMap)
         /\ Await(s, jobs, CreateRec(me, sch))
         /\ IF me.temp
            THEN /\ temp' = [temp EXCEPT ![s] = With(temp[s], <<d, n>>, [gen |-> id, rows |-> {}])]
                 /\ UNCHANGED tableMap
            ELSE tableMap' = With(tableMap, <<d, n>>, [gen |-> id, rows |-> {}]) /\ UNCHANGED temp
  BY <1>3 DEF Create, CreateRec
<1> QED
  BY <1>2, <1>6, <1>7

LEMMA CreateTableKeeps ==
  ASSUME IInv, NEW s \in Session, NEW d \in client.databases, NEW n \in client.names,
         NEW is_temp \in BOOLEAN, NEW pk \in BOOLEAN, CreateTable(s, d, n, is_temp, pk),
         client' = client
  PROVE  IInv'
<1>1. Types /\ Queue /\ Call(s) /\ Issue(s)
  BY DEF IInv, Catalog, CreateTable, Issue
<1>2. d \in Database /\ n \in Name
  BY <1>1, Constants DEF Types
<1>3. /\ stmt[s].at \in Quiet /\ clock' \in {clock, clock + 1}
      /\ clock' \in 0..MaxStmt /\ clock' \in Id /\ clock' <= clock'
  <2>1. /\ stmt[s].at = "idle" /\ clock' = clock + 1
        /\ clock' \in Id /\ clock' \in Nat /\ clock' \in 0..MaxStmt
    BY <1>1, CallIs
  <2> QED
    BY <2>1 DEF Quiet
<1>4. Moves(s)
  BY <1>1, StepMoves
<1>5. PICK me : me = [Idle EXCEPT !.id = clock', !.d = d, !.n = n, !.temp = is_temp]
  OBVIOUS
<1>6. me \in StmtType /\ me.d = d /\ me.n = n /\ me.id = clock'
  <2>1. clock' \in Nat
    BY <1>3, IdIs
  <2> DEFINE rec == [Idle EXCEPT !.id = clock', !.d = d, !.n = n, !.temp = is_temp]
  <2>2. rec.d = d /\ rec.n = n /\ rec.id = clock'
    BY DEF Idle
  <2>3. rec \in StmtType
    BY <2>1, <1>2 DEF Idle, StmtType, At
  <2> QED
    BY <2>2, <2>3, <1>5
<1>7. Create(s, me, pk, jobs) /\ UNCHANGED <<schemaMap, tables, tx>>
  BY <1>5 DEF CreateTable
<1> QED
  BY <1>2, <1>3, <1>4, <1>6, <1>7, CreateKeeps

LEMMA SelectedAsKeeps ==
  ASSUME IInv, NEW s \in Session, NEW fine \in BOOLEAN, SelectedAs(s, fine), client' = client
  PROVE  IInv'
<1>1. Types /\ Queue /\ Continue(s) /\ OwnedBy(s) /\ SpelledBy(s)
  BY DEF IInv, Catalog, SelectedAs, Continue, Owned, Names, Spelled
<1>2. /\ stmt[s].at = "selecting" /\ stmt[s] \in StmtType /\ Create(s, stmt[s], fine, jobs)
      /\ UNCHANGED <<schemaMap, tables, tx, clock>>
  BY <1>1 DEF SelectedAs, Types
<1>3. stmt[s].at \in Quiet /\ clock' \in {clock, clock + 1} /\ clock' \in 0..MaxStmt
  BY <1>1, <1>2, ClockIs DEF Quiet
<1>4. Moves(s)
  BY <1>1, StepMoves
<1>5. PICK me \in StmtType : me = stmt[s]
  BY <1>2
<1>6. /\ me.d \in Database /\ me.n \in Name /\ me.n \in client.names /\ me.id \in Id
      /\ me.id <= clock'
  BY <1>1, <1>2, <1>5 DEF OwnedBy, SpelledBy
<1> QED
  BY <1>2, <1>3, <1>4, <1>5, <1>6, CreateKeeps

-----------------------------------------------------------------------------
(* CREATE TABLE: the entry *)

\* The statement of s lists its table, as the entry lc of the object i.
Lists(s, i, lc, entry) ==
  /\ client' = client /\ schemaMap' = schemaMap /\ tableMap' = tableMap /\ temp' = temp
  /\ clock' = clock
  /\ jobs' \in Seq(Session) /\ stmt' \in [Session -> StmtType]
  /\ reply' \in [Session -> {"ok", "error"}]
  /\ stmt[s].at = "creating" /\ ~stmt[s].temp /\ stmt[s].sch = i /\ Lower[stmt[s].n] = lc
  /\ stmt'[s] = Idle
  /\ i \in DOMAIN tables /\ lc \in Name /\ entry \in Entry
  /\ entry.table = stmt[s].n /\ entry.gen = stmt[s].id
  /\ DOMAIN tables' = DOMAIN tables
  /\ \A j \in DOMAIN tables \ {i} : tables'[j] = tables[j]
  /\ DOMAIN tables'[i] = DOMAIN tables[i] \cup {lc} /\ tables'[i][lc] = entry
  /\ \A e \in DOMAIN tables[i] : e # lc => tables'[i][e] = tables[i][e]
  /\ tx' \in [Session -> TxType] /\ \A r \in Session \ {s} : tx'[r] = tx[r]
  /\ ~client.begins /\ LowerCase => tx'[s] = NoTx

LEMMA ListsTouches ==
  ASSUME NEW s \in Session, NEW i, NEW lc, NEW entry, Lists(s, i, lc, entry), NEW j, NEW e
  PROVE  /\ Creates(s, j, e) <=> j = i /\ e = lc
         /\ ~Drops(s, j, e) /\ ~Creates(s, j, e)' /\ ~Drops(s, j, e)'
<1>1. stmt[s].at = "creating" /\ ~stmt[s].temp /\ stmt[s].sch = i /\ Lower[stmt[s].n] = lc
  BY DEF Lists
<1>2. stmt'[s].at = "idle"
  BY IdleIs DEF Lists
<1>3. ~Creates(s, j, e)' /\ ~Drops(s, j, e)'
  BY <1>2 DEF Creates, Drops
<1>4. Creates(s, j, e) <=> j = i /\ e = lc
  BY <1>1 DEF Creates
<1>5. ~Drops(s, j, e)
  BY <1>1 DEF Drops
<1> QED
  BY <1>3, <1>4, <1>5

\* No statement that waits will drop the entry, unless it is the entry of an older table.
LEMMA ListsAlone ==
  ASSUME IInv, NEW s \in Session, NEW i, NEW lc, NEW entry, Lists(s, i, lc, entry), IsFirst(s),
         lc \notin DOMAIN tables[i], NEW r \in Session
  PROVE  ~Drops(r, i, lc)
<1> SUFFICES ASSUME Drops(r, i, lc) PROVE FALSE
  OBVIOUS
<1>1. Types /\ Queue /\ Alternates /\ Creates(s, i, lc) /\ i \in DOMAIN tables /\ lc \in Name
  BY ListsTouches DEF IInv, Catalog, Lists
<1>2. Before(r, s)
  BY <1>1 DEF Alternates
<1>3. r # s /\ stmt[r].at \notin Quiet
  BY ListsTouches, TouchWaits DEF Touches
<1>4. Before(s, r)
  BY <1>3 DEF IsFirst
<1> QED
  BY <1>1, <1>2, <1>4, InOrder

LEMMA ListsTypes ==
  ASSUME IInv, NEW s \in Session, NEW i, NEW lc, NEW entry, Lists(s, i, lc, entry)
  PROVE  Types'
<1>1. client \in Client /\ CatalogTypes /\ OtherTypes
  BY TypesAre DEF IInv, Catalog
<1>2. ASSUME NEW j \in DOMAIN tables PROVE Maps(tables'[j], Name, Entry)
  <2>1. Maps(tables[j], Name, Entry)
    BY <1>1 DEF CatalogTypes
  <2> QED
    BY <2>1 DEF Lists, Maps
<1>3. CatalogTypes'
  BY <1>1, <1>2 DEF CatalogTypes, Lists
<1>4. OtherTypes' /\ client' \in Client
  BY <1>1 DEF OtherTypes, Lists
<1> QED
  BY <1>3, <1>4 DEF Types, CatalogTypes, OtherTypes

LEMMA ListsOwned ==
  ASSUME IInv, NEW s \in Session, NEW i, NEW lc, NEW entry, Lists(s, i, lc, entry), Moves(s)
  PROVE  Owned' /\ Named' /\ TempGone'
<1>1. Types /\ Owned /\ Named /\ TempGone
  BY DEF IInv, Catalog
<1>2. schemaMap' = schemaMap /\ temp' = temp /\ clock' = clock /\ DOMAIN tables' = DOMAIN tables
  BY DEF Lists
<1>3. Named'
  <2> SUFFICES ASSUME NEW j \in DOMAIN tables, NEW e \in DOMAIN tables'[j]
               PROVE  Lower[tables'[j][e].table] = e
    BY <1>2 DEF Named
  <2>1. CASE j = i /\ e = lc
    BY <2>1 DEF Lists
  <2>2. CASE ~(j = i /\ e = lc)
    <3>1. e \in DOMAIN tables[j] /\ tables'[j][e] = tables[j][e]
      BY <2>2 DEF Lists
    <3> QED
      BY <3>1, <1>1 DEF Named
  <2> QED
    BY <2>1, <2>2
<1>4. TempGone'
  <2>1. stmt'[s].at # "dropping table of db"
    BY IdleIs DEF Lists
  <2> QED
    BY <2>1, <1>1, <1>2 DEF TempGone, Moves
<1>5. ASSUME NEW r \in Session PROVE OwnedBy(r)'
  <2>1. CASE r = s
    BY <2>1, ListsTypes, IdleOwned DEF Lists
  <2>2. CASE r # s
    <3>1. stmt'[r] = stmt[r] /\ OwnedBy(r)
      BY <2>2, <1>1 DEF Moves, Owned
    <3> QED
      BY <3>1, <1>2 DEF OwnedBy
  <2> QED
    BY <2>1, <2>2
<1>6. Owned'
  BY <1>1, <1>2, <1>5 DEF Owned
<1> QED
  BY <1>3, <1>4, <1>6

LEMMA ListsOrder ==
  ASSUME IInv, NEW s \in Session, NEW i, NEW lc, NEW entry, Lists(s, i, lc, entry),
         Moves(s), IsFirst(s)
  PROVE  Stale' /\ Alternates'
<1>1. Types /\ Queue /\ Stale /\ Alternates
  BY DEF IInv, Catalog
<1>2. /\ schemaMap' = schemaMap /\ DOMAIN tables' = DOMAIN tables /\ i \in DOMAIN tables /\ lc \in Name
      /\ \A j \in DOMAIN tables \ {i} : tables'[j] = tables[j]
      /\ DOMAIN tables'[i] = DOMAIN tables[i] \cup {lc}
  BY DEF Lists
<1>3. ASSUME NEW r \in Session, NEW c \in DOMAIN schemaMap, NEW j, j = schemaMap[c], Overtaken(r, c)'
      PROVE  /\ DOMAIN tables'[j] = {}
             /\ \A q \in Session : \A e \in Name : Creates(q, j, e)' => Before(r, q)'
  <2>1. r # s
    BY <1>3, IdleIs DEF Overtaken, Lists
  <2>2. Overtaken(r, c) /\ stmt[r].at \notin Quiet
    BY <2>1, <1>2, <1>3 DEF Overtaken, Moves, Quiet
  <2>3. DOMAIN tables[j] = {} /\ j \in DOMAIN tables
    BY <2>2, <1>1, <1>3 DEF Stale, Types, Maps
  <2>4. j # i
    <3> SUFFICES ASSUME j = i PROVE FALSE
      OBVIOUS
    <3>1. Creates(s, j, lc)
      BY ListsTouches
    <3>2. Before(r, s)
      BY <3>1, <2>2, <1>1, <1>2, <1>3 DEF Stale
    <3>3. Before(s, r)
      BY <2>1, <2>2 DEF IsFirst
    <3> QED
      BY <3>2, <3>3, <1>1, InOrder
  <2>5. ASSUME NEW q \in Session, NEW e \in Name, Creates(q, j, e)' PROVE Before(r, q)'
    <3>1. q # s
      BY <2>5, ListsTouches
    <3>2. Creates(q, j, e)
      BY <3>1, <2>5, OthersSame
    <3>3. Before(r, q)
      BY <3>2, <2>2, <1>1, <1>3 DEF Stale
    <3> QED
      BY <3>1, <3>3, <2>1, <1>1, OrderLater
  <2> QED
    BY <2>3, <2>4, <2>5, <1>2
<1>4. Stale'
  BY <1>2, <1>3 DEF Stale, Creates
<1>5. ASSUME NEW j \in DOMAIN tables, NEW e \in Name, NEW c \in Session, NEW r \in Session,
             Creates(c, j, e)', Drops(r, j, e)'
      PROVE  IF e \in DOMAIN tables'[j] THEN Before(c, r)' ELSE Before(r, c)'
  <2>1. c # s /\ r # s
    BY <1>5, ListsTouches
  <2>2. Creates(c, j, e) /\ Drops(r, j, e)
    BY <2>1, <1>5, OthersSame
  <2>3. IF e \in DOMAIN tables[j] THEN Before(c, r) ELSE Before(r, c)
    BY <2>2, <1>1 DEF Alternates
  <2>4. e \in DOMAIN tables'[j] <=> e \in DOMAIN tables[j]
    <3>1. j = i /\ e = lc => e \in DOMAIN tables[j]
      BY <2>2, ListsAlone
    <3> QED
      BY <3>1, <1>2
  <2> QED
    BY <2>1, <2>3, <2>4, <1>1, OrderLater
<1>6. Alternates'
  BY <1>2, <1>5 DEF Alternates
<1> QED
  BY <1>4, <1>6

LEMMA ListsStored ==
  ASSUME IInv, NEW s \in Session, NEW i, NEW lc, NEW entry, Lists(s, i, lc, entry),
         Moves(s), IsFirst(s)
  PROVE  LastIsStored' /\ EntryIsStored'
<1>1. Types /\ Queue /\ LastIsStored /\ EntryIsStored
  BY DEF IInv, Catalog
<1>2. /\ schemaMap' = schemaMap /\ tableMap' = tableMap /\ lc \in Name
      /\ \A j \in DOMAIN tables \ {i} : tables'[j] = tables[j]
      /\ DOMAIN tables'[i] = DOMAIN tables[i] \cup {lc} /\ tables'[i][lc] = entry
      /\ \A e \in DOMAIN tables[i] : e # lc => tables'[i][e] = tables[i][e]
      /\ entry.table = stmt[s].n /\ entry.gen = stmt[s].id
  BY DEF Lists
<1>3. ASSUME NEW d \in DOMAIN schemaMap, NEW c \in Session, NEW e \in Name,
             NEW j, j = schemaMap[d], Creates(c, j, e)',
             \A r \in Session : Touches(r, j, e)' => r = c \/ Before(r, c)'
      PROVE  IsStored(d, stmt[c].n, stmt[c].id) /\ stmt'[c] = stmt[c]
  <2>1. c # s
    BY <1>3, ListsTouches
  <2>2. Creates(c, j, e) /\ stmt[c].at \notin Quiet /\ stmt'[c] = stmt[c]
    BY <2>1, <1>3, OthersSame, TouchWaits DEF Touches, Moves
  <2>3. ASSUME NEW r \in Session, Touches(r, j, e) PROVE r = c \/ Before(r, c)
    <3>1. CASE r = s
      BY <3>1, <2>1, <2>2 DEF IsFirst
    <3>2. CASE r # s
      <4>1. Touches(r, j, e)'
        BY <3>2, <2>3, OthersSame
      <4>2. r = c \/ Before(r, c)'
        BY <4>1, <1>3
      <4> QED
        BY <4>2, <3>2, <2>1, <1>1, OrderLater
    <3> QED
      BY <3>1, <3>2
  <2> QED
    BY <2>2, <2>3, <1>1, <1>3 DEF LastIsStored
<1>4. ASSUME NEW d \in DOMAIN schemaMap, NEW j, j = schemaMap[d], NEW e \in DOMAIN tables'[j],
             \A r \in Session : ~Touches(r, j, e)'
      PROVE  IsStored(d, tables'[j][e].table, tables'[j][e].gen)
  <2>1. ASSUME NEW r \in Session, r # s PROVE ~Touches(r, j, e)
    BY <2>1, <1>4, OthersSame
  <2>2. CASE j = i /\ e = lc
    <3>1. Creates(s, j, e)
      BY <2>2, ListsTouches
    <3>2. IsStored(d, stmt[s].n, stmt[s].id)
      BY <3>1, <2>1, <2>2, <1>1, <1>2, <1>4 DEF LastIsStored
    <3> QED
      BY <3>2, <2>2, <1>2
  <2>3. CASE ~(j = i /\ e = lc)
    <3>1. ~Touches(s, j, e)
      BY <2>3, ListsTouches DEF Touches
    <3>2. j \in DOMAIN tables
      BY <1>1, <1>4 DEF Types, Maps
    <3>3. e \in DOMAIN tables[j] /\ tables'[j][e] = tables[j][e]
      BY <3>2, <2>3, <1>2, <1>4
    <3>4. IsStored(d, tables[j][e].table, tables[j][e].gen)
      BY <3>1, <3>3, <2>1, <1>1, <1>4 DEF EntryIsStored
    <3> QED
      BY <3>3, <3>4
  <2> QED
    BY <2>2, <2>3
<1>5. LastIsStored'
  <2> SUFFICES ASSUME NEW d \in DOMAIN schemaMap', NEW c \in Session, NEW e \in Name,
                      Creates(c, schemaMap[d], e)',
                      \A r \in Session : Touches(r, schemaMap[d], e)' => r = c \/ Before(r, c)'
               PROVE  IsStored(d, stmt[c].n, stmt[c].id)'
    BY DEF LastIsStored
  <2> SUFFICES ASSUME NEW j, j = schemaMap'[d], Creates(c, j, e)',
                      \A r \in Session : Touches(r, j, e)' => r = c \/ Before(r, c)'
               PROVE  IsStored(d, stmt[c].n, stmt[c].id)'
    BY DEF Touches, Creates, Drops
  <2> QED
    BY <1>2, <1>3 DEF IsStored
<1>6. EntryIsStored'
  <2> SUFFICES ASSUME NEW d \in DOMAIN schemaMap', NEW j, j = schemaMap'[d],
                      NEW e \in DOMAIN tables'[j],
                      \A r \in Session : ~Touches(r, j, e)'
               PROVE  <<d, tables'[j][e].table>> \in DOMAIN tableMap'
                      /\ tableMap'[<<d, tables'[j][e].table>>].gen = tables'[j][e].gen
    BY DEF EntryIsStored, IsStored, Touches, Creates, Drops
  <2> QED
    BY <1>2, <1>4 DEF IsStored
<1> QED
  BY <1>5, <1>6

LEMMA ListsNames ==
  ASSUME IInv, NEW s \in Session, NEW i, NEW lc, NEW entry, Lists(s, i, lc, entry),
         Moves(s), IsFirst(s)
  PROVE  Names'
<1>1. Types /\ Spelled /\ ListedStays /\ Kept
  BY DEF IInv, Catalog, Names
<1>2. /\ schemaMap' = schemaMap /\ tableMap' = tableMap /\ temp' = temp /\ client' = client
      /\ DOMAIN tables' = DOMAIN tables
      /\ \A j \in DOMAIN tables \ {i} : tables'[j] = tables[j]
      /\ DOMAIN tables'[i] = DOMAIN tables[i] \cup {lc} /\ tables'[i][lc] = entry
      /\ \A e \in DOMAIN tables[i] : e # lc => tables'[i][e] = tables[i][e]
      /\ entry.table = stmt[s].n /\ stmt[s].at = "creating"
      /\ (LowerCase' <=> LowerCase)
  BY DEF Lists, LowerCase
<1>3. stmt'[s].at = "idle"
  BY IdleIs DEF Lists
<1>4. Spelled'
  <2>1. ASSUME NEW r \in Session PROVE SpelledBy(r)'
    <3>1. SpelledBy(r)
      BY <1>1 DEF Spelled
    <3>2. CASE r = s
      BY <3>1, <3>2, <1>2, <1>3 DEF SpelledBy
    <3>3. CASE r # s
      BY <3>1, <3>3, <1>2 DEF SpelledBy, Moves
    <3> QED
      BY <3>2, <3>3
  <2>2. entry.table \in client.names
    BY <1>1, <1>2 DEF Spelled, SpelledBy
  <2>3. ASSUME NEW j \in DOMAIN tables, NEW e \in DOMAIN tables'[j]
        PROVE  tables'[j][e].table \in client.names
    <3>1. CASE j = i /\ e = lc
      BY <3>1, <2>2, <1>2
    <3>2. CASE ~(j = i /\ e = lc)
      <4>1. e \in DOMAIN tables[j] /\ tables'[j][e] = tables[j][e]
        BY <3>2, <2>3, <1>2
      <4> QED
        BY <4>1, <1>1 DEF Spelled
    <3> QED
      BY <3>1, <3>2
  <2> QED
    BY <2>1, <2>3, <1>1, <1>2 DEF Spelled
<1>5. ASSUME LowerCase, NEW k \in DOMAIN tableMap, NEW j, k[1] \in DOMAIN schemaMap, j = schemaMap[k[1]]
      PROVE  /\ j \in DOMAIN tables /\ Lower[k[2]] = k[2]
             /\ k[2] \in DOMAIN tables'[j] <=> k[2] \in DOMAIN tables[j] \/ (j = i /\ k[2] = lc)
  <2>1. j \in DOMAIN tables
    BY <1>1, <1>5 DEF Types, Maps
  <2>2. Lower[k[2]] = k[2]
    BY <1>1, <1>5 DEF Spelled, LowerCase
  <2> QED
    BY <2>1, <2>2, <1>2
<1>6. ListedStays'
  <2> SUFFICES ASSUME LowerCase, NEW k \in DOMAIN tableMap, NEW j, k[1] \in DOMAIN schemaMap,
                      j = schemaMap[k[1]], Lower[k[2]] \in DOMAIN tables'[j],
                      NEW r \in Session, Drops(r, j, k[2])'
               PROVE  FALSE
    BY <1>2 DEF ListedStays, Listed, Drops
  <2>1. r # s
    BY ListsTouches
  <2>2. Drops(r, j, k[2])
    BY <2>1, OthersSame
  <2>3. k[2] \in DOMAIN tables[j] /\ Lower[k[2]] = k[2]
    <3>1. j = i /\ k[2] = lc => k[2] \in DOMAIN tables[j]
      BY <2>2, ListsAlone
    <3> QED
      BY <3>1, <1>5
  <2>4. Listed(k[1], k[2])
    BY <2>3 DEF Listed
  <2> QED
    BY <2>2, <2>4, <1>1 DEF ListedStays
<1>7. Kept'
  <2> SUFFICES ASSUME LowerCase', ~client'.drops
               PROVE  /\ \A r \in Session : stmt'[r].at # "dropping table of db"
                      /\ \A k \in DOMAIN tableMap' :
                           /\ k[1] \in DOMAIN schemaMap'
                           /\ \/ Listed(k[1], k[2])'
                              \/ \E c \in Session : Creates(c, schemaMap[k[1]], k[2])'
    BY DEF Kept
  <2>0. LowerCase /\ ~client.drops
    BY <1>2
  <2>1. \A r \in Session : stmt'[r].at # "dropping table of db"
    BY <2>0, <1>1, <1>3 DEF Kept, Moves
  <2>2. ASSUME NEW k \in DOMAIN tableMap
        PROVE  /\ k[1] \in DOMAIN schemaMap
               /\ \E j : j = schemaMap[k[1]] /\
                    (Lower[k[2]] \in DOMAIN tables'[j] \/ \E c \in Session : Creates(c, j, k[2])')
    <3>1. /\ k[1] \in DOMAIN schemaMap
          /\ Listed(k[1], k[2]) \/ \E c \in Session : Creates(c, schemaMap[k[1]], k[2])
      BY <2>0, <1>1 DEF Kept
    <3>2. PICK j : j = schemaMap[k[1]]
      OBVIOUS
    <3>3. /\ j \in DOMAIN tables /\ Lower[k[2]] = k[2]
          /\ k[2] \in DOMAIN tables'[j] <=> k[2] \in DOMAIN tables[j] \/ (j = i /\ k[2] = lc)
      BY <2>0, <3>1, <3>2, <1>5
    <3>4. CASE Listed(k[1], k[2])
      BY <3>1, <3>2, <3>3, <3>4 DEF Listed
    <3>5. ASSUME NEW c \in Session, Creates(c, j, k[2])
          PROVE  Lower[k[2]] \in DOMAIN tables'[j] \/ Creates(c, j, k[2])'
      <4>1. CASE c = s
        BY <4>1, <3>3, <3>5, ListsTouches
      <4>2. CASE c # s
        BY <4>2, <3>5, OthersSame
      <4> QED
        BY <4>1, <4>2
    <3> QED
      BY <3>1, <3>2, <3>4, <3>5
  <2>3. ASSUME NEW k \in DOMAIN tableMap'
        PROVE  /\ k[1] \in DOMAIN schemaMap'
               /\ \/ Listed(k[1], k[2])'
                  \/ \E c \in Session : Creates(c, schemaMap[k[1]], k[2])'
    <3>1. k \in DOMAIN tableMap /\ schemaMap' = schemaMap
      BY <1>2
    <3>2. k[1] \in DOMAIN schemaMap
      BY <3>1, <2>2
    <3>3. PICK j : j = schemaMap[k[1]] /\
            (Lower[k[2]] \in DOMAIN tables'[j] \/ \E c \in Session : Creates(c, j, k[2])')
      BY <3>1, <2>2
    <3>4. CASE Lower[k[2]] \in DOMAIN tables'[j]
      BY <3>1, <3>2, <3>3, <3>4 DEF Listed
    <3>5. CASE \E c \in Session : Creates(c, j, k[2])'
      BY <3>1, <3>2, <3>3, <3>5 DEF Creates
    <3> QED
      BY <3>3, <3>4, <3>5
  <2> QED
    BY <2>1, <2>3
<1> QED
  BY <1>4, <1>6, <1>7 DEF Names

LEMMA ListsRows ==
  ASSUME IInv, NEW s \in Session, NEW i, NEW lc, NEW entry, Lists(s, i, lc, entry),
         Moves(s), IsFirst(s)
  PROVE  Rows'
<1>1. Types /\ Queue /\ Rows
  BY DEF IInv, Catalog
<1>2. /\ schemaMap' = schemaMap /\ tableMap' = tableMap /\ temp' = temp /\ client' = client
      /\ clock' = clock /\ DOMAIN tables' = DOMAIN tables
      /\ \A j \in DOMAIN tables : DOMAIN tables[j] \subseteq DOMAIN tables'[j]
      /\ \A r \in Session \ {s} : tx'[r] = tx[r]
      /\ ~client.begins /\ LowerCase => tx'[s] = NoTx
      /\ (LowerCase' <=> LowerCase)
  BY DEF Lists, LowerCase
<1>3. stmt'[s].at = "idle"
  BY IdleIs DEF Lists
<1> SUFFICES ASSUME ~client.begins, LowerCase
             PROVE  \A r \in Session : RowsBy(r)'
  BY <1>1, <1>2 DEF Rows, NotOlder
<1>4. ASSUME NEW r \in Session PROVE RowsBy(r)'
  <2>1. RowsBy(r)
    BY <1>1 DEF Rows
  <2>2. CASE r = s
    BY <2>1, <2>2, <1>2, <1>3 DEF RowsBy, NotOlder
  <2>3. CASE r # s
    <3>1. stmt'[r] = stmt[r] /\ tx'[r] = tx[r]
      BY <2>3, <1>2 DEF Moves
    <3>2. ASSUME stmt[r].at = "installing" PROVE InsertSafe(r)'
      <4>1. InsertSafe(r)
        BY <2>1, <3>2 DEF RowsBy
      <4>2. ASSUME NEW k \in DOMAIN tx[r].data, k \notin DOMAIN temp[r], NEW j, j = schemaMap[k[1]]
            PROVE  /\ k[1] \in DOMAIN schemaMap /\ Lower[k[2]] \in DOMAIN tables'[j]
                   /\ k[2] \in client.names
                   /\ \A q \in Session : Drops(q, j, k[2])' => Before(r, q)'
                   /\ k \in DOMAIN tableMap => NotOlder(tx[r].data[k], tableMap[k].gen)
        <5>1. /\ Listed(k[1], k[2]) /\ k[2] \in client.names
              /\ \A q \in Session : Drops(q, j, k[2]) => Before(r, q)
              /\ k \in DOMAIN tableMap => NotOlder(tx[r].data[k], tableMap[k].gen)
          BY <4>1, <4>2 DEF InsertSafe
        <5>2. k[1] \in DOMAIN schemaMap /\ Lower[k[2]] \in DOMAIN tables[j]
          BY <5>1, <4>2 DEF Listed
        <5>3. j \in DOMAIN tables
          BY <5>2, <4>2, <1>1 DEF Types, Maps
        <5>4. ASSUME NEW q \in Session, Drops(q, j, k[2])' PROVE Before(r, q)'
          <6>1. q # s
            BY <5>4, ListsTouches
          <6>2. Drops(q, j, k[2])
            BY <6>1, <5>4, OthersSame
          <6>3. Before(r, q)
            BY <6>2, <5>1
          <6> QED
            BY <6>1, <6>3, <2>3, <1>1, OrderLater
        <5> QED
          BY <5>1, <5>2, <5>3, <5>4, <1>2
      <4>3. \A k \in DOMAIN tx[r].data : k \in DOMAIN temp[r] => NotOlder(tx[r].data[k], temp[r][k].gen)
        BY <4>1 DEF InsertSafe
      <4> QED
        BY <4>2, <4>3, <3>1, <1>2 DEF InsertSafe, NotOlder, Listed, Drops
    <3> QED
      BY <3>1, <3>2, <2>1, <1>2 DEF RowsBy, NotOlder
  <2> QED
    BY <2>2, <2>3
<1> QED
  BY <1>4

LEMMA ListsKeeps ==
  ASSUME IInv, NEW s \in Session, NEW i, NEW lc, NEW entry, Lists(s, i, lc, entry),
         Moves(s), IsFirst(s)
  PROVE  IInv'
BY ListsTypes, ListsOwned, ListsOrder, ListsStored, ListsNames, ListsRows DEF IInv, Catalog, Moves

\* What the end of a CREATE TABLE does, with or without AS SELECT.
LEMMA ListAfterKeeps ==
  ASSUME IInv, NEW s \in Session, Turn(s, "creating"), ListAfter(stmt[s]),
         NEW how \in {"ok", "error"}, Answer(s, how), jobs' = Tail(jobs),
         client' = client, schemaMap' = schemaMap, tableMap' = tableMap, temp' = temp, clock' = clock,
         tx' \in [Session -> TxType], \A r \in Session \ {s} : tx'[r] = tx[r],
         ~client.begins /\ LowerCase => tx'[s] = NoTx
  PROVE  IInv'
<1>1. Types /\ Queue /\ OwnedBy(s) /\ SpelledBy(s)
  BY DEF IInv, Catalog, Owned, Names, Spelled
<1>2. stmt \in [Session -> StmtType] /\ stmt[s] \in StmtType
  BY <1>1 DEF Types
<1>3. stmt[s].at = "creating" /\ jobs # <<>>
  BY DEF Turn
<1>4. Moves(s) /\ IsFirst(s)
  BY <1>1, TurnEnds, TurnIsFirst
<1>5. stmt'[s] = Idle
  BY <1>2, AnswerIs
<1>6. /\ stmt' \in [Session -> StmtType] /\ reply' \in [Session -> {"ok", "error"}]
      /\ jobs' \in Seq(Session) /\ clock' \in Nat /\ clock' \in 0..MaxStmt
  BY <1>1, <1>3, AnswerTypes, RestType, ClockIs
<1>7. CASE stmt[s].temp
  <2>1. tables' = tables
    BY <1>7 DEF ListAfter
  <2>2. stmt'[s].at = "idle" /\ stmt'[s].sch = 0 /\ stmt'[s].id = 0
    BY <1>5, IdleIs
  <2>3. Aside(s)
    <3>1. \A i, lc : ~Touches(s, i, lc)
      BY <1>3, <1>7 DEF Touches, Creates, Drops
    <3>2. OwnedBy(s)'
      BY <2>2, <1>6 DEF OwnedBy
    <3> QED
      BY <3>1, <3>2, <2>2 DEF Aside, Silent
  <2>4. SpelledBy(s)'
    BY <1>1, <2>2 DEF SpelledBy
  <2> QED
    BY <1>4, <1>6, <2>1, <2>2, <2>3, <2>4, AsideKeeps
<1>8. CASE ~stmt[s].temp
  <2>1. PICK i, lc, entry : /\ i = stmt[s].sch /\ lc = Lower[stmt[s].n]
                            /\ entry = [table |-> stmt[s].n, gen |-> stmt[s].id]
    OBVIOUS
  <2>2. i \in DOMAIN tables /\ lc \in Name /\ entry \in Entry
        /\ entry.table = stmt[s].n /\ entry.gen = stmt[s].id
    BY <1>1, <1>3, <1>8, <2>1, Constants DEF OwnedBy, Entry
  <2>3. tables' = [tables EXCEPT ![i] = With(@, lc, entry)]
    BY <1>8, <2>1 DEF ListAfter
  <2>4. /\ DOMAIN tables' = DOMAIN tables
        /\ \A j \in DOMAIN tables \ {i} : tables'[j] = tables[j]
        /\ tables'[i] = With(tables[i], lc, entry)
    BY <2>2, <2>3
  <2>5. /\ DOMAIN tables'[i] = DOMAIN tables[i] \cup {lc} /\ tables'[i][lc] = entry
        /\ \A e \in DOMAIN tables[i] : e # lc => tables'[i][e] = tables[i][e]
    BY <2>4 DEF With
  <2>6. Lists(s, i, lc, entry)
    BY <1>3, <1>5, <1>6, <1>8, <2>1, <2>2, <2>4, <2>5 DEF Lists
  <2> QED
    BY <2>6, <1>4, ListsKeeps
<1> QED
  BY <1>7, <1>8

\* A session that is neither in its commit nor in BEGIN has no transaction.
LEMMA NoTxYet ==
  ASSUME IInv, NEW s \in Session, stmt[s].at \notin {"installing", "clearing"},
         ~client.begins, LowerCase
  PROVE  tx[s] = NoTx /\ ~tx[s].open
<1>1. RowsBy(s)
  BY DEF IInv, Rows
<1>2. tx[s] = NoTx
  BY <1>1 DEF RowsBy
<1> QED
  BY <1>2 DEF NoTx

LEMMA CreatedKeeps ==
  ASSUME IInv, NEW s \in Session, Created(s), client' = client
  PROVE  IInv'
<1>1. tx \in [Session -> TxType]
  BY DEF IInv, Catalog, Types
<1>2. /\ Turn(s, "creating") /\ stmt[s].at = "creating" /\ ListAfter(stmt[s]) /\ Answer(s, "ok")
      /\ jobs' = Tail(jobs) /\ UNCHANGED <<schemaMap, tableMap, temp, tx, clock>>
  BY DEF Created, Turn
<1>3. ~client.begins /\ LowerCase => tx'[s] = NoTx
  BY <1>2, NoTxYet
<1> QED
  BY <1>1, <1>2, <1>3, ListAfterKeeps

\* What a statement finds in a table are numbers of statements.
LEMMA ViewType ==
  ASSUME Types, NEW s \in Session, NEW d, NEW n, Stored(s, d, n)
  PROVE  View(s, d, n) \in SUBSET Id
<1> DEFINE k == <<d, n>>
<1>1. tx[s].data \in TxData /\ Maps(temp[s], Key, Data) /\ Maps(tableMap, Key, Data)
  BY DEF Types, TxType
<1>2. Maps(tx[s].data, Key, SUBSET Id)
  BY <1>1, TxDataIs
<1>3. k \in DOMAIN tx[s].data => tx[s].data[k] \in SUBSET Id
  BY <1>2 DEF Maps
<1>4. k \in DOMAIN temp[s] => temp[s][k].rows \in SUBSET Id
  BY <1>1 DEF Maps, Data
<1>5. k \in DOMAIN tableMap => tableMap[k].rows \in SUBSET Id
  BY <1>1 DEF Maps, Data
<1>6. k \in DOMAIN temp[s] \cup DOMAIN tableMap
  BY DEF Stored
<1> QED
  BY <1>3, <1>4, <1>5, <1>6 DEF View

\* txSaveData keeps a transaction's type and does nothing where there is none.
LEMMA TxSaveIs ==
  ASSUME Types, NEW s \in Session, NEW d \in Database, NEW n \in Name, NEW rows \in SUBSET Id,
         TxSave(s, d, n, rows)
  PROVE  /\ tx' \in [Session -> TxType] /\ \A r \in Session \ {s} : tx'[r] = tx[r]
         /\ ~tx[s].open => tx' = tx
<1>1. tx \in [Session -> TxType] /\ tx[s] \in TxType
  BY DEF Types
<1>2. CASE ~tx[s].open
  BY <1>1, <1>2 DEF TxSave
<1>3. CASE tx[s].open
  <2>1. PICK t : t = [tx[s] EXCEPT !.data = With(@, <<d, n>>, rows)]
    OBVIOUS
  <2>2. With(tx[s].data, <<d, n>>, rows) \in TxData
    <3>1. tx[s].data \in TxData /\ <<d, n>> \in Key
      BY <1>1 DEF TxType, Key
    <3> QED
      BY <3>1, TxDataWith
  <2>3. t \in TxType
    BY <1>1, <2>1, <2>2 DEF TxType
  <2>4. tx' = [tx EXCEPT ![s] = t]
    BY <1>1, <1>3, <2>1 DEF TxSave
  <2> QED
    BY <1>1, <1>3, <2>3, <2>4
<1> QED
  BY <1>2, <1>3

LEMMA CreatedAsKeeps ==
  ASSUME IInv, NEW s \in Session, CreatedAs(s), client' = client
  PROVE  IInv'
<1>1. Types /\ OwnedBy(s) /\ tx \in [Session -> TxType]
  BY DEF IInv, Catalog, Types, Owned
<1>2. /\ Turn(s, "creating") /\ stmt[s].at = "creating" /\ ListAfter(stmt[s])
      /\ jobs' = Tail(jobs) /\ UNCHANGED <<schemaMap, tableMap, temp, clock>>
  BY DEF CreatedAs, Turn
<1>3. PICK d, n, id : d = stmt[s].d /\ n = stmt[s].n /\ id = stmt[s].id
  OBVIOUS
<1>4. d \in Database /\ n \in Name /\ id \in Id
  BY <1>1, <1>2, <1>3 DEF OwnedBy
<1>5. CASE Stored(s, d, n) /\ TxSave(s, d, n, View(s, d, n) \cup {id}) /\ Answer(s, "ok")
  <2>1. View(s, d, n) \cup {id} \in SUBSET Id
    BY <1>1, <1>4, <1>5, ViewType
  <2>2. /\ tx' \in [Session -> TxType] /\ \A r \in Session \ {s} : tx'[r] = tx[r]
        /\ ~tx[s].open => tx' = tx
    BY <1>1, <1>4, <1>5, <2>1, TxSaveIs
  <2>3. ~client.begins /\ LowerCase => tx'[s] = NoTx
    BY <1>2, <2>2, NoTxYet
  <2> QED
    BY <1>2, <1>5, <2>2, <2>3, ListAfterKeeps
<1>6. CASE Answer(s, "error") /\ UNCHANGED tx
  <2>1. ~client.begins /\ LowerCase => tx'[s] = NoTx
    BY <1>2, <1>6, NoTxYet
  <2> QED
    BY <1>1, <1>2, <1>6, <2>1, ListAfterKeeps
<1> QED
  BY <1>3, <1>5, <1>6 DEF CreatedAs

-----------------------------------------------------------------------------
(* CREATE DATABASE *)

\* s makes a database d with the object i.
Opens(s, d, i) ==
  /\ client' = client /\ tableMap' = tableMap /\ temp' = temp /\ tx' = tx /\ jobs' = jobs
  /\ stmt' \in [Session -> StmtType] /\ reply' \in [Session -> {"ok", "error"}]
  /\ clock' = clock + 1 /\ clock' \in 0..MaxStmt
  /\ stmt[s].at = "idle" /\ stmt'[s] = Idle
  /\ d \in Database \ BuiltIn /\ d \notin DOMAIN schemaMap
  /\ i \in Id \ DOMAIN tables /\ i <= clock' /\ i # 0
  /\ DOMAIN schemaMap' = DOMAIN schemaMap \cup {d} /\ schemaMap'[d] = i
  /\ \A c \in DOMAIN schemaMap : schemaMap'[c] = schemaMap[c]
  /\ DOMAIN tables' = DOMAIN tables \cup {i} /\ DOMAIN tables'[i] = {}
  /\ \A j \in DOMAIN tables : tables'[j] = tables[j]

LEMMA OpensTouches ==
  ASSUME IInv, NEW s \in Session, NEW d, NEW i, Opens(s, d, i), Moves(s), NEW r \in Session,
         NEW j, NEW lc
  PROVE  /\ Creates(r, j, lc)' <=> Creates(r, j, lc)
         /\ Drops(r, j, lc)' <=> Drops(r, j, lc)
         /\ Touches(r, j, lc)' <=> Touches(r, j, lc)
         /\ stmt[r].sch # i
         /\ stmt[r].at # "idle" => stmt'[r] = stmt[r]
         /\ r = s => stmt'[r].at = "idle"
<1>1. OwnedBy(r)
  BY DEF IInv, Catalog, Owned
<1>2. stmt[r].sch # i
  BY <1>1 DEF OwnedBy, Opens
<1>3. CASE r = s
  <2>1. stmt[r].at = "idle" /\ stmt'[r].at = "idle"
    BY <1>3, IdleIs DEF Opens
  <2> QED
    BY <1>2, <2>1 DEF Touches, Creates, Drops
<1>4. CASE r # s
  BY <1>2, <1>4, OthersSame DEF Moves
<1> QED
  BY <1>3, <1>4

LEMMA OpensTypes ==
  ASSUME IInv, NEW s \in Session, NEW d, NEW i, Opens(s, d, i)
  PROVE  Types'
<1>1. client \in Client /\ CatalogTypes /\ OtherTypes
  BY TypesAre DEF IInv, Catalog
<1>2. Maps(schemaMap', Database, DOMAIN tables')
  <2>1. Maps(schemaMap, Database, DOMAIN tables)
    BY <1>1 DEF CatalogTypes
  <2> QED
    BY <2>1 DEF Opens, Maps
<1>3. ASSUME NEW j \in DOMAIN tables' PROVE Maps(tables'[j], Name, Entry)
  <2>1. CASE j = i
    BY <2>1 DEF Opens, Maps
  <2>2. CASE j # i
    BY <2>2, <1>1, <1>3 DEF Opens, CatalogTypes
  <2> QED
    BY <2>1, <2>2
<1>4. DOMAIN tables' \subseteq Id /\ tableMap' = tableMap /\ temp' = temp
  BY <1>1 DEF Opens, CatalogTypes
<1>5. CatalogTypes'
  BY <1>1, <1>2, <1>3, <1>4 DEF CatalogTypes
<1>6. OtherTypes' /\ client' \in Client
  BY <1>1 DEF OtherTypes, Opens
<1> QED
  BY <1>5, <1>6 DEF Types, CatalogTypes, OtherTypes

LEMMA OpensOwned ==
  ASSUME IInv, NEW s \in Session, NEW d, NEW i, Opens(s, d, i), Moves(s)
  PROVE  Owned' /\ Named' /\ TempGone'
<1>1. Types /\ Owned /\ Named /\ TempGone
  BY DEF IInv, Catalog
<1>2. temp' = temp /\ clock' = clock + 1 /\ clock \in Nat /\ clock' \in Nat
      /\ DOMAIN tables' = DOMAIN tables \cup {i}
      /\ DOMAIN tables'[i] = {} /\ \A j \in DOMAIN tables : tables'[j] = tables[j]
  BY <1>1, ClockIs DEF Opens
<1>3. Named'
  BY <1>1, <1>2 DEF Named
<1>4. TempGone'
  <2>1. stmt'[s].at # "dropping table of db"
    BY OpensTouches
  <2> QED
    BY <2>1, <1>1, <1>2 DEF TempGone, Moves
<1>5. ASSUME NEW r \in Session PROVE OwnedBy(r)'
  <2>1. CASE r = s
    BY <2>1, OpensTypes, IdleOwned DEF Opens
  <2>2. CASE r # s
    <3>1. stmt'[r] = stmt[r] /\ OwnedBy(r) /\ stmt[r].sch # i
      BY <2>2, <1>1, OpensTouches DEF Moves, Owned
    <3>2. stmt[r].id <= clock'
      <4>1. stmt[r].id \in Nat
        BY <1>1 DEF Types, StmtType
      <4>2. stmt[r].id <= clock
        BY <3>1 DEF OwnedBy
      <4> QED
        BY <4>1, <4>2, <1>2
    <3>3. \A c \in DOMAIN schemaMap' : schemaMap'[c] = stmt[r].sch =>
            c \in DOMAIN schemaMap /\ schemaMap[c] = stmt[r].sch
      BY <3>1 DEF Opens
    <3> QED
      BY <3>1, <3>2, <3>3, <1>2 DEF OwnedBy
  <2> QED
    BY <2>1, <2>2
<1>6. \A b, c \in DOMAIN schemaMap' : schemaMap'[b] = schemaMap'[c] => b = c
  <2>1. \A c \in DOMAIN schemaMap : schemaMap[c] \in DOMAIN tables
    BY <1>1 DEF Types, Maps
  <2> QED
    BY <2>1, <1>1 DEF Opens, Owned
<1>7. \A j \in DOMAIN tables' : j <= clock'
  <2>1. \A j \in DOMAIN tables : j <= clock /\ j \in Nat
    BY <1>1, IdIs DEF Owned, Types
  <2> QED
    BY <2>1, <1>2 DEF Opens
<1>8. DOMAIN schemaMap' \cap BuiltIn = {}
  BY <1>1 DEF Owned, Opens
<1>9. Owned'
  BY <1>5, <1>6, <1>7, <1>8 DEF Owned
<1> QED
  BY <1>3, <1>4, <1>9

LEMMA OpensOrder ==
  ASSUME IInv, NEW s \in Session, NEW d, NEW i, Opens(s, d, i), Moves(s)
  PROVE  Stale' /\ Alternates'
<1>1. Types /\ Queue /\ Stale /\ Alternates
  BY DEF IInv, Catalog
<1>2. \A a, b \in Session : Before(a, b)' <=> Before(a, b)
  BY DEF Opens, Before
<1>3. ASSUME NEW r \in Session, NEW c \in DOMAIN schemaMap', NEW j, j = schemaMap'[c], Overtaken(r, c)'
      PROVE  /\ DOMAIN tables'[j] = {}
             /\ \A q \in Session : \A e \in Name : Creates(q, j, e)' => Before(r, q)'
  <2>1. CASE c = d
    <3>1. j = i
      BY <2>1, <1>3 DEF Opens
    <3>2. ASSUME NEW q \in Session, NEW e \in Name PROVE ~Creates(q, j, e)'
      BY <3>1, OpensTouches DEF Creates
    <3> QED
      BY <3>1, <3>2 DEF Opens
  <2>2. CASE c # d
    <3>1. c \in DOMAIN schemaMap /\ j = schemaMap[c] /\ j \in DOMAIN tables /\ tables'[j] = tables[j]
      BY <2>2, <1>1, <1>3 DEF Opens, Types, Maps
    <3>2. stmt'[r] = stmt[r]
      BY <1>3, OpensTouches DEF Overtaken, Moves
    <3>3. Overtaken(r, c)
      BY <3>1, <3>2, <1>3 DEF Overtaken
    <3>4. DOMAIN tables[j] = {} /\ \A q \in Session : \A e \in Name : Creates(q, j, e) => Before(r, q)
      BY <3>1, <3>3, <1>1 DEF Stale
    <3> QED
      BY <3>1, <3>4, <1>2, OpensTouches
  <2> QED
    BY <2>1, <2>2
<1>4. Stale'
  BY <1>3 DEF Stale, Creates
<1>5. ASSUME NEW j \in DOMAIN tables', NEW e \in Name, NEW c \in Session, NEW r \in Session,
             Creates(c, j, e)', Drops(r, j, e)'
      PROVE  IF e \in DOMAIN tables'[j] THEN Before(c, r)' ELSE Before(r, c)'
  <2>1. Creates(c, j, e) /\ Drops(r, j, e)
    BY <1>5, OpensTouches
  <2>2. j # i
    BY <2>1, OpensTouches DEF Creates
  <2>3. j \in DOMAIN tables /\ tables'[j] = tables[j]
    BY <2>2 DEF Opens
  <2>4. IF e \in DOMAIN tables[j] THEN Before(c, r) ELSE Before(r, c)
    BY <2>1, <2>3, <1>1 DEF Alternates
  <2> QED
    BY <2>3, <2>4, <1>2
<1>6. Alternates'
  BY <1>5 DEF Alternates
<1> QED
  BY <1>4, <1>6

LEMMA OpensStored ==
  ASSUME IInv, NEW s \in Session, NEW d, NEW i, Opens(s, d, i), Moves(s)
  PROVE  LastIsStored' /\ EntryIsStored'
<1>1. Types /\ LastIsStored /\ EntryIsStored
  BY DEF IInv, Catalog
<1>2. \A a, b \in Session : Before(a, b)' <=> Before(a, b)
  BY DEF Opens, Before
<1>3. ASSUME NEW b \in DOMAIN schemaMap', NEW c \in Session, NEW e \in Name,
             NEW j, j = schemaMap'[b], Creates(c, j, e)',
             \A r \in Session : Touches(r, j, e)' => r = c \/ Before(r, c)'
      PROVE  IsStored(b, stmt[c].n, stmt[c].id) /\ stmt'[c] = stmt[c]
  <2>1. Creates(c, j, e)
    BY <1>3, OpensTouches
  <2>2. stmt'[c] = stmt[c] /\ j # i
    BY <2>1, OpensTouches DEF Creates
  <2>3. b \in DOMAIN schemaMap /\ j = schemaMap[b]
    BY <2>2, <1>3 DEF Opens
  <2>4. \A r \in Session : Touches(r, j, e) => r = c \/ Before(r, c)
    BY <1>2, <1>3, OpensTouches
  <2> QED
    BY <2>1, <2>2, <2>3, <2>4, <1>1 DEF LastIsStored
<1>4. ASSUME NEW b \in DOMAIN schemaMap', NEW j, j = schemaMap'[b], NEW e \in DOMAIN tables'[j],
             \A r \in Session : ~Touches(r, j, e)'
      PROVE  IsStored(b, tables'[j][e].table, tables'[j][e].gen)
  <2>1. b # d
    BY <1>4 DEF Opens
  <2>2. b \in DOMAIN schemaMap /\ j = schemaMap[b] /\ j \in DOMAIN tables /\ tables'[j] = tables[j]
    BY <2>1, <1>1, <1>4 DEF Opens, Types, Maps
  <2>3. \A r \in Session : ~Touches(r, j, e)
    BY <1>4, OpensTouches
  <2> QED
    BY <2>2, <2>3, <1>1, <1>4 DEF EntryIsStored
<1>5. tableMap' = tableMap
  BY DEF Opens
<1>6. LastIsStored'
  <2> SUFFICES ASSUME NEW b \in DOMAIN schemaMap', NEW c \in Session, NEW e \in Name,
                      Creates(c, schemaMap[b], e)',
                      \A r \in Session : Touches(r, schemaMap[b], e)' => r = c \/ Before(r, c)'
               PROVE  IsStored(b, stmt[c].n, stmt[c].id)'
    BY DEF LastIsStored
  <2> SUFFICES ASSUME NEW j, j = schemaMap'[b], Creates(c, j, e)',
                      \A r \in Session : Touches(r, j, e)' => r = c \/ Before(r, c)'
               PROVE  IsStored(b, stmt[c].n, stmt[c].id)'
    BY DEF Touches, Creates, Drops
  <2> QED
    BY <1>3, <1>5 DEF IsStored
<1>7. EntryIsStored'
  <2> SUFFICES ASSUME NEW b \in DOMAIN schemaMap', NEW j, j = schemaMap'[b],
                      NEW e \in DOMAIN tables'[j],
                      \A r \in Session : ~Touches(r, j, e)'
               PROVE  <<b, tables'[j][e].table>> \in DOMAIN tableMap'
                      /\ tableMap'[<<b, tables'[j][e].table>>].gen = tables'[j][e].gen
    BY DEF EntryIsStored, IsStored, Touches, Creates, Drops
  <2> QED
    BY <1>4, <1>5 DEF IsStored
<1> QED
  BY <1>6, <1>7

\* What is listed stays listed.
LEMMA OpensListed ==
  ASSUME IInv, NEW s \in Session, NEW d, NEW i, Opens(s, d, i), NEW c, NEW j
  PROVE  /\ c \in DOMAIN schemaMap /\ j = schemaMap[c] =>
              c \in DOMAIN schemaMap' /\ schemaMap'[c] = j /\ j \in DOMAIN tables
              /\ j \in DOMAIN tables' /\ tables'[j] = tables[j]
         /\ c \in DOMAIN schemaMap' /\ j = schemaMap'[c] /\ DOMAIN tables'[j] # {} =>
              c \in DOMAIN schemaMap /\ schemaMap[c] = j /\ tables'[j] = tables[j]
<1>1. \A b \in DOMAIN schemaMap : schemaMap[b] \in DOMAIN tables
  BY DEF IInv, Catalog, Types, Maps
<1>2. /\ DOMAIN schemaMap' = DOMAIN schemaMap \cup {d} /\ schemaMap'[d] = i
      /\ d \notin DOMAIN schemaMap
      /\ \A b \in DOMAIN schemaMap : schemaMap'[b] = schemaMap[b]
      /\ DOMAIN tables' = DOMAIN tables \cup {i} /\ DOMAIN tables'[i] = {}
      /\ \A e \in DOMAIN tables : tables'[e] = tables[e]
  BY DEF Opens
<1> QED
  BY <1>1, <1>2

LEMMA OpensNames ==
  ASSUME IInv, NEW s \in Session, NEW d, NEW i, Opens(s, d, i), Moves(s)
  PROVE  Names'
<1>1. Types /\ Spelled /\ ListedStays /\ Kept
  BY DEF IInv, Catalog, Names
<1>2. /\ tableMap' = tableMap /\ temp' = temp /\ client' = client
      /\ DOMAIN tables' = DOMAIN tables \cup {i}
      /\ DOMAIN tables'[i] = {} /\ \A j \in DOMAIN tables : tables'[j] = tables[j]
      /\ (LowerCase' <=> LowerCase)
  BY DEF Opens, LowerCase
<1>3. ASSUME NEW r \in Session PROVE stmt'[r] = stmt[r] \/ stmt'[r].at = "idle"
  BY OpensTouches DEF Moves
<1>4. Spelled'
  <2>1. ASSUME NEW r \in Session PROVE SpelledBy(r)'
    <3>1. SpelledBy(r)
      BY <1>1 DEF Spelled
    <3> QED
      BY <3>1, <1>2, <1>3 DEF SpelledBy
  <2>2. ASSUME NEW j \in DOMAIN tables', NEW e \in DOMAIN tables'[j]
        PROVE  tables'[j][e].table \in client.names
    <3>1. j \in DOMAIN tables /\ tables'[j] = tables[j]
      BY <2>2, <1>2
    <3> QED
      BY <3>1, <2>2, <1>1 DEF Spelled
  <2> QED
    BY <2>1, <2>2, <1>1, <1>2 DEF Spelled
<1>5. ListedStays'
  <2> SUFFICES ASSUME LowerCase', NEW k \in DOMAIN tableMap', NEW j, k[1] \in DOMAIN schemaMap',
                      j = schemaMap'[k[1]], Lower[k[2]] \in DOMAIN tables'[j],
                      NEW r \in Session, Drops(r, j, k[2])'
               PROVE  FALSE
    BY DEF ListedStays, Listed, Drops
  <2>1. k[1] \in DOMAIN schemaMap /\ schemaMap[k[1]] = j /\ tables'[j] = tables[j]
    BY OpensListed
  <2>2. Listed(k[1], k[2])
    BY <2>1 DEF Listed
  <2>3. Drops(r, j, k[2])
    BY OpensTouches
  <2> QED
    BY <2>1, <2>2, <2>3, <1>1, <1>2 DEF ListedStays
<1>6. Kept'
  <2> SUFFICES ASSUME LowerCase', ~client'.drops
               PROVE  /\ \A r \in Session : stmt'[r].at # "dropping table of db"
                      /\ \A k \in DOMAIN tableMap' :
                           /\ k[1] \in DOMAIN schemaMap'
                           /\ \/ Listed(k[1], k[2])'
                              \/ \E c \in Session : Creates(c, schemaMap[k[1]], k[2])'
    BY DEF Kept
  <2>0. LowerCase /\ ~client.drops
    BY <1>2
  <2>1. \A r \in Session : stmt'[r].at # "dropping table of db"
    BY <2>0, <1>1, <1>3 DEF Kept
  <2>2. ASSUME NEW k \in DOMAIN tableMap'
        PROVE  /\ k[1] \in DOMAIN schemaMap'
               /\ \/ Listed(k[1], k[2])'
                  \/ \E c \in Session : Creates(c, schemaMap[k[1]], k[2])'
    <3>1. PICK j : j = schemaMap[k[1]]
      OBVIOUS
    <3>2. k[1] \in DOMAIN schemaMap
      BY <2>0, <1>1, <1>2 DEF Kept
    <3>3. Listed(k[1], k[2]) \/ \E c \in Session : Creates(c, j, k[2])
      BY <2>0, <3>1, <1>1, <1>2 DEF Kept
    <3>4. k[1] \in DOMAIN schemaMap' /\ schemaMap'[k[1]] = j /\ tables'[j] = tables[j]
      BY <3>1, <3>2, OpensListed
    <3>5. CASE Listed(k[1], k[2])
      <4>1. Lower[k[2]] \in DOMAIN tables'[j]
        BY <3>1, <3>4, <3>5 DEF Listed
      <4>2. Listed(k[1], k[2])'
        BY <3>4, <4>1 DEF Listed
      <4> QED
        BY <3>4, <4>2
    <3>6. CASE \E c \in Session : Creates(c, j, k[2])
      <4>1. PICK c \in Session : Creates(c, j, k[2])'
        BY <3>6, OpensTouches
      <4> QED
        BY <3>4, <4>1 DEF Creates
    <3> QED
      BY <3>3, <3>5, <3>6
  <2> QED
    BY <2>1, <2>2
<1> QED
  BY <1>4, <1>5, <1>6 DEF Names

LEMMA OpensRows ==
  ASSUME IInv, NEW s \in Session, NEW d, NEW i, Opens(s, d, i), Moves(s)
  PROVE  Rows'
<1>1. Types /\ Rows
  BY DEF IInv, Catalog
<1>2. /\ tableMap' = tableMap /\ temp' = temp /\ client' = client /\ tx' = tx
      /\ clock' = clock + 1 /\ clock \in Nat
      /\ (LowerCase' <=> LowerCase)
  BY <1>1, ClockIs DEF Opens, LowerCase
<1>3. \A a, b \in Session : Before(a, b)' <=> Before(a, b)
  BY DEF Opens, Before
<1> SUFFICES ASSUME ~client.begins, LowerCase
             PROVE  /\ \A k \in DOMAIN tableMap :
                         NotOlder(tableMap[k].rows, tableMap[k].gen) /\ tableMap[k].gen <= clock'
                    /\ \A r \in Session : RowsBy(r)'
  BY <1>2 DEF Rows, NotOlder
<1>4. ASSUME NEW gen \in Id, gen <= clock PROVE gen <= clock'
  BY <1>2, <1>4, IdIs
<1>5. ASSUME NEW k \in DOMAIN tableMap
      PROVE  NotOlder(tableMap[k].rows, tableMap[k].gen) /\ tableMap[k].gen <= clock'
  <2>1. NotOlder(tableMap[k].rows, tableMap[k].gen) /\ tableMap[k].gen <= clock
    BY <1>1 DEF Rows
  <2>2. tableMap[k].gen \in Id
    BY <1>1 DEF Types, Maps, Data
  <2> QED
    BY <2>1, <2>2, <1>4
<1>6. ASSUME NEW r \in Session PROVE RowsBy(r)'
  <2>1. RowsBy(r)
    BY <1>1 DEF Rows
  <2>2. ASSUME NEW k \in DOMAIN temp[r]
        PROVE  NotOlder(temp[r][k].rows, temp[r][k].gen) /\ temp[r][k].gen <= clock'
    <3>1. NotOlder(temp[r][k].rows, temp[r][k].gen) /\ temp[r][k].gen <= clock
      BY <2>1 DEF RowsBy
    <3>2. temp[r][k].gen \in Id
      BY <1>1 DEF Types, Maps, Data
    <3> QED
      BY <3>1, <3>2, <1>4
  <2>3. stmt'[r].at \notin {"installing", "clearing"} => tx[r] = NoTx
    <3>1. CASE r = s
      <4>1. stmt[r].at = "idle"
        BY <3>1 DEF Opens
      <4> QED
        BY <4>1, <2>1 DEF RowsBy
    <3>2. CASE r # s
      BY <3>2, <2>1 DEF RowsBy, Moves
    <3> QED
      BY <3>1, <3>2
  <2>4. ASSUME stmt'[r].at = "installing" PROVE InsertSafe(r)'
    <3>1. stmt[r].at = "installing"
      BY <2>4, OpensTouches DEF Moves
    <3>2. InsertSafe(r)
      BY <2>1, <3>1 DEF RowsBy
    <3>3. ASSUME NEW k \in DOMAIN tx[r].data, k \notin DOMAIN temp[r], NEW j, j = schemaMap[k[1]]
          PROVE  /\ k[1] \in DOMAIN schemaMap' /\ schemaMap'[k[1]] = j
                 /\ Lower[k[2]] \in DOMAIN tables'[j]
                 /\ k[2] \in client.names
                 /\ \A q \in Session : Drops(q, j, k[2])' => Before(r, q)'
                 /\ k \in DOMAIN tableMap => NotOlder(tx[r].data[k], tableMap[k].gen)
      <4>1. /\ Listed(k[1], k[2]) /\ k[2] \in client.names
            /\ \A q \in Session : Drops(q, j, k[2]) => Before(r, q)
            /\ k \in DOMAIN tableMap => NotOlder(tx[r].data[k], tableMap[k].gen)
        BY <3>2, <3>3 DEF InsertSafe
      <4>2. k[1] \in DOMAIN schemaMap /\ Lower[k[2]] \in DOMAIN tables[j]
        BY <4>1, <3>3 DEF Listed
      <4>3. k[1] \in DOMAIN schemaMap' /\ schemaMap'[k[1]] = j /\ tables'[j] = tables[j]
        BY <4>2, <3>3, OpensListed
      <4> QED
        BY <4>1, <4>2, <4>3, <1>3, OpensTouches
    <3>4. \A k \in DOMAIN tx[r].data : k \in DOMAIN temp[r] => NotOlder(tx[r].data[k], temp[r][k].gen)
      BY <3>2 DEF InsertSafe
    <3>5. ASSUME NEW k \in DOMAIN tx[r].data
          PROVE  IF k \in DOMAIN temp[r] THEN NotOlder(tx[r].data[k], temp[r][k].gen)
                 ELSE /\ Listed(k[1], k[2])'
                      /\ k[2] \in client.names
                      /\ \A q \in Session : Drops(q, schemaMap[k[1]], k[2])' => Before(r, q)'
                      /\ k \in DOMAIN tableMap => NotOlder(tx[r].data[k], tableMap[k].gen)
      <4>1. CASE k \in DOMAIN temp[r]
        BY <4>1, <3>4
      <4>2. CASE k \notin DOMAIN temp[r]
        <5>1. PICK j : j = schemaMap[k[1]]
          OBVIOUS
        <5>2. /\ k[1] \in DOMAIN schemaMap' /\ schemaMap'[k[1]] = j
              /\ Lower[k[2]] \in DOMAIN tables'[j]
              /\ k[2] \in client.names
              /\ \A q \in Session : Drops(q, j, k[2])' => Before(r, q)'
              /\ k \in DOMAIN tableMap => NotOlder(tx[r].data[k], tableMap[k].gen)
          BY <4>2, <5>1, <3>3
        <5>3. Listed(k[1], k[2])'
          BY <5>2 DEF Listed
        <5>4. \A q \in Session : Drops(q, schemaMap[k[1]], k[2])' => Before(r, q)'
          BY <5>2 DEF Drops
        <5> QED
          BY <4>2, <5>2, <5>3, <5>4
      <4> QED
        BY <4>1, <4>2
    <3> QED
      BY <3>5, <1>2 DEF InsertSafe, NotOlder
  <2> QED
    BY <2>2, <2>3, <2>4, <1>2 DEF RowsBy, NotOlder
<1> QED
  BY <1>5, <1>6

LEMMA OpensKeeps ==
  ASSUME IInv, NEW s \in Session, NEW d, NEW i, Opens(s, d, i), Moves(s)
  PROVE  IInv'
BY OpensTypes, OpensOwned, OpensOrder, OpensStored, OpensNames, OpensRows DEF IInv, Catalog, Moves

LEMMA CreateDatabaseKeeps ==
  ASSUME IInv, NEW s \in Session, NEW d \in client.databases, CreateDatabase(s, d), client' = client
  PROVE  IInv'
<1>1. Types /\ Queue /\ Owned /\ Call(s) /\ Issue(s)
  BY DEF IInv, Catalog, CreateDatabase, Issue
<1>2. d \in Database /\ stmt \in [Session -> StmtType] /\ UNCHANGED <<tableMap, temp, tx, jobs>>
  BY <1>1, Constants DEF Types, CreateDatabase
<1>3. /\ stmt[s].at = "idle" /\ clock' = clock + 1 /\ clock' \in Id /\ clock' \in Nat
      /\ clock' \in 0..MaxStmt
  BY <1>1, CallIs
<1>4. CASE Answer(s, "error") /\ UNCHANGED <<schemaMap, tables>>
  BY <1>2, <1>3, <1>4, RefusedKeeps DEF Quiet
<1>5. CASE /\ d \notin BuiltIn \cup DOMAIN schemaMap /\ Answer(s, "ok")
           /\ schemaMap' = With(schemaMap, d, clock') /\ tables' = With(tables, clock', Empty)
  <2>1. PICK i : i = clock'
    OBVIOUS
  <2>2. i \notin DOMAIN tables
    <3>1. \A j \in DOMAIN tables : j <= clock /\ j \in Nat
      BY <1>1, IdIs DEF Owned, Types
    <3> QED
      BY <3>1, <2>1, <1>1, <1>3, ClockIs
  <2>3. i \in Id /\ i <= clock' /\ i # 0
    BY <2>1, <1>3, IdIs
  <2>4. Moves(s)
    BY <1>1, StepMoves
  <2>5. stmt'[s] = Idle
    BY <1>2, <1>5, AnswerIs
  <2>6. stmt' \in [Session -> StmtType] /\ reply' \in [Session -> {"ok", "error"}]
    BY <1>1, <1>5, AnswerTypes
  <2>7. /\ DOMAIN schemaMap' = DOMAIN schemaMap \cup {d} /\ schemaMap'[d] = i
        /\ \A c \in DOMAIN schemaMap : schemaMap'[c] = schemaMap[c]
    BY <1>5, <2>1 DEF With
  <2>8. /\ DOMAIN tables' = DOMAIN tables \cup {i} /\ DOMAIN tables'[i] = {}
        /\ \A j \in DOMAIN tables : tables'[j] = tables[j]
    BY <1>5, <2>1, <2>2 DEF With, Empty
  <2>9. Opens(s, d, i)
    BY <1>2, <1>3, <1>5, <2>2, <2>3, <2>5, <2>6, <2>7, <2>8 DEF Opens
  <2> QED
    BY <2>4, <2>9, OpensKeeps
<1> QED
  BY <1>4, <1>5 DEF CreateDatabase

-----------------------------------------------------------------------------
(* The invariant *)

LEMMA InitHolds ==
  ASSUME Init
  PROVE  IInv
<1>1. /\ client \in Client /\ schemaMap = Empty /\ tables = Empty /\ tableMap = Empty
      /\ temp = [s \in Session |-> Empty] /\ tx = [s \in Session |-> NoTx]
      /\ jobs = <<>> /\ stmt = [s \in Session |-> Idle] /\ clock = 0
      /\ reply = [s \in Session |-> "ok"]
  BY DEF Init
<1>2. DOMAIN schemaMap = {} /\ DOMAIN tables = {} /\ DOMAIN tableMap = {}
      /\ \A s \in Session : DOMAIN temp[s] = {}
  BY <1>1 DEF Empty
<1>3. \A s \in Session : /\ stmt[s] = Idle /\ stmt[s].at = "idle" /\ stmt[s].sch = 0
                         /\ stmt[s].id = 0
  BY <1>1, IdleIs
<1>4. \A s \in Session : \A i, lc : ~Creates(s, i, lc) /\ ~Drops(s, i, lc)
  BY <1>3 DEF Creates, Drops
<1>5. Types
  <2>1. stmt \in [Session -> StmtType] /\ tx \in [Session -> TxType]
    BY <1>1, IdleType, NoTxType
  <2>2. jobs \in Seq(Session) /\ clock \in 0..MaxStmt /\ reply \in [Session -> {"ok", "error"}]
    BY <1>1, Constants
  <2> QED
    BY <2>1, <2>2, <1>1, <1>2 DEF Types, Maps
<1>6. Queue
  BY <1>1, <1>3 DEF Queue, Distinct, Waits, Quiet
<1>7. Owned /\ Named /\ TempGone
  <2>1. ASSUME NEW s \in Session PROVE OwnedBy(s)
    <3>1. stmt[s].at = "idle" /\ stmt[s].sch = 0 /\ stmt[s].id = 0 /\ clock = 0
      BY <1>1, <1>3
    <3> QED
      BY <3>1 DEF OwnedBy
  <2> QED
    BY <2>1, <1>2, <1>3 DEF Owned, Named, TempGone
<1>8. Stale /\ Alternates /\ LastIsStored /\ EntryIsStored
  BY <1>2 DEF Stale, Alternates, LastIsStored, EntryIsStored
<1>9. Names
  BY <1>2, <1>3 DEF Names, Spelled, SpelledBy, ListedStays, Kept
<1>10. Rows
  BY <1>1, <1>2, <1>3 DEF Rows, RowsBy
<1> QED
  BY <1>5, <1>6, <1>7, <1>8, <1>9, <1>10 DEF IInv, Catalog

LEMMA StepKeeps ==
  ASSUME IInv, NEW s \in Session, Issue(s) \/ Continue(s), client' = client
  PROVE  IInv'
<1>1. ASSUME NEW d \in client.databases, CreateDatabase(s, d) \/ DropDatabase(s, d) PROVE IInv'
  BY <1>1, CreateDatabaseKeeps, DropDatabaseKeeps
<1>2. ASSUME NEW d \in client.databases, NEW n \in client.names, NEW is_temp \in BOOLEAN,
             NEW pk \in BOOLEAN, CreateTable(s, d, n, is_temp, pk)
      PROVE  IInv'
  BY <1>2, CreateTableKeeps
<1>3. ASSUME NEW d \in client.databases, NEW n \in client.names, NEW is_temp \in BOOLEAN,
             CreateTableAs(s, d, n, is_temp)
      PROVE  IInv'
  BY <1>3, CreateTableAsKeeps
<1>4. ASSUME NEW d \in client.databases, NEW n \in client.names, DropTable(s, d, n) \/ Insert(s, d, n)
      PROVE  IInv'
  BY <1>4, DropTableKeeps, InsertKeeps
<1>5. CASE Begin(s) \/ Commit(s)
  BY <1>5, BeginKeeps, CommitKeeps
<1>6. ASSUME NEW fine \in BOOLEAN, SelectedAs(s, fine) PROVE IInv'
  BY <1>6, SelectedAsKeeps
<1>7. CASE DroppedOfDatabase(s) \/ Created(s) \/ CreatedAs(s) \/ Dropped(s)
  BY <1>7, DroppedOfDatabaseKeeps, CreatedKeeps, CreatedAsKeeps, DroppedKeeps
<1>8. CASE Installed(s) \/ Cleared(s)
  BY <1>8, InstalledKeeps, ClearedKeeps
<1>9. CASE Issue(s)
  BY <1>9, <1>1, <1>2, <1>3, <1>4, <1>5 DEF Issue
<1>10. CASE Continue(s)
  BY <1>10, <1>6, <1>7, <1>8 DEF Continue
<1> QED
  BY <1>9, <1>10

LEMMA StutterKeeps ==
  ASSUME IInv, UNCHANGED vars
  PROVE  IInv'
<1>1. /\ client' = client /\ schemaMap' = schemaMap /\ tables' = tables /\ tableMap' = tableMap
      /\ temp' = temp /\ tx' = tx /\ jobs' = jobs /\ stmt' = stmt /\ clock' = clock /\ reply' = reply
  BY DEF vars
<1>2. Catalog'
  <2>1. Types' /\ Queue' /\ Owned' /\ Named' /\ TempGone'
    BY <1>1 DEF IInv, Catalog, Types, Queue, Owned, OwnedBy, Named, TempGone
  <2>2. Stale' /\ Alternates' /\ LastIsStored' /\ EntryIsStored'
    <3>0. /\ Stale /\ Alternates /\ LastIsStored /\ EntryIsStored
          /\ \A a, b \in Session : Before(a, b)' <=> Before(a, b)
          /\ \A s \in Session : \A i, lc : Creates(s, i, lc)' <=> Creates(s, i, lc)
          /\ \A s \in Session : \A i, lc : Drops(s, i, lc)' <=> Drops(s, i, lc)
          /\ \A s \in Session : \A i, lc : Touches(s, i, lc)' <=> Touches(s, i, lc)
          /\ \A s \in Session : \A d : Overtaken(s, d)' <=> Overtaken(s, d)
      <4>1. \A a, b \in Session : Before(a, b)' <=> Before(a, b)
        BY <1>1 DEF Before
      <4>2. \A s \in Session : \A d : Overtaken(s, d)' <=> Overtaken(s, d)
        BY <1>1 DEF Overtaken
      <4>3. ASSUME NEW s \in Session, NEW i, NEW lc
            PROVE  /\ Creates(s, i, lc)' <=> Creates(s, i, lc)
                   /\ Drops(s, i, lc)' <=> Drops(s, i, lc)
                   /\ Touches(s, i, lc)' <=> Touches(s, i, lc)
        BY <1>1 DEF Creates, Drops, Touches
      <4>4. Stale /\ Alternates /\ LastIsStored /\ EntryIsStored
        BY DEF IInv, Catalog
      <4> QED
        BY <4>1, <4>2, <4>3, <4>4
    <3>1. Stale'
      <4>1. ASSUME NEW s \in Session, NEW d \in DOMAIN schemaMap, NEW j, j = schemaMap[d],
                   Overtaken(s, d)'
            PROVE  /\ DOMAIN tables[j] = {}
                   /\ \A c \in Session : \A lc \in Name : Creates(c, j, lc)' => Before(s, c)'
        BY <4>1, <3>0 DEF Stale
      <4> QED
        BY <4>1, <1>1 DEF Stale, Creates
    <3>2. Alternates'
      <4>1. ASSUME NEW i \in DOMAIN tables, NEW lc \in Name, NEW c \in Session, NEW s \in Session,
                   Creates(c, i, lc)', Drops(s, i, lc)'
            PROVE  IF lc \in DOMAIN tables[i] THEN Before(c, s)' ELSE Before(s, c)'
        BY <4>1, <3>0 DEF Alternates
      <4> QED
        BY <4>1, <1>1 DEF Alternates
    <3>3. LastIsStored'
      <4>1. ASSUME NEW d \in DOMAIN schemaMap, NEW j, j = schemaMap[d], NEW c \in Session,
                   NEW lc \in Name, Creates(c, j, lc)',
                   \A s \in Session : Touches(s, j, lc)' => s = c \/ Before(s, c)'
            PROVE  IsStored(d, stmt[c].n, stmt[c].id)
        BY <4>1, <3>0 DEF LastIsStored
      <4> QED
        <5> SUFFICES ASSUME NEW d \in DOMAIN schemaMap', NEW c \in Session, NEW lc \in Name,
                            Creates(c, schemaMap[d], lc)',
                            \A s \in Session : Touches(s, schemaMap[d], lc)' => s = c \/ Before(s, c)'
                     PROVE  IsStored(d, stmt[c].n, stmt[c].id)'
          BY DEF LastIsStored
        <5> SUFFICES ASSUME NEW j, j = schemaMap'[d], Creates(c, j, lc)',
                            \A s \in Session : Touches(s, j, lc)' => s = c \/ Before(s, c)'
                     PROVE  IsStored(d, stmt[c].n, stmt[c].id)'
          BY DEF Touches, Creates, Drops
        <5>1. IsStored(d, stmt[c].n, stmt[c].id)
          BY <4>1, <1>1
        <5> QED
          BY <5>1, <1>1 DEF IsStored
    <3>4. EntryIsStored'
      <4>1. ASSUME NEW d \in DOMAIN schemaMap, NEW j, j = schemaMap[d], NEW lc \in DOMAIN tables[j],
                   \A s \in Session : ~Touches(s, j, lc)'
            PROVE  IsStored(d, tables[j][lc].table, tables[j][lc].gen)
        BY <4>1, <3>0 DEF EntryIsStored
      <4> SUFFICES ASSUME NEW d \in DOMAIN schemaMap', NEW j, j = schemaMap'[d],
                          NEW lc \in DOMAIN tables'[j],
                          \A s \in Session : ~Touches(s, j, lc)'
                   PROVE  <<d, tables'[j][lc].table>> \in DOMAIN tableMap'
                          /\ tableMap'[<<d, tables'[j][lc].table>>].gen = tables'[j][lc].gen
        BY DEF EntryIsStored, IsStored, Touches, Creates, Drops
      <4>2. IsStored(d, tables[j][lc].table, tables[j][lc].gen)
        BY <4>1, <1>1
      <4> QED
        BY <4>2, <1>1 DEF IsStored
    <3> QED
      BY <3>1, <3>2, <3>3, <3>4
  <2> QED
    BY <2>1, <2>2 DEF Catalog
<1>3. Names'
  <2>1. Spelled'
    BY <1>1 DEF IInv, Names, Spelled, SpelledBy
  <2>2. ListedStays'
    BY <1>1 DEF IInv, Names, ListedStays, Listed, Drops, LowerCase
  <2>3. Kept'
    <3>1. Kept
      BY DEF IInv, Names
    <3>2. \A k : Listed(k[1], k[2])' <=> Listed(k[1], k[2])
      BY <1>1 DEF Listed
    <3> QED
      BY <3>1, <3>2, <1>1 DEF Kept, Creates, LowerCase
  <2> QED
    BY <2>1, <2>2, <2>3 DEF Names
<1>4. Rows'
  <2>1. ASSUME NEW s \in Session, InsertSafe(s) PROVE InsertSafe(s)'
    <3>1. /\ \A k : Listed(k[1], k[2])' <=> Listed(k[1], k[2])
          /\ \A a, b : Before(a, b)' <=> Before(a, b)
      BY <1>1 DEF Listed, Before
    <3>2. ASSUME NEW k \in DOMAIN tx[s].data
          PROVE  IF k \in DOMAIN temp[s] THEN NotOlder(tx[s].data[k], temp[s][k].gen)
                 ELSE /\ Listed(k[1], k[2])' /\ k[2] \in client.names
                      /\ \A r \in Session : Drops(r, schemaMap[k[1]], k[2]) => Before(s, r)'
                      /\ k \in DOMAIN tableMap => NotOlder(tx[s].data[k], tableMap[k].gen)
      BY <2>1, <3>1 DEF InsertSafe
    <3> QED
      BY <3>2, <1>1 DEF InsertSafe, NotOlder, Drops
  <2>2. \A s \in Session : RowsBy(s) => RowsBy(s)'
    BY <1>1, <2>1 DEF RowsBy, NotOlder
  <2> QED
    BY <1>1, <2>2 DEF IInv, Rows, NotOlder, LowerCase
<1> QED
  BY <1>2, <1>3, <1>4 DEF IInv

\* The three parts of the invariant hold in every behaviour: what the catalog says or will
\* say when the statements in the queue have run is what the engine stores.
THEOREM Invariance == Spec => []IInv
<1>1. Init => IInv
  BY InitHolds
<1>2. IInv /\ [Next]_vars => IInv'
  BY StepKeeps, StutterKeeps DEF Next
<1> QED
  BY <1>1, <1>2, PTL DEF Spec

LEMMA InvariantTypes == IInv => TypeOK
<1> SUFFICES ASSUME IInv PROVE TypeOK
  OBVIOUS
<1>1. Types /\ Queue
  BY DEF IInv, Catalog
<1>2. \A s \in Session : Maps(tx[s].data, Key, SUBSET Id)
  <2> SUFFICES ASSUME NEW s \in Session PROVE Maps(tx[s].data, Key, SUBSET Id)
    OBVIOUS
  <2>1. tx[s].data \in TxData
    BY <1>1 DEF Types, TxType
  <2> QED
    BY <2>1, TxDataIs
<1>3. \A i \in DOMAIN jobs : stmt[jobs[i]].at \notin {"idle", "selecting"}
  <2> SUFFICES ASSUME NEW i \in DOMAIN jobs PROVE stmt[jobs[i]].at \notin {"idle", "selecting"}
    OBVIOUS
  <2>1. jobs[i] \in Session
    BY <1>1 DEF Types
  <2>2. Waits(jobs, jobs[i])
    BY DEF Waits
  <2> QED
    BY <2>1, <2>2, <1>1 DEF Queue, Quiet
<1>4. \A s \in Session : stmt[s].at \in
        {"idle", "selecting", "creating", "inserted", "dropping", "dropping table of db",
         "installing", "clearing"}
  BY <1>1 DEF Types, StmtType, At
<1> QED
  BY <1>1, <1>2, <1>3, <1>4 DEF Types, TypeOK

\* Between statements no session is about to write an entry.
LEMMA NobodyTouches ==
  ASSUME IInv, jobs = <<>>, NEW s \in Session, NEW i, NEW lc
  PROVE  ~Touches(s, i, lc) /\ ~Creates(s, i, lc)
<1>1. ~Waits(jobs, s)
  BY DEF Waits
<1>2. stmt[s].at \in Quiet
  BY <1>1 DEF IInv, Catalog, Queue
<1>3. ~Touches(s, i, lc)
  BY <1>2, TouchWaits
<1> QED
  BY <1>3 DEF Touches

LEMMA InvariantListed == IInv => ListedIsStored
<1> SUFFICES ASSUME IInv, jobs = <<>>, NEW d \in DOMAIN schemaMap,
                    NEW lc \in DOMAIN tables[schemaMap[d]]
             PROVE  /\ <<d, tables[schemaMap[d]][lc].table>> \in DOMAIN tableMap
                    /\ tableMap[<<d, tables[schemaMap[d]][lc].table>>].gen
                         = tables[schemaMap[d]][lc].gen
  BY InvariantTypes DEF ListedIsStored
<1>1. EntryIsStored
  BY DEF IInv, Catalog
<1>2. \A s \in Session : ~Touches(s, schemaMap[d], lc)
  BY NobodyTouches
<1> QED
  BY <1>1, <1>2 DEF EntryIsStored, IsStored

LEMMA InvariantNothingLeft == IInv => NothingLeft
<1> SUFFICES ASSUME IInv, jobs = <<>>, ~client.drops, LowerCase, NEW k \in DOMAIN tableMap
             PROVE  k[1] \in DOMAIN schemaMap /\ Listed(k[1], k[2])
  BY DEF NothingLeft
<1>1. Kept
  BY DEF IInv, Names
<1>2. \A s \in Session : ~Creates(s, schemaMap[k[1]], k[2])
  BY NobodyTouches
<1> QED
  BY <1>1, <1>2 DEF Kept

LEMMA InvariantRows == IInv => NewTableEmpty
BY DEF IInv, Rows, RowsBy, NotOlder, NewTableEmpty

\* Catalog, storage, transactions and statements have their types in every behaviour.
THEOREM TypeCorrect == Spec => []TypeOK
BY Invariance, InvariantTypes, PTL

\* For any sessions, names and databases, and any number of statements whose continuations
\* interleave: between statements a listed table is stored, under the name in its entry, and
\* is the one whose CREATE TABLE wrote the entry.
THEOREM AlwaysListedIsStored == Spec => []ListedIsStored
BY Invariance, InvariantListed, PTL

\* Without DROP DATABASE and with names in lower case, CREATE TABLE and DROP TABLE of several
\* sessions never leave a table in the engine that the catalog does not list.
THEOREM AlwaysNothingLeft == Spec => []NothingLeft
BY Invariance, InvariantNothingLeft, PTL

\* Without BEGIN and COMMIT and with names in lower case, no row of a dropped table returns in
\* a table that is made afterwards under its name, by whatever order of DROP, CREATE and the
\* second half of an INSERT.
THEOREM AlwaysNewTableEmpty == Spec => []NewTableEmpty
BY Invariance, InvariantRows, PTL
=============================================================================
