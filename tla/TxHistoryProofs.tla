--------------------------- MODULE TxHistoryProofs ---------------------------
(***************************************************************************)
(* Proofs about TxHistory for every set of sessions, tables and keys and   *)
(* any number of statements: when each client waits for its answers, that  *)
(* BEGIN holds and that no statement is seen by anyone it should not be    *)
(* seen by; and however many queries a session runs at a time, the types   *)
(* and that no transaction is left behind.  The last part shows that these *)
(* transactions implement TxStore, when besides no two sessions write the  *)
(* same stored table.                                                      *)
(***************************************************************************)
EXTENDS TxHistory, TLAPS

-----------------------------------------------------------------------------
(* Rows and tables *)

Within(rows, S) == \A k \in DOMAIN rows : rows[k] \subseteq S

LEMMA ShownWithin ==
  ASSUME NEW rows, NEW S
  PROVE  Shown(rows) \subseteq S <=> Within(rows, S)
BY DEF Shown, Within

LEMMA RowsType ==
  ASSUME NEW r
  PROVE  r \in Rows <=> /\ DOMAIN r \subseteq Key
                        /\ r = [k \in DOMAIN r |-> r[k]]
                        /\ \A k \in DOMAIN r : r[k] \subseteq Stmt
<1>1. ASSUME r \in Rows
      PROVE  /\ DOMAIN r \subseteq Key
             /\ r = [k \in DOMAIN r |-> r[k]]
             /\ \A k \in DOMAIN r : r[k] \subseteq Stmt
  <2>1. PICK K \in SUBSET Key : r \in [K -> SUBSET Stmt]
    BY <1>1 DEF Rows
  <2> QED
    BY <2>1
<1>2. ASSUME DOMAIN r \subseteq Key,
             r = [k \in DOMAIN r |-> r[k]],
             \A k \in DOMAIN r : r[k] \subseteq Stmt
      PROVE  r \in Rows
  <2>1. r \in [DOMAIN r -> SUBSET Stmt]
    BY <1>2
  <2> QED
    BY <1>2, <2>1 DEF Rows
<1> QED
  BY <1>1, <1>2

LEMMA TableMapType ==
  ASSUME NEW f
  PROVE  f \in TableMap <=> /\ DOMAIN f \subseteq Table
                            /\ f = [t \in DOMAIN f |-> f[t]]
                            /\ \A t \in DOMAIN f : f[t] \in Rows
<1>1. ASSUME f \in TableMap
      PROVE  /\ DOMAIN f \subseteq Table
             /\ f = [t \in DOMAIN f |-> f[t]]
             /\ \A t \in DOMAIN f : f[t] \in Rows
  <2>1. PICK T \in SUBSET Table : f \in [T -> Rows]
    BY <1>1 DEF TableMap
  <2> QED
    BY <2>1
<1>2. ASSUME DOMAIN f \subseteq Table,
             f = [t \in DOMAIN f |-> f[t]],
             \A t \in DOMAIN f : f[t] \in Rows
      PROVE  f \in TableMap
  <2>1. f \in [DOMAIN f -> Rows]
    BY <1>2
  <2> QED
    BY <1>2, <2>1 DEF TableMap
<1> QED
  BY <1>1, <1>2

LEMMA EmptyType == Empty \in Rows /\ Empty \in TableMap /\ DOMAIN Empty = {}
<1>1. DOMAIN Empty = {} /\ Empty = [x \in DOMAIN Empty |-> Empty[x]]
  BY DEF Empty
<1> QED
  BY <1>1, RowsType, TableMapType

LEMMA WithType ==
  ASSUME NEW f \in TableMap, NEW t \in Table, NEW rows \in Rows
  PROVE  /\ With(f, t, rows) \in TableMap
         /\ DOMAIN With(f, t, rows) = DOMAIN f \cup {t}
         /\ \A u \in DOMAIN f \cup {t} :
              With(f, t, rows)[u] = IF u = t THEN rows ELSE f[u]
<1>1. /\ DOMAIN With(f, t, rows) = DOMAIN f \cup {t}
      /\ \A u \in DOMAIN f \cup {t} :
           With(f, t, rows)[u] = IF u = t THEN rows ELSE f[u]
      /\ With(f, t, rows) = [u \in DOMAIN With(f, t, rows) |-> With(f, t, rows)[u]]
  BY DEF With
<1>2. DOMAIN f \subseteq Table /\ \A u \in DOMAIN f : f[u] \in Rows
  BY TableMapType
<1> QED
  BY <1>1, <1>2, TableMapType

-----------------------------------------------------------------------------
(* What a statement makes of the rows it works on *)

LEMMA InsertedRows ==
  ASSUME NEW rows \in Rows, NEW job \in Job, NEW S, Within(rows, S)
  PROVE  /\ Inserted(rows, job) \in Rows
         /\ Within(Inserted(rows, job), S \cup {job.id})
<1> DEFINE new == Inserted(rows, job)
<1>1. /\ DOMAIN new = DOMAIN rows \cup job.keys
      /\ new = [k \in DOMAIN new |-> new[k]]
      /\ \A k \in DOMAIN new :
           \/ k \in DOMAIN rows /\ new[k] = rows[k]
           \/ new[k] = {job.id}
           \/ k \in DOMAIN rows /\ new[k] = rows[k] \cup {job.id}
  BY DEF Inserted
<1>2. job.keys \subseteq Key /\ job.id \in Stmt
  BY DEF Job
<1>3. DOMAIN rows \subseteq Key /\ \A k \in DOMAIN rows : rows[k] \subseteq Stmt
  BY RowsType
<1> HIDE DEF new
<1>4. new \in Rows
  BY <1>1, <1>2, <1>3, RowsType
<1>5. Within(new, S \cup {job.id})
  BY <1>1 DEF Within
<1> QED
  BY <1>4, <1>5 DEF new

LEMMA UpdatedRows ==
  ASSUME NEW rows \in Rows, NEW sel \in Rows, NEW id \in Stmt, NEW S,
         Within(rows, S), Within(sel, S)
  PROVE  /\ Updated(rows, sel, id) \in Rows
         /\ Within(Updated(rows, sel, id), S \cup {id})
<1> DEFINE new == Updated(rows, sel, id)
<1>1. /\ DOMAIN new = DOMAIN rows
      /\ new = [k \in DOMAIN new |-> new[k]]
      /\ \A k \in DOMAIN new :
           \/ new[k] = rows[k]
           \/ k \in DOMAIN sel /\ new[k] = sel[k] \cup {id}
  BY DEF Updated
<1>2. DOMAIN rows \subseteq Key /\ \A k \in DOMAIN rows : rows[k] \subseteq Stmt
  BY RowsType
<1>3. \A k \in DOMAIN sel : sel[k] \subseteq Stmt
  BY RowsType
<1> HIDE DEF new
<1>4. new \in Rows
  BY <1>1, <1>2, <1>3, RowsType
<1>5. Within(new, S \cup {id})
  BY <1>1 DEF Within
<1> QED
  BY <1>4, <1>5 DEF new

LEMMA DeletedRows ==
  ASSUME NEW rows \in Rows, NEW sel, NEW S, Within(rows, S)
  PROVE  Deleted(rows, sel) \in Rows /\ Within(Deleted(rows, sel), S)
<1> DEFINE new == Deleted(rows, sel)
<1>1. /\ DOMAIN new = DOMAIN rows \ DOMAIN sel
      /\ new = [k \in DOMAIN new |-> new[k]]
      /\ \A k \in DOMAIN new : new[k] = rows[k]
  BY DEF Deleted
<1>2. DOMAIN rows \subseteq Key /\ \A k \in DOMAIN rows : rows[k] \subseteq Stmt
  BY RowsType
<1> HIDE DEF new
<1> QED
  BY <1>1, <1>2, RowsType DEF Within, new

-----------------------------------------------------------------------------
(* The inductive invariant *)

\* a slot, its session's transaction and what its client knows of it agree
Agrees(p) ==
  LET s == SessionOf[p] IN
    /\ query[p].pc = "ready" /\ tx[s].open => s \in begun
    /\ query[p].pc = "ending" => s \notin begun
    /\ query[p].pc \in {"ready", "ending"} => p \notin within
    /\ query[p].pc \in {"reading", "selected", "written"} =>
         /\ tx[s].open
         /\ tx[s].auto = query[p].auto
         /\ p \in within <=> s \in begun
         /\ query[p].auto <=> s \notin begun

\* BeginHolds, and nothing is left of a transaction that has ended
TxAgrees(s) ==
  /\ s \in begun => tx[s].open /\ ~tx[s].auto
  /\ ~tx[s].open => tx[s].data = Empty
  /\ s \notin begun => drafted[s] = {}

\* what a session may see
Own(s) == done \cup drafted[s] \cup Saved(s)

DraftOwn(s) ==
  ~Ending(s) => \A t \in DOMAIN tx[s].data : Within(tx[s].data[t], Own(s))

SelectedOwn(p) ==
  query[p].pc = "selected" => Within(query[p].sel, Own(SessionOf[p]))

IInv ==
  /\ HTypeOK
  /\ CommittedOnly
  /\ \A p \in Query : Agrees(p) /\ SelectedOwn(p)
  /\ \A s \in Session : TxAgrees(s) /\ DraftOwn(s)

LEMMA InitHolds == HInit => IInv
<1> SUFFICES ASSUME HInit PROVE IInv
  OBVIOUS
<1> USE DEF HInit, Init
<1>1. tables \in [Owner -> TableMap]
  <2>1. ASSUME NEW o \in Owner PROVE tables[o] \in TableMap
    <3>1. PICK T \in SUBSET Table : tables[o] = [t \in T |-> Empty]
      BY <2>1, ConstantsAssumption DEF Owner
    <3>2. DOMAIN tables[o] = T /\ \A t \in T : tables[o][t] = Empty
      BY <3>1
    <3> QED
      BY <3>1, <3>2, EmptyType, TableMapType
  <2> QED
    BY <2>1 DEF Owner
<1>2. \A o \in Owner : \A t \in DOMAIN tables[o] : tables[o][t] = Empty
  BY DEF Owner
<1>3. HTypeOK
  BY <1>1, EmptyType, ConstantsAssumption DEF HTypeOK, TypeOK, NoTx, Waiting
<1>4. \A S : Within(Empty, S) /\ Shown(Empty) \subseteq S
  BY EmptyType, ShownWithin DEF Within
<1>5. CommittedOnly
  BY <1>2, <1>4 DEF CommittedOnly
<1>6. \A p \in Query : SessionOf[p] \in Session
  BY ConstantsAssumption
<1>7. /\ \A p \in Query : Agrees(p) /\ SelectedOwn(p)
      /\ \A s \in Session : TxAgrees(s) /\ DraftOwn(s)
  BY <1>6, EmptyType DEF Agrees, SelectedOwn, TxAgrees, DraftOwn, NoTx
<1> QED
  BY <1>3, <1>5, <1>7 DEF IInv

-----------------------------------------------------------------------------
(* One slot moves *)

\* what a slot holds at each of its awaits
LEMMA SlotType ==
  ASSUME HTypeOK, NEW p \in Query
  PROVE  /\ SessionOf[p] \in Session
         /\ query[p].pc \in {"ready", "ending", "reading", "selected", "written"}
         /\ query[p].pc = "reading" => query[p] \in Reading
         /\ query[p].pc = "selected" => query[p] \in Selected
         /\ query[p].pc = "written" => query[p] \in Written
BY ConstantsAssumption
   DEF HTypeOK, TypeOK, Waiting, Reading, Selected, Written

LEMMA JobType ==
  ASSUME HTypeOK, NEW p \in Query, query[p].pc \in {"reading", "selected", "written"}
  PROVE  /\ query[p].job \in Job
         /\ query[p].job.tab \in Table
         /\ query[p].job.id \in Stmt
         /\ query[p].auto \in BOOLEAN
BY SlotType DEF Reading, Selected, Written, Job

LEMMA SlotMoves ==
  ASSUME OneAtATime, HTypeOK, NEW p \in Query, NEW x,
         query' = [query EXCEPT ![p] = x]
  PROVE  /\ query'[p] = x
         /\ \A q \in Query : q # p => /\ query'[q] = query[q]
                                      /\ SessionOf[q] # SessionOf[p]
         /\ Saved(SessionOf[p])'
              = IF x.pc = "written" /\ x.ok THEN {x.job.id} ELSE {}
         /\ Ending(SessionOf[p])' <=> x.pc = "ending"
         /\ \A s \in Session : s # SessionOf[p] =>
              Saved(s)' = Saved(s) /\ (Ending(s)' <=> Ending(s))
<1>1. query'[p] = x /\ \A q \in Query : q # p => query'[q] = query[q]
  BY DEF HTypeOK, TypeOK
<1>2. \A q \in Query : SessionOf[q] = SessionOf[p] => q = p
  BY DEF OneAtATime
<1>3. Saved(SessionOf[p])' = IF x.pc = "written" /\ x.ok THEN {x.job.id} ELSE {}
  <2>1. {q \in Query : SessionOf[q] = SessionOf[p]
                         /\ query'[q].pc = "written" /\ query'[q].ok}
          = IF x.pc = "written" /\ x.ok THEN {p} ELSE {}
    BY <1>1, <1>2
  <2> QED
    BY <1>1, <2>1 DEF Saved
<1>4. Ending(SessionOf[p])' <=> x.pc = "ending"
  BY <1>1, <1>2 DEF Ending
<1>5. ASSUME NEW s \in Session, s # SessionOf[p]
      PROVE  Saved(s)' = Saved(s) /\ (Ending(s)' <=> Ending(s))
  <2>1. \A q \in Query : SessionOf[q] = s => query'[q] = query[q]
    BY <1>1, <1>5
  <2>2. {q \in Query : SessionOf[q] = s /\ query'[q].pc = "written" /\ query'[q].ok}
          = {q \in Query : SessionOf[q] = s /\ query[q].pc = "written" /\ query[q].ok}
    BY <2>1
  <2>3. Saved(s)' = Saved(s)
    BY <2>1, <2>2 DEF Saved
  <2>4. Ending(s)' <=> Ending(s)
    BY <2>1 DEF Ending
  <2> QED
    BY <2>3, <2>4
<1> QED
  BY <1>1, <1>2, <1>3, <1>4, <1>5

\* what is saved and ending in a session with one slot
LEMMA SlotNow ==
  ASSUME OneAtATime, NEW p \in Query
  PROVE  /\ Saved(SessionOf[p])
              = IF query[p].pc = "written" /\ query[p].ok THEN {query[p].job.id} ELSE {}
         /\ Ending(SessionOf[p]) <=> query[p].pc = "ending"
<1>1. \A q \in Query : SessionOf[q] = SessionOf[p] => q = p
  BY DEF OneAtATime
<1>2. {q \in Query : SessionOf[q] = SessionOf[p]
                       /\ query[q].pc = "written" /\ query[q].ok}
        = IF query[p].pc = "written" /\ query[p].ok THEN {p} ELSE {}
  BY <1>1
<1> QED
  BY <1>1, <1>2 DEF Saved, Ending

LEMMA ViewOwn ==
  ASSUME IInv, NEW s \in Session, NEW t \in Table, HasTable(s, t), ~Ending(s)
  PROVE  View(s, t) \in Rows /\ Within(View(s, t), Own(s))
<1>1. Place(s, t) \in Owner
  BY DEF Place, Owner
<1>2. CASE t \in DOMAIN tx[s].data
  <2>1. tx[s].data[t] \in Rows
    BY <1>2, TableMapType DEF IInv, HTypeOK, TypeOK
  <2> QED
    BY <1>2, <2>1 DEF IInv, DraftOwn, View
<1>3. CASE t \notin DOMAIN tx[s].data
  <2>1. tables[Place(s, t)][t] \in Rows
    BY <1>1, TableMapType DEF IInv, HTypeOK, TypeOK, HasTable
  <2>2. Shown(tables[Place(s, t)][t]) \subseteq Own(s)
    BY <1>1 DEF IInv, CommittedOnly, HasTable, Own
  <2> QED
    BY <1>3, <2>1, <2>2, ShownWithin DEF View
<1> QED
  BY <1>2, <1>3

LEMMA StartedType ==
  ASSUME HTypeOK, NEW s \in Session, NEW a \in BOOLEAN
  PROVE  /\ Started(s, a) \in [open : BOOLEAN, auto : BOOLEAN, data : TableMap]
         /\ Started(s, a).open
         /\ tx[s].open => Started(s, a) = tx[s]
         /\ ~tx[s].open => Started(s, a) = [open |-> TRUE, auto |-> a, data |-> Empty]
BY EmptyType DEF Started, HTypeOK, TypeOK

\* what commit installs is what the session may see
LEMMA Installed ==
  ASSUME IInv, NEW s \in Session, ~Ending(s), Install(s)
  PROVE  /\ tables' \in [Owner -> TableMap]
         /\ \A o \in Owner : \A t \in DOMAIN tables'[o] :
              Shown(tables'[o][t]) \subseteq Own(s)
<1>1. tables' = [o \in Owner |->
        [t \in DOMAIN tables[o] |->
           IF t \in DOMAIN tx[s].data /\ o = Place(s, t)
             THEN tx[s].data[t] ELSE tables[o][t]]]
  BY DEF Install
<1>2. ASSUME NEW o \in Owner
      PROVE  /\ tables'[o] \in TableMap
             /\ \A t \in DOMAIN tables'[o] : Shown(tables'[o][t]) \subseteq Own(s)
  <2>1. tables[o] \in TableMap /\ tx[s].data \in TableMap
    BY DEF IInv, HTypeOK, TypeOK
  <2>2. /\ DOMAIN tables'[o] = DOMAIN tables[o]
        /\ tables'[o] = [t \in DOMAIN tables'[o] |-> tables'[o][t]]
    BY <1>1
  <2>3. ASSUME NEW t \in DOMAIN tables[o]
        PROVE  tables'[o][t] \in Rows /\ Shown(tables'[o][t]) \subseteq Own(s)
    <3>1. CASE t \in DOMAIN tx[s].data /\ tables'[o][t] = tx[s].data[t]
      <4>1. Within(tx[s].data[t], Own(s))
        BY <3>1 DEF IInv, DraftOwn
      <4>2. tx[s].data[t] \in Rows
        BY <2>1, <3>1, TableMapType
      <4> QED
        BY <3>1, <4>1, <4>2, ShownWithin
    <3>2. CASE tables'[o][t] = tables[o][t]
      <4>1. tables[o][t] \in Rows
        BY <2>1, TableMapType
      <4>2. Shown(tables[o][t]) \subseteq done
        BY DEF IInv, CommittedOnly
      <4> QED
        BY <3>2, <4>1, <4>2 DEF Own
    <3> QED
      BY <1>1, <3>1, <3>2
  <2> QED
    BY <2>1, <2>2, <2>3, TableMapType
<1> QED
  BY <1>1, <1>2

-----------------------------------------------------------------------------
(* A step of one slot, after which the slot holds x, keeps the invariant if *)
(* it leaves the other sessions alone and the slot and its session in order *)

LEMMA OneMoves ==
  ASSUME OneAtATime, IInv, NEW p \in Query, NEW x,
         query' = [query EXCEPT ![p] = x],
         \A r \in Session : r # SessionOf[p] =>
           /\ tx'[r] = tx[r]
           /\ drafted'[r] = drafted[r]
           /\ r \in begun' <=> r \in begun,
         \A q \in Query : q # p => (q \in within' <=> q \in within),
         done \subseteq done',
         HTypeOK', CommittedOnly',
         Agrees(p)', SelectedOwn(p)',
         TxAgrees(SessionOf[p])', DraftOwn(SessionOf[p])'
  PROVE  IInv'
<1>1. HTypeOK
  BY DEF IInv
<1>2. ASSUME NEW r \in Session, r # SessionOf[p]
      PROVE  TxAgrees(r)' /\ DraftOwn(r)' /\ Own(r) \subseteq Own(r)'
  <2>1. Saved(r)' = Saved(r) /\ (Ending(r)' <=> Ending(r))
    BY <1>1, <1>2, SlotMoves
  <2>2. Own(r) \subseteq Own(r)'
    BY <1>2, <2>1 DEF Own
  <2>3. TxAgrees(r)'
    BY <1>2 DEF IInv, TxAgrees
  <2>4. DraftOwn(r)'
    BY <1>2, <2>1, <2>2 DEF IInv, DraftOwn, Within
  <2> QED
    BY <2>2, <2>3, <2>4
<1>3. ASSUME NEW q \in Query, q # p
      PROVE  Agrees(q)' /\ SelectedOwn(q)'
  <2>4. query'[q] = query[q] /\ SessionOf[q] # SessionOf[p]
    BY <1>1, <1>3, SlotMoves
  <2>1. query'[q] = query[q] /\ SessionOf[q] # SessionOf[p] /\ SessionOf[q] \in Session
    BY <2>4, ConstantsAssumption
  <2>2. Agrees(q)'
    BY <1>3, <2>1 DEF IInv, Agrees
  <2>3. SelectedOwn(q)'
    BY <1>2, <1>3, <2>1 DEF IInv, SelectedOwn, Within
  <2> QED
    BY <2>2, <2>3
<1> QED
  BY <1>1, <1>2, <1>3 DEF IInv

(* Each action keeps the invariant *)

LEMMA BeginStep ==
  ASSUME OneAtATime, IInv, NEW p \in Query, HBegin(p)
  PROVE  IInv'
<1> DEFINE s == SessionOf[p]
<1>1. /\ query[p].pc = "ready"
      /\ tx' = [tx EXCEPT ![s] = Started(s, FALSE)]
      /\ begun' = begun \cup {s}
      /\ UNCHANGED <<tables, released, issued, query, within, drafted, done>>
  BY DEF HBegin, Begin, CanIssue
<1>2. HTypeOK /\ s \in Session
  BY SlotType DEF IInv
<1>3. query' = [query EXCEPT ![p] = query[p]]
  BY <1>1, <1>2 DEF HTypeOK, TypeOK
<1>4. /\ tx'[s] \in [open : BOOLEAN, auto : BOOLEAN, data : TableMap]
      /\ \/ tx[s].open /\ tx'[s] = tx[s]
         \/ tx'[s] = [open |-> TRUE, auto |-> FALSE, data |-> Empty]
  <2>1. tx'[s] = Started(s, FALSE)
    BY <1>1, <1>2 DEF HTypeOK, TypeOK
  <2>2. \A a \in BOOLEAN :
          /\ Started(s, a) \in [open : BOOLEAN, auto : BOOLEAN, data : TableMap]
          /\ \/ tx[s].open /\ Started(s, a) = tx[s]
             \/ Started(s, a) = [open |-> TRUE, auto |-> a, data |-> Empty]
    BY <1>2, StartedType
  <2> QED
    BY <2>1, <2>2
<1>5. HTypeOK'
  BY <1>1, <1>2, <1>4
     DEF HTypeOK, TypeOK, Stmt, Waiting, Reading, Selected, Written
<1>6. CommittedOnly'
  BY <1>1 DEF IInv, CommittedOnly
<1>7. tx'[s].open /\ ~tx'[s].auto
  <2>1. tx[s].open => s \in begun
    BY <1>1 DEF IInv, Agrees
  <2>2. s \in begun => ~tx[s].auto
    BY <1>2 DEF IInv, TxAgrees
  <2> QED
    BY <1>4, <2>1, <2>2
<1>8. Agrees(p)' /\ SelectedOwn(p)' /\ TxAgrees(s)'
  BY <1>1, <1>2, <1>7 DEF IInv, Agrees, SelectedOwn, TxAgrees
<1>9. DraftOwn(s)'
  <2>1. Own(s)' = Own(s) /\ (Ending(s)' <=> Ending(s))
    BY <1>1 DEF Own, Saved, Ending
  <2>2. tx'[s].data = tx[s].data \/ DOMAIN tx'[s].data = {}
    BY <1>4, EmptyType
  <2> QED
    BY <1>2, <2>1, <2>2 DEF IInv, DraftOwn, Within
<1> QED
  BY <1>1, <1>2, <1>3, <1>5, <1>6, <1>8, <1>9, OneMoves DEF HTypeOK, TypeOK

LEMMA IssueStep ==
  ASSUME OneAtATime, IInv, NEW p \in Query, NEW kind \in WriteKinds, NEW t \in Table,
         NEW keys \in KeySets, HIssue(p, kind, t, keys)
  PROVE  IInv'
<1> DEFINE s == SessionOf[p]
           id == <<s, issued[s] + 1>>
           x == [pc   |-> "reading",
                 job  |-> [kind |-> kind, tab |-> t, keys |-> keys, id |-> id],
                 auto |-> Started(s, TRUE).auto]
<1>1. /\ query[p].pc = "ready"
      /\ issued[s] < MaxStmt
      /\ issued' = [issued EXCEPT ![s] = @ + 1]
      /\ query' = [query EXCEPT ![p] = x]
      /\ tx' = [tx EXCEPT ![s] = Started(s, TRUE)]
      /\ within' = IF s \in begun THEN within \cup {p} ELSE within
      /\ UNCHANGED <<tables, released, begun, drafted, done>>
  BY DEF HIssue, Issue, CanIssue
<1>2. HTypeOK /\ s \in Session
  BY SlotType DEF IInv
<1>3. /\ x.pc = "reading"
      /\ x.auto = Started(s, TRUE).auto
      /\ Started(s, TRUE).auto \in BOOLEAN /\ id \in Stmt => x \in Reading
  BY DEF Reading, Job, KeySets
<1> HIDE DEF x
<1>11. query'[p] = x
  BY <1>1, <1>2 DEF HTypeOK, TypeOK
<1>12. tx'[s] = Started(s, TRUE)
  BY <1>1, <1>2 DEF HTypeOK, TypeOK
<1>4. /\ tx'[s] \in [open : BOOLEAN, auto : BOOLEAN, data : TableMap]
      /\ \/ tx[s].open /\ tx'[s] = tx[s]
         \/ ~tx[s].open /\ tx'[s] = [open |-> TRUE, auto |-> TRUE, data |-> Empty]
  <2>1. tx'[s] = Started(s, TRUE)
    BY <1>12
  <2>2. \A a \in BOOLEAN :
          /\ Started(s, a) \in [open : BOOLEAN, auto : BOOLEAN, data : TableMap]
          /\ \/ tx[s].open /\ Started(s, a) = tx[s]
             \/ ~tx[s].open /\ Started(s, a) = [open |-> TRUE, auto |-> a, data |-> Empty]
    BY <1>2, StartedType
  <2> QED
    BY <2>1, <2>2
<1>5. HTypeOK'
  <2>1. issued[s] + 1 \in 1..MaxStmt /\ issued[s] + 1 \in 0..MaxStmt
    BY <1>1, <1>2, ConstantsAssumption DEF HTypeOK, TypeOK
  <2>2. x \in Reading
    BY <1>2, <1>3, <1>4, <1>12, <2>1 DEF Stmt
  <2>3. TypeOK'
    BY <1>1, <1>2, <1>4, <2>1, <2>2
       DEF HTypeOK, TypeOK, Stmt, Waiting, Reading, Selected, Written
  <2> QED
    BY <1>1, <1>2, <2>3 DEF HTypeOK, Stmt
<1>6. CommittedOnly'
  BY <1>1 DEF IInv, CommittedOnly
<1>7. /\ tx'[s].open
      /\ s \in begun => ~tx'[s].auto
      /\ s \notin begun => tx'[s].auto
      /\ s \notin begun => drafted[s] = {}
  <2>1. tx[s].open => s \in begun
    BY <1>1 DEF IInv, Agrees
  <2>2. /\ s \in begun => tx[s].open /\ ~tx[s].auto
        /\ s \notin begun => drafted[s] = {}
    BY <1>2 DEF IInv, TxAgrees
  <2> QED
    BY <1>4, <2>1, <2>2
<1>8. TxAgrees(s)'
  BY <1>1, <1>7 DEF TxAgrees
<1>9. Agrees(p)' /\ SelectedOwn(p)'
  <2>1. x.pc = "reading" /\ x.auto = tx'[s].auto
    BY <1>3, <1>12
  <2>2. tx'[s].auto \in BOOLEAN
    BY <1>4
  <2>3. p \in within' <=> s \in begun
    <3>1. CASE s \in begun
      BY <1>1, <3>1
    <3>2. CASE s \notin begun
      BY <1>1, <1>2, <3>2 DEF IInv, Agrees
    <3> QED
      BY <3>1, <3>2
  <2> QED
    BY <1>1, <1>11, <1>7, <2>1, <2>2, <2>3 DEF Agrees, SelectedOwn
<1>10. DraftOwn(s)'
  <2>1. Saved(s)' = {} /\ Saved(s) = {} /\ ~Ending(s)
    BY <1>1, <1>2, <1>3, SlotMoves, SlotNow
  <2>2. Own(s)' = Own(s)
    BY <1>1, <2>1 DEF Own
  <2>3. tx'[s].data = tx[s].data \/ DOMAIN tx'[s].data = {}
    BY <1>4, EmptyType
  <2> QED
    BY <1>2, <2>1, <2>2, <2>3 DEF IInv, DraftOwn, Within
<1> QED
  BY <1>1, <1>2, <1>5, <1>6, <1>8, <1>9, <1>10, OneMoves DEF HTypeOK, TypeOK

\* the end of a statement's function: it has saved rows of its own, or nothing
LEMMA ReturnStep ==
  ASSUME OneAtATime, IInv, NEW p \in Query, query[p].pc \in {"reading", "selected"},
         NEW d \in BOOLEAN, Return(p, d),
         NEW rows \in Rows, Within(rows, Own(SessionOf[p]) \cup {query[p].job.id}),
         UNCHANGED tx \/ (d /\ TxSave(SessionOf[p], query[p].job.tab, rows)),
         UNCHANGED <<tables, released, issued, history>>
  PROVE  IInv'
<1> DEFINE s == SessionOf[p]
           t == query[p].job.tab
           x == [pc |-> "written", job |-> query[p].job, auto |-> query[p].auto, ok |-> d]
<1>1. /\ query' = [query EXCEPT ![p] = x]
      /\ UNCHANGED <<tables, released, issued, begun, within, drafted, done>>
  BY DEF Return, history
<1>2. HTypeOK /\ s \in Session /\ t \in Table
  BY SlotType, JobType DEF IInv
<1>3. /\ x.pc = "written"
      /\ x.auto = query[p].auto
      /\ x.job = query[p].job
      /\ x.ok = d
      /\ x \in Written
  BY <1>2, JobType DEF Written
<1> HIDE DEF x
<1>4. query'[p] = x
  BY <1>1, <1>2 DEF HTypeOK, TypeOK
<1>5. /\ tx[s].open
      /\ tx[s].auto = query[p].auto
      /\ p \in within <=> s \in begun
      /\ query[p].auto <=> s \notin begun
  BY DEF IInv, Agrees
<1>6. /\ tx' \in [Session -> [open : BOOLEAN, auto : BOOLEAN, data : TableMap]]
      /\ tx'[s].open = tx[s].open
      /\ tx'[s].auto = tx[s].auto
      /\ \A r \in Session : r # s => tx'[r] = tx[r]
      /\ \/ tx'[s].data = tx[s].data
         \/ d /\ tx'[s].data = With(tx[s].data, t, rows)
  <2>1. tx \in [Session -> [open : BOOLEAN, auto : BOOLEAN, data : TableMap]]
    BY <1>2 DEF HTypeOK, TypeOK
  <2>2. CASE UNCHANGED tx
    BY <2>1, <2>2
  <2>3. CASE d /\ TxSave(s, t, rows)
    <3>1. tx' = [tx EXCEPT ![s].data = With(@, t, rows)]
      BY <1>5, <2>3 DEF TxSave
    <3>2. With(tx[s].data, t, rows) \in TableMap
      BY <1>2, <2>1, WithType
    <3> QED
      BY <1>2, <2>1, <2>3, <3>1, <3>2
  <2> QED
    BY <2>2, <2>3
<1>7. HTypeOK'
  BY <1>1, <1>2, <1>3, <1>6
     DEF HTypeOK, TypeOK, Stmt, Waiting, Reading, Selected, Written
<1>8. CommittedOnly'
  BY <1>1 DEF IInv, CommittedOnly
<1>9. Agrees(p)' /\ SelectedOwn(p)'
  BY <1>1, <1>3, <1>4, <1>5, <1>6 DEF Agrees, SelectedOwn
<1>10. TxAgrees(s)'
  BY <1>1, <1>2, <1>5, <1>6 DEF IInv, TxAgrees
<1>11. DraftOwn(s)'
  <2>1. Saved(s) = {} /\ ~Ending(s)
    BY SlotNow
  <2>2. Saved(s)' = IF d THEN {query[p].job.id} ELSE {}
    <3>1. Saved(s)' = IF x.pc = "written" /\ x.ok THEN {x.job.id} ELSE {}
      BY <1>1, <1>2, SlotMoves
    <3> QED
      BY <1>3, <3>1
  <2>3. Own(s)' = Own(s) \cup (IF d THEN {query[p].job.id} ELSE {})
    BY <1>1, <2>1, <2>2 DEF Own
  <2>4. \A u \in DOMAIN tx[s].data : Within(tx[s].data[u], Own(s))
    BY <1>2, <2>1 DEF IInv, DraftOwn
  <2>5. CASE tx'[s].data = tx[s].data
    BY <2>3, <2>4, <2>5 DEF DraftOwn, Within
  <2>6. CASE d /\ tx'[s].data = With(tx[s].data, t, rows)
    <3>1. Own(s)' = Own(s) \cup {query[p].job.id}
      BY <2>3, <2>6
    <3>2. tx[s].data \in TableMap
      BY <1>2 DEF HTypeOK, TypeOK
    <3>4. /\ DOMAIN With(tx[s].data, t, rows) = DOMAIN tx[s].data \cup {t}
          /\ \A u \in DOMAIN tx[s].data \cup {t} :
               With(tx[s].data, t, rows)[u] = IF u = t THEN rows ELSE tx[s].data[u]
      BY DEF With
    <3>3. ASSUME NEW u \in DOMAIN tx'[s].data PROVE Within(tx'[s].data[u], Own(s)')
      <4>1. CASE u = t
        <5>1. tx'[s].data[u] = rows
          BY <2>6, <3>4, <4>1
        <5> QED
          BY <3>1, <5>1 DEF Within
      <4>2. CASE u # t
        <5>1. u \in DOMAIN tx[s].data /\ tx'[s].data[u] = tx[s].data[u]
          BY <2>6, <3>3, <3>4, <4>2
        <5> QED
          BY <2>4, <3>1, <5>1 DEF Within
      <4> QED
        BY <4>1, <4>2
    <3> QED
      BY <3>3 DEF DraftOwn
  <2> QED
    BY <1>6, <2>5, <2>6
<1> QED
  BY <1>1, <1>2, <1>6, <1>7, <1>8, <1>9, <1>10, <1>11, OneMoves

LEMMA InsertStep ==
  ASSUME OneAtATime, IInv, NEW p \in Query, Insert(p), UNCHANGED history
  PROVE  IInv'
<1> DEFINE s == SessionOf[p]
           job == query[p].job
<1>1. query[p].pc = "reading" /\ HasTable(s, job.tab)
  BY DEF Insert
<1>2. HTypeOK /\ s \in Session /\ job \in Job /\ job.tab \in Table
  BY <1>1, SlotType, JobType DEF IInv
<1>3. View(s, job.tab) \in Rows /\ Within(View(s, job.tab), Own(s))
  BY <1>1, <1>2, ViewOwn, SlotNow
<1>4. /\ Inserted(View(s, job.tab), job) \in Rows
      /\ Within(Inserted(View(s, job.tab), job), Own(s) \cup {job.id})
  BY <1>2, <1>3, InsertedRows
<1> QED
  BY <1>1, <1>4, ReturnStep DEF Insert

LEMMA ModifyStep ==
  ASSUME OneAtATime, IInv, NEW p \in Query, Modify(p), UNCHANGED history
  PROVE  IInv'
<1> DEFINE s == SessionOf[p]
           job == query[p].job
           sel == query[p].sel
           rows == View(s, job.tab)
           new == IF job.kind = "update" THEN Updated(rows, sel, job.id)
                                         ELSE Deleted(rows, sel)
<1>1. query[p].pc = "selected" /\ HasTable(s, job.tab)
  BY DEF Modify
<1>2. /\ HTypeOK /\ s \in Session /\ job \in Job /\ job.tab \in Table /\ job.id \in Stmt
      /\ sel \in Rows
  BY <1>1, SlotType, JobType DEF IInv, Selected
<1>3. rows \in Rows /\ Within(rows, Own(s))
  BY <1>1, <1>2, ViewOwn, SlotNow
<1>4. Within(sel, Own(s))
  BY <1>1 DEF IInv, SelectedOwn
<1>5. new \in Rows /\ Within(new, Own(s) \cup {job.id})
  <2>1. Updated(rows, sel, job.id) \in Rows
        /\ Within(Updated(rows, sel, job.id), Own(s) \cup {job.id})
    BY <1>2, <1>3, <1>4, UpdatedRows
  <2>2. Deleted(rows, sel) \in Rows /\ Within(Deleted(rows, sel), Own(s))
    BY <1>3, DeletedRows
  <2>3. Within(Deleted(rows, sel), Own(s) \cup {job.id})
    BY <2>2 DEF Within
  <2> QED
    BY <2>1, <2>2, <2>3
<1>6. UNCHANGED tx \/ TxSave(s, job.tab, new)
  BY DEF Modify
<1>7. Return(p, TRUE) /\ UNCHANGED <<tables, released, issued, history>>
  BY DEF Modify
<1> HIDE DEF new
<1> QED
  BY <1>1, <1>5, <1>6, <1>7, ReturnStep

LEMMA FailStep ==
  ASSUME OneAtATime, IInv, NEW p \in Query, Fail(p), UNCHANGED history
  PROVE  IInv'
<1>1. Empty \in Rows /\ Within(Empty, Own(SessionOf[p]) \cup {query[p].job.id})
  BY EmptyType DEF Within
<1> QED
  BY <1>1, ReturnStep DEF Fail

LEMMA SelectStep ==
  ASSUME OneAtATime, IInv, NEW p \in Query, Select(p), UNCHANGED history
  PROVE  IInv'
<1> DEFINE s == SessionOf[p]
           job == query[p].job
           rows == View(s, job.tab)
           chosen == [k \in job.keys \cap DOMAIN rows |-> rows[k]]
           x == [pc |-> "selected", job |-> job, auto |-> query[p].auto, sel |-> chosen]
<1>1. /\ query[p].pc = "reading"
      /\ HasTable(s, job.tab)
      /\ query' = [query EXCEPT ![p] = x]
      /\ UNCHANGED <<tables, tx, released, issued, begun, within, drafted, done>>
  BY DEF Select, history
<1>2. HTypeOK /\ s \in Session /\ job \in Job /\ job.tab \in Table
  BY <1>1, SlotType, JobType DEF IInv
<1>3. rows \in Rows /\ Within(rows, Own(s))
  BY <1>1, <1>2, ViewOwn, SlotNow
<1>4. chosen \in Rows /\ Within(chosen, Own(s))
  <2>1. /\ DOMAIN chosen = job.keys \cap DOMAIN rows
        /\ chosen = [k \in DOMAIN chosen |-> chosen[k]]
        /\ \A k \in DOMAIN chosen : chosen[k] = rows[k]
    OBVIOUS
  <2>2. DOMAIN rows \subseteq Key /\ \A k \in DOMAIN rows : rows[k] \subseteq Stmt
    BY <1>3, RowsType
  <2> HIDE DEF chosen
  <2> QED
    BY <1>3, <2>1, <2>2, RowsType DEF Within
<1> HIDE DEF chosen
<1>5. /\ x.pc = "selected"
      /\ x.auto = query[p].auto
      /\ x.sel = chosen
      /\ x \in Selected
  BY <1>1, <1>2, <1>4, JobType DEF Selected
<1> HIDE DEF x
<1>6. query'[p] = x
  BY <1>1, <1>2 DEF HTypeOK, TypeOK
<1>7. HTypeOK'
  BY <1>1, <1>2, <1>5 DEF HTypeOK, TypeOK, Stmt, Waiting, Reading, Selected, Written
<1>8. CommittedOnly'
  BY <1>1 DEF IInv, CommittedOnly
<1>9. /\ Own(s)' = Own(s)
      /\ Ending(s)' <=> Ending(s)
  <2>1. Saved(s) = {} /\ ~Ending(s)
    BY <1>1, SlotNow
  <2>2. Saved(s)' = {} /\ ~Ending(s)'
    BY <1>1, <1>2, <1>5, SlotMoves
  <2> QED
    BY <1>1, <2>1, <2>2 DEF Own
<1>10. Agrees(p)'
  BY <1>1, <1>5, <1>6 DEF IInv, Agrees
<1>11. SelectedOwn(p)'
  BY <1>4, <1>5, <1>6, <1>9 DEF SelectedOwn
<1>12. TxAgrees(s)' /\ DraftOwn(s)'
  BY <1>1, <1>2, <1>9 DEF IInv, TxAgrees, DraftOwn, Within
<1> QED
  BY <1>1, <1>2, <1>7, <1>8, <1>10, <1>11, <1>12, OneMoves

\* the transaction of a slot's session ends, by commit (keep) or by rollback
LEMMA EndTxStep ==
  ASSUME OneAtATime, IInv, NEW p \in Query, query[p].pc \in {"ready", "written"},
         NEW keep \in BOOLEAN, EndTx(p, keep),
         keep => Own(SessionOf[p]) \subseteq done',
         done \subseteq done', done' \subseteq Stmt,
         SessionOf[p] \notin begun', drafted'[SessionOf[p]] = {}, p \notin within',
         drafted' \in [Session -> SUBSET Stmt], begun' \subseteq begun,
         within' \subseteq within,
         \A r \in Session : r # SessionOf[p] =>
           drafted'[r] = drafted[r] /\ (r \in begun' <=> r \in begun),
         \A q \in Query : q # p => (q \in within' <=> q \in within),
         UNCHANGED <<released, issued>>
  PROVE  IInv'
<1> DEFINE s == SessionOf[p]
<1>1. HTypeOK /\ s \in Session
  BY SlotType DEF IInv
<1>2. ~Ending(s)
  BY SlotNow
<1>3. PICK x \in Waiting :
        /\ query' = [query EXCEPT ![p] = x]
        /\ \/ x.pc = "ending" /\ UNCHANGED tx
           \/ x.pc = "ready" /\ tx' = [tx EXCEPT ![s] = NoTx]
  <2>1. CASE /\ query' = [query EXCEPT ![p] = [pc |-> "ending"]]
             /\ UNCHANGED tx
    <3> DEFINE y == [pc |-> "ending"]
    <3>1. y \in Waiting /\ y.pc = "ending"
      BY DEF Waiting
    <3>2. query' = [query EXCEPT ![p] = y]
      BY <2>1
    <3> HIDE DEF y
    <3> QED
      BY <2>1, <3>1, <3>2
  <2>2. CASE /\ query' = [query EXCEPT ![p] = [pc |-> "ready"]]
             /\ tx' = [tx EXCEPT ![s] = NoTx]
    <3> DEFINE y == [pc |-> "ready"]
    <3>1. y \in Waiting /\ y.pc = "ready"
      BY DEF Waiting
    <3>2. query' = [query EXCEPT ![p] = y]
      BY <2>2
    <3> HIDE DEF y
    <3> QED
      BY <2>2, <3>1, <3>2
  <2> QED
    BY <2>1, <2>2 DEF EndTx
<1>4. \/ UNCHANGED tables
      \/ keep /\ Install(s)
  BY DEF EndTx
<1>5. query'[p] = x /\ x.pc \in {"ready", "ending"}
  BY <1>1, <1>3 DEF HTypeOK, TypeOK, Waiting
<1>6. /\ tables' \in [Owner -> TableMap]
      /\ CommittedOnly'
  <2>1. CASE UNCHANGED tables
    BY <1>1, <2>1 DEF IInv, CommittedOnly, HTypeOK, TypeOK
  <2>2. CASE keep /\ Install(s)
    BY <1>1, <1>2, <2>2, Installed DEF CommittedOnly
  <2> QED
    BY <1>4, <2>1, <2>2
<1>7. /\ tx' \in [Session -> [open : BOOLEAN, auto : BOOLEAN, data : TableMap]]
      /\ \A r \in Session : r # s => tx'[r] = tx[r]
      /\ x.pc = "ready" => tx'[s] = NoTx
      /\ x.pc = "ending" => tx'[s] = tx[s]
  <2>1. NoTx \in [open : BOOLEAN, auto : BOOLEAN, data : TableMap]
    BY EmptyType DEF NoTx
  <2> QED
    BY <1>1, <1>3, <1>5, <2>1 DEF HTypeOK, TypeOK
<1>8. HTypeOK'
  BY <1>1, <1>3, <1>6, <1>7 DEF HTypeOK, TypeOK, Stmt, Waiting, Reading, Selected, Written
<1>9. Agrees(p)' /\ SelectedOwn(p)'
  BY <1>5, <1>7 DEF Agrees, SelectedOwn, NoTx
<1>10. TxAgrees(s)'
  BY <1>1, <1>5, <1>7 DEF IInv, TxAgrees, NoTx
<1>11. DraftOwn(s)'
  <2>1. Ending(s)' <=> x.pc = "ending"
    BY <1>1, <1>3, SlotMoves
  <2> QED
    BY <1>5, <1>7, <2>1, EmptyType DEF DraftOwn, NoTx
<1> QED
  BY <1>3, <1>6, <1>7, <1>8, <1>9, <1>10, <1>11, OneMoves

LEMMA CommitStep ==
  ASSUME OneAtATime, IInv, NEW p \in Query, HCommit(p)
  PROVE  IInv'
<1> DEFINE s == SessionOf[p]
<1>1. /\ query[p].pc = "ready"
      /\ EndTx(p, TRUE)
      /\ begun' = begun \ {s}
      /\ done' = done \cup drafted[s]
      /\ drafted' = [drafted EXCEPT ![s] = {}]
      /\ UNCHANGED <<released, issued, within>>
  BY DEF HCommit, Commit, CanIssue
<1>2. HTypeOK /\ s \in Session
  BY SlotType DEF IInv
<1>3. /\ drafted' \in [Session -> SUBSET Stmt]
      /\ drafted'[s] = {}
      /\ \A r \in Session : r # s => drafted'[r] = drafted[r]
      /\ done' \subseteq Stmt
  BY <1>1, <1>2 DEF HTypeOK
<1>4. Own(s) \subseteq done'
  BY <1>1, SlotNow DEF Own
<1>5. p \notin within
  BY <1>1 DEF IInv, Agrees
<1> QED
  BY <1>1, <1>3, <1>4, <1>5, EndTxStep

LEMMA RollbackStep ==
  ASSUME OneAtATime, IInv, NEW p \in Query, HRollback(p)
  PROVE  IInv'
<1> DEFINE s == SessionOf[p]
<1>1. /\ query[p].pc = "ready"
      /\ EndTx(p, FALSE)
      /\ begun' = begun \ {s}
      /\ drafted' = [drafted EXCEPT ![s] = {}]
      /\ UNCHANGED <<released, issued, within, done>>
  BY DEF HRollback, Rollback, CanIssue
<1>2. HTypeOK /\ s \in Session
  BY SlotType DEF IInv
<1>3. /\ drafted' \in [Session -> SUBSET Stmt]
      /\ drafted'[s] = {}
      /\ \A r \in Session : r # s => drafted'[r] = drafted[r]
      /\ done' \subseteq Stmt
  BY <1>1, <1>2 DEF HTypeOK
<1>4. p \notin within
  BY <1>1 DEF IInv, Agrees
<1> QED
  BY <1>1, <1>3, <1>4, EndTxStep

LEMMA FinishStep ==
  ASSUME OneAtATime, IInv, NEW p \in Query, HFinish(p)
  PROVE  IInv'
<1> DEFINE s == SessionOf[p]
           id == query[p].job.id
<1>1. query[p].pc = "written" /\ within' = within \ {p}
      /\ UNCHANGED <<released, issued, begun>>
  BY DEF HFinish, Finish
<1>2. /\ HTypeOK /\ s \in Session /\ id \in Stmt
      /\ query[p].auto \in BOOLEAN /\ query[p].ok \in BOOLEAN
  BY <1>1, SlotType, JobType DEF IInv, Written
<1>3. /\ tx[s].open
      /\ p \in within <=> s \in begun
      /\ query[p].auto <=> s \notin begun
  BY <1>1 DEF IInv, Agrees
<1>4. Saved(s) = (IF query[p].ok THEN {id} ELSE {}) /\ ~Ending(s)
  BY <1>1, SlotNow
<1>5. CASE p \in within
  \* in a transaction of its client: the statement is answered, nothing ends
  <2> DEFINE x == [pc |-> "ready"]
  <2>1. /\ query' = [query EXCEPT ![p] = x]
        /\ drafted' = [drafted EXCEPT ![s] = @ \cup (IF query[p].ok THEN {id} ELSE {})]
        /\ UNCHANGED <<tables, tx, done>>
    BY <1>3, <1>5 DEF HFinish, Finish
  <2>2. x \in Waiting /\ x.pc = "ready"
    BY DEF Waiting
  <2> HIDE DEF x
  <2>3. query'[p] = x
    BY <1>2, <2>1 DEF HTypeOK, TypeOK
  <2>4. /\ drafted' \in [Session -> SUBSET Stmt]
        /\ drafted'[s] = drafted[s] \cup (IF query[p].ok THEN {id} ELSE {})
        /\ \A r \in Session : r # s => drafted'[r] = drafted[r]
    BY <1>2, <2>1 DEF HTypeOK
  <2>5. HTypeOK'
    BY <1>1, <1>2, <2>1, <2>2, <2>4
       DEF HTypeOK, TypeOK, Stmt, Waiting, Reading, Selected, Written
  <2>6. CommittedOnly'
    BY <2>1 DEF IInv, CommittedOnly
  <2>7. Agrees(p)' /\ SelectedOwn(p)'
    BY <1>1, <1>3, <1>5, <2>1, <2>2, <2>3 DEF Agrees, SelectedOwn
  <2>8. TxAgrees(s)'
    BY <1>1, <1>2, <1>3, <1>5, <2>1 DEF IInv, TxAgrees
  <2>9. DraftOwn(s)'
    <3>1. Saved(s)' = {} /\ ~Ending(s)'
      BY <1>2, <2>1, <2>2, SlotMoves
    <3>2. Own(s)' = Own(s)
      BY <1>4, <2>1, <2>4, <3>1 DEF Own
    <3> QED
      BY <1>2, <1>4, <2>1, <3>2 DEF IInv, DraftOwn, Within
  <2> QED
    BY <1>1, <1>2, <2>1, <2>4, <2>5, <2>6, <2>7, <2>8, <2>9, OneMoves
<1>6. CASE p \notin within
  \* on its own: run() commits or rolls back
  <2>1. /\ EndTx(p, query[p].ok)
        /\ done' = done \cup (IF query[p].ok THEN {id} ELSE {})
        /\ UNCHANGED drafted
    BY <1>3, <1>6 DEF HFinish, Finish
  <2>2. s \notin begun' /\ drafted[s] = {}
    BY <1>1, <1>2, <1>3, <1>6 DEF IInv, TxAgrees
  <2>3. query[p].ok => Own(s) \subseteq done'
    BY <1>4, <2>1, <2>2 DEF Own
  <2>4. /\ done \subseteq done' /\ done' \subseteq Stmt
        /\ drafted' \in [Session -> SUBSET Stmt]
    BY <1>1, <1>2, <2>1 DEF HTypeOK, Stmt
  <2>5. drafted'[s] = {} /\ \A r \in Session : drafted'[r] = drafted[r]
    BY <2>1, <2>2
  <2> QED
    BY <1>1, <1>2, <2>1, <2>2, <2>3, <2>4, <2>5, EndTxStep
<1> QED
  BY <1>5, <1>6

LEMMA ClearTxStep ==
  ASSUME OneAtATime, IInv, NEW p \in Query, ClearTx(p), UNCHANGED history
  PROVE  IInv'
<1> DEFINE s == SessionOf[p]
           x == [pc |-> "ready"]
<1>1. /\ query[p].pc = "ending"
      /\ query' = [query EXCEPT ![p] = x]
      /\ tx' = [tx EXCEPT ![s] = NoTx]
      /\ UNCHANGED <<tables, released, issued, begun, within, drafted, done>>
  BY DEF ClearTx, history
<1>2. x \in Waiting /\ x.pc = "ready"
  BY DEF Waiting
<1> HIDE DEF x
<1>3. HTypeOK /\ s \in Session
  BY SlotType DEF IInv
<1>4. /\ query'[p] = x
      /\ tx' \in [Session -> [open : BOOLEAN, auto : BOOLEAN, data : TableMap]]
      /\ tx'[s] = NoTx
      /\ \A r \in Session : r # s => tx'[r] = tx[r]
  BY <1>1, <1>3, EmptyType DEF HTypeOK, TypeOK, NoTx
<1>5. HTypeOK'
  BY <1>1, <1>2, <1>3, <1>4
     DEF HTypeOK, TypeOK, Stmt, Waiting, Reading, Selected, Written
<1>6. CommittedOnly'
  BY <1>1 DEF IInv, CommittedOnly
<1>7. s \notin begun /\ p \notin within
  BY <1>1 DEF IInv, Agrees
<1>8. Agrees(p)' /\ SelectedOwn(p)' /\ DraftOwn(s)'
  <2>1. DOMAIN tx'[s].data = {} /\ ~tx'[s].open
    BY <1>4, EmptyType DEF NoTx
  <2>2. Agrees(p)' /\ SelectedOwn(p)'
    BY <1>1, <1>2, <1>4, <1>7, <2>1 DEF Agrees, SelectedOwn
  <2>3. DraftOwn(s)'
    BY <2>1 DEF DraftOwn
  <2> QED
    BY <2>2, <2>3
<1>9. TxAgrees(s)'
  BY <1>1, <1>3, <1>4, <1>7 DEF IInv, TxAgrees, NoTx
<1> QED
  BY <1>1, <1>4, <1>5, <1>6, <1>8, <1>9, OneMoves

LEMMA ReleaseStep ==
  ASSUME IInv, NEW r \in Session, Release(r), UNCHANGED history
  PROVE  IInv'
<1>1. /\ released' = released \cup {r}
      /\ UNCHANGED <<tables, tx, issued, query, begun, within, drafted, done>>
  BY DEF Release, history
<1>2. HTypeOK'
  BY <1>1 DEF IInv, HTypeOK, TypeOK, Stmt, Waiting, Reading, Selected, Written
<1>3. CommittedOnly'
  BY <1>1 DEF IInv, CommittedOnly
<1>4. \A s \in Session : Own(s)' = Own(s) /\ (Ending(s)' <=> Ending(s))
  BY <1>1 DEF Own, Saved, Ending
<1>5. \A p \in Query : Agrees(p)' /\ SelectedOwn(p)'
  BY <1>1, <1>4, ConstantsAssumption DEF IInv, Agrees, SelectedOwn, Within
<1>6. \A s \in Session : TxAgrees(s)' /\ DraftOwn(s)'
  BY <1>1, <1>4 DEF IInv, TxAgrees, DraftOwn, Within
<1> QED
  BY <1>2, <1>3, <1>5, <1>6 DEF IInv

LEMMA StutterStep ==
  ASSUME IInv, UNCHANGED allVars
  PROVE  IInv'
<1>1. UNCHANGED <<tables, tx, released, issued, query, begun, within, drafted, done>>
  BY DEF allVars, vars, history
<1>2. HTypeOK'
  BY <1>1 DEF IInv, HTypeOK, TypeOK, Stmt, Waiting, Reading, Selected, Written
<1>3. CommittedOnly'
  BY <1>1 DEF IInv, CommittedOnly
<1>4. \A p \in Query : Agrees(p)' /\ SelectedOwn(p)'
  BY <1>1 DEF IInv, Agrees, SelectedOwn, Within, Own, Saved
<1>5. \A s \in Session : TxAgrees(s)' /\ DraftOwn(s)'
  BY <1>1 DEF IInv, TxAgrees, DraftOwn, Within, Own, Saved, Ending
<1> QED
  BY <1>2, <1>3, <1>4, <1>5 DEF IInv

LEMMA NextStep ==
  ASSUME OneAtATime, IInv, [HNext]_allVars
  PROVE  IInv'
<1>1. CASE \E p \in Query : HBegin(p)
  BY <1>1, BeginStep
<1>2. CASE \E p \in Query : HCommit(p)
  BY <1>2, CommitStep
<1>3. CASE \E p \in Query : HRollback(p)
  BY <1>3, RollbackStep
<1>4. CASE \E p \in Query, kind \in WriteKinds, t \in Table, keys \in KeySets :
             HIssue(p, kind, t, keys)
  BY <1>4, IssueStep
<1>5. CASE \E p \in Query : HFinish(p)
  BY <1>5, FinishStep
<1>6. CASE \E p \in Query : Insert(p) /\ UNCHANGED history
  BY <1>6, InsertStep
<1>7. CASE \E p \in Query : Select(p) /\ UNCHANGED history
  BY <1>7, SelectStep
<1>8. CASE \E p \in Query : Modify(p) /\ UNCHANGED history
  BY <1>8, ModifyStep
<1>9. CASE \E p \in Query : Fail(p) /\ UNCHANGED history
  BY <1>9, FailStep
<1>10. CASE \E p \in Query : ClearTx(p) /\ UNCHANGED history
  BY <1>10, ClearTxStep
<1>11. CASE \E s \in Session : Release(s) /\ UNCHANGED history
  BY <1>11, ReleaseStep
<1>12. CASE UNCHANGED allVars
  BY <1>12, StutterStep
<1> QED
  BY <1>1, <1>2, <1>3, <1>4, <1>5, <1>6, <1>7, <1>8, <1>9, <1>10, <1>11, <1>12 DEF HNext

-----------------------------------------------------------------------------
LEMMA Invariance ==
  ASSUME OneAtATime
  PROVE  HSpec => []IInv
<1>1. IInv /\ [HNext]_allVars => IInv'
  BY NextStep
<1> QED
  BY <1>1, InitHolds, PTL DEF HSpec

(* An explicit transaction lasts from the answer to BEGIN until its client *)
(* ends it, however its statements end, and whatever other sessions do.    *)
THEOREM BeginAlwaysHolds ==
  ASSUME OneAtATime
  PROVE  HSpec => []BeginHolds
<1>1. IInv => BeginHolds
  BY DEF IInv, BeginHolds, TxAgrees, HTypeOK
<1> QED
  BY <1>1, Invariance, PTL

(* Tables show committed statements only, for any number of sessions that  *)
(* write the same tables at once: nothing of an open transaction, of a     *)
(* failed statement or of one that was rolled back.                        *)
THEOREM OnlyCommittedStored ==
  ASSUME OneAtATime
  PROVE  HSpec => []CommittedOnly
<1>1. IInv => CommittedOnly
  BY DEF IInv
<1> QED
  BY <1>1, Invariance, PTL

(* A session sees, beside committed statements, its own only and only      *)
(* while they may still be committed.                                      *)
THEOREM OnlyOwnWritesSeen ==
  ASSUME OneAtATime
  PROVE  HSpec => []OwnWritesOnly
<1>1. IInv => OwnWritesOnly
  <2> SUFFICES ASSUME IInv, NEW s \in Session, NEW t \in Table,
                      ~Ending(s), HasTable(s, t)
               PROVE  Shown(View(s, t)) \subseteq done \cup drafted[s] \cup Saved(s)
    BY DEF OwnWritesOnly
  <2>1. Within(View(s, t), Own(s))
    BY ViewOwn
  <2> QED
    BY <2>1, ShownWithin DEF Own
<1> QED
  BY <1>1, Invariance, PTL

-----------------------------------------------------------------------------
(* A session may also run several queries at a time: the types are kept and *)
(* no transaction leaks.                                                   *)

TxType == [open : BOOLEAN, auto : BOOLEAN, data : TableMap]

\* A query that will end the autocommit transaction it works in.
Closes(x) == x.pc = "ending" \/ (x.pc # "ready" /\ x.auto)

TInv == HTypeOK /\ NoLeakedTx

LEMMA ViewRows ==
  ASSUME HTypeOK, NEW s \in Session, NEW t \in Table, HasTable(s, t)
  PROVE  View(s, t) \in Rows
<1>1. Place(s, t) \in Owner
  BY DEF Place, Owner
<1>2. t \in DOMAIN tx[s].data => tx[s].data[t] \in Rows
  BY TableMapType DEF HTypeOK, TypeOK
<1>3. tables[Place(s, t)][t] \in Rows
  BY <1>1, TableMapType DEF HTypeOK, TypeOK, HasTable
<1> QED
  BY <1>2, <1>3 DEF View

LEMMA InstallType ==
  ASSUME HTypeOK, NEW s \in Session, Install(s)
  PROVE  tables' \in [Owner -> TableMap]
<1>1. tables' = [o \in Owner |->
        [t \in DOMAIN tables[o] |->
           IF t \in DOMAIN tx[s].data /\ o = Place(s, t)
             THEN tx[s].data[t] ELSE tables[o][t]]]
  BY DEF Install
<1>2. ASSUME NEW o \in Owner PROVE tables'[o] \in TableMap
  <2>1. tables[o] \in TableMap /\ tx[s].data \in TableMap
    BY DEF HTypeOK, TypeOK
  <2>2. /\ DOMAIN tables'[o] = DOMAIN tables[o]
        /\ tables'[o] = [t \in DOMAIN tables'[o] |-> tables'[o][t]]
        /\ \A t \in DOMAIN tables[o] :
             \/ t \in DOMAIN tx[s].data /\ tables'[o][t] = tx[s].data[t]
             \/ tables'[o][t] = tables[o][t]
    BY <1>1
  <2> QED
    BY <2>1, <2>2, TableMapType
<1> QED
  BY <1>1, <1>2

LEMMA TxSaveType ==
  ASSUME HTypeOK, NEW s \in Session, NEW t \in Table, NEW rows \in Rows,
         TxSave(s, t, rows) \/ UNCHANGED tx
  PROVE  /\ tx' \in [Session -> TxType]
         /\ \A r \in Session : tx'[r].open = tx[r].open /\ tx'[r].auto = tx[r].auto
<1>1. tx \in [Session -> TxType]
  BY DEF HTypeOK, TypeOK, TxType
<1>2. With(tx[s].data, t, rows) \in TableMap
  BY <1>1, WithType DEF TxType
<1>3. CASE UNCHANGED tx
  BY <1>1, <1>3
<1>4. CASE tx' = [tx EXCEPT ![s].data = With(@, t, rows)]
  BY <1>1, <1>2, <1>4 DEF TxType
<1> QED
  BY <1>3, <1>4 DEF TxSave

\* A slot takes a step, and the session's transaction is left to one that closes it.
LEMMA SlotStep ==
  ASSUME TInv, NEW p \in Query,
         NEW x \in Waiting \cup Reading \cup Selected \cup Written,
         query' = [query EXCEPT ![p] = x],
         tables' \in [Owner -> TableMap], tx' \in [Session -> TxType],
         released' = released, issued' \in [Session -> 0..MaxStmt],
         begun' \subseteq Session, within' \subseteq Query,
         drafted' \in [Session -> SUBSET Stmt], done' \subseteq Stmt,
         \A r \in Session \ {SessionOf[p]} :
           tx'[r].open /\ tx'[r].auto => tx[r].open /\ tx[r].auto,
         tx'[SessionOf[p]].open /\ tx'[SessionOf[p]].auto =>
           \/ Closes(x)
           \/ ~Closes(query[p]) /\ tx[SessionOf[p]].open /\ tx[SessionOf[p]].auto
  PROVE  TInv'
<1>1. HTypeOK
  BY DEF TInv
<1>2. query'[p] = x /\ \A q \in Query \ {p} : query'[q] = query[q]
  BY <1>1 DEF HTypeOK, TypeOK
<1>3. HTypeOK'
  BY <1>1 DEF HTypeOK, TypeOK, TxType, Stmt, Waiting, Reading, Selected, Written
<1>4. ASSUME NEW s \in Session, tx'[s].open, tx'[s].auto
      PROVE  \E q \in Query : SessionOf[q] = s /\ Closes(query'[q])
  <2>1. CASE s = SessionOf[p] /\ Closes(x)
    BY <1>2, <2>1
  <2>2. CASE ~(s = SessionOf[p] /\ Closes(x))
    <3>1. tx[s].open /\ tx[s].auto /\ (s = SessionOf[p] => ~Closes(query[p]))
      BY <1>4, <2>2
    <3>2. PICK q \in Query : SessionOf[q] = s /\ Closes(query[q])
      BY <3>1 DEF TInv, NoLeakedTx, Closes
    <3>3. q # p
      BY <3>1, <3>2
    <3> QED
      BY <1>2, <3>2, <3>3
  <2> QED
    BY <2>1, <2>2
<1> QED
  BY <1>3, <1>4 DEF TInv, NoLeakedTx, Closes

LEMMA WaitingSlot ==
  /\ [pc |-> "ready"] \in Waiting /\ [pc |-> "ending"] \in Waiting
  /\ Closes([pc |-> "ending"])
BY DEF Waiting, Closes

LEMMA TxOf ==
  ASSUME HTypeOK, NEW s \in Session
  PROVE  /\ tx \in [Session -> TxType] /\ NoTx \in TxType /\ ~NoTx.open
         /\ [tx EXCEPT ![s] = NoTx] \in [Session -> TxType]
         /\ [tx EXCEPT ![s] = NoTx][s] = NoTx
         /\ \A r \in Session \ {s} : [tx EXCEPT ![s] = NoTx][r] = tx[r]
<1>1. tx \in [Session -> TxType]
  BY DEF HTypeOK, TypeOK, TxType
<1>2. NoTx \in TxType /\ ~NoTx.open
  BY EmptyType DEF NoTx, TxType
<1> QED
  BY <1>1, <1>2

\* A transaction that ends, or is about to.
LEMMA EndTxCloses ==
  ASSUME TInv, NEW p \in Query, NEW keep, EndTx(p, keep), released' = released,
         issued' = issued, begun' \subseteq Session, within' \subseteq Query,
         drafted' \in [Session -> SUBSET Stmt], done' \subseteq Stmt
  PROVE  TInv'
<1> DEFINE s == SessionOf[p]
<1>1. HTypeOK /\ s \in Session
  BY ConstantsAssumption DEF TInv
<1>2. /\ tables \in [Owner -> TableMap] /\ tx \in [Session -> TxType]
      /\ issued \in [Session -> 0..MaxStmt]
  BY <1>1 DEF HTypeOK, TypeOK, TxType
<1>3. CASE query' = [query EXCEPT ![p] = [pc |-> "ending"]] /\ UNCHANGED tx
  <2>1. tables' \in [Owner -> TableMap]
    BY <1>1, <1>2, InstallType DEF EndTx
  <2> QED
    BY <1>2, <1>3, <2>1, WaitingSlot, SlotStep
<1>4. CASE /\ query' = [query EXCEPT ![p] = [pc |-> "ready"]]
           /\ tx' = [tx EXCEPT ![s] = NoTx] /\ UNCHANGED tables
  <2>1. /\ tx' \in [Session -> TxType] /\ ~tx'[s].open
        /\ \A r \in Session \ {s} : tx'[r] = tx[r]
    BY <1>1, <1>4, TxOf
  <2> QED
    BY <1>2, <1>4, <2>1, WaitingSlot, SlotStep
<1> QED
  BY <1>3, <1>4 DEF EndTx

\* The transaction that a query finds or starts.
LEMMA StartKept ==
  ASSUME HTypeOK, NEW s \in Session, NEW a \in BOOLEAN,
         tx' = [tx EXCEPT ![s] = Started(s, a)]
  PROVE  /\ tx' \in [Session -> TxType] /\ tx'[s] = Started(s, a)
         /\ \A r \in Session \ {s} : tx'[r] = tx[r]
         /\ tx'[s].auto \in BOOLEAN
         /\ tx'[s].auto => (tx[s].open /\ tx[s].auto) \/ a
<1>1. tx \in [Session -> TxType]
  BY DEF HTypeOK, TypeOK, TxType
<1>2. /\ Started(s, a) \in TxType
      /\ Started(s, a).auto => (tx[s].open /\ tx[s].auto) \/ a
  BY StartedType DEF TxType
<1> QED
  BY <1>1, <1>2 DEF TxType

LEMMA BeginKeeps == ASSUME TInv, NEW p \in Query, HBegin(p) PROVE TInv'
<1> DEFINE s == SessionOf[p]
<1>1. HTypeOK /\ s \in Session
  BY ConstantsAssumption DEF TInv
<1>2. /\ query[p].pc = "ready" /\ UNCHANGED <<tables, released, issued, query>>
      /\ tx' = [tx EXCEPT ![s] = Started(s, FALSE)]
      /\ begun' = begun \cup {s} /\ UNCHANGED <<within, drafted, done>>
  BY DEF HBegin, Begin, CanIssue
<1>3. /\ tx' \in [Session -> TxType] /\ \A r \in Session \ {s} : tx'[r] = tx[r]
      /\ tx'[s].auto => tx[s].open /\ tx[s].auto
  BY <1>1, <1>2, StartKept
<1>4. query' = [query EXCEPT ![p] = query[p]] /\ ~Closes(query[p])
      /\ query[p] \in Waiting \cup Reading \cup Selected \cup Written
  BY <1>1, <1>2 DEF HTypeOK, TypeOK, Closes
<1>5. /\ tables' \in [Owner -> TableMap] /\ issued' \in [Session -> 0..MaxStmt]
      /\ begun' \subseteq Session /\ within' \subseteq Query
      /\ drafted' \in [Session -> SUBSET Stmt] /\ done' \subseteq Stmt
  BY <1>1, <1>2 DEF HTypeOK, TypeOK
<1> DEFINE x == query[p]
<1>6. /\ x \in Waiting \cup Reading \cup Selected \cup Written
      /\ query' = [query EXCEPT ![p] = x] /\ ~Closes(query[p])
  BY <1>4
<1> HIDE DEF x
<1> QED
  BY <1>2, <1>3, <1>5, <1>6, SlotStep

LEMMA IssueKeeps ==
  ASSUME TInv, NEW p \in Query, NEW kind \in WriteKinds, NEW t \in Table,
         NEW keys \in KeySets, HIssue(p, kind, t, keys)
  PROVE  TInv'
<1> DEFINE s == SessionOf[p]
           id == <<s, issued[s] + 1>>
           x == [pc   |-> "reading",
                 job  |-> [kind |-> kind, tab |-> t, keys |-> keys, id |-> id],
                 auto |-> Started(s, TRUE).auto]
<1>1. HTypeOK /\ s \in Session
  BY ConstantsAssumption DEF TInv
<1>2. /\ query[p].pc = "ready" /\ issued[s] < MaxStmt
      /\ issued' = [issued EXCEPT ![s] = @ + 1]
      /\ query' = [query EXCEPT ![p] = x]
      /\ tx' = [tx EXCEPT ![s] = Started(s, TRUE)]
      /\ within' \subseteq within \cup {p}
      /\ UNCHANGED <<tables, released, begun, drafted, done>>
  BY DEF HIssue, Issue, CanIssue
<1>3. /\ tx' \in [Session -> TxType] /\ tx'[s].auto = Started(s, TRUE).auto
      /\ \A r \in Session \ {s} : tx'[r] = tx[r]
      /\ Started(s, TRUE).auto \in BOOLEAN
  BY <1>1, <1>2, StartKept
<1>4. issued' \in [Session -> 0..MaxStmt] /\ id \in Stmt
  <2>1. issued[s] + 1 \in 1..MaxStmt /\ issued[s] + 1 \in 0..MaxStmt
    BY <1>1, <1>2, ConstantsAssumption DEF HTypeOK, TypeOK
  <2> QED
    BY <1>1, <1>2, <2>1 DEF HTypeOK, TypeOK, Stmt
<1> HIDE DEF id
<1>5. x \in Reading /\ x.pc = "reading" /\ x.auto = Started(s, TRUE).auto
  BY <1>3, <1>4 DEF Reading, Job, KeySets
<1> HIDE DEF x
<1>6. Closes(x) <=> tx'[s].auto
  BY <1>3, <1>5 DEF Closes
<1> QED
  BY <1>1, <1>2, <1>3, <1>4, <1>5, <1>6, SlotStep DEF HTypeOK, TypeOK

\* The function of a statement returns or throws, having saved rows or not.
LEMMA ReturnKeeps ==
  ASSUME TInv, NEW p \in Query, query[p].pc \in {"reading", "selected"}, NEW d \in BOOLEAN,
         Return(p, d), NEW rows \in Rows,
         TxSave(SessionOf[p], query[p].job.tab, rows) \/ UNCHANGED tx,
         UNCHANGED <<tables, released, issued, history>>
  PROVE  TInv'
<1> DEFINE s == SessionOf[p]
           x == [pc |-> "written", job |-> query[p].job, auto |-> query[p].auto, ok |-> d]
<1>1. /\ HTypeOK /\ s \in Session /\ query' = [query EXCEPT ![p] = x]
      /\ UNCHANGED <<tables, released, issued, begun, within, drafted, done>>
  BY ConstantsAssumption DEF TInv, Return, history
<1>2. query[p].job \in Job /\ query[p].job.tab \in Table /\ query[p].auto \in BOOLEAN
  BY <1>1, JobType
<1>3. x \in Written /\ x.pc = "written" /\ x.auto = query[p].auto
  BY <1>2 DEF Written
<1> HIDE DEF x
<1>4. /\ tx' \in [Session -> TxType]
      /\ \A r \in Session : tx'[r].open = tx[r].open /\ tx'[r].auto = tx[r].auto
  BY <1>1, <1>2, TxSaveType
<1>5. Closes(x) <=> Closes(query[p])
  BY <1>2, <1>3 DEF Closes
<1> QED
  BY <1>1, <1>3, <1>4, <1>5, SlotStep DEF HTypeOK, TypeOK

LEMMA InsertKeeps == ASSUME TInv, NEW p \in Query, Insert(p), UNCHANGED history PROVE TInv'
<1> DEFINE s == SessionOf[p]
           job == query[p].job
           rows == View(s, job.tab)
<1>1. /\ HTypeOK /\ s \in Session /\ query[p].pc = "reading" /\ HasTable(s, job.tab)
      /\ TxSave(s, job.tab, Inserted(rows, job)) /\ Return(p, TRUE)
      /\ UNCHANGED <<tables, released, issued>>
  BY ConstantsAssumption DEF TInv, Insert
<1>2. job \in Job /\ job.tab \in Table
  BY <1>1, JobType
<1>3. rows \in Rows
  BY <1>1, <1>2, ViewRows
<1>4. Within(rows, Stmt)
  BY <1>3, RowsType DEF Within
<1> HIDE DEF rows
<1>5. Inserted(rows, job) \in Rows
  BY <1>2, <1>3, <1>4, InsertedRows
<1> QED
  BY <1>1, <1>5, ReturnKeeps

LEMMA ModifyKeeps == ASSUME TInv, NEW p \in Query, Modify(p), UNCHANGED history PROVE TInv'
<1> DEFINE s == SessionOf[p]
           job == query[p].job
           sel == query[p].sel
           rows == View(s, job.tab)
           new == IF job.kind = "update" THEN Updated(rows, sel, job.id)
                                         ELSE Deleted(rows, sel)
<1>1. /\ HTypeOK /\ s \in Session /\ query[p].pc = "selected" /\ HasTable(s, job.tab)
      /\ TxSave(s, job.tab, new) \/ UNCHANGED tx
      /\ Return(p, TRUE) /\ UNCHANGED <<tables, released, issued>>
  BY ConstantsAssumption DEF TInv, Modify
<1>2. job \in Job /\ job.tab \in Table /\ job.id \in Stmt /\ sel \in Rows
  BY <1>1, JobType, SlotType DEF Selected
<1>3. rows \in Rows
  BY <1>1, <1>2, ViewRows
<1>4. Within(rows, Stmt) /\ Within(sel, Stmt)
  BY <1>2, <1>3, RowsType DEF Within
<1>5. Updated(rows, sel, job.id) \in Rows /\ Deleted(rows, sel) \in Rows
  BY <1>2, <1>3, <1>4, UpdatedRows, DeletedRows
<1>6. new \in Rows
  BY <1>5
<1> HIDE DEF new
<1> QED
  BY <1>1, <1>6, ReturnKeeps

LEMMA FailKeeps == ASSUME TInv, NEW p \in Query, Fail(p), UNCHANGED history PROVE TInv'
BY EmptyType, ReturnKeeps DEF Fail

LEMMA SelectKeeps == ASSUME TInv, NEW p \in Query, Select(p), UNCHANGED history PROVE TInv'
<1> DEFINE s == SessionOf[p]
           job == query[p].job
           rows == View(s, job.tab)
           chosen == [k \in job.keys \cap DOMAIN rows |-> rows[k]]
           x == [pc |-> "selected", job |-> job, auto |-> query[p].auto, sel |-> chosen]
<1>1. /\ HTypeOK /\ s \in Session /\ query[p].pc = "reading" /\ HasTable(s, job.tab)
      /\ query' = [query EXCEPT ![p] = x]
      /\ UNCHANGED <<tables, tx, released, issued, begun, within, drafted, done>>
  BY ConstantsAssumption DEF TInv, Select, history
<1>2. job \in Job /\ job.tab \in Table /\ query[p].auto \in BOOLEAN
  BY <1>1, JobType
<1>3. rows \in Rows
  BY <1>1, <1>2, ViewRows
<1>4. chosen \in Rows
  <2>1. /\ DOMAIN chosen = job.keys \cap DOMAIN rows
        /\ chosen = [k \in DOMAIN chosen |-> chosen[k]]
        /\ \A k \in DOMAIN chosen : chosen[k] = rows[k]
    OBVIOUS
  <2>2. DOMAIN rows \subseteq Key /\ \A k \in DOMAIN rows : rows[k] \subseteq Stmt
    BY <1>3, RowsType
  <2> HIDE DEF chosen
  <2> QED
    BY <2>1, <2>2, RowsType
<1> HIDE DEF chosen
<1>5. x \in Selected /\ x.pc = "selected" /\ x.auto = query[p].auto
  BY <1>2, <1>4 DEF Selected
<1> HIDE DEF x
<1>6. Closes(x) <=> Closes(query[p])
  BY <1>1, <1>2, <1>5 DEF Closes
<1> QED
  BY <1>1, <1>5, <1>6, SlotStep DEF HTypeOK, TypeOK, TxType

LEMMA FinishKeeps == ASSUME TInv, NEW p \in Query, HFinish(p) PROVE TInv'
<1> DEFINE s == SessionOf[p]
<1>1. /\ HTypeOK /\ s \in Session /\ query[p].pc = "written"
      /\ UNCHANGED <<released, issued, begun>> /\ within' \subseteq within
  BY ConstantsAssumption DEF TInv, HFinish, Finish
<1>2. query[p].job.id \in Stmt /\ query[p].auto \in BOOLEAN
  BY <1>1, JobType
<1>3. drafted' \in [Session -> SUBSET Stmt] /\ done' \subseteq Stmt
  BY <1>1, <1>2 DEF HFinish, HTypeOK
<1>4. CASE query[p].auto /\ EndTx(p, query[p].ok)
  BY <1>1, <1>3, <1>4, EndTxCloses DEF HTypeOK
<1>5. CASE ~query[p].auto /\ query' = [query EXCEPT ![p] = [pc |-> "ready"]]
           /\ UNCHANGED <<tables, tx>>
  <2>1. ~Closes(query[p])
    BY <1>1, <1>5 DEF Closes
  <2> QED
    BY <1>1, <1>3, <1>5, <2>1, WaitingSlot, SlotStep DEF HTypeOK, TypeOK, TxType
<1> QED
  BY <1>4, <1>5 DEF HFinish, Finish

LEMMA ClearTxKeeps == ASSUME TInv, NEW p \in Query, ClearTx(p), UNCHANGED history PROVE TInv'
<1> DEFINE s == SessionOf[p]
<1>1. /\ HTypeOK /\ s \in Session
      /\ query' = [query EXCEPT ![p] = [pc |-> "ready"]] /\ tx' = [tx EXCEPT ![s] = NoTx]
      /\ UNCHANGED <<tables, released, issued, begun, within, drafted, done>>
  BY ConstantsAssumption DEF TInv, ClearTx, history
<1>2. tx' \in [Session -> TxType] /\ ~tx'[s].open /\ \A r \in Session \ {s} : tx'[r] = tx[r]
  BY <1>1, TxOf
<1> QED
  BY <1>1, <1>2, WaitingSlot, SlotStep DEF HTypeOK, TypeOK

LEMMA EndingKeeps ==
  ASSUME TInv, NEW p \in Query, HCommit(p) \/ HRollback(p)
  PROVE  TInv'
<1>1. /\ EndTx(p, TRUE) \/ EndTx(p, FALSE)
      /\ UNCHANGED <<released, issued, within>> /\ begun' \subseteq begun
  BY DEF HCommit, HRollback, Commit, Rollback
<1>2. HTypeOK /\ SessionOf[p] \in Session
  BY ConstantsAssumption DEF TInv
<1>3. drafted' \in [Session -> SUBSET Stmt] /\ done' \subseteq Stmt
  BY <1>2 DEF HCommit, HRollback, HTypeOK
<1> QED
  BY <1>1, <1>2, <1>3, EndTxCloses DEF HTypeOK

LEMMA TInvariance == HSpec => []TInv
<1>1. HInit => TInv
  <2> SUFFICES ASSUME HInit PROVE TInv
    OBVIOUS
  <2>1. HTypeOK
    BY InitHolds DEF IInv
  <2>2. \A s \in Session : ~tx[s].open
    BY DEF HInit, Init, NoTx
  <2> QED
    BY <2>1, <2>2 DEF TInv, NoLeakedTx
<1>2. ASSUME TInv, [HNext]_allVars PROVE TInv'
  <2>1. CASE \E p \in Query : HBegin(p) \/ HCommit(p) \/ HRollback(p)
    BY <1>2, <2>1, BeginKeeps, EndingKeeps
  <2>2. CASE \E p \in Query, kind \in WriteKinds, t \in Table, keys \in KeySets :
               HIssue(p, kind, t, keys)
    BY <1>2, <2>2, IssueKeeps
  <2>3. CASE \E p \in Query : HFinish(p)
    BY <1>2, <2>3, FinishKeeps
  <2>4. CASE \E p \in Query : (Insert(p) \/ Select(p) \/ Modify(p) \/ Fail(p) \/ ClearTx(p))
                              /\ UNCHANGED history
    BY <1>2, <2>4, InsertKeeps, SelectKeeps, ModifyKeeps, FailKeeps, ClearTxKeeps
  <2>5. CASE (\E s \in Session : Release(s) /\ UNCHANGED history) \/ UNCHANGED allVars
    <3>1. /\ UNCHANGED <<tables, tx, issued, query, begun, within, drafted, done>>
          /\ released' \subseteq released \cup Session
      BY <2>5 DEF Release, allVars, vars, history
    <3> QED
      BY <1>2, <3>1 DEF TInv, NoLeakedTx, HTypeOK, TypeOK, Stmt, Waiting, Reading, Selected,
         Written
  <2> QED
    BY <1>2, <2>1, <2>2, <2>3, <2>4, <2>5 DEF HNext
<1> QED
  BY <1>1, <1>2, PTL DEF HSpec

(* The variables of MemoryTx and the history variables keep their types,   *)
(* the cursor of each query included, however many queries a session runs. *)
THEOREM TypeCorrect == HSpec => []HTypeOK
<1>1. TInv => HTypeOK
  BY DEF TInv
<1> QED
  BY <1>1, TInvariance, PTL

(* NoLeakedTx: a transaction that run() opened for one statement is never   *)
(* left behind.  As long as it is open, a query of its session is under way *)
(* that will commit it or roll it back, also when several queries of the    *)
(* session are under way at a time and the statement fails.                 *)
THEOREM NoTransactionLeaks == HSpec => []NoLeakedTx
<1>1. TInv => NoLeakedTx
  BY DEF TInv
<1> QED
  BY <1>1, TInvariance, PTL

-----------------------------------------------------------------------------
(* The refinement of TxStore *)

\* A table that two sessions write is a temporary table of one of them, so that they
\* write two different tables.
Exclusive ==
  \A r, s \in Session : r # s => Writes[r] \cap Writes[s] \subseteq TempOf[r] \cup TempOf[s]

-----------------------------------------------------------------------------
(* The inductive invariant *)

\* The tables that there are never change.
Domains ==
  \A o \in Owner : DOMAIN tables[o] = IF o = Shared THEN Table ELSE TempOf[o]

\* Statements that have succeeded were issued, those of a transaction by its session.
Names ==
  /\ \A id \in done : id[2] <= issued[id[1]]
  /\ \A s \in Session : \A id \in drafted[s] : id[1] = s /\ id[2] <= issued[s]

\* Selected rows are those that the session still sees.
Current(sel, rows, keys) == sel = [k \in keys \cap DOMAIN rows |-> rows[k]]

\* An autocommit transaction holds what one statement makes of its table, or nothing if
\* that is no change.
OneEffect(data, t, rows, job) ==
  /\ Store!Possible(rows, job)
  /\ \/ data = Empty /\ Store!Effect(rows, job) = rows
     \/ data = With(Empty, t, Store!Effect(rows, job))

\* The statement under way in a slot.
UnderWay(p) ==
  LET s == SessionOf[p]
      me == query[p]
      t == me.job.tab
  IN  me.pc \in {"reading", "selected", "written"} =>
        /\ t \in Writes[s]
        /\ me.job.id = <<s, issued[s]>> /\ me.job.id \notin done \cup drafted[s]
        /\ me.pc = "selected" => /\ me.job.kind \in {"update", "delete"}
                                 /\ Current(me.sel, View(s, t), me.job.keys)
        /\ me.auto /\ me.pc # "written" => tx[s].data = Empty
        /\ me.auto /\ me.pc = "written" /\ me.ok =>
             OneEffect(tx[s].data, t, tables[Place(s, t)][t], me.job)

RInv ==
  /\ IInv
  /\ Domains
  /\ Names
  /\ \A s \in Session : DOMAIN tx[s].data \subseteq Writes[s]
  /\ \A p \in Query : UnderWay(p)

-----------------------------------------------------------------------------
(* Places, rows and effects *)

LEMMA Places ==
  ASSUME HTypeOK, Domains, NEW s \in Session, NEW t \in Table
  PROVE  /\ Place(s, t) = IF t \in TempOf[s] THEN s ELSE Shared
         /\ Place(s, t) = Store!Place(s, t)
         /\ Place(s, t) \in Owner /\ HasTable(s, t)
<1>1. s \in Owner /\ Shared \in Owner /\ s # Shared
  BY ConstantsAssumption DEF Owner
<1>2. DOMAIN tables[s] = TempOf[s] /\ DOMAIN tables[Shared] = Table
  BY <1>1 DEF Domains
<1> QED
  BY <1>1, <1>2 DEF Place, HasTable, Store!Place

\* Two sessions write in different places.
LEMMA Apart ==
  ASSUME HTypeOK, Domains, Exclusive, NEW r \in Session, NEW s \in Session, r # s,
         NEW t \in Writes[r] \cap Writes[s]
  PROVE  Place(r, t) # Place(s, t)
<1>1. t \in Table /\ t \in TempOf[r] \cup TempOf[s]
  BY ConstantsAssumption DEF Exclusive
<1>2. r # Shared /\ s # Shared
  BY ConstantsAssumption
<1> QED
  BY <1>1, <1>2, Places

\* INSERT, UPDATE and DELETE make of the rows what TxStore says.
LEMMA InsertedEffect ==
  ASSUME NEW rows, NEW job \in Job,
         job.kind \in {"insert", "ignore", "replace", "upsert"}
  PROVE  Inserted(rows, job) = Store!Effect(rows, job)
<1> USE DEF Inserted, Store!Effect
<1>1. CASE job.kind \in {"insert", "ignore"}
  <2>1. Inserted(rows, job) = Store!Add(rows, job.keys, job.id)
    BY <1>1 DEF Store!Add
  <2> QED
    BY <1>1, <2>1
<1>2. CASE job.kind = "replace"
  <2>1. Inserted(rows, job) = Store!Overwrite(rows, job.keys, job.id)
    BY <1>2 DEF Store!Overwrite
  <2> QED
    BY <1>2, <2>1
<1>3. CASE job.kind = "upsert"
  <2>1. Inserted(rows, job) = Store!Add(Store!Change(rows, job.keys, job.id), job.keys, job.id)
    BY <1>3 DEF Store!Add, Store!Change
  <2> QED
    BY <1>3, <2>1
<1> QED
  BY <1>1, <1>2, <1>3

LEMMA ModifiedEffect ==
  ASSUME NEW rows \in Rows, NEW sel, NEW job \in Job, job.kind \in {"update", "delete"},
         Current(sel, rows, job.keys)
  PROVE  /\ (IF job.kind = "update" THEN Updated(rows, sel, job.id) ELSE Deleted(rows, sel))
              = Store!Effect(rows, job)
         /\ sel = Empty => Store!Effect(rows, job) = rows
<1>1. DOMAIN sel = job.keys \cap DOMAIN rows /\ \A k \in DOMAIN sel : sel[k] = rows[k]
  BY DEF Current
<1>2. Updated(rows, sel, job.id) = Store!Change(rows, job.keys, job.id)
  BY <1>1 DEF Updated, Store!Change
<1>3. Deleted(rows, sel) = Store!Remove(rows, job.keys)
  BY <1>1 DEF Deleted, Store!Remove
<1>4. ASSUME sel = Empty
      PROVE  Updated(rows, sel, job.id) = rows /\ Deleted(rows, sel) = rows
  <2>1. DOMAIN sel = {} /\ rows = [k \in DOMAIN rows |-> rows[k]]
    BY <1>4, EmptyType, RowsType
  <2> QED
    BY <2>1 DEF Updated, Deleted
<1>5. Store!Effect(rows, job)
        = IF job.kind = "update" THEN Store!Change(rows, job.keys, job.id)
                                 ELSE Store!Remove(rows, job.keys)
  BY DEF Store!Effect
<1> QED
  BY <1>2, <1>3, <1>4, <1>5

LEMMA RInitHolds == HInit => RInv
<1> SUFFICES ASSUME HInit PROVE RInv
  OBVIOUS
<1>1. IInv
  BY InitHolds
<1>2. Domains
  BY DEF Domains, HInit, Init
<1>3. Names
  BY DEF Names, HInit
<1>4. \A s \in Session : DOMAIN tx[s].data = {}
  BY EmptyType DEF HInit, Init, NoTx
<1>5. \A p \in Query : UnderWay(p)
  BY DEF UnderWay, HInit, Init
<1> QED
  BY <1>1, <1>2, <1>3, <1>4, <1>5 DEF RInv

-----------------------------------------------------------------------------
(* What the other sessions see of a step *)

\* The tables that a session writes stay as they are.
Untouched(s) == \A t \in Writes[s] : tables'[Place(s, t)][t] = tables[Place(s, t)][t]

LEMMA InstallElsewhere ==
  ASSUME RInv, Exclusive, NEW s \in Session, Install(s)
  PROVE  /\ Domains'
         /\ \A r \in Session \ {s} : Untouched(r)
<1>1. HTypeOK /\ Domains
  BY DEF RInv, IInv
<1>2. tables' = [o \in Owner |->
        [t \in DOMAIN tables[o] |->
           IF t \in DOMAIN tx[s].data /\ o = Place(s, t)
             THEN tx[s].data[t] ELSE tables[o][t]]]
  BY DEF Install
<1>3. Domains'
  BY <1>1, <1>2 DEF Domains
<1>4. ASSUME NEW r \in Session \ {s}, NEW t \in Writes[r]
      PROVE  tables'[Place(r, t)][t] = tables[Place(r, t)][t]
  <2>1. t \in Table
    BY ConstantsAssumption
  <2>2. Place(r, t) \in Owner /\ t \in DOMAIN tables[Place(r, t)]
    BY <1>1, <2>1, Places DEF HasTable
  <2>3. ~(t \in DOMAIN tx[s].data /\ Place(r, t) = Place(s, t))
    <3>1. t \in DOMAIN tx[s].data => t \in Writes[r] \cap Writes[s]
      BY DEF RInv
    <3> QED
      BY <1>1, <3>1, Apart
  <2> QED
    BY <1>2, <2>2, <2>3
<1> QED
  BY <1>3, <1>4 DEF Untouched

\* A statement under way in another slot is not disturbed.
LEMMA OthersUnderWay ==
  ASSUME OneAtATime, RInv, NEW p \in Query, NEW q \in Query, q # p,
         query'[q] = query[q], HTypeOK', Domains', Untouched(SessionOf[q]),
         tx'[SessionOf[q]] = tx[SessionOf[q]],
         drafted'[SessionOf[q]] = drafted[SessionOf[q]],
         issued'[SessionOf[q]] = issued[SessionOf[q]],
         \A id \in done' \ done : id[1] = SessionOf[p]
  PROVE  UnderWay(q)'
<1> DEFINE s == SessionOf[q]
           t == query[q].job.tab
<1> SUFFICES ASSUME query[q].pc \in {"reading", "selected", "written"} PROVE UnderWay(q)'
  BY DEF UnderWay
<1>1. /\ s \in Session /\ s # SessionOf[p] /\ HTypeOK /\ Domains
      /\ UnderWay(q) /\ t \in Writes[s] /\ t \in Table
  BY ConstantsAssumption DEF OneAtATime, RInv, IInv, UnderWay
<1>2. Place(s, t)' = Place(s, t) /\ tables'[Place(s, t)][t] = tables[Place(s, t)][t]
  <2>1. Place(s, t) = IF t \in TempOf[s] THEN s ELSE Shared
    BY <1>1, Places
  <2>2. s \in Owner /\ Shared # s
    BY <1>1, ConstantsAssumption DEF Owner
  <2>3. DOMAIN tables'[s] = TempOf[s]
    BY <2>2 DEF Domains
  <2>4. Place(s, t)' = IF t \in DOMAIN tables'[s] THEN s ELSE Shared
    BY DEF Place
  <2> QED
    BY <1>1, <2>1, <2>3, <2>4 DEF Untouched
<1>3. View(s, t)' = View(s, t)
  BY <1>2 DEF View
<1>4. query[q].job.id = <<s, issued[s]>> /\ query[q].job.id \notin done'
  BY <1>1 DEF UnderWay
<1> QED
  BY <1>1, <1>2, <1>3, <1>4 DEF UnderWay

LEMMA ROne ==
  ASSUME OneAtATime, Exclusive, RInv, IInv', NEW p \in Query, NEW x,
         query' = [query EXCEPT ![p] = x],
         UNCHANGED tables \/ Install(SessionOf[p]),
         \A r \in Session \ {SessionOf[p]} :
           tx'[r] = tx[r] /\ drafted'[r] = drafted[r] /\ issued'[r] = issued[r],
         DOMAIN tx'[SessionOf[p]].data \subseteq Writes[SessionOf[p]],
         issued[SessionOf[p]] <= issued'[SessionOf[p]],
         \A id \in (done' \ done) \cup (drafted'[SessionOf[p]] \ drafted[SessionOf[p]]) :
           id[1] = SessionOf[p] /\ id[2] <= issued[SessionOf[p]],
         UnderWay(p)'
  PROVE  RInv'
<1> DEFINE s == SessionOf[p]
<1>1. HTypeOK /\ HTypeOK' /\ s \in Session /\ Domains /\ Names
  BY ConstantsAssumption DEF RInv, IInv
<1>2. Domains' /\ \A r \in Session \ {s} : Untouched(r)
  <2>1. CASE UNCHANGED tables
    BY <1>1, <2>1 DEF Domains, Untouched
  <2>2. CASE Install(s)
    BY <1>1, <2>2, InstallElsewhere
  <2> QED
    BY <2>1, <2>2
<1>3. Names'
  <2>1. \A r \in Session : issued[r] \in Nat /\ issued'[r] \in Nat /\ issued[r] <= issued'[r]
    <3>1. \A r \in Session : issued[r] \in 0..MaxStmt /\ issued'[r] \in 0..MaxStmt
      BY <1>1 DEF HTypeOK, TypeOK
    <3>2. \A n \in 0..MaxStmt : n \in Nat /\ n <= n
      BY ConstantsAssumption
    <3> QED
      BY <3>1, <3>2
  <2>2. \A id \in Stmt : id[1] \in Session /\ id[2] \in Nat
    BY ConstantsAssumption DEF Stmt
  <2>3. ASSUME NEW r \in Session, NEW n \in Nat, n <= issued[r] PROVE n <= issued'[r]
    BY <2>1, <2>3
  <2>4. done' \subseteq Stmt /\ \A r \in Session : drafted'[r] \subseteq Stmt
    BY <1>1 DEF HTypeOK, Stmt
  <2>5. ASSUME NEW id \in done' PROVE id[2] <= issued'[id[1]]
    <3>1. id[2] <= issued[id[1]] /\ id[1] \in Session /\ id[2] \in Nat
      BY <1>1, <2>2, <2>4 DEF Names
    <3> QED
      BY <2>3, <3>1
  <2>6. ASSUME NEW r \in Session, NEW id \in drafted'[r] PROVE id[1] = r /\ id[2] <= issued'[r]
    <3>1. id[1] = r /\ id[2] <= issued[r] /\ id[2] \in Nat
      BY <1>1, <2>2, <2>4 DEF Names
    <3> QED
      BY <2>3, <3>1
  <2> QED
    BY <2>5, <2>6 DEF Names
<1>4. \A r \in Session : DOMAIN tx'[r].data \subseteq Writes[r]
  BY DEF RInv
<1>5. ASSUME NEW q \in Query, q # p PROVE UnderWay(q)'
  <2>1. SessionOf[q] \in Session \ {s} /\ query'[q] = query[q]
    BY <1>1, <1>5, SlotMoves, ConstantsAssumption
  <2> QED
    BY <1>1, <1>2, <1>5, <2>1, OthersUnderWay
<1> QED
  BY <1>2, <1>3, <1>4, <1>5 DEF RInv

-----------------------------------------------------------------------------
(* The steps of TxStore, in terms of what the sessions hold *)

DraftOf(s) == IF Explicit(s) THEN tx[s].data ELSE Empty
DraftedOf(s) == drafted[s] \cup (IF Explicit(s) THEN Saved(s) ELSE {})

\* A session's transaction is as it was; nothing that TxStore knows of a session changes.
Kept(s) == /\ Explicit(s)' <=> Explicit(s)
           /\ DraftOf(s)' = DraftOf(s) /\ DraftedOf(s)' = DraftedOf(s)
Same(s) == Kept(s) /\ Undecided(s)' = Undecided(s)

\* What is undecided of the slot of a session.
Pending(x, e) ==
  IF x.pc \in {"reading", "selected", "written"} /\ ~(e /\ x.pc = "written" /\ x.ok)
    THEN {x.job} ELSE {}

LEMMA UndecidedNow ==
  ASSUME OneAtATime, NEW p \in Query
  PROVE  Undecided(SessionOf[p]) = Pending(query[p], Explicit(SessionOf[p]))
<1> DEFINE e == Explicit(SessionOf[p])
           slots == {q \in Query :
                       /\ SessionOf[q] = SessionOf[p]
                       /\ query[q].pc \in {"reading", "selected", "written"}
                       /\ ~(e /\ query[q].pc = "written" /\ query[q].ok)}
<1>1. \A q \in Query : SessionOf[q] = SessionOf[p] => q = p
  BY DEF OneAtATime
<1>2. Undecided(SessionOf[p]) = {query[q].job : q \in slots}
  BY DEF Undecided
<1> HIDE DEF e
<1>3. slots = IF /\ query[p].pc \in {"reading", "selected", "written"}
                 /\ ~(e /\ query[p].pc = "written" /\ query[p].ok) THEN {p} ELSE {}
  BY <1>1
<1>4. {query[q].job : q \in slots} = Pending(query[p], e)
  BY <1>3 DEF Pending
<1> QED
  BY <1>2, <1>4 DEF e

LEMMA UndecidedMoves ==
  ASSUME OneAtATime, HTypeOK, NEW p \in Query, NEW x, query' = [query EXCEPT ![p] = x]
  PROVE  /\ Undecided(SessionOf[p])' = Pending(x, Explicit(SessionOf[p])')
         /\ \A r \in Session \ {SessionOf[p]} :
              tx'[r] = tx[r] => Undecided(r)' = Undecided(r)
<1>1. /\ query'[p] = x
      /\ \A q \in Query : q # p => query'[q] = query[q] /\ SessionOf[q] # SessionOf[p]
      /\ \A r \in Session \ {SessionOf[p]} : Ending(r)' <=> Ending(r)
  BY SlotMoves
<1>2. Undecided(SessionOf[p])' = Pending(x, Explicit(SessionOf[p])')
  <2> DEFINE e == Explicit(SessionOf[p])'
             slots == {q \in Query :
                         /\ SessionOf[q] = SessionOf[p]
                         /\ query'[q].pc \in {"reading", "selected", "written"}
                         /\ ~(e /\ query'[q].pc = "written" /\ query'[q].ok)}
  <2>1. Undecided(SessionOf[p])' = {query'[q].job : q \in slots}
    BY DEF Undecided
  <2> HIDE DEF e
  <2>2. slots = IF /\ x.pc \in {"reading", "selected", "written"}
                   /\ ~(e /\ x.pc = "written" /\ x.ok) THEN {p} ELSE {}
    BY <1>1
  <2>3. {query'[q].job : q \in slots} = Pending(x, e)
    BY <1>1, <2>2 DEF Pending
  <2> QED
    BY <2>1, <2>3 DEF e
<1>3. ASSUME NEW r \in Session \ {SessionOf[p]}, tx'[r] = tx[r]
      PROVE  Undecided(r)' = Undecided(r)
  <2> DEFINE e == Explicit(r)
             slots == {q \in Query :
                         /\ SessionOf[q] = r
                         /\ query[q].pc \in {"reading", "selected", "written"}
                         /\ ~(e /\ query[q].pc = "written" /\ query[q].ok)}
             later == {q \in Query :
                         /\ SessionOf[q] = r
                         /\ query'[q].pc \in {"reading", "selected", "written"}
                         /\ ~(e /\ query'[q].pc = "written" /\ query'[q].ok)}
  <2>1. Explicit(r)' <=> e
    BY <1>1, <1>3 DEF Explicit
  <2>2. /\ Undecided(r) = {query[q].job : q \in slots}
        /\ Undecided(r)' = {query'[q].job : q \in later}
    BY <2>1 DEF Undecided
  <2> HIDE DEF e
  <2>3. \A q \in Query : SessionOf[q] = r => query'[q] = query[q]
    BY <1>1, <1>3
  <2>4. slots = later
    BY <2>3
  <2> QED
    BY <2>2, <2>3, <2>4
<1> QED
  BY <1>2, <1>3

LEMMA Held ==
  ASSUME NEW s \in Session
  PROVE  /\ Explicit(s) => DraftOf(s) = tx[s].data /\ DraftedOf(s) = drafted[s] \cup Saved(s)
         /\ ~Explicit(s) => DraftOf(s) = Empty /\ DraftedOf(s) = drafted[s]
         /\ Explicit(s)' =>
              DraftOf(s)' = tx'[s].data /\ DraftedOf(s)' = drafted'[s] \cup Saved(s)'
         /\ ~Explicit(s)' => DraftOf(s)' = Empty /\ DraftedOf(s)' = drafted'[s]
BY DEF DraftOf, DraftedOf

\* A session whose transaction is as it was, open or not, with what it holds.
LEMMA KeptIf ==
  ASSUME NEW s \in Session, drafted'[s] = drafted[s],
         \/ ~Explicit(s) /\ ~Explicit(s)'
         \/ tx'[s] = tx[s] /\ (Ending(s)' <=> Ending(s)) /\ Saved(s)' = Saved(s)
  PROVE  Kept(s)
<1>1. CASE ~Explicit(s) /\ ~Explicit(s)'
  BY <1>1, Held DEF Kept
<1>2. CASE tx'[s] = tx[s] /\ (Ending(s)' <=> Ending(s)) /\ Saved(s)' = Saved(s)
  <2>1. Explicit(s)' <=> Explicit(s)
    BY <1>2 DEF Explicit
  <2> QED
    BY <1>2, <2>1, Held DEF Kept
<1> QED
  BY <1>1, <1>2

LEMMA OthersSame ==
  ASSUME OneAtATime, HTypeOK, NEW p \in Query, NEW x, query' = [query EXCEPT ![p] = x],
         \A r \in Session \ {SessionOf[p]} : tx'[r] = tx[r] /\ drafted'[r] = drafted[r]
  PROVE  \A r \in Session \ {SessionOf[p]} : Same(r)
<1> SUFFICES ASSUME NEW r \in Session \ {SessionOf[p]} PROVE Same(r)
  OBVIOUS
<1>1. Saved(r)' = Saved(r) /\ (Ending(r)' <=> Ending(r))
  BY SlotMoves
<1>2. Explicit(r)' <=> Explicit(r)
  BY <1>1 DEF Explicit
<1>3. Undecided(r)' = Undecided(r)
  BY UndecidedMoves
<1> QED
  BY <1>1, <1>2, <1>3 DEF Same, Kept, DraftOf, DraftedOf

LEMMA Stutters ==
  ASSUME UNCHANGED <<tables, done>>, \A r \in Session : Same(r)
  PROVE  UNCHANGED Store!vars
BY DEF Store!vars, Same, Kept, DraftOf, DraftedOf

LEMMA Begins ==
  ASSUME UNCHANGED <<tables, done>>, NEW s \in Session,
         \A r \in Session \ {s} : Same(r), Undecided(s)' = Undecided(s),
         Explicit(s)', DraftOf(s)' = DraftOf(s), DraftedOf(s)' = DraftedOf(s)
  PROVE  Store!Begin(s)
BY DEF Store!Begin, Same, Kept, DraftOf, DraftedOf

LEMMA Asks ==
  ASSUME UNCHANGED <<tables, done>>, NEW s \in Session, NEW job \in Store!Request,
         \A r \in Session \ {s} : Same(r), Kept(s),
         Undecided(s) = {}, Undecided(s)' = {job}
  PROVE  Store!Ask(s)
BY DEF Store!Ask, Same, Kept, DraftOf, DraftedOf

LEMMA Decides ==
  ASSUME NEW s \in Session, NEW job, \A r \in Session \ {s} : Same(r),
         Undecided(s) = {job}, Undecided(s)' = {}
  PROVE  Store!Decide(s, job)
BY DEF Store!Decide, Same

LEMMA Refuses ==
  ASSUME UNCHANGED <<tables, done>>, NEW s \in Session, NEW job,
         \A r \in Session \ {s} : Same(r), Kept(s),
         Undecided(s) = {job}, Undecided(s)' = {}
  PROVE  Store!Refuse(s, job)
BY Decides DEF Store!Refuse, Same, Kept, DraftOf, DraftedOf

LEMMA Drafts ==
  ASSUME UNCHANGED <<tables, done>>, NEW s \in Session, NEW job, NEW rows, NEW new,
         rows = Store!Seen(s, job.tab), new = Store!Effect(rows, job),
         Store!Possible(rows, job), job.id \notin done \cup DraftedOf(s),
         \A r \in Session \ {s} : Same(r), Explicit(s), Explicit(s)',
         Undecided(s) = {job}, Undecided(s)' = {},
         \/ DraftOf(s)' = With(DraftOf(s), job.tab, new)
         \/ new = rows /\ DraftOf(s)' = DraftOf(s),
         DraftedOf(s)' = DraftedOf(s) \cup {job.id}
  PROVE  Store!Draft(s, job)
<1>1. With(DraftOf(s), job.tab, new) = Store!With(DraftOf(s), job.tab, new)
  BY DEF With, Store!With
<1>2. Store!Decide(s, job)
  BY Decides
<1> DEFINE draft == [r \in Session |-> DraftOf(r)]
           names == [r \in Session |-> DraftedOf(r)]
<1>3. names' = [names EXCEPT ![s] = @ \cup {job.id}]
  BY DEF Same, Kept
<1>4. \/ draft' = [draft EXCEPT ![s] = With(@, job.tab, new)]
      \/ new = rows /\ draft' = draft
  BY DEF Same, Kept
<1>5. {r \in Session : Explicit(r)}' = {r \in Session : Explicit(r)}
  BY DEF Same, Kept
<1>6. names[s] = DraftedOf(s) /\ draft[s] = DraftOf(s)
  OBVIOUS
<1> QED
  BY <1>1, <1>2, <1>3, <1>4, <1>5, <1>6 DEF Store!Draft, DraftOf, DraftedOf

LEMMA Stores ==
  ASSUME NEW s \in Session, NEW job, NEW rows,
         rows = Store!Seen(s, job.tab), Store!Possible(rows, job),
         job.id \notin done \cup DraftedOf(s),
         \A r \in Session \ {s} : Same(r), Kept(s), ~Explicit(s),
         Undecided(s) = {job}, Undecided(s)' = {},
         tables' = [tables EXCEPT ![Store!Place(s, job.tab)][job.tab] = Store!Effect(rows, job)],
         done' = done \cup {job.id}
  PROVE  Store!Store(s, job)
<1>1. Store!Decide(s, job)
  BY Decides
<1> QED
  BY <1>1 DEF Store!Store, Same, Kept, DraftOf, DraftedOf

LEMMA CloseOf ==
  ASSUME NEW s \in Session, \A r \in Session \ {s} : Same(r), Explicit(s), ~Explicit(s)',
         drafted'[s] = {}, Undecided(s)' = Undecided(s)
  PROVE  Store!Close(s)
<1>1. DraftOf(s)' = Empty /\ DraftedOf(s)' = {}
  BY DEF DraftOf, DraftedOf
<1>2. Empty = Store!Empty
  BY DEF Empty, Store!Empty
<1> QED
  BY <1>1, <1>2 DEF Store!Close, Same, Kept, DraftOf, DraftedOf

-----------------------------------------------------------------------------
(* Each action keeps the invariant and is a step of TxStore or none *)

Refined == RInv' /\ [Store!Next]_(Store!vars)

LEMMA Now ==
  ASSUME OneAtATime, RInv, NEW p \in Query
  PROVE  /\ HTypeOK /\ Domains /\ SessionOf[p] \in Session /\ tx[SessionOf[p]] \in TxType
         /\ tx \in [Session -> TxType]
         /\ query \in [Query -> Waiting \cup Reading \cup Selected \cup Written]
         /\ Agrees(p) /\ TxAgrees(SessionOf[p]) /\ UnderWay(p)
         /\ DOMAIN tx[SessionOf[p]].data \subseteq Writes[SessionOf[p]]
         /\ Saved(SessionOf[p])
              = IF query[p].pc = "written" /\ query[p].ok THEN {query[p].job.id} ELSE {}
         /\ Ending(SessionOf[p]) <=> query[p].pc = "ending"
         /\ query[p].pc \in {"ready", "ending"} => Undecided(SessionOf[p]) = {}
         /\ query[p].pc \in {"reading", "selected"} => Undecided(SessionOf[p]) = {query[p].job}
<1>1. HTypeOK /\ SessionOf[p] \in Session
  BY ConstantsAssumption DEF RInv, IInv
<1>2. tx \in [Session -> TxType]
  BY <1>1 DEF HTypeOK, TypeOK, TxType
<1>3. query \in [Query -> Waiting \cup Reading \cup Selected \cup Written]
  BY <1>1 DEF HTypeOK, TypeOK
<1>4. /\ query[p].pc \in {"ready", "ending"} => Undecided(SessionOf[p]) = {}
      /\ query[p].pc \in {"reading", "selected"} => Undecided(SessionOf[p]) = {query[p].job}
  BY UndecidedNow DEF Pending
<1> QED
  BY <1>1, <1>2, <1>3, <1>4, SlotNow DEF RInv, IInv

LEMMA BeginRefines ==
  ASSUME OneAtATime, Exclusive, RInv, IInv', NEW p \in Query, HBegin(p)
  PROVE  Refined
<1> DEFINE s == SessionOf[p]
<1>1. /\ query[p].pc = "ready" /\ tx' = [tx EXCEPT ![s] = Started(s, FALSE)]
      /\ UNCHANGED <<tables, issued, query, drafted, done>>
  BY DEF HBegin, Begin, CanIssue
<1>2. /\ HTypeOK /\ s \in Session /\ tx \in [Session -> TxType]
      /\ Saved(s) = {} /\ ~Ending(s) /\ DOMAIN tx[s].data \subseteq Writes[s]
  BY <1>1, Now
<1>3. /\ tx'[s] = Started(s, FALSE) /\ \A r \in Session \ {s} : tx'[r] = tx[r]
      /\ Saved(s)' = {} /\ ~Ending(s)'
  BY <1>1, <1>2 DEF Saved, Ending
<1>4. query' = [query EXCEPT ![p] = query[p]]
  BY <1>1, Now
<1>5. \A r \in Session \ {s} : Same(r)
  BY <1>1, <1>2, <1>3, <1>4, OthersSame
<1>6. issued[s] <= issued'[s]
  <2>1. issued[s] \in 0..MaxStmt
    BY <1>2 DEF HTypeOK, TypeOK
  <2> QED
    BY <1>1, <2>1, ConstantsAssumption
<1>7. UnderWay(p)'
  BY <1>1 DEF UnderWay
<1>10. Undecided(s) = {} /\ Undecided(s)' = {}
  BY <1>1, <1>2, <1>4, Now, UndecidedMoves DEF Pending
<1>8. CASE tx[s].open
  <2>1. tx'[s] = tx[s]
    BY <1>3, <1>8 DEF Started
  <2>2. Same(s)
    BY <1>1, <1>2, <1>3, <1>10, <2>1, KeptIf DEF Same
  <2>3. UNCHANGED Store!vars
    BY <1>1, <1>5, <2>2, Stutters
  <2>4. RInv'
    BY <1>1, <1>2, <1>3, <1>4, <1>6, <1>7, <2>1, ROne
  <2> QED
    BY <2>3, <2>4 DEF Refined
<1>9. CASE ~tx[s].open
  <2>1. /\ tx'[s].open /\ ~tx'[s].auto /\ tx'[s].data = Empty
    BY <1>3, <1>9 DEF Started
  <2>2. ~Explicit(s) /\ Explicit(s)'
    BY <1>3, <1>9, <2>1 DEF Explicit
  <2>7. drafted'[s] \cup Saved(s)' = drafted[s]
    BY <1>1, <1>3
  <2>8. DraftOf(s) = Empty /\ DraftedOf(s) = drafted[s]
    BY <1>2, <2>2, Held
  <2>9. DraftOf(s)' = tx'[s].data /\ DraftedOf(s)' = drafted'[s] \cup Saved(s)'
    BY <1>2, <2>2, Held
  <2>3. DraftOf(s)' = DraftOf(s) /\ DraftedOf(s)' = DraftedOf(s)
    BY <2>1, <2>7, <2>8, <2>9
  <2>4. Store!Begin(s)
    BY <1>1, <1>2, <1>5, <1>10, <2>2, <2>3, Begins
  <2>5. DOMAIN tx'[s].data \subseteq Writes[s]
    BY <2>1, EmptyType
  <2>6. RInv'
    BY <1>1, <1>2, <1>3, <1>4, <1>6, <1>7, <2>5, ROne
  <2> QED
    BY <1>2, <2>4, <2>6 DEF Refined, Store!Next
<1> QED
  BY <1>8, <1>9

LEMMA IssueRefines ==
  ASSUME OneAtATime, Exclusive, RInv, IInv', NEW p \in Query, NEW kind \in WriteKinds,
         NEW t \in Table, NEW keys \in KeySets, HIssue(p, kind, t, keys)
  PROVE  Refined
<1> DEFINE s == SessionOf[p]
           id == <<s, issued[s] + 1>>
           job == [kind |-> kind, tab |-> t, keys |-> keys, id |-> id]
           x == [pc |-> "reading", job |-> job, auto |-> Started(s, TRUE).auto]
<1>1. /\ query[p].pc = "ready" /\ t \in Writes[s]
      /\ issued' = [issued EXCEPT ![s] = @ + 1]
      /\ query' = [query EXCEPT ![p] = x]
      /\ tx' = [tx EXCEPT ![s] = Started(s, TRUE)]
      /\ UNCHANGED <<tables, drafted, done>>
  BY DEF HIssue, Issue, CanIssue
<1>2. /\ HTypeOK /\ s \in Session /\ tx \in [Session -> TxType] /\ Agrees(p) /\ TxAgrees(s)
      /\ Saved(s) = {} /\ ~Ending(s) /\ DOMAIN tx[s].data \subseteq Writes[s]
  BY <1>1, Now
<1>3. /\ x.pc = "reading" /\ x.job = job /\ x.job.tab = t /\ x.job.id = id /\ x.auto = Started(s, TRUE).auto
  OBVIOUS
<1> HIDE DEF x
<1>4. /\ tx'[s] = Started(s, TRUE) /\ \A r \in Session \ {s} : tx'[r] = tx[r]
      /\ query'[p] = x /\ Saved(s)' = {} /\ ~Ending(s)'
  <2>1. tx'[s] = Started(s, TRUE) /\ \A r \in Session \ {s} : tx'[r] = tx[r]
    BY <1>1, <1>2
  <2>2. /\ query'[p] = x
        /\ Saved(s)' = IF x.pc = "written" /\ x.ok THEN {x.job.id} ELSE {}
        /\ Ending(s)' <=> x.pc = "ending"
    BY <1>1, <1>2, SlotMoves
  <2> QED
    BY <2>1, <2>2, <1>3
<1>5. \A r \in Session \ {s} : Same(r)
  BY <1>1, <1>2, <1>4, OthersSame
<1>6. /\ issued[s] \in Nat /\ issued'[s] = issued[s] + 1
      /\ \A r \in Session \ {s} : issued'[r] = issued[r]
  <2>1. issued \in [Session -> 0..MaxStmt]
    BY <1>2 DEF HTypeOK, TypeOK
  <2>2. issued[s] \in Nat
    BY <1>2, <2>1, ConstantsAssumption
  <2> QED
    BY <1>1, <1>2, <2>1, <2>2
<1>7. /\ Kept(s) /\ DOMAIN tx'[s].data \subseteq Writes[s]
      /\ tx'[s].auto => tx'[s].data = Empty
  <2>1. CASE tx[s].open
    <3>1. tx'[s] = tx[s]
      BY <1>4, <2>1 DEF Started
    <3>2. ~tx[s].auto
      BY <1>1, <1>2, <2>1 DEF Agrees, TxAgrees
    <3> QED
      BY <1>1, <1>2, <1>4, <3>1, <3>2, KeptIf
  <2>2. CASE ~tx[s].open
    <3>1. tx'[s].auto /\ tx'[s].data = Empty
      BY <1>4, <2>2 DEF Started
    <3>2. ~Explicit(s) /\ ~Explicit(s)'
      BY <2>2, <3>1 DEF Explicit
    <3> QED
      BY <1>1, <1>2, <3>1, <3>2, EmptyType, KeptIf
  <2> QED
    BY <2>1, <2>2
<1>9. id \notin done \cup drafted[s]
  <2>1. Names
    BY DEF RInv
  <2>2. ~(issued[s] + 1 <= issued[s])
    BY <1>6
  <2>3. id[1] = s /\ id[2] = issued[s] + 1
    OBVIOUS
  <2> QED
    BY <1>2, <2>1, <2>2, <2>3 DEF Names
<1>8. Store!Next
  <2>1. issued'[s] \in 1..MaxStmt
    <3>1. issued'[s] \in 0..MaxStmt
      BY <1>2 DEF IInv, HTypeOK, TypeOK
    <3> QED
      BY <1>6, <3>1, ConstantsAssumption
  <2>2. id \in Stmt
    BY <1>2, <1>6, <2>1 DEF Stmt
  <2>3. job \in Store!Request
    BY <2>2 DEF Store!Request, WriteKinds, KeySets
  <2>4. Undecided(s) = {} /\ Undecided(s)' = {job}
    BY <1>1, <1>2, <1>3, Now, UndecidedMoves DEF Pending
  <2> HIDE DEF job
  <2>5. Store!Ask(s)
    BY <1>1, <1>2, <1>5, <1>7, <2>3, <2>4, Asks
  <2> QED
    BY <1>2, <2>5 DEF Store!Next
<1>10. UnderWay(p)'
  <2>1. id = <<s, issued'[s]>>
    BY <1>6
  <2> HIDE DEF id
  <2>2. x.auto = tx'[s].auto
    BY <1>3, <1>4
  <2> QED
    BY <1>1, <1>3, <1>4, <1>7, <1>9, <2>1, <2>2 DEF UnderWay
<1>11. RInv'
  <2>1. issued[s] <= issued'[s]
    BY <1>6
  <2> QED
    BY <1>1, <1>4, <1>6, <1>7, <1>10, <2>1, ROne
<1> QED
  BY <1>8, <1>11 DEF Refined

LEMMA Counted ==
  ASSUME HTypeOK, NEW s \in Session
  PROVE  issued[s] \in Nat /\ issued[s] <= issued[s]
<1>1. issued[s] \in 0..MaxStmt
  BY DEF HTypeOK, TypeOK
<1> QED
  BY <1>1, ConstantsAssumption

\* What the end of a transaction does: the slot waits, and the transaction is not explicit.
Ended(p, keep, x) ==
  LET s == SessionOf[p] IN
    /\ query' = [query EXCEPT ![p] = x] /\ x.pc \in {"ready", "ending"}
    /\ \A r \in Session \ {s} : tx'[r] = tx[r]
    /\ ~Explicit(s)' /\ Saved(s)' = {} /\ Undecided(s)' = {}
    /\ DOMAIN tx'[s].data \subseteq Writes[s]
    /\ IF keep THEN Install(s) ELSE UNCHANGED tables
    /\ UnderWay(p)'

LEMMA InstallNothing ==
  ASSUME HTypeOK, NEW s \in Session, tx[s].data = Empty
  PROVE  Install(s) <=> UNCHANGED tables
<1> DEFINE new == [o \in Owner |->
        [t \in DOMAIN tables[o] |->
           IF t \in DOMAIN tx[s].data /\ o = Place(s, t)
             THEN tx[s].data[t] ELSE tables[o][t]]]
<1>1. tables \in [Owner -> TableMap] /\ DOMAIN tx[s].data = {}
  BY EmptyType DEF HTypeOK, TypeOK
<1>2. ASSUME NEW o \in Owner PROVE new[o] = tables[o]
  <2>1. tables[o] = [t \in DOMAIN tables[o] |-> tables[o][t]]
    BY <1>1, TableMapType
  <2> QED
    BY <1>1, <2>1
<1>3. new = tables
  BY <1>1, <1>2
<1> QED
  BY <1>3 DEF Install

LEMMA EndsTx ==
  ASSUME OneAtATime, RInv, NEW p \in Query, query[p].pc \in {"ready", "written"},
         NEW keep \in BOOLEAN, EndTx(p, keep)
  PROVE  \E x : Ended(p, keep, x)
<1> DEFINE s == SessionOf[p]
<1>1. /\ HTypeOK /\ s \in Session /\ tx \in [Session -> TxType]
      /\ DOMAIN tx[s].data \subseteq Writes[s]
  BY Now
<1>2. CASE /\ query' = [query EXCEPT ![p] = [pc |-> "ending"]]
           /\ (IF keep THEN Install(s) ELSE UNCHANGED tables) /\ UNCHANGED tx
  <2> DEFINE x == [pc |-> "ending"]
  <2>1. x.pc = "ending" /\ query' = [query EXCEPT ![p] = x]
    BY <1>2
  <2> HIDE DEF x
  <2>2. Saved(s)' = {} /\ Ending(s)' /\ query'[p] = x
    BY <1>1, <2>1, SlotMoves
  <2>4. Undecided(s)' = {}
    BY <1>1, <2>1, UndecidedMoves DEF Pending
  <2>3. ~Explicit(s)' /\ UnderWay(p)'
    BY <2>1, <2>2 DEF Explicit, UnderWay
  <2> QED
    BY <1>1, <1>2, <2>1, <2>2, <2>3, <2>4 DEF Ended
<1>3. CASE /\ query' = [query EXCEPT ![p] = [pc |-> "ready"]]
           /\ tx[s].data = Empty /\ tx' = [tx EXCEPT ![s] = NoTx] /\ UNCHANGED tables
  <2> DEFINE x == [pc |-> "ready"]
  <2>1. x.pc = "ready" /\ query' = [query EXCEPT ![p] = x]
    BY <1>3
  <2> HIDE DEF x
  <2>2. Saved(s)' = {} /\ query'[p] = x
    BY <1>1, <2>1, SlotMoves
  <2>3. /\ tx'[s] = NoTx /\ \A r \in Session \ {s} : tx'[r] = tx[r]
        /\ DOMAIN tx'[s].data = {}
    BY <1>1, <1>3, EmptyType DEF NoTx
  <2>4. ~Explicit(s)' /\ UnderWay(p)'
    BY <2>1, <2>2, <2>3 DEF Explicit, UnderWay, NoTx
  <2>6. Undecided(s)' = {}
    BY <1>1, <2>1, UndecidedMoves DEF Pending
  <2>5. IF keep THEN Install(s) ELSE UNCHANGED tables
    BY <1>1, <1>3, InstallNothing
  <2> QED
    BY <2>1, <2>2, <2>3, <2>4, <2>5, <2>6 DEF Ended
<1> QED
  BY <1>2, <1>3 DEF EndTx

\* What a session that has no explicit transaction sees is stored.
LEMMA StoreSees ==
  ASSUME HTypeOK, Domains, NEW s \in Session, NEW t \in Table
  PROVE  /\ Explicit(s) => Store!Seen(s, t) = View(s, t)
         /\ ~Explicit(s) => Store!Seen(s, t) = tables[Place(s, t)][t]
<1>1. Place(s, t) = Store!Place(s, t)
  BY Places
<1> QED
  BY <1>1, EmptyType DEF Store!Seen, View

LEMMA CommitRefines ==
  ASSUME OneAtATime, Exclusive, RInv, IInv', NEW p \in Query, HCommit(p)
  PROVE  Refined
<1> DEFINE s == SessionOf[p]
<1>1. /\ query[p].pc = "ready" /\ EndTx(p, TRUE) /\ done' = done \cup drafted[s]
      /\ drafted' = [drafted EXCEPT ![s] = {}] /\ UNCHANGED <<issued, within>>
  BY DEF HCommit, Commit, CanIssue
<1>2. /\ HTypeOK /\ Domains /\ s \in Session /\ tx \in [Session -> TxType]
      /\ Agrees(p) /\ TxAgrees(s) /\ Saved(s) = {} /\ ~Ending(s)
  BY <1>1, Now
<1>3. PICK x : Ended(p, TRUE, x)
  BY <1>1, EndsTx
<1>4. /\ query' = [query EXCEPT ![p] = x] /\ Install(s) /\ ~Explicit(s)'
      /\ \A r \in Session \ {s} : tx'[r] = tx[r]
      /\ DOMAIN tx'[s].data \subseteq Writes[s] /\ UnderWay(p)'
  BY <1>3 DEF Ended
<1>5. drafted'[s] = {} /\ \A r \in Session \ {s} : drafted'[r] = drafted[r]
  BY <1>1, <1>2 DEF HTypeOK
<1>6. \A r \in Session \ {s} : Same(r)
  BY <1>2, <1>4, <1>5, OthersSame
<1>7. RInv'
  <2>1. \A id \in drafted[s] : id[1] = s /\ id[2] <= issued[s]
    BY <1>2 DEF RInv, Names
  <2>2. issued[s] <= issued'[s] /\ \A r \in Session : issued'[r] = issued[r]
    BY <1>1, <1>2, Counted
  <2> QED
    BY <1>1, <1>4, <1>5, <2>1, <2>2, ROne
<1>10. Undecided(s) = {} /\ Undecided(s)' = {}
  BY <1>1, <1>3, Now DEF Ended
<1>8. CASE s \in begun
  <2>1. Explicit(s)
    BY <1>2, <1>8 DEF Explicit, TxAgrees
  <2>2. Store!Close(s)
    BY <1>2, <1>4, <1>5, <1>6, <1>10, <2>1, CloseOf
  <2>3. DraftOf(s) = tx[s].data /\ DraftedOf(s) = drafted[s]
    BY <1>2, <2>1, Held
  <2>4. tables' = [o \in Owner |->
          [t \in DOMAIN tables[o] |->
             IF t \in DOMAIN tx[s].data /\ o = Place(s, t)
               THEN tx[s].data[t] ELSE tables[o][t]]]
    BY <1>4 DEF Install
  <2>5. DOMAIN tables = Owner
    BY <1>2 DEF HTypeOK, TypeOK
  <2>6. ASSUME NEW o \in Owner, NEW t \in DOMAIN tables[o]
        PROVE  (IF t \in DOMAIN tx[s].data /\ o = Place(s, t)
                  THEN tx[s].data[t] ELSE tables[o][t])
                 = (IF o = Store!Place(s, t) THEN Store!Seen(s, t) ELSE tables[o][t])
    <3>1. t \in Table
      BY <1>2, <2>6, ConstantsAssumption DEF Domains, Owner
    <3>2. Place(s, t) = Store!Place(s, t) /\ Store!Seen(s, t) = View(s, t)
      BY <1>2, <2>1, <3>1, Places, StoreSees
    <3> QED
      BY <3>2 DEF View
  <2>7. tables' = [o \in DOMAIN tables |->
          [t \in DOMAIN tables[o] |->
             IF o = Store!Place(s, t) THEN Store!Seen(s, t) ELSE tables[o][t]]]
    BY <2>4, <2>5, <2>6
  <2>8. Store!Commit(s)
    BY <1>1, <1>2, <2>2, <2>3, <2>7 DEF Store!Commit, DraftedOf
  <2> QED
    BY <1>2, <1>7, <2>8 DEF Refined, Store!Next
<1>9. CASE s \notin begun
  <2>1. ~tx[s].open /\ tx[s].data = Empty /\ drafted[s] = {}
    BY <1>1, <1>2, <1>9 DEF Agrees, TxAgrees
  <2>2. UNCHANGED <<tables, done>>
    BY <1>1, <1>2, <1>4, <2>1, InstallNothing
  <2>3. Same(s)
    BY <1>2, <1>4, <1>5, <1>10, <2>1, KeptIf DEF Explicit, Same
  <2>4. UNCHANGED Store!vars
    BY <1>6, <2>2, <2>3, Stutters
  <2> QED
    BY <1>7, <2>4 DEF Refined
<1> QED
  BY <1>8, <1>9

LEMMA RollbackRefines ==
  ASSUME OneAtATime, Exclusive, RInv, IInv', NEW p \in Query, HRollback(p)
  PROVE  Refined
<1> DEFINE s == SessionOf[p]
<1>1. /\ query[p].pc = "ready" /\ EndTx(p, FALSE)
      /\ drafted' = [drafted EXCEPT ![s] = {}] /\ UNCHANGED <<issued, within, done>>
  BY DEF HRollback, Rollback, CanIssue
<1>2. /\ HTypeOK /\ s \in Session /\ tx \in [Session -> TxType]
      /\ Agrees(p) /\ TxAgrees(s) /\ Saved(s) = {} /\ ~Ending(s)
  BY <1>1, Now
<1>3. PICK x : Ended(p, FALSE, x)
  BY <1>1, EndsTx
<1>4. /\ query' = [query EXCEPT ![p] = x] /\ UNCHANGED tables /\ ~Explicit(s)'
      /\ \A r \in Session \ {s} : tx'[r] = tx[r]
      /\ DOMAIN tx'[s].data \subseteq Writes[s] /\ UnderWay(p)'
  BY <1>3 DEF Ended
<1>5. drafted'[s] = {} /\ \A r \in Session \ {s} : drafted'[r] = drafted[r]
  BY <1>1, <1>2 DEF HTypeOK
<1>6. \A r \in Session \ {s} : Same(r)
  BY <1>2, <1>4, <1>5, OthersSame
<1>7. RInv'
  <2>1. issued[s] <= issued'[s] /\ \A r \in Session : issued'[r] = issued[r]
    BY <1>1, <1>2, Counted
  <2> QED
    BY <1>1, <1>4, <1>5, <2>1, ROne
<1>10. Undecided(s) = {} /\ Undecided(s)' = {}
  BY <1>1, <1>3, Now DEF Ended
<1>8. CASE s \in begun
  <2>1. Explicit(s)
    BY <1>2, <1>8 DEF Explicit, TxAgrees
  <2>2. Store!Close(s)
    BY <1>2, <1>4, <1>5, <1>6, <1>10, <2>1, CloseOf
  <2>3. Store!Rollback(s)
    BY <1>1, <1>4, <2>2 DEF Store!Rollback
  <2> QED
    BY <1>2, <1>7, <2>3 DEF Refined, Store!Next
<1>9. CASE s \notin begun
  <2>1. ~tx[s].open /\ drafted[s] = {}
    BY <1>1, <1>2, <1>9 DEF Agrees, TxAgrees
  <2>2. Same(s)
    BY <1>2, <1>4, <1>5, <1>10, <2>1, KeptIf DEF Explicit, Same
  <2>3. UNCHANGED Store!vars
    BY <1>1, <1>4, <1>6, <2>2, Stutters
  <2> QED
    BY <1>7, <2>3 DEF Refined
<1> QED
  BY <1>8, <1>9

\* The names of the statements that a step adds are those of its slot.
LEMMA JobNames ==
  ASSUME OneAtATime, RInv, NEW p \in Query, query[p].pc \in {"reading", "selected", "written"}
  PROVE  LET s == SessionOf[p]
             job == query[p].job
         IN  /\ job \in Job /\ job.tab \in Table /\ job.tab \in Writes[s]
             /\ job.keys \in SUBSET Key
             /\ job.id \in Stmt \ (done \cup drafted[s])
             /\ job.id[1] = s /\ job.id[2] <= issued[s]
             /\ tx[s].open /\ tx[s].auto = query[p].auto /\ query[p].auto \in BOOLEAN
             /\ p \in within <=> ~query[p].auto
             /\ query[p].auto => drafted[s] = {}
<1> DEFINE s == SessionOf[p]
           job == query[p].job
<1>1. /\ HTypeOK /\ s \in Session /\ Agrees(p) /\ TxAgrees(s) /\ UnderWay(p)
  BY Now
<1>2. job \in Job /\ job.tab \in Table /\ job.id \in Stmt /\ query[p].auto \in BOOLEAN
  BY <1>1, JobType
<1>3. job.keys \in SUBSET Key
  BY <1>2 DEF Job
<1>4. /\ tx[s].open /\ tx[s].auto = query[p].auto
      /\ p \in within <=> s \in begun
      /\ query[p].auto <=> s \notin begun
      /\ query[p].auto => drafted[s] = {}
  BY <1>1 DEF Agrees, TxAgrees
<1>5. /\ job.tab \in Writes[s] /\ job.id = <<s, issued[s]>>
      /\ job.id \notin done \cup drafted[s]
  BY <1>1 DEF UnderWay
<1>6. job.id[1] = s /\ job.id[2] <= issued[s]
  BY <1>1, <1>5, Counted
<1> QED
  BY <1>2, <1>3, <1>4, <1>5, <1>6

\* A table that a session writes has new rows.
StoredAs(s, t, rows) == tables' = [tables EXCEPT ![Store!Place(s, t)][t] = rows]

\* The autocommit transaction of one statement is stored as that statement.
LEMMA StoresOne ==
  ASSUME HTypeOK, Domains, NEW s \in Session, NEW t \in Table, NEW job,
         Install(s), OneEffect(tx[s].data, t, tables[Place(s, t)][t], job)
  PROVE  StoredAs(s, t, Store!Effect(tables[Place(s, t)][t], job))
<1> DEFINE o == Place(s, t)
           new == Store!Effect(tables[o][t], job)
<1>1. o \in Owner /\ t \in DOMAIN tables[o] /\ o = Store!Place(s, t)
  BY Places DEF HasTable
<1>2. tables \in [Owner -> TableMap]
  BY DEF HTypeOK, TypeOK
<1>3. /\ tables[o] = [u \in DOMAIN tables[o] |-> tables[o][u]] /\ tables[o][t] \in Rows
  BY <1>1, <1>2, TableMapType
<1>4. CASE tx[s].data = Empty /\ new = tables[o][t]
  <2>1. UNCHANGED tables
    BY <1>4, InstallNothing
  <2>2. tables = [tables EXCEPT ![o][t] = tables[o][t]]
    BY <1>1, <1>2, <1>3
  <2> HIDE DEF o, new
  <2>3. tables' = [tables EXCEPT ![Store!Place(s, t)][t] = new]
    BY <1>1, <1>4, <2>1, <2>2
  <2> QED
    BY <2>3 DEF o, new, StoredAs
<1>5. ASSUME tx[s].data = With(Empty, t, new)
      PROVE  tables' = [tables EXCEPT ![Store!Place(s, t)][t] = new]
  <2> HIDE DEF new
  <2>1. DOMAIN tx[s].data = {t} /\ tx[s].data[t] = new
    BY <1>5, EmptyType DEF With
  <2>2. tables' = [q \in Owner |->
          [u \in DOMAIN tables[q] |->
             IF u \in DOMAIN tx[s].data /\ q = Place(s, u)
               THEN tx[s].data[u] ELSE tables[q][u]]]
    BY DEF Install
  <2>3. ASSUME NEW q \in Owner \ {o}
        PROVE  tables'[q] = tables[q]
    <3>1. tables[q] = [u \in DOMAIN tables[q] |-> tables[q][u]]
      BY <1>2, TableMapType
    <3> QED
      BY <2>1, <2>2, <2>3, <3>1
  <2>4. tables'[o] = [tables[o] EXCEPT ![t] = new]
    BY <1>1, <1>3, <2>1, <2>2
  <2>5. tables' = [tables EXCEPT ![o] = [tables[o] EXCEPT ![t] = new]]
    BY <1>1, <1>2, <2>2, <2>3, <2>4
  <2> QED
    BY <1>1, <2>5
<1> QED
  BY <1>4, <1>5 DEF OneEffect, StoredAs

LEMMA FinishRefines ==
  ASSUME OneAtATime, Exclusive, RInv, IInv', NEW p \in Query, HFinish(p)
  PROVE  Refined
<1> DEFINE s == SessionOf[p]
           job == query[p].job
           won == IF query[p].ok THEN {job.id} ELSE {}
<1>1. query[p].pc = "written" /\ UNCHANGED issued
  BY DEF HFinish, Finish
<1>2. /\ HTypeOK /\ Domains /\ s \in Session /\ tx \in [Session -> TxType]
      /\ UnderWay(p) /\ Saved(s) = won /\ ~Ending(s)
      /\ DOMAIN tx[s].data \subseteq Writes[s]
      /\ Undecided(s) = Pending(query[p], Explicit(s))
  BY <1>1, Now, UndecidedNow
<1>3. /\ job.tab \in Table /\ job.keys \in SUBSET Key /\ job.id \in Stmt \ (done \cup drafted[s])
      /\ job.id[1] = s /\ job.id[2] <= issued[s]
      /\ tx[s].open /\ tx[s].auto = query[p].auto /\ query[p].auto \in BOOLEAN
      /\ p \in within <=> ~query[p].auto
      /\ query[p].auto => drafted[s] = {}
  BY <1>1, JobNames
<1>4. query[p].ok \in BOOLEAN
  BY <1>1, <1>2, SlotType DEF Written
<1>5. issued[s] <= issued'[s] /\ \A r \in Session : issued'[r] = issued[r]
  BY <1>1, <1>2, Counted
<1> HIDE DEF job
<1>6. CASE ~query[p].auto
  <2> DEFINE x == [pc |-> "ready"]
  <2>1. /\ query' = [query EXCEPT ![p] = x] /\ x.pc = "ready"
        /\ drafted' = [drafted EXCEPT ![s] = @ \cup won] /\ UNCHANGED <<tables, tx, done>>
    BY <1>3, <1>6 DEF HFinish, Finish, job
  <2> HIDE DEF x
  <2>2. /\ drafted'[s] = drafted[s] \cup won
        /\ \A r \in Session \ {s} : drafted'[r] = drafted[r] /\ tx'[r] = tx[r]
    BY <1>2, <2>1 DEF HTypeOK
  <2>3. Saved(s)' = {} /\ ~Ending(s)' /\ query'[p] = x
    BY <1>2, <2>1, SlotMoves
  <2>4. \A r \in Session \ {s} : Same(r)
    BY <1>2, <2>1, <2>2, OthersSame
  <2>5. Explicit(s) /\ Explicit(s)'
    BY <1>2, <1>3, <1>6, <2>1, <2>3 DEF Explicit
  <2>6. DraftOf(s) = tx[s].data /\ DraftedOf(s) = drafted[s] \cup won
    BY <1>2, <2>5, Held
  <2>7. DraftOf(s)' = tx'[s].data /\ DraftedOf(s)' = drafted'[s] \cup Saved(s)'
    BY <1>2, <2>5, Held
  <2>8. Kept(s)
    BY <2>1, <2>2, <2>3, <2>5, <2>6, <2>7 DEF Kept
  <2>12. Undecided(s)' = {} /\ Undecided(s) = IF query[p].ok THEN {} ELSE {job}
    BY <1>1, <1>2, <2>1, <2>5, UndecidedMoves DEF Pending, job
  <2>9. Store!Next \/ UNCHANGED Store!vars
    <3>1. CASE query[p].ok
      BY <2>1, <2>4, <2>8, <2>12, <3>1, Stutters DEF Same
    <3>2. CASE ~query[p].ok
      <4>1. Store!Refuse(s, job)
        BY <1>2, <2>1, <2>4, <2>8, <2>12, <3>2, Refuses
      <4> QED
        BY <1>2, <2>12, <3>2, <4>1 DEF Store!Next
    <3> QED
      BY <3>1, <3>2
  <2>10. UnderWay(p)'
    BY <2>1, <2>3 DEF UnderWay
  <2>11. RInv'
    BY <1>2, <1>3, <1>5, <2>1, <2>2, <2>10, ROne
  <2> QED
    BY <2>9, <2>11 DEF Refined
<1>7. CASE query[p].auto
  <2>1. EndTx(p, query[p].ok) /\ done' = done \cup won /\ UNCHANGED drafted
    BY <1>3, <1>7 DEF HFinish, Finish, job
  <2>2. PICK x : Ended(p, query[p].ok, x)
    BY <1>1, <1>4, <2>1, EndsTx
  <2>3. /\ query' = [query EXCEPT ![p] = x] /\ ~Explicit(s)'
        /\ \A r \in Session \ {s} : tx'[r] = tx[r]
        /\ IF query[p].ok THEN Install(s) ELSE UNCHANGED tables
        /\ DOMAIN tx'[s].data \subseteq Writes[s] /\ UnderWay(p)'
    BY <2>2 DEF Ended
  <2>4. ~Explicit(s)
    BY <1>3, <1>7 DEF Explicit
  <2>5. (\A r \in Session \ {s} : Same(r)) /\ Kept(s)
    BY <1>2, <2>1, <2>3, <2>4, OthersSame, KeptIf
  <2>9. Undecided(s) = {job} /\ Undecided(s)' = {}
    BY <1>1, <1>2, <2>2, <2>4 DEF Pending, Ended, job
  <2>6. RInv'
    BY <1>2, <1>3, <1>5, <2>1, <2>3, ROne
  <2>7. CASE ~query[p].ok
    <3>1. Store!Refuse(s, job)
      BY <1>2, <2>1, <2>3, <2>5, <2>7, <2>9, Refuses
    <3> QED
      BY <1>2, <2>6, <2>9, <3>1 DEF Refined, Store!Next
  <2>8. CASE query[p].ok
    <3> DEFINE rows == tables[Place(s, job.tab)][job.tab]
    <3>1. OneEffect(tx[s].data, job.tab, rows, job)
      BY <1>1, <1>7, <1>2, <2>8 DEF UnderWay, job
    <3>2. StoredAs(s, job.tab, Store!Effect(rows, job))
      BY <1>2, <1>3, <2>3, <2>8, <3>1, StoresOne
    <3>3. rows = Store!Seen(s, job.tab)
      BY <1>2, <1>3, <2>4, StoreSees
    <3>4. job.id \notin done \cup DraftedOf(s)
      BY <1>2, <1>3, <2>4, Held
    <3>5. Store!Possible(rows, job)
      BY <3>1 DEF OneEffect
    <3> HIDE DEF rows
    <3>6. Store!Store(s, job)
      BY <1>2, <2>1, <2>4, <2>5, <2>8, <2>9, <3>2, <3>3, <3>4, <3>5, Stores DEF StoredAs
    <3>7. Store!Next
      BY <1>2, <2>9, <3>6 DEF Store!Next
    <3> QED
      BY <2>6, <3>7 DEF Refined
  <2> QED
    BY <2>7, <2>8
<1> QED
  BY <1>3, <1>6, <1>7

\* The function of a statement returns, having made of the rows its session sees what it
\* was asked for, or throws.
LEMMA ReturnRefines ==
  ASSUME OneAtATime, Exclusive, RInv, IInv', NEW p \in Query, NEW d \in BOOLEAN,
         query[p].pc \in {"reading", "selected"}, Return(p, d),
         UNCHANGED <<tables, issued, history>>, NEW new,
         d => /\ Store!Possible(View(SessionOf[p], query[p].job.tab), query[p].job)
              /\ new = Store!Effect(View(SessionOf[p], query[p].job.tab), query[p].job),
         \/ UNCHANGED tx /\ (d => new = View(SessionOf[p], query[p].job.tab))
         \/ d /\ TxSave(SessionOf[p], query[p].job.tab, new)
  PROVE  Refined
<1> DEFINE s == SessionOf[p]
           job == query[p].job
           t == job.tab
           x == [pc |-> "written", job |-> query[p].job, auto |-> query[p].auto, ok |-> d]
<1>1. /\ query' = [query EXCEPT ![p] = x]
      /\ UNCHANGED <<tables, issued, begun, within, drafted, done>>
  BY DEF Return, history
<1>2. x.pc = "written" /\ x.job = job /\ x.auto = query[p].auto /\ x.ok = d
  OBVIOUS
<1> HIDE DEF x
<1>3. /\ HTypeOK /\ Domains /\ s \in Session /\ tx \in [Session -> TxType]
      /\ UnderWay(p) /\ Saved(s) = {} /\ ~Ending(s)
      /\ DOMAIN tx[s].data \subseteq Writes[s]
  BY Now
<1>4. /\ t \in Table /\ t \in Writes[s] /\ job.id \in Stmt \ (done \cup drafted[s])
      /\ tx[s].open /\ tx[s].auto = query[p].auto /\ query[p].auto \in BOOLEAN
      /\ job \in Job
  BY JobNames
<1>5. /\ query'[p] = x /\ ~Ending(s)' /\ Saved(s)' = IF d THEN {job.id} ELSE {}
  <2>1. /\ query'[p] = x /\ ~Ending(s)'
        /\ Saved(s)' = IF x.pc = "written" /\ x.ok THEN {x.job.id} ELSE {}
    BY <1>1, <1>2, <1>3, SlotMoves
  <2> QED
    BY <1>2, <2>1
<1>6. /\ \A r \in Session \ {s} : tx'[r] = tx[r]
      /\ tx'[s].open = tx[s].open /\ tx'[s].auto = tx[s].auto
      /\ \/ tx'[s].data = tx[s].data /\ (d => new = View(s, t))
         \/ d /\ tx'[s].data = With(tx[s].data, t, new)
  <2>1. CASE UNCHANGED tx /\ (d => new = View(s, t))
    BY <2>1
  <2>2. CASE d /\ tx' = [tx EXCEPT ![s].data = With(@, t, new)]
    <3>1. tx'[s] = [tx[s] EXCEPT !.data = With(tx[s].data, t, new)]
      BY <1>3, <2>2
    <3>2. /\ tx'[s].open = tx[s].open /\ tx'[s].auto = tx[s].auto
          /\ tx'[s].data = With(tx[s].data, t, new)
      BY <1>3, <3>1 DEF TxType
    <3>3. \A r \in Session \ {s} : tx'[r] = tx[r]
      BY <1>3, <2>2
    <3> QED
      BY <2>2, <3>2, <3>3
  <2> QED
    BY <1>4, <2>1, <2>2 DEF TxSave
<1>7. DOMAIN tx'[s].data \subseteq Writes[s]
  <2>1. DOMAIN With(tx[s].data, t, new) = DOMAIN tx[s].data \cup {t}
    BY DEF With
  <2> QED
    BY <1>3, <1>4, <1>6, <2>1
<1>8. \A r \in Session \ {s} : Same(r)
  BY <1>1, <1>3, <1>6, OthersSame
<1>9. UnderWay(p)'
  <2>1. job.id = <<s, issued'[s]>> /\ job.id \notin done' \cup drafted'[s]
    BY <1>1, <1>3, <1>4 DEF UnderWay
  <2>2. ASSUME query[p].auto, d
        PROVE  OneEffect(tx'[s].data, t, tables'[Place(s, t)'][t], job)
    <3>1. tx[s].data = Empty
      BY <1>3, <2>2 DEF UnderWay
    <3>2. View(s, t) = tables[Place(s, t)][t]
      BY <3>1, EmptyType DEF View
    <3>3. Place(s, t)' = Place(s, t)
      BY <1>1, <1>2, <1>5 DEF Place
    <3>4. tables'[Place(s, t)'][t] = View(s, t)
      BY <1>1, <3>2, <3>3
    <3>5. Store!Possible(View(s, t), job) /\ new = Store!Effect(View(s, t), job)
      BY <2>2
    <3>6. \/ tx'[s].data = Empty /\ new = View(s, t)
          \/ tx'[s].data = With(Empty, t, new)
      BY <1>6, <2>2, <3>1
    <3> QED
      BY <3>4, <3>5, <3>6 DEF OneEffect
  <2> QED
    BY <1>2, <1>4, <1>5, <2>1, <2>2 DEF UnderWay
<1>10. RInv'
  <2>1. issued[s] <= issued'[s] /\ \A r \in Session : issued'[r] = issued[r]
    BY <1>1, <1>3, Counted
  <2> QED
    BY <1>1, <1>3, <1>6, <1>7, <1>9, <2>1, ROne
<1>13. /\ Undecided(s) = {job}
       /\ Undecided(s)' = IF Explicit(s)' /\ d THEN {} ELSE {job}
  <2>1. Undecided(s)' = Pending(x, Explicit(s)')
    BY <1>1, <1>3, UndecidedMoves
  <2> QED
    BY <1>2, <2>1, Now DEF Pending
<1>11. CASE query[p].auto
  <2>1. Same(s)
    <3>1. ~Explicit(s) /\ ~Explicit(s)'
      BY <1>4, <1>6, <1>11 DEF Explicit
    <3> QED
      BY <1>1, <1>3, <1>13, <3>1, KeptIf DEF Same
  <2>2. UNCHANGED Store!vars
    BY <1>1, <1>8, <2>1, Stutters
  <2> QED
    BY <1>10, <2>2 DEF Refined
<1>12. CASE ~query[p].auto
  <2>1. Explicit(s) /\ Explicit(s)'
    BY <1>3, <1>4, <1>5, <1>6, <1>12 DEF Explicit
  <2>2. DraftOf(s) = tx[s].data /\ DraftedOf(s) = drafted[s]
    BY <1>3, <2>1, Held
  <2>3. DraftOf(s)' = tx'[s].data /\ DraftedOf(s)' = drafted[s] \cup Saved(s)'
    BY <1>1, <1>3, <2>1, Held
  <2>4. CASE ~d
    <3>1. Same(s)
      BY <1>5, <1>6, <1>13, <2>1, <2>2, <2>3, <2>4 DEF Same, Kept
    <3>2. UNCHANGED Store!vars
      BY <1>1, <1>8, <3>1, Stutters
    <3> QED
      BY <1>10, <3>2 DEF Refined
  <2>5. CASE d
    <3>1. PICK j \in Job : j = job
      BY <1>4
    <3> DEFINE rows == View(s, j.tab)
    <3>2. rows = Store!Seen(s, j.tab)
      BY <1>3, <1>4, <2>1, <3>1, StoreSees
    <3>3. DraftedOf(s)' = DraftedOf(s) \cup {j.id} /\ j.id \notin done \cup DraftedOf(s)
      BY <1>4, <1>5, <2>2, <2>3, <2>5, <3>1
    <3>4. \/ DraftOf(s)' = With(DraftOf(s), j.tab, new)
          \/ new = rows /\ DraftOf(s)' = DraftOf(s)
      BY <1>6, <2>2, <2>3, <2>5, <3>1
    <3>5. Store!Possible(rows, j) /\ new = Store!Effect(rows, j)
      BY <2>5, <3>1
    <3>6. Undecided(s) = {j} /\ Undecided(s)' = {}
      BY <1>13, <2>1, <2>5, <3>1
    <3> HIDE DEF s, t, job, rows
    <3>8. Store!Draft(s, j)
      BY <1>1, <1>3, <1>8, <2>1, <3>2, <3>3, <3>4, <3>5, <3>6, Drafts
    <3>7. Store!Next
      BY <1>3, <3>6, <3>8 DEF Store!Next
    <3> QED
      BY <1>10, <3>7 DEF Refined
  <2> QED
    BY <2>4, <2>5
<1> QED
  BY <1>4, <1>11, <1>12

LEMMA InsertRefines ==
  ASSUME OneAtATime, Exclusive, RInv, IInv', NEW p \in Query, Insert(p), UNCHANGED history
  PROVE  Refined
<1> DEFINE s == SessionOf[p]
           job == query[p].job
           rows == View(s, job.tab)
<1>1. /\ query[p].pc = "reading" /\ job.kind \in {"insert", "ignore", "replace", "upsert"}
      /\ job.kind = "insert" => job.keys \cap DOMAIN rows = {}
      /\ TxSave(s, job.tab, Inserted(rows, job)) /\ Return(p, TRUE)
      /\ UNCHANGED <<tables, issued>>
  BY DEF Insert
<1>2. job \in Job /\ Store!Possible(rows, job)
  BY <1>1, JobNames DEF Store!Possible
<1>3. Inserted(rows, job) = Store!Effect(rows, job)
  BY <1>1, <1>2, InsertedEffect
<1> QED
  BY <1>1, <1>2, <1>3, ReturnRefines

LEMMA ViewTyped ==
  ASSUME OneAtATime, RInv, NEW p \in Query, query[p].pc \in {"reading", "selected"}
  PROVE  View(SessionOf[p], query[p].job.tab) \in Rows
<1>1. HTypeOK /\ Domains /\ SessionOf[p] \in Session /\ query[p].job.tab \in Table
  BY Now, JobNames
<1> QED
  BY <1>1, Places, ViewRows

LEMMA ModifyRefines ==
  ASSUME OneAtATime, Exclusive, RInv, IInv', NEW p \in Query, Modify(p), UNCHANGED history
  PROVE  Refined
<1> DEFINE s == SessionOf[p]
           job == query[p].job
           sel == query[p].sel
           rows == View(s, job.tab)
           new == IF job.kind = "update" THEN Updated(rows, sel, job.id)
                                         ELSE Deleted(rows, sel)
<1>1. /\ query[p].pc = "selected" /\ Return(p, TRUE) /\ UNCHANGED <<tables, issued>>
      /\ IF sel = Empty THEN UNCHANGED tx ELSE TxSave(s, job.tab, new)
  BY DEF Modify
<1>2. /\ job \in Job /\ job.kind \in {"update", "delete"} /\ rows \in Rows
      /\ Current(sel, rows, job.keys)
  BY <1>1, Now, JobNames, ViewTyped DEF UnderWay
<1>3. new = Store!Effect(rows, job) /\ (sel = Empty => new = rows)
  BY <1>2, ModifiedEffect
<1>4. Store!Possible(rows, job)
  BY <1>2 DEF Store!Possible
<1> HIDE DEF new
<1> QED
  BY <1>1, <1>3, <1>4, ReturnRefines

LEMMA FailRefines ==
  ASSUME OneAtATime, Exclusive, RInv, IInv', NEW p \in Query, Fail(p), UNCHANGED history
  PROVE  Refined
<1>1. /\ query[p].pc \in {"reading", "selected"} /\ Return(p, FALSE)
      /\ UNCHANGED <<tables, tx, issued>>
  BY DEF Fail
<1> QED
  BY <1>1, ReturnRefines

LEMMA SelectRefines ==
  ASSUME OneAtATime, Exclusive, RInv, IInv', NEW p \in Query, Select(p), UNCHANGED history
  PROVE  Refined
<1> DEFINE s == SessionOf[p]
           job == query[p].job
           rows == View(s, job.tab)
           chosen == [k \in job.keys \cap DOMAIN rows |-> rows[k]]
           x == [pc |-> "selected", job |-> job, auto |-> query[p].auto, sel |-> chosen]
<1>1. /\ query[p].pc = "reading" /\ job.kind \in {"update", "delete"} /\ query' = [query EXCEPT ![p] = x]
      /\ UNCHANGED <<tables, tx, issued, begun, within, drafted, done>>
  BY DEF Select, history
<1>2. /\ x.pc = "selected" /\ x.job = job /\ x.auto = query[p].auto
      /\ Current(x.sel, rows, job.keys)
  BY DEF Current
<1> HIDE DEF x
<1>3. /\ HTypeOK /\ s \in Session /\ UnderWay(p) /\ Saved(s) = {} /\ ~Ending(s)
      /\ DOMAIN tx[s].data \subseteq Writes[s]
  BY <1>1, Now
<1>4. query'[p] = x /\ Saved(s)' = {} /\ ~Ending(s)'
  BY <1>1, <1>2, <1>3, SlotMoves
<1>5. View(s, job.tab)' = rows
  <2>1. query'[p].job.tab = query[p].job.tab
    BY <1>2, <1>4
  <2> QED
    BY <1>1, <2>1 DEF View, Place
<1>6. UnderWay(p)'
  BY <1>1, <1>2, <1>3, <1>4, <1>5 DEF UnderWay
<1>7. \A r \in Session : Same(r)
  <2>1. \A r \in Session \ {s} : Same(r)
    BY <1>1, <1>3, OthersSame
  <2>2. Undecided(s) = {job} /\ Undecided(s)' = {job}
    BY <1>1, <1>2, <1>3, Now, UndecidedMoves DEF Pending
  <2>3. Same(s)
    BY <1>1, <1>3, <1>4, <2>2, KeptIf DEF Same
  <2> QED
    BY <2>1, <2>3
<1>8. UNCHANGED Store!vars
  BY <1>1, <1>7, Stutters
<1>9. RInv'
  <2>1. issued[s] <= issued'[s]
    BY <1>1, <1>3, Counted
  <2> QED
    BY <1>1, <1>3, <1>6, <2>1, ROne
<1> QED
  BY <1>8, <1>9 DEF Refined

LEMMA ClearTxRefines ==
  ASSUME OneAtATime, Exclusive, RInv, IInv', NEW p \in Query, ClearTx(p), UNCHANGED history
  PROVE  Refined
<1> DEFINE s == SessionOf[p]
           x == [pc |-> "ready"]
<1>1. /\ query[p].pc = "ending" /\ query' = [query EXCEPT ![p] = x] /\ x.pc = "ready"
      /\ tx' = [tx EXCEPT ![s] = NoTx]
      /\ UNCHANGED <<tables, issued, begun, within, drafted, done>>
  BY DEF ClearTx, history
<1> HIDE DEF x
<1>2. /\ HTypeOK /\ s \in Session /\ tx \in [Session -> TxType] /\ Ending(s)
  BY <1>1, Now
<1>3. /\ tx'[s] = NoTx /\ \A r \in Session \ {s} : tx'[r] = tx[r]
      /\ DOMAIN tx'[s].data = {} /\ query'[p] = x
  BY <1>1, <1>2, SlotMoves, EmptyType DEF NoTx
<1>4. ~Explicit(s) /\ ~Explicit(s)'
  BY <1>2, <1>3 DEF Explicit, NoTx
<1>5. \A r \in Session : Same(r)
  <2>1. \A r \in Session \ {s} : Same(r)
    BY <1>1, <1>2, <1>3, OthersSame
  <2>2. Undecided(s) = {} /\ Undecided(s)' = {}
    BY <1>1, <1>2, Now, UndecidedMoves DEF Pending
  <2>3. Same(s)
    BY <1>1, <1>2, <1>4, <2>2, KeptIf DEF Same
  <2> QED
    BY <2>1, <2>3
<1>6. UNCHANGED Store!vars
  BY <1>1, <1>5, Stutters
<1>7. UnderWay(p)'
  BY <1>1, <1>3 DEF UnderWay
<1>8. RInv'
  <2>1. issued[s] <= issued'[s]
    BY <1>1, <1>2, Counted
  <2> QED
    BY <1>1, <1>2, <1>3, <1>7, <2>1, ROne
<1> QED
  BY <1>6, <1>8 DEF Refined

\* Releasing a session changes nothing of this.
LEMMA IdleRefines ==
  ASSUME RInv, IInv', UNCHANGED <<tables, tx, issued, query, begun, within, drafted, done>>
  PROVE  Refined
<1>1. \A p \in Query : UnderWay(p)'
  BY DEF RInv, UnderWay, View, Place
<1>2. Domains' /\ Names' /\ \A s \in Session : DOMAIN tx'[s].data \subseteq Writes[s]
  BY DEF RInv, Domains, Names
<1>3. \A s \in Session : Same(s)
  BY DEF Same, Kept, DraftOf, DraftedOf, Explicit, Ending, Saved, Undecided
<1>4. UNCHANGED Store!vars
  BY <1>3, Stutters
<1> QED
  BY <1>1, <1>2, <1>4 DEF RInv, Refined

LEMMA NextRefines ==
  ASSUME OneAtATime, Exclusive, RInv, [HNext]_allVars
  PROVE  Refined
<1>1. IInv'
  BY NextStep DEF RInv
<1>2. CASE \E p \in Query : HBegin(p) \/ HCommit(p) \/ HRollback(p) \/ HFinish(p)
  BY <1>1, <1>2, BeginRefines, CommitRefines, RollbackRefines, FinishRefines
<1>3. CASE \E p \in Query, kind \in WriteKinds, t \in Table, keys \in KeySets :
             HIssue(p, kind, t, keys)
  BY <1>1, <1>3, IssueRefines
<1>4. CASE \E p \in Query : (Insert(p) \/ Select(p) \/ Modify(p)) /\ UNCHANGED history
  BY <1>1, <1>4, InsertRefines, SelectRefines, ModifyRefines
<1>5. CASE \E p \in Query : (Fail(p) \/ ClearTx(p)) /\ UNCHANGED history
  BY <1>1, <1>5, FailRefines, ClearTxRefines
<1>6. CASE (\E s \in Session : Release(s) /\ UNCHANGED history) \/ UNCHANGED allVars
  <2>1. UNCHANGED <<tables, tx, issued, query, begun, within, drafted, done>>
    BY <1>6 DEF Release, allVars, vars, history
  <2> QED
    BY <1>1, <2>1, IdleRefines
<1> QED
  BY <1>2, <1>3, <1>4, <1>5, <1>6 DEF HNext

LEMMA InitRefines == HInit => Store!Init
<1> SUFFICES ASSUME HInit PROVE Store!Init
  OBVIOUS
<1>1. \A s \in Session : ~Explicit(s)
  BY DEF HInit, Init, Explicit, NoTx
<1>2. Empty = Store!Empty
  BY DEF Empty, Store!Empty
<1>3. \A s \in Session : Undecided(s) = {}
  BY DEF HInit, Init, Undecided
<1> QED
  BY <1>1, <1>2, <1>3 DEF HInit, Init, Store!Init, Owner

(* ImplementsTxStore: as long as each client waits for its answers and no    *)
(* two sessions write the same stored table, every behaviour of the          *)
(* transactions of the memory engine is one of TxStore.  Every statement     *)
(* that succeeds has done what it was asked for, once and whole, to what its *)
(* session sees, the rows that an UPDATE or DELETE has selected before its   *)
(* await included; one that fails has done nothing; a COMMIT publishes all   *)
(* statements of its transaction, a ROLLBACK none; and nothing else changes  *)
(* a table.                                                                  *)
THEOREM TransactionsImplementTxStore ==
  ASSUME OneAtATime, Exclusive
  PROVE  HSpec => ImplementsTxStore
<1>1. HInit => RInv /\ Store!Init
  BY RInitHolds, InitRefines
<1>2. RInv /\ [HNext]_allVars => RInv' /\ [Store!Next]_(Store!vars)
  BY NextRefines DEF Refined
<1> QED
  BY <1>1, <1>2, PTL DEF HSpec, ImplementsTxStore, Store!Spec
=============================================================================
