------------------------------- MODULE MemoryTx -------------------------------
(***************************************************************************)
(* Sessions, their queries and the transactions of the memory engine:      *)
(* src/lib/transaction_manager.ts, src/lib/engine/memory/storage.ts and    *)
(* the INSERT, UPDATE and DELETE handlers as far as they touch them.       *)
(*                                                                         *)
(* The process has one thread: a query runs alone from one await to the    *)
(* next, so an action is what a query does between two awaits.  Between    *)
(* the actions of one query any other query may run, of another session    *)
(* or, because Session.query() starts a query at once, of the same one.    *)
(* The waits are real: an INSERT ... SELECT reads its rows first, from     *)
(* DynamoDB or with SLEEP(), and an explicit transaction stays open        *)
(* between two queries.                                                    *)
(*                                                                         *)
(* A table is the partial function of KeyedTable, which MemoryTable        *)
(* implements; a row is the set of statements whose effect it shows, so    *)
(* that a lost or a resurrected write can be seen in it.                   *)
(***************************************************************************)
EXTENDS Naturals, FiniteSets

CONSTANTS
  Session,
  Shared,      \* owner of the tables in g_tableMap; a session owns its temporary tables
  Query,       \* query slots: each runs one query at a time
  SessionOf,   \* the session whose connection a slot uses
  Table, Key,
  TempOf,      \* the temporary tables each session has created
  Kinds,       \* the statements in use, a subset of WriteKinds
  Writes,      \* the tables each session writes
  MaxStmt      \* bound: writing statements issued per session

WriteKinds == {"insert", "ignore", "replace", "upsert", "update", "delete"}

ASSUME ConstantsAssumption ==
  /\ Shared \notin Session
  /\ SessionOf \in [Query -> Session]
  /\ TempOf \in [Session -> SUBSET Table]
  /\ Writes \in [Session -> SUBSET Table]
  /\ Kinds \subseteq WriteKinds
  /\ MaxStmt \in Nat

VARIABLES
  tables,    \* tables[Shared] is g_tableMap, tables[s] is _tempTableMap of session s
  tx,        \* Session._transaction; its data is the memory engine's TxMap
  released,  \* sessions that have been released
  issued,    \* statements issued by each session, which name the writes
  query      \* the query in each slot: the await it is at and what it remembers

vars == <<tables, tx, released, issued, query>>

Owner == Session \cup {Shared}
Stmt == Session \X (1..MaxStmt)
Rows == UNION {[K -> SUBSET Stmt] : K \in SUBSET Key}
TableMap == UNION {[T -> Rows] : T \in SUBSET Table}
Job == [kind : WriteKinds, tab : Table, keys : SUBSET Key, id : Stmt]

\* auto: isAutoCommit() of the transaction that run() got; sel: the rows that an
\* UPDATE or DELETE has selected; ok: the statement's function returned
Waiting == [pc : {"ready", "ending"}]
Reading == [pc : {"reading"}, job : Job, auto : BOOLEAN]
Selected == [pc : {"selected"}, job : Job, auto : BOOLEAN, sel : Rows]
Written == [pc : {"written"}, job : Job, auto : BOOLEAN, ok : BOOLEAN]

Empty == [x \in {} |-> x]
NoTx == [open |-> FALSE, auto |-> FALSE, data |-> Empty]

\* The types of storage, transactions and queries.
TypeOK ==
  /\ tables \in [Owner -> TableMap]
  /\ tx \in [Session -> [open : BOOLEAN, auto : BOOLEAN, data : TableMap]]
  /\ released \subseteq Session
  /\ issued \in [Session -> 0..MaxStmt]
  /\ query \in [Query -> Waiting \cup Reading \cup Selected \cup Written]

\* CREATE TABLE ... ENGINE=MEMORY and CREATE TEMPORARY TABLE have run
Init ==
  /\ tables = [o \in Owner |->
                 [t \in (IF o = Shared THEN Table ELSE TempOf[o]) |-> Empty]]
  /\ tx = [s \in Session |-> NoTx]
  /\ released = {}
  /\ issued = [s \in Session |-> 0]
  /\ query = [p \in Query |-> [pc |-> "ready"]]

-----------------------------------------------------------------------------
(* storage.ts *)

\* mutant: temporary tables are not looked up
PlaceShared(s, t) == Shared

\* session.getTempTable(database, table) ?? g_tableMap.get(...)
Place(s, t) == IF t \in DOMAIN tables[s] THEN s ELSE Shared

HasTable(s, t) == t \in DOMAIN tables[Place(s, t)]

\* getTable: the stored table with the updates of the session's transaction
View(s, t) ==
  IF t \in DOMAIN tx[s].data THEN tx[s].data[t] ELSE tables[Place(s, t)][t]

\* f with t mapped to rows
With(f, t, rows) == [u \in DOMAIN f \cup {t} |-> IF u = t THEN rows ELSE f[u]]

\* txSaveData: into the transaction the session has now, nowhere if it has none
TxSave(s, t, rows) ==
  tx' = IF tx[s].open THEN [tx EXCEPT ![s].data = With(@, t, rows)] ELSE tx

\* mutant: commit stops after the first entry
InstallFirst(s) ==
  tables' = [o \in Owner |->
    [t \in DOMAIN tables[o] |->
       IF /\ t \in DOMAIN tx[s].data
          /\ t = CHOOSE u \in DOMAIN tx[s].data : TRUE
          /\ o = Place(s, t)
         THEN tx[s].data[t] ELSE tables[o][t]]]

\* commit of the memory engine: updateTableData for every entry of the TxMap
Install(s) ==
  tables' = [o \in Owner |->
    [t \in DOMAIN tables[o] |->
       IF t \in DOMAIN tx[s].data /\ o = Place(s, t)
         THEN tx[s].data[t] ELSE tables[o][t]]]

-----------------------------------------------------------------------------
(* transaction_manager.ts *)

\* startTransaction: the session's transaction if it has one, else a new one
Started(s, auto_commit) ==
  IF tx[s].open THEN tx[s]
  ELSE [open |-> TRUE, auto |-> auto_commit, data |-> Empty]

\* commit (keep) and rollback (~keep) act on the transaction the session has now.
\* With data in it, _txEach awaits the engine before setTransaction(null).
EndTx(p, keep) ==
  LET s == SessionOf[p] IN
    \/ /\ tx[s].data # Empty
       /\ IF keep THEN Install(s) ELSE UNCHANGED tables
       /\ query' = [query EXCEPT ![p] = [pc |-> "ending"]]
       /\ UNCHANGED tx
    \/ /\ tx[s].data = Empty
       /\ tx' = [tx EXCEPT ![s] = NoTx]
       /\ query' = [query EXCEPT ![p] = [pc |-> "ready"]]
       /\ UNCHANGED tables

\* mutant: setTransaction(null) is missing
ClearTxNot(p) ==
  /\ query[p].pc = "ending"
  /\ query' = [query EXCEPT ![p] = [pc |-> "ready"]]
  /\ UNCHANGED <<tables, tx, released, issued>>

\* the await in _txEach is over
ClearTx(p) ==
  /\ query[p].pc = "ending"
  /\ tx' = [tx EXCEPT ![SessionOf[p]] = NoTx]
  /\ query' = [query EXCEPT ![p] = [pc |-> "ready"]]
  /\ UNCHANGED <<tables, released, issued>>

\* Session.query() of a released session only reports an error
CanIssue(p) == query[p].pc = "ready" /\ SessionOf[p] \notin released

\* BEGIN and START TRANSACTION, without an await
Begin(p) ==
  /\ CanIssue(p)
  /\ tx' = [tx EXCEPT ![SessionOf[p]] = Started(SessionOf[p], FALSE)]
  /\ UNCHANGED <<tables, released, issued, query>>

Commit(p) ==
  /\ CanIssue(p)
  /\ EndTx(p, TRUE)
  /\ UNCHANGED <<released, issued>>

\* mutant: rollback calls engine.commit
RollbackCommits(p) ==
  /\ CanIssue(p)
  /\ EndTx(p, TRUE)
  /\ UNCHANGED <<released, issued>>

Rollback(p) ==
  /\ CanIssue(p)
  /\ EndTx(p, FALSE)
  /\ UNCHANGED <<released, issued>>

\* mutant: isAutoCommit() is not asked
FinishAlwaysEnds(p) ==
  /\ query[p].pc = "written"
  /\ EndTx(p, query[p].ok)
  /\ UNCHANGED <<released, issued>>

\* mutant: the catch branch of run() does not roll back
FinishNoRollback(p) ==
  /\ query[p].pc = "written"
  /\ \/ /\ query[p].auto /\ query[p].ok
        /\ EndTx(p, TRUE)
     \/ /\ ~query[p].auto \/ ~query[p].ok
        /\ query' = [query EXCEPT ![p] = [pc |-> "ready"]]
        /\ UNCHANGED <<tables, tx>>
  /\ UNCHANGED <<released, issued>>

\* mutant: the statement of run() is rolled back although it succeeded
FinishRollsBack(p) ==
  /\ query[p].pc = "written"
  /\ \/ query[p].auto /\ EndTx(p, FALSE)
     \/ /\ ~query[p].auto
        /\ query' = [query EXCEPT ![p] = [pc |-> "ready"]]
        /\ UNCHANGED <<tables, tx>>
  /\ UNCHANGED <<released, issued>>

\* the end of run(): commit or rollback if the transaction run() started from
\* was an autocommit one
Finish(p) ==
  /\ query[p].pc = "written"
  /\ \/ /\ query[p].auto
        /\ EndTx(p, query[p].ok)
     \/ /\ ~query[p].auto
        /\ query' = [query EXCEPT ![p] = [pc |-> "ready"]]
        /\ UNCHANGED <<tables, tx>>
  /\ UNCHANGED <<released, issued>>

-----------------------------------------------------------------------------
(* The handlers, up to the first await, to the next ones, and their end *)

Issue(p, kind, t, keys) ==
  LET s == SessionOf[p] IN
    /\ CanIssue(p)
    /\ kind \in Kinds
    /\ t \in Writes[s]
    /\ issued[s] < MaxStmt
    /\ issued' = [issued EXCEPT ![s] = @ + 1]
    /\ query' = [query EXCEPT ![p] =
         [pc   |-> "reading",
          job  |-> [kind |-> kind, tab |-> t, keys |-> keys, id |-> <<s, issued[s] + 1>>],
          auto |-> Started(s, TRUE).auto]]
    /\ tx' = [tx EXCEPT ![s] = Started(s, TRUE)]
    /\ UNCHANGED <<tables, released>>

\* mutant: the transaction of run() is forgotten on the way
ReturnNoAuto(p, done) ==
  query' = [query EXCEPT ![p] =
    [pc |-> "written", job |-> query[p].job, ok |-> done]]

\* the function given to run() has returned (done) or thrown
Return(p, done) ==
  query' = [query EXCEPT ![p] =
    [pc |-> "written", job |-> query[p].job, auto |-> query[p].auto, ok |-> done]]

\* the rows of an INSERT on top of rows: each key is new, ignored, replaced or updated
Inserted(rows, job) ==
  [k \in DOMAIN rows \cup job.keys |->
     IF k \notin job.keys THEN rows[k]
     ELSE IF k \notin DOMAIN rows \/ job.kind = "replace" THEN {job.id}
     ELSE IF job.kind = "upsert" THEN rows[k] \cup {job.id}
     ELSE rows[k]]

\* insertRowList
Insert(p) ==
  LET s == SessionOf[p]
      job == query[p].job
      rows == View(s, job.tab)
  IN  /\ query[p].pc = "reading"
      /\ job.kind \in {"insert", "ignore", "replace", "upsert"}
      /\ HasTable(s, job.tab)
      /\ job.kind = "insert" => job.keys \cap DOMAIN rows = {}
      /\ TxSave(s, job.tab, Inserted(rows, job))
      /\ Return(p, TRUE)
      /\ UNCHANGED <<tables, released, issued>>

\* runSelect: getRowList hands over the row list of the moment; writes replace
\* that list and never modify it
Select(p) ==
  LET s == SessionOf[p]
      job == query[p].job
      rows == View(s, job.tab)
  IN  /\ query[p].pc = "reading"
      /\ job.kind \in {"update", "delete"}
      /\ HasTable(s, job.tab)
      /\ query' = [query EXCEPT ![p] =
           [pc |-> "selected", job |-> job, auto |-> query[p].auto,
            sel |-> [k \in job.keys \cap DOMAIN rows |-> rows[k]]]]
      /\ UNCHANGED <<tables, tx, released, issued>>

\* multipleUpdate: the new cells were computed from the selected rows; a key that
\* is gone is skipped
Updated(rows, sel, id) ==
  [k \in DOMAIN rows |-> IF k \in DOMAIN sel THEN sel[k] \cup {id} ELSE rows[k]]

\* multipleDelete
Deleted(rows, sel) == [k \in DOMAIN rows \ DOMAIN sel |-> rows[k]]

\* _multipleUpdate and _multipleDelete; without selected rows the engine is not called
Modify(p) ==
  LET s == SessionOf[p]
      job == query[p].job
      rows == View(s, job.tab)
      sel == query[p].sel
  IN  /\ query[p].pc = "selected"
      /\ HasTable(s, job.tab)
      /\ IF sel = Empty THEN UNCHANGED tx
         ELSE TxSave(s, job.tab, IF job.kind = "update" THEN Updated(rows, sel, job.id)
                                                        ELSE Deleted(rows, sel))
      /\ Return(p, TRUE)
      /\ UNCHANGED <<tables, released, issued>>

\* the function given to run() throws: a duplicate key, an expression error, a
\* missing table or a failed read; the engine has saved nothing
Fail(p) ==
  /\ query[p].pc \in {"reading", "selected"}
  /\ Return(p, FALSE)
  /\ UNCHANGED <<tables, tx, released, issued>>

\* release, end and destroy: the queries in flight go on
Release(s) ==
  /\ s \notin released
  /\ released' = released \cup {s}
  /\ UNCHANGED <<tables, tx, issued, query>>

-----------------------------------------------------------------------------
KeySets == (SUBSET Key) \ {{}}

Next ==
  \/ \E p \in Query :
       \/ Begin(p) \/ Commit(p) \/ Rollback(p)
       \/ \E kind \in WriteKinds, t \in Table, keys \in KeySets : Issue(p, kind, t, keys)
       \/ Insert(p) \/ Select(p) \/ Modify(p) \/ Fail(p)
       \/ Finish(p) \/ ClearTx(p)
  \/ \E s \in Session : Release(s)

Spec == Init /\ [][Next]_vars
=============================================================================
