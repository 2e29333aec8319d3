------------------------------ MODULE TxHistory ------------------------------
(***************************************************************************)
(* MemoryTx with what the clients of the sessions know: which transactions *)
(* they have opened and what became of their statements.  No action of     *)
(* MemoryTx reads these variables.  The properties of the memory engine's  *)
(* transactions are stated with them.                                      *)
(***************************************************************************)
EXTENDS MemoryTx

VARIABLES
  begun,    \* sessions whose BEGIN was acknowledged, until COMMIT or ROLLBACK is issued
  within,   \* slots whose statement was issued in such a transaction
  drafted,  \* statements of that transaction that succeeded
  done      \* statements committed: by COMMIT, or successful outside a transaction

history == <<begun, within, drafted, done>>
allVars == <<vars, history>>

\* The types of MemoryTx and of the history.
HTypeOK ==
  /\ TypeOK
  /\ begun \subseteq Session
  /\ within \subseteq Query
  /\ drafted \in [Session -> SUBSET Stmt]
  /\ done \subseteq Stmt

HInit ==
  /\ Init
  /\ begun = {}
  /\ within = {}
  /\ drafted = [s \in Session |-> {}]
  /\ done = {}

HBegin(p) ==
  /\ Begin(p)
  /\ begun' = begun \cup {SessionOf[p]}
  /\ UNCHANGED <<within, drafted, done>>

HCommit(p) ==
  LET s == SessionOf[p] IN
    /\ Commit(p)
    /\ begun' = begun \ {s}
    /\ done' = done \cup drafted[s]
    /\ drafted' = [drafted EXCEPT ![s] = {}]
    /\ UNCHANGED within

HRollback(p) ==
  LET s == SessionOf[p] IN
    /\ Rollback(p)
    /\ begun' = begun \ {s}
    /\ drafted' = [drafted EXCEPT ![s] = {}]
    /\ UNCHANGED <<within, done>>

HIssue(p, kind, t, keys) ==
  /\ Issue(p, kind, t, keys)
  /\ within' = IF SessionOf[p] \in begun THEN within \cup {p} ELSE within
  /\ UNCHANGED <<begun, drafted, done>>

\* the statement succeeds: from now on its session counts on it, or everyone
HFinish(p) ==
  LET s == SessionOf[p]
      won == IF query[p].ok THEN {query[p].job.id} ELSE {}
  IN  /\ Finish(p)
      /\ IF p \in within
           THEN /\ drafted' = [drafted EXCEPT ![s] = @ \cup won]
                /\ UNCHANGED done
           ELSE /\ done' = done \cup won
                /\ UNCHANGED drafted
      /\ within' = within \ {p}
      /\ UNCHANGED begun

HNext ==
  \/ \E p \in Query :
       \/ HBegin(p) \/ HCommit(p) \/ HRollback(p)
       \/ \E kind \in WriteKinds, t \in Table, keys \in KeySets : HIssue(p, kind, t, keys)
       \/ HFinish(p)
       \/ /\ Insert(p) \/ Select(p) \/ Modify(p) \/ Fail(p) \/ ClearTx(p)
          /\ UNCHANGED history
  \/ \E s \in Session : Release(s) /\ UNCHANGED history

HSpec == HInit /\ [][HNext]_allVars

-----------------------------------------------------------------------------
\* the client of a session waits for each answer before its next query
OneAtATime == \A p, q \in Query : SessionOf[p] = SessionOf[q] => p = q

\* the statements whose effect some row shows
Shown(rows) == UNION {rows[k] : k \in DOMAIN rows}

\* After BEGIN was acknowledged the session has an explicit transaction until its
\* client ends it: no autocommitted statement, no rollback after a failed one and
\* no late setTransaction(null) of _txEach took it away.
BeginHolds ==
  \A s \in begun : tx[s].open /\ ~tx[s].auto

\* the statements that have been saved but not acknowledged in a session
Saved(s) ==
  {query[p].job.id : p \in
     {q \in Query : SessionOf[q] = s /\ query[q].pc = "written" /\ query[q].ok}}

\* No table of g_tableMap and no temporary table ever shows a statement that its
\* client has not seen committed: nothing of an open transaction, of a failed
\* statement or of a transaction that was rolled back, whoever else commits.
CommittedOnly ==
  \A o \in Owner : \A t \in DOMAIN tables[o] : Shown(tables[o][t]) \subseteq done

\* _txEach has installed or dropped the data and not yet cleared the transaction
Ending(s) == \E p \in Query : SessionOf[p] = s /\ query[p].pc = "ending"

\* What a session reads shows committed statements and its own of the open
\* transaction, never those of another session's transaction nor what the session
\* itself has rolled back.
OwnWritesOnly ==
  \A s \in Session, t \in Table : ~Ending(s) /\ HasTable(s, t) =>
    Shown(View(s, t)) \subseteq done \cup drafted[s] \cup Saved(s)

\* A transaction that run() opened for one statement ends with that statement: an
\* autocommit transaction never outlives the queries that may still close it, where
\* it would swallow the next BEGIN.
NoLeakedTx ==
  \A s \in Session : tx[s].open /\ tx[s].auto =>
    \E p \in Query :
      /\ SessionOf[p] = s
      /\ query[p].pc = "ending" \/ (query[p].pc # "ready" /\ query[p].auto)

-----------------------------------------------------------------------------
\* Violated when two sessions write one table (run tx_shared): while nothing but
\* INSERT runs, the rows of a committed INSERT stay in the table.
CommittedInsertsStay ==
  \A id \in done : \E o \in Owner : \E t \in DOMAIN tables[o] : id \in Shown(tables[o][t])

-----------------------------------------------------------------------------
Explicit(s) == tx[s].open /\ ~tx[s].auto /\ ~Ending(s)

\* what a session has asked for and is not yet decided: in an explicit transaction a statement
\* is decided when it has saved its rows, otherwise at its end
Undecided(s) ==
  {query[p].job : p \in
     {q \in Query : /\ SessionOf[q] = s /\ query[q].pc \in {"reading", "selected", "written"}
                     /\ ~(Explicit(s) /\ query[q].pc = "written" /\ query[q].ok)}}

Store == INSTANCE TxStore WITH
  stored  <- tables,
  draft   <- [s \in Session |-> IF Explicit(s) THEN tx[s].data ELSE Empty],
  asked   <- [s \in Session |-> Undecided(s)],
  open    <- {s \in Session : Explicit(s)},
  drafted <- [s \in Session |-> drafted[s] \cup (IF Explicit(s) THEN Saved(s) ELSE {})]

\* As long as each client waits for its answers and no two sessions write the same
\* table, the sessions implement TxStore: every acknowledged statement has done to
\* the latest rows what its request asked for, exactly once, a statement that is not
\* acknowledged has done nothing, and commits and rollbacks are whole.
ImplementsTxStore == Store!Spec
=============================================================================
