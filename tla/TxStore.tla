------------------------------- MODULE TxStore -------------------------------
(***************************************************************************)
(* What transactions promise the clients of the memory engine: a client    *)
(* asks for a statement, which either fails and does nothing or succeeds   *)
(* and then has done exactly what was asked for, once and whole, on what   *)
(* its session sees: outside BEGIN ... COMMIT at once for everyone, inside *)
(* for its session until COMMIT publishes all of the transaction or        *)
(* ROLLBACK none of it.  Nothing else changes a table.                     *)
(***************************************************************************)
CONSTANTS
  Session,
  Shared,    \* owner of the tables that are not temporary
  Table, Key,
  Stmt,      \* names of the statements
  TempOf     \* the temporary tables of each session

VARIABLES
  stored,    \* committed rows: keys with the statements that made the row
  draft,     \* tables as the open transaction of a session has changed them
  asked,     \* what each session has asked for and is not yet decided
  open,      \* sessions between BEGIN and COMMIT or ROLLBACK
  drafted,   \* statements that have succeeded in the open transaction
  done       \* statements that have succeeded and are committed

vars == <<stored, draft, asked, open, drafted, done>>

Request ==
  [kind : {"insert", "ignore", "replace", "upsert", "update", "delete"},
   tab : Table, keys : SUBSET Key, id : Stmt]

Empty == [x \in {} |-> x]
Place(s, t) == IF t \in TempOf[s] THEN s ELSE Shared
Seen(s, t) == IF t \in DOMAIN draft[s] THEN draft[s][t] ELSE stored[Place(s, t)][t]
With(f, t, rows) == [u \in DOMAIN f \cup {t} |-> IF u = t THEN rows ELSE f[u]]

Init ==
  /\ stored = [o \in Session \cup {Shared} |->
                 [t \in (IF o = Shared THEN Table ELSE TempOf[o]) |-> Empty]]
  /\ draft = [s \in Session |-> Empty]
  /\ asked = [s \in Session |-> {}]
  /\ open = {}
  /\ drafted = [s \in Session |-> {}]
  /\ done = {}

-----------------------------------------------------------------------------
(* What a statement makes of the rows of its table *)

Add(rows, keys, id) ==
  [k \in DOMAIN rows \cup keys |-> IF k \in DOMAIN rows THEN rows[k] ELSE {id}]

Overwrite(rows, keys, id) ==
  [k \in DOMAIN rows \cup keys |-> IF k \in keys THEN {id} ELSE rows[k]]

Change(rows, keys, id) ==
  [k \in DOMAIN rows |-> IF k \in keys THEN rows[k] \cup {id} ELSE rows[k]]

Remove(rows, keys) == [k \in DOMAIN rows \ keys |-> rows[k]]

Effect(rows, job) ==
  CASE job.kind \in {"insert", "ignore"} -> Add(rows, job.keys, job.id)
    [] job.kind = "replace" -> Overwrite(rows, job.keys, job.id)
    [] job.kind = "upsert" -> Add(Change(rows, job.keys, job.id), job.keys, job.id)
    [] job.kind = "update" -> Change(rows, job.keys, job.id)
    [] job.kind = "delete" -> Remove(rows, job.keys)

\* an INSERT cannot succeed beside a row with its key
Possible(rows, job) == job.kind = "insert" => job.keys \cap DOMAIN rows = {}

-----------------------------------------------------------------------------
Begin(s) ==
  /\ open' = open \cup {s}
  /\ UNCHANGED <<stored, draft, asked, drafted, done>>

\* a client asks for one statement at a time
Ask(s) ==
  /\ asked[s] = {}
  /\ \E job \in asked'[s] \cap Request : asked' = [asked EXCEPT ![s] = {job}]
  /\ UNCHANGED <<stored, draft, open, drafted, done>>

Decide(s, job) ==
  /\ job \in asked[s]
  /\ asked' = [asked EXCEPT ![s] = {}]

Refuse(s, job) ==
  /\ Decide(s, job)
  /\ UNCHANGED <<stored, draft, open, drafted, done>>

\* a statement inside a transaction; one that changes nothing may leave no draft
Draft(s, job) ==
  /\ s \in open /\ job.id \notin done \cup drafted[s]
  /\ Decide(s, job)
  /\ Possible(Seen(s, job.tab), job)
  /\ \/ draft' = [draft EXCEPT ![s] = With(@, job.tab, Effect(Seen(s, job.tab), job))]
     \/ Effect(Seen(s, job.tab), job) = Seen(s, job.tab) /\ UNCHANGED draft
  /\ drafted' = [drafted EXCEPT ![s] = @ \cup {job.id}]
  /\ UNCHANGED <<stored, open, done>>

\* a statement of its own
Store(s, job) ==
  /\ s \notin open /\ job.id \notin done \cup drafted[s]
  /\ Decide(s, job)
  /\ Possible(Seen(s, job.tab), job)
  /\ stored' = [stored EXCEPT ![Place(s, job.tab)][job.tab] = Effect(Seen(s, job.tab), job)]
  /\ done' = done \cup {job.id}
  /\ UNCHANGED <<draft, open, drafted>>

Close(s) ==
  /\ s \in open
  /\ open' = open \ {s}
  /\ draft' = [draft EXCEPT ![s] = Empty]
  /\ drafted' = [drafted EXCEPT ![s] = {}]
  /\ UNCHANGED asked

Commit(s) ==
  /\ Close(s)
  /\ stored' = [o \in DOMAIN stored |->
                  [t \in DOMAIN stored[o] |->
                     IF o = Place(s, t) THEN Seen(s, t) ELSE stored[o][t]]]
  /\ done' = done \cup drafted[s]

Rollback(s) ==
  /\ Close(s)
  /\ UNCHANGED <<stored, done>>

Next ==
  \E s \in Session :
    \/ Begin(s) \/ Commit(s) \/ Rollback(s) \/ Ask(s)
    \/ \E job \in asked[s] : Draft(s, job) \/ Store(s, job) \/ Refuse(s, job)

Spec == Init /\ [][Next]_vars
=============================================================================
