--------------------------- MODULE TableCatalog ----------------------------
(***************************************************************************)
(* CREATE TABLE, DROP TABLE and ALTER TABLE of the raw engine on one       *)
(* DynamoDB table: each sends a request and then polls the description of  *)
(* the table (_waitForTable), while DynamoDB works on the request in its   *)
(* own time; and the cache of table descriptions that every session keeps  *)
(* and that INSERT takes the key schema from.                              *)
(*                                                                         *)
(* A request takes effect at DynamoDB (Serve) before its answer arrives    *)
(* (Requested, Altering, Polled, Described); it may fail on either side of *)
(* taking effect (Fail).  gen numbers the tables that have had the name; a *)
(* table's key schema never changes, so gen stands for it.                 *)
(***************************************************************************)
EXTENDS Naturals, FiniteSets

CONSTANTS
  Query,       \* statements that may run at the same time
  Session,
  SessionOf,   \* the session that a query runs on
  Index,       \* names of secondary indexes
  Client,      \* what clients may do in a behaviour: records of the queries that they use,
               \* the kinds of statement that they send, whether requests may fail, and
               \* a bound on the tables created under the name
  MaxGen       \* the largest of these bounds

ASSUME ConstantsAssumption ==
  /\ IsFiniteSet(Query)
  /\ SessionOf \in [Query -> Session]
  /\ MaxGen \in Nat
  /\ Client \subseteq [queries : SUBSET Query,
                       ops : SUBSET {"create", "drop", "add", "remove", "insert"},
                       fails : BOOLEAN, gens : 0..MaxGen]

VARIABLES
  client,   \* the client of this behaviour
  table,    \* the table at DynamoDB: TableStatus, gen, IndexStatus of every index
  cache,    \* _tableCache of each session: the gen described, or 0
  stmt,     \* the statement of every query
  reply,    \* how the last statement of each query ended
  was       \* history: tables and indexes that have been ACTIVE

vars == <<client, table, cache, stmt, reply, was>>

Gen == 1..MaxGen
Busy == {"CREATING", "UPDATING", "DELETING"}
NoIndex == [i \in Index |-> "none"]
NoDescription == [status |-> "none", gen |-> 0, index |-> NoIndex]
Idle == [op |-> "none", at |-> "idle", index |-> CHOOSE i \in Index : TRUE,
         call |-> "", since |-> 0, target |-> 0, result |-> NoDescription]
IndexStatus == {"none", "CREATING", "ACTIVE", "DELETING"}
Description == [status : Busy \cup {"none", "ACTIVE", "in use", "ok"}, gen : 0..MaxGen,
                index : [Index -> IndexStatus]]

\* The types; a table that is gone has no indexes, and one in the making none either.
TypeOK ==
  /\ table \in Description /\ table.status \notin {"in use", "ok"}
  /\ table.status \in {"none", "CREATING"} => table.index = NoIndex
  /\ cache \in [Session -> 0..MaxGen]
  /\ \A q \in Query :
       /\ stmt[q].op \in client.ops \cup {"none"} /\ (stmt[q].op = "none" <=> stmt[q].at = "idle")
       /\ stmt[q].at \in {"idle", "sent", "served", "asleep"}
       /\ stmt[q].result \in Description
       /\ stmt[q].target <= table.gen
  /\ reply \in [Query -> {"ok", "error"}]
  /\ was \in SUBSET (Gen \X (Index \cup {"table"}))

Init ==
  /\ client \in Client
  /\ table = NoDescription
  /\ cache = [s \in Session |-> 0]
  /\ stmt = [q \in Query |-> Idle]
  /\ reply = [q \in Query |-> "ok"]
  /\ was = {}

-----------------------------------------------------------------------------
(* DynamoDB *)

Notice == was' = was \cup
  {<<table'.gen, x>> : x \in {i \in Index : table'.index[i] = "ACTIVE"}
                            \cup (IF table'.status = "ACTIVE" THEN {"table"} ELSE {})}

\* a table in the making or in change becomes ACTIVE, one in deletion disappears
TableSettles ==
  /\ table.status \in Busy
  /\ table' = IF table.status = "DELETING" THEN [NoDescription EXCEPT !.gen = table.gen]
              ELSE [table EXCEPT !.status = "ACTIVE"]
  /\ Notice
  /\ UNCHANGED <<client, cache, stmt, reply>>

\* so does an index, which may take longer than the change of the table
IndexSettles(i) ==
  /\ table.index[i] \in {"CREATING", "DELETING"}
  /\ table.status # "DELETING"
  /\ table' = [table EXCEPT !.index[i] = IF @ = "CREATING" THEN "ACTIVE" ELSE "none"]
  /\ Notice
  /\ UNCHANGED <<client, cache, stmt, reply>>

Refused(status) == [table EXCEPT !.status = status]

\* what a call makes of the table, and its answer
Effect(call, i) ==
  IF call = "create" /\ table.status = "none" THEN
    [table |-> [NoDescription EXCEPT !.status = "CREATING", !.gen = table.gen + 1],
     answer |-> Refused("ok")]
  ELSE IF call = "delete" /\ table.status \in {"ACTIVE", "DELETING"} THEN
    [table |-> [table EXCEPT !.status = "DELETING"], answer |-> Refused("ok")]
  ELSE IF call = "add" /\ table.status = "ACTIVE" /\ table.index[i] = "none" THEN
    [table |-> [table EXCEPT !.status = "UPDATING", !.index[i] = "CREATING"],
     answer |-> Refused("ok")]
  ELSE IF call = "remove" /\ table.status = "ACTIVE" /\ table.index[i] = "ACTIVE" THEN
    [table |-> [table EXCEPT !.status = "UPDATING", !.index[i] = "DELETING"],
     answer |-> Refused("ok")]
  ELSE [table |-> table,
        answer |-> IF call = "describe" THEN table
                   ELSE IF table.status = "none" \/ (call = "remove" /\ table.index[i] = "none")
                   THEN Refused("none") ELSE Refused("in use")]

Serve(q) ==
  /\ stmt[q].at = "sent"
  /\ \E e \in {Effect(stmt[q].call, stmt[q].index)} :
       /\ table' = e.table
       /\ stmt' = [stmt EXCEPT ![q].at = "served", ![q].result = e.answer,
            ![q].target = IF stmt[q].call = "describe" THEN @ ELSE e.table.gen]
  /\ UNCHANGED <<client, cache, reply, was>>

-----------------------------------------------------------------------------
(* The statements *)

Send(q, rec, call) ==
  stmt' = [stmt EXCEPT ![q] =
    [rec EXCEPT !.at = "sent", !.call = call, !.result = NoDescription]]

End(q, how) ==
  /\ stmt' = [stmt EXCEPT ![q] = Idle]
  /\ reply' = [reply EXCEPT ![q] = how]

Uncache(q) == cache' = [cache EXCEPT ![SessionOf[q]] = 0]

\* the first table that the statement may see: the one there is, or the next one
Since == IF table.status = "none" THEN table.gen + 1 ELSE table.gen

\* CREATE and DROP TABLE clear the cache and send their request, ALTER TABLE reads the
\* table first, INSERT takes the description from the cache if it is there
Start(q, op, i) ==
  /\ stmt[q].at = "idle" /\ q \in client.queries /\ op \in client.ops
  /\ op = "create" => table.gen + Cardinality({p \in Query : stmt[p].op = "create"}) < client.gens
  /\ \E me \in {[Idle EXCEPT !.op = op, !.index = i, !.since = Since]} :
       IF op = "insert" /\ cache[SessionOf[q]] # 0
       THEN /\ stmt' = [stmt EXCEPT ![q] = [me EXCEPT !.at = "served", !.call = "cached",
                                                      !.target = cache[SessionOf[q]]]]
            /\ UNCHANGED cache
       ELSE CASE op = "create" -> Send(q, me, "create") /\ Uncache(q)
              [] op = "drop" -> Send(q, me, "delete") /\ Uncache(q)
              [] OTHER -> Send(q, me, "describe") /\ UNCHANGED cache
  /\ UNCHANGED <<client, table, reply, was>>

\* mutant: whatever is described is kept
StoreAlways(q, d) ==
  cache' = [cache EXCEPT ![SessionOf[q]] = IF d.status = "none" THEN @ ELSE d.gen]

\* getTable: the description goes into the cache unless the table is going or gone
Store(q, d) ==
  cache' = [cache EXCEPT ![SessionOf[q]] =
              IF d.status \in {"none", "DELETING"} THEN 0 ELSE d.gen]

\* mutants: a table in deletion, one in the making, or an index is not waited for
UnsettledButDeleting(d, index, i) ==
  d.status \in {"CREATING", "UPDATING"} \/ (index /\ d.index[i] # "ACTIVE")
UnsettledButCreating(d, index, i) ==
  d.status \in {"UPDATING", "DELETING"} \/ (index /\ d.index[i] # "ACTIVE")
UnsettledTable(d, index, i) == d.status \in Busy

\* _waitForTable goes on polling
Unsettled(d, index, i) == d.status \in Busy \/ (index /\ d.index[i] # "ACTIVE")

\* the answer to the request of CREATE or DROP TABLE, or of ALTER TABLE to an index
Requested(q) == \E me \in {stmt[q]} :
  /\ me.at = "served" /\ me.call \notin {"describe", "cached"}
  /\ IF me.call \in {"create", "delete"} THEN Uncache(q) ELSE UNCHANGED cache
  /\ IF me.result.status = "ok"
     THEN Send(q, me, "describe") /\ UNCHANGED reply
     ELSE End(q, "error")
  /\ UNCHANGED <<client, table, was>>

\* the description that ALTER TABLE reads first; then the index is added or removed
Altering(q) == \E me \in {stmt[q]} :
  /\ me.at = "served" /\ me.call = "describe" /\ me.op \in {"add", "remove"} /\ me.target = 0
  /\ Store(q, me.result)
  /\ IF me.result.status = "none" THEN End(q, "error")
     ELSE Send(q, me, me.op) /\ UNCHANGED reply
  /\ UNCHANGED <<client, table, was>>

\* mutant: a table without a description is waited for, too
PolledForever(q) == \E me \in {stmt[q]} :
  /\ me.at = "served" /\ me.call = "describe" /\ me.op # "insert" /\ me.target # 0
  /\ Store(q, me.result)
  /\ IF \/ me.result.status = "none"
        \/ Unsettled(me.result, me.op \in {"add", "remove"}, me.index)
     THEN stmt' = [stmt EXCEPT ![q].at = "asleep"] /\ UNCHANGED reply
     ELSE End(q, "ok")
  /\ UNCHANGED <<client, table, was>>

\* a poll of _waitForTable
Polled(q) == \E me \in {stmt[q]} :
  /\ me.at = "served" /\ me.call = "describe" /\ me.op # "insert" /\ me.target # 0
  /\ Store(q, me.result)
  /\ IF me.result.status = "none"
     THEN End(q, IF me.op = "drop" THEN "ok" ELSE "error")
     ELSE IF Unsettled(me.result, me.op \in {"add", "remove"}, me.index)
     THEN stmt' = [stmt EXCEPT ![q].at = "asleep"] /\ UNCHANGED reply
     ELSE End(q, "ok")
  /\ UNCHANGED <<client, table, was>>

Wake(q) ==
  /\ stmt[q].at = "asleep"
  /\ Send(q, stmt[q], "describe")
  /\ UNCHANGED <<client, table, cache, reply, was>>

\* getTableCached of an INSERT that found nothing in the cache
Described(q) == \E me \in {stmt[q]} :
  /\ me.at = "served" /\ me.call = "describe" /\ me.op = "insert"
  /\ Store(q, me.result)
  /\ IF me.result.status = "none" THEN End(q, "error")
     ELSE /\ stmt' = [stmt EXCEPT ![q].call = "cached", ![q].target = me.result.gen]
          /\ UNCHANGED reply
  /\ UNCHANGED <<client, table, was>>

\* the INSERT goes on with the key schema of the table numbered target
Insert(q) ==
  /\ stmt[q].at = "served" /\ stmt[q].call = "cached"
  /\ End(q, "ok")
  /\ UNCHANGED <<client, table, cache, was>>

\* the request fails, having taken effect or not; createTable and deleteTable clear the
\* cache in any case, every statement ends with the error
Fail(q) ==
  /\ client.fails
  /\ stmt[q].at \in {"sent", "served"} /\ stmt[q].call # "cached"
  /\ IF stmt[q].call \in {"create", "delete"} THEN Uncache(q) ELSE UNCHANGED cache
  /\ End(q, "error")
  /\ UNCHANGED <<client, table, was>>

-----------------------------------------------------------------------------
Step(q) == \/ Serve(q) \/ Requested(q) \/ Altering(q) \/ Polled(q) \/ Wake(q)
           \/ Described(q) \/ Insert(q)

Next ==
  \/ TableSettles \/ \E i \in Index : IndexSettles(i)
  \/ \E q \in Query : Step(q) \/ Fail(q) \/ \E op \in {"create", "drop", "add", "remove", "insert"}, i \in Index : Start(q, op, i)

Spec == Init /\ [][Next]_vars

\* requests are answered and timers fire, and DynamoDB finishes what it has begun
FairSpec ==
  /\ Spec
  /\ \A q \in Query : WF_vars(Step(q))
  /\ WF_vars(TableSettles) /\ \A i \in Index : WF_vars(IndexSettles(i))

-----------------------------------------------------------------------------
(* What statements promise *)

\* A statement reports success only when the table has come to what it was for.  CREATE
\* TABLE: the table that it made was ACTIVE.  DROP TABLE: the table that it deleted is gone.
\* ADD INDEX: the index was ACTIVE in the table that it changed or in a later one.
EffectReported ==
  [][\A q \in Query : stmt'[q].at = "idle" /\ stmt[q].at # "idle" /\ reply'[q] = "ok" =>
       /\ stmt[q].op = "create" => <<stmt[q].target, "table">> \in was
       /\ stmt[q].op = "drop" => table.gen > stmt[q].target \/ table.status = "none"
       /\ stmt[q].op = "add" =>
            \E g \in Gen : g >= stmt[q].target /\ <<g, stmt[q].index>> \in was]_vars

\* As long as one session alone changes the table, an INSERT takes the primary key from
\* a table that was there when the statement began or later, never from one that was
\* dropped before; the cache of another session may give it an old one.
UsesCurrentKey ==
  /\ TypeOK
  /\ \A q \in Query : stmt[q].call = "cached" /\ client.queries = {q} =>
       stmt[q].target >= stmt[q].since

\* An ADD INDEX whose table was dropped and created again: the table of that name that it
\* describes has no such index, and it polls on (raw/ddl.ts:192-199).
Replaced(q) == stmt[q].op = "add" /\ stmt[q].target \in 1..(table.gen - 1)

\* CREATE TABLE, DROP TABLE, INSERT and ADD INDEX are answered, whatever the other session
\* does meanwhile.  Three loops may go on for ever and are excepted: that of DROP INDEX, which
\* waits for the index to be ACTIVE, that of an ADD INDEX beside a DROP INDEX, which may miss
\* the time when its index was, and that of an ADD INDEX whose table was replaced.
EveryStatementEnds ==
  \A q \in Query :
    /\ stmt[q].at # "idle" /\ stmt[q].op \in {"create", "drop", "insert"} ~> stmt[q].at = "idle"
    /\ stmt[q].at # "idle" /\ stmt[q].op = "add" /\ "remove" \notin client.ops
         ~> stmt[q].at = "idle" \/ Replaced(q)
=============================================================================
