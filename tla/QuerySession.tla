--------------------------- MODULE QuerySession ----------------------------
(***************************************************************************)
(* Queries on the sessions of a client: query() of session.ts and pool.ts, *)
(* the run of the statements in query.ts with its events, its results and  *)
(* its callback, and the time that a statement sees, which is that of its  *)
(* start or the one that SET TIMESTAMP has chosen.                         *)
(*                                                                         *)
(* query() runs at once until the first await: a text that cannot be       *)
(* parsed has failed before query() returns, and a SET has made its        *)
(* assignment.  The client attaches its listeners right after query() has  *)
(* returned.  What follows happens in any order with the steps of other    *)
(* queries.                                                                *)
(***************************************************************************)
EXTENDS Naturals, Sequences, SequencesExt

CONSTANTS
  Session,
  Query,      \* calls of query(); a query is on the session that it is called on
  Script,     \* lists of statements that texts stand for; <<>> cannot be run at all
  Callback,   \* "none", "returns" or "throws": callbacks that clients pass
  Batches,    \* bound: batches of rows of a SELECT
  Sizes,      \* bound: rows of a batch, and of a SHOW
  MaxTime     \* bound: the clock

\* statements that answer with an OK packet, and those that answer with rows
Packet == {"write", "setTime", "unsetTime"}
Tabular == {"select", "show"}
Kind == Packet \cup Tabular \cup {"bad"}

ASSUME ConstantsAssumption ==
  /\ Script \subseteq Seq(Kind)
  /\ Callback \subseteq {"none", "returns", "throws"}
  /\ Batches \in Nat /\ Sizes \subseteq Nat /\ MaxTime \in Nat \ {0}

Chosen == MaxTime + 1    \* what SET TIMESTAMP chooses, a time that the clock never has

VARIABLES
  overlap,     \* whether clients have several queries on a session at a time
  now,         \* the clock
  session,     \* each session: open or not, released, its timestamp and whether that is fixed,
               \* and history: what SET TIMESTAMP has chosen last, or 0
  query        \* each query

vars == <<overlap, now, session, query>>

NoQuery ==
  [at |-> "none", on |-> CHOOSE s \in Session : TRUE, script |-> <<>>, i |-> 0, batch |-> 0,
   began |-> 0, times |-> {}, callback |-> "none", collects |-> FALSE, listens |-> FALSE,
   given |-> <<>>, list |-> <<>>, results |-> <<>>, schemas |-> 0, index |-> 0, log |-> <<>>,
   failed |-> FALSE, calls |-> 0]

\* the nth event of a statement, from 0
Event(kind, of, nth) == [kind |-> kind, of |-> of, nth |-> nth]

\* The types; a query that has not ended has told nobody.
TypeOK ==
  /\ now \in 1..MaxTime
  /\ session \in [Session -> [open : BOOLEAN, released : BOOLEAN, timestamp : 0..Chosen,
                              fixed : BOOLEAN, chosen : {0, Chosen}]]
  /\ \A q \in Query : \E me \in {query[q]} :
       /\ me.at \in {"none", "running", "rows", "settled", "done"}
       /\ me.i \in 0..Len(me.script) /\ Len(me.results) <= Len(me.script)
       /\ me.at \in {"none", "running", "rows"} =>
            me.calls = 0 /\ \A j \in DOMAIN me.log : me.log[j].kind # "end"

Init ==
  /\ overlap \in BOOLEAN
  /\ now = 1
  /\ session = [s \in Session |-> [open |-> FALSE, released |-> FALSE, timestamp |-> 0,
                                   fixed |-> FALSE, chosen |-> 0]]
  /\ query = [q \in Query |-> NoQuery]

-----------------------------------------------------------------------------
Tick ==
  /\ now < MaxTime
  /\ now' = now + 1
  /\ UNCHANGED <<session, query>>

Open(s) ==
  /\ ~session[s].open
  /\ session' = [session EXCEPT ![s].open = TRUE]
  /\ UNCHANGED <<now, query>>

Release(s) ==
  /\ session[s].open
  /\ session' = [session EXCEPT ![s].released = TRUE]
  /\ UNCHANGED <<now, query>>

\* mutant: the chosen time is forgotten
StartStatementAlways(s) == [session EXCEPT ![s].timestamp = now]
\* startStatement: the session's time is the clock, unless SET TIMESTAMP has chosen one
StartStatement(s) ==
  IF session[s].fixed THEN session ELSE [session EXCEPT ![s].timestamp = now]

\* SET TIMESTAMP: to a time, or to 0, which stands until the next statement starts
Assigned(on, s, kind) ==
  CASE kind = "setTime" ->
         [on EXCEPT ![s].timestamp = Chosen, ![s].fixed = TRUE, ![s].chosen = Chosen]
    [] kind = "unsetTime" ->
         [on EXCEPT ![s].timestamp = 0, ![s].fixed = FALSE, ![s].chosen = 0]
    [] OTHER -> on

\* listeners that are attached by now get the events
Emit(me, events) == IF me.listens THEN [me EXCEPT !.log = @ \o events] ELSE me
Rows(of, from, n) == [r \in 1..n |-> Event("result", of, from + r)]

\* what follows the rows of the current statement
Close(me, kind, k) == Event(kind, me.i, (IF me.i = 0 THEN 0 ELSE me.given[me.i]) + k)

\* emit('error') throws when nobody listens, so that 'end' is not reached
Failed(me) ==
  [Emit(me, <<Close(me, "error", 1), Close(me, "end", 2)>>) EXCEPT
     !.at = "settled", !.failed = TRUE, !.index = Len(me.results)]

\* the time of a statement that starts now
TimeDue(me) == IF session[me.on].chosen = 0 THEN now ELSE session[me.on].chosen
Started(me) ==
  [me EXCEPT !.at = "running", !.i = @ + 1, !.batch = 0, !.began = TimeDue(me), !.times = {},
             !.list = <<>>]

\* mutant: a query that ends well tells it for every statement
EndedEach(me) ==
  IF me.i = Len(me.script) THEN [Emit(me, <<Close(me, "end", 1)>>) EXCEPT !.at = "settled"]
  ELSE Started(IF me.i = 0 THEN me ELSE Emit(me, <<Close(me, "end", 1)>>))

\* after a statement: the next one starts in the same turn, or the query ends
Ended(me) ==
  IF me.i = Len(me.script) THEN [Emit(me, <<Close(me, "end", 1)>>) EXCEPT !.at = "settled"]
  ELSE Started(me)

Current(me) == me.script[me.i]

Set(q, me) ==
  /\ query' = [query EXCEPT ![q] = me]
  /\ session' = IF me.at = "running" /\ me.i # query[q].i
                THEN Assigned(StartStatement(me.on), me.on, Current(me)) ELSE session

\* a call; the pool calls with a callback of its own and collects results for the client's
Call(q, s, script, callback, collects, listens) ==
  /\ query[q].at = "none" /\ session[s].open
  /\ ~overlap => \A p \in Query : query[p].on = s => query[p].at \in {"none", "done"}
  /\ \E me \in {[NoQuery EXCEPT !.on = s, !.script = script, !.callback = callback,
                                !.collects = collects, !.given = [i \in DOMAIN script |-> 0]]} :
       CASE session[s].released ->
              /\ query' = [query EXCEPT ![q] =
                   [me EXCEPT !.at = "done", !.failed = TRUE,
                              !.calls = IF callback = "none" THEN 0 ELSE 1]]
              /\ UNCHANGED session
         [] ~session[s].released /\ script = <<>> ->
              Set(q, [Failed(me) EXCEPT !.listens = listens])
         [] OTHER -> Set(q, [Ended(me) EXCEPT !.listens = listens])
  /\ UNCHANGED now

\* what the results hold for a statement: its packet, or the rows that were collected
Result(of, rows) == [of |-> of, rows |-> rows]

\* a statement without rows ends: its packet is an event and a result
Write(q) == \E me \in {query[q]} :
  /\ me.at = "running" /\ Current(me) \in Packet
  /\ Set(q, Ended([Emit(me, <<Event("result", me.i, 0)>>) EXCEPT
                     !.results = Append(@, Result(me.i, <<>>)), !.schemas = @ + 1]))
  /\ UNCHANGED now

\* the statement fails: a SET of a variable or zone that there is not, or any other
Fail(q) ==
  /\ query[q].at = "running" /\ Current(query[q]) = "bad"
  /\ Set(q, Failed(query[q]))
  /\ UNCHANGED now

\* SHOW has all its rows at once
Show(q) == \E me \in {query[q]}, n \in Sizes :
  /\ me.at = "running" /\ Current(me) = "show"
  /\ Set(q, Ended([Emit(me, <<Event("fields", me.i, 0)>> \o Rows(me.i, 0, n)) EXCEPT
                     !.given[me.i] = n, !.schemas = @ + 1,
                     !.results = IF me.collects
                                 THEN Append(@, Result(me.i, [r \in 1..n |-> r])) ELSE @]))
  /\ UNCHANGED now

\* a SELECT has found its tables and columns
Fields(q) == \E me \in {query[q]} :
  /\ me.at = "running" /\ Current(me) = "select"
  /\ Set(q, [Emit(me, <<Event("fields", me.i, 0)>>) EXCEPT !.at = "rows", !.schemas = @ + 1])
  /\ UNCHANGED now

\* mutant: rows that are collected are not told to listeners
BatchCollected(q) == \E me \in {query[q]}, n \in Sizes :
  /\ me.at = "rows" /\ me.batch < Batches /\ (me.collects \/ me.listens)
  /\ \E from \in {me.given[me.i]} :
       Set(q, [(IF me.collects THEN me ELSE Emit(me, Rows(me.i, from, n))) EXCEPT
                 !.batch = @ + 1, !.given[me.i] = from + n,
                 !.list = IF me.collects THEN @ \o [r \in 1..n |-> from + r] ELSE @,
                 !.times = @ \cup {session[me.on].timestamp}])
  /\ UNCHANGED now

\* a batch of rows is computed, with the session's time, and handed on; nobody pulls the
\* rows when they are not collected and have no listener
Batch(q) == \E me \in {query[q]}, n \in Sizes :
  /\ me.at = "rows" /\ me.batch < Batches /\ (me.collects \/ me.listens)
  /\ \E from \in {me.given[me.i]} :
       Set(q, [Emit(me, Rows(me.i, from, n)) EXCEPT
                 !.batch = @ + 1, !.given[me.i] = from + n,
                 !.list = IF me.collects THEN @ \o [r \in 1..n |-> from + r] ELSE @,
                 !.times = @ \cup {session[me.on].timestamp}])
  /\ UNCHANGED now

\* mutant: the rows that were collected are not handed on
RowsEndUncounted(q) == \E me \in {query[q]} :
  /\ me.at = "rows"
  /\ Set(q, Ended(me))
  /\ UNCHANGED now

\* the rows end; if they are collected they are a result
RowsEnd(q) == \E me \in {query[q]} :
  /\ me.at = "rows"
  /\ Set(q, Ended([me EXCEPT !.results = IF me.collects THEN Append(@, Result(me.i, me.list))
                                         ELSE @]))
  /\ UNCHANGED now

\* a later batch fails
RowsFail(q) ==
  /\ query[q].at = "rows" /\ (query[q].collects \/ query[q].listens)
  /\ Set(q, Failed(query[q]))
  /\ UNCHANGED now

\* done() is called in the try block of its own catch
Called(me) ==
  CASE me.callback = "none" -> 0
    [] me.callback = "throws" /\ ~me.failed -> 2
    [] OTHER -> 1

Done(q) ==
  /\ query[q].at = "settled"
  /\ query' = [query EXCEPT ![q].at = "done", ![q].calls = Called(query[q])]
  /\ UNCHANGED <<now, session>>

-----------------------------------------------------------------------------
Step(q) ==
  \/ Write(q) \/ Fail(q) \/ Show(q) \/ Fields(q) \/ Batch(q) \/ RowsEnd(q) \/ RowsFail(q)
  \/ Done(q)

Next ==
  /\ UNCHANGED overlap
  /\ \/ Tick
     \/ \E s \in Session : Open(s) \/ Release(s)
     \/ \E q \in Query :
          \/ Step(q)
          \/ \E s \in Session, script \in Script, callback \in Callback,
                collects, listens \in BOOLEAN : Call(q, s, script, callback, collects, listens)

Spec == Init /\ [][Next]_vars

-----------------------------------------------------------------------------
(* What a client can rely on *)

\* all the events of the first n statements: of a SELECT or SHOW its fields and each of its
\* rows, of another statement its packet
Told(me, n) ==
  LET with(kinds) == {i \in 1..n : me.script[i] \in kinds}
  IN {Event("fields", i, 0) : i \in with(Tabular)} \cup {Event("result", i, 0) : i \in with(Packet)}
     \cup UNION {{Event("result", i, r) : r \in 1..me.given[i]} : i \in with(Tabular)}

Before(a, b) == a.of < b.of \/ (a.of = b.of /\ a.nth < b.nth)
InOrder(log) == \A j, k \in DOMAIN log : j < k => Before(log[j], log[k])

\* what a listener has heard at the end: every event, the error if it failed, and 'end'
Complete(me) ==
  /\ Range(me.log) = Told(me, me.i) \cup
       IF me.failed THEN {Close(me, "error", 1), Close(me, "end", 2)} ELSE {Close(me, "end", 1)}
  /\ ~me.failed => me.i = Len(me.script)
  /\ InOrder(me.log)

\* Whoever listens to a query that was started gets all of it in order and nothing twice: for
\* statement after statement the fields and then each row, or the packet; after the statement
\* that fails, or after the rows that it gave until then, the error; and then one 'end'.
EventsInOrder ==
  /\ TypeOK
  /\ \A q \in Query : \E me \in {query[q]} :
       me.at = "done" /\ me.listens /\ me.i > 0 => Complete(me)

\* the results of the first n statements
RowsOf(me, i) == IF me.script[i] \in Packet THEN <<>> ELSE [r \in 1..me.given[i] |-> r]
Recorded(me, n) ==
  /\ Range(me.results) = {Result(i, RowsOf(me, i)) :
                            i \in {i \in 1..n : me.collects \/ me.script[i] \in Packet}}
  /\ \A j, k \in DOMAIN me.results : j < k => me.results[j].of < me.results[k].of
  /\ me.collects => Len(me.results) = n

\* The callback gets, in order, a result for each statement before the one that failed, if one
\* did: its packet, or all its rows if they are collected; and err.index is the number of these
\* results.  So if the query collects, as it does for a callback that is passed to query(),
\* every statement has its result and err.index is the place of the one that failed.  If it
\* does not, only the statements without rows count (query.ts:135-152).
OneResultEach ==
  \A q \in Query : \E me \in {query[q]} : me.at \in {"settled", "done"} /\ me.i > 0 =>
    IF me.failed THEN Recorded(me, me.i - 1) /\ me.index = Len(me.results)
    ELSE Recorded(me, Len(me.script)) /\ me.schemas = Len(me.script)

\* Without overlapping queries on a session, all rows of a statement see one time: what SET
\* TIMESTAMP has chosen for the session, or else the clock at the statement's start.
OneTime == ~overlap => \A q \in Query : query[q].times \subseteq {query[q].began}
=============================================================================
