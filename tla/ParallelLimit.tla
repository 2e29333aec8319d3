---------------------------- MODULE ParallelLimit ----------------------------
(***************************************************************************)
(* timesLimit of src/tools/parallel_limit.ts, which sends the batches of a *)
(* raw UPDATE, DELETE or REPLACE to DynamoDB, a limited number of them at  *)
(* a time (parallelBatch, parallelLimit).  A batch is one transaction of   *)
(* DynamoDB: it is applied or it fails.  Its answer ends the iteration,    *)
(* and _done or _catch runs in a turn of the event loop after that.        *)
(***************************************************************************)
EXTENDS Integers, FiniteSets

CONSTANTS
  Length,   \* batches
  Limit     \* how many of them at a time

ASSUME ConstantsAssumption == Length \in Nat /\ Limit \in Nat \ {0}

VARIABLES
  i, running, stop,   \* the locals of timesLimit
  promise,            \* what it has returned to its caller
  flying,             \* batches sent and not answered
  good, bad,          \* answered, _done or _catch has not run yet
  applied             \* batches that DynamoDB has applied

vars == <<i, running, stop, promise, flying, good, bad, applied>>

Index == 0..(Length - 1)

\* The types of the locals, and the batches seen so far are the first i.
TypeOK ==
  /\ i \in 0..Length
  /\ running \in 0..Limit
  /\ stop \in BOOLEAN
  /\ promise \in {"pending", "resolved", "rejected"}
  /\ flying \cup good \cup bad \cup applied \subseteq 0..(i - 1)

\* mutant: the limit is reached before it is noticed
RoomOneMore(r) == IF Length - i <= Limit + 1 - r THEN Length - i ELSE Limit + 1 - r

\* how often the loop of _loopLaunch turns when r batches are running
Room(r) == IF Length - i <= Limit - r THEN Length - i ELSE Limit - r

\* timesLimit up to its return: the first _loopLaunch
Init ==
  /\ i = IF Length <= Limit THEN Length ELSE Limit
  /\ running = i
  /\ stop = FALSE
  /\ promise = IF Length = 0 THEN "resolved" ELSE "pending"
  /\ flying = 0..(i - 1)
  /\ good = {}
  /\ bad = {}
  /\ applied = {}

\* the transaction of batch k has been applied, or not
Answer(k, ok) ==
  /\ k \in flying
  /\ flying' = flying \ {k}
  /\ good' = IF ok THEN good \cup {k} ELSE good
  /\ bad' = IF ok THEN bad ELSE bad \cup {k}
  /\ applied' = IF ok THEN applied \cup {k} ELSE applied
  /\ UNCHANGED <<i, running, stop, promise>>

\* _loopLaunch
Launch(r) ==
  /\ i' = i + Room(r)
  /\ running' = r + Room(r)
  /\ flying' = flying \cup (i..(i + Room(r) - 1))

\* mutant: the last launch counts, not the last answer
DoneEarly(k) ==
  /\ k \in good
  /\ good' = good \ {k}
  /\ \/ stop /\ UNCHANGED <<i, running, promise, flying>>
     \/ /\ ~stop /\ i >= Length
        /\ running' = running - 1
        /\ promise' = "resolved"
        /\ UNCHANGED <<i, flying>>
     \/ /\ ~stop /\ i < Length
        /\ Launch(running - 1)
        /\ UNCHANGED promise
  /\ UNCHANGED <<stop, bad, applied>>

\* mutant: the next batch is not launched
DoneIdle(k) ==
  /\ k \in good
  /\ good' = good \ {k}
  /\ running' = IF stop THEN running ELSE running - 1
  /\ promise' = IF ~stop /\ i >= Length /\ running' = 0 THEN "resolved" ELSE promise
  /\ UNCHANGED <<i, stop, flying, bad, applied>>

\* _done
Done(k) ==
  /\ k \in good
  /\ good' = good \ {k}
  /\ \/ stop /\ UNCHANGED <<i, running, promise, flying>>
     \/ /\ ~stop /\ i >= Length /\ running = 1
        /\ running' = 0
        /\ promise' = "resolved"
        /\ UNCHANGED <<i, flying>>
     \/ /\ ~stop /\ ~(i >= Length /\ running = 1)
        /\ Launch(running - 1)
        /\ UNCHANGED promise
  /\ UNCHANGED <<stop, bad, applied>>

\* mutant: stop is not set
CatchOn(k) ==
  /\ k \in bad
  /\ bad' = bad \ {k}
  /\ promise' = IF promise = "pending" THEN "rejected" ELSE promise
  /\ UNCHANGED <<i, running, stop, flying, good, applied>>

\* _catch; reject() of a promise that is settled does nothing
Catch(k) ==
  /\ k \in bad
  /\ bad' = bad \ {k}
  /\ stop' = TRUE
  /\ promise' = IF promise = "pending" THEN "rejected" ELSE promise
  /\ UNCHANGED <<i, running, flying, good, applied>>

Next ==
  \E k \in Index :
    \/ \E ok \in BOOLEAN : Answer(k, ok)
    \/ Done(k)
    \/ Catch(k)

\* DynamoDB answers every request and the event loop runs every continuation
Spec == Init /\ [][Next]_vars /\ WF_vars(Next)

-----------------------------------------------------------------------------
\* No more than Limit batches are on their way at once, and when the statement has
\* reported its error, only those that were on their way besides the failed one.
Bounded ==
  Cardinality(flying) <= IF promise = "rejected" THEN Limit - 1 ELSE Limit

\* The statement reports success only when every batch is applied and none is on
\* its way: multipleUpdate and multipleDelete count the whole list as affected.
SuccessIsWhole ==
  promise = "resolved" => applied = Index /\ flying = {}

\* After the error was reported no further batch is sent.
NothingSentAfterError ==
  [][promise = "rejected" => flying' \subseteq flying]_vars

\* The statement ends, with success or with an error, however long the list is.
Settles == <>(promise # "pending")
=============================================================================
