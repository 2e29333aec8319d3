----------------------------- MODULE JoinStream -----------------------------
(***************************************************************************)
(* The joins of one SELECT, UPDATE or DELETE: src/lib/helpers/join.ts and  *)
(* src/tools/drain_both.ts.  Every join is an async generator that drains  *)
(* the join before it and the pages of its own table, whichever answers    *)
(* first.  A row on its way is an object whose source map gives the row    *)
(* taken from each table so far; the joins hand the objects on and keep    *)
(* them, and mark a parent row as sent by adding their table to its map.   *)
(*                                                                         *)
(* A table row is an object too and is identified by its place, its page   *)
(* and its number there; its value is what ON compares.  ON is an equality *)
(* with a table further left; an ON that raises an error ends the query    *)
(* and is left out, as is WHERE, which drops rows after the last join.     *)
(***************************************************************************)
EXTENDS Naturals, Sequences, Functions

CONSTANTS
  N,        \* the tables of FROM are 0..N, the joins 1..N
  Plans,    \* the FROM clauses: for each join [left, on : BOOLEAN, ref : Nat]
  Pages     \* for each table, the sequences of pages of values it may be read as

Table == 0..N
Join == 1..N

ASSUME ConstantsAssumption ==
  /\ N \in Nat \ {0}
  /\ \A plan \in Plans : /\ plan \in [Join -> [left : BOOLEAN, on : BOOLEAN, ref : Nat]]
                          /\ \A j \in Join : plan[j].ref \in 0..(j - 1)
  /\ \A t \in Table : \A pages \in Pages[t] : pages \in Seq(Seq(Nat))

VARIABLES
  query,       \* the FROM clause and the pages its tables are read as
  read,        \* the number of pages read, for each table
  heap,        \* the source maps of the row objects, by the number of the object
  chan,        \* chan[j]: what generator j, or the first table for 0, answers
  pc,          \* where the generator of each join is
  parentRows, childRows,   \* what each join keeps
  aDone, bDone,            \* the joins whose upstream or table is exhausted
  yielded      \* history: what the generator of each table has yielded, the objects with
               \* their source maps at that time

vars == <<query, read, heap, chan, pc, parentRows, childRows, aDone, bDone, yielded>>

Object == 1..Len(heap)

\* the row i of page n; the row of a LEFT JOIN without a match
RowAt(n, i) == <<n, i>>
Null == <<0, 0>>
Source == UNION {[T -> Nat \X Nat] : T \in SUBSET Table}

PageOf(t, n) == [i \in 1..Len(query.pages[t][n]) |-> RowAt(n, i)]
HasPage(t) == read[t] < Len(query.pages[t])
Value(t, row) == query.pages[t][row[1]][row[2]]

\* next() was not called yet, is unanswered, or has got a batch or the end
Rest == [is |-> "rest"]
Asked == [is |-> "asked"]
Batch(objects) == [is |-> "batch", objects |-> objects]
End == [is |-> "done"]

\* The types; an answer to next() is never an empty batch.
TypeOK ==
  /\ query.joins \in Plans /\ \A t \in Table : query.pages[t] \in Pages[t]
  /\ \A t \in Table : read[t] \in 0..Len(query.pages[t])
  /\ \A o \in Object : DOMAIN heap[o] \subseteq Table /\ Range(heap[o]) \subseteq Nat \X Nat
  /\ \A t \in Table :
       \/ chan[t] \in {Rest, Asked, End}
       \/ chan[t].is = "batch" /\ chan[t].objects \in Seq(Object) \ {<<>>}
  /\ pc \in [Join -> {"new", "first", "opened", "race"}]
  /\ parentRows \in [Join -> Seq(Object)]
  /\ childRows \in [Join -> Seq(Nat \X Nat)]
  /\ aDone \subseteq Join /\ bDone \subseteq Join
  /\ \A t \in Table : \A i \in 1..Len(yielded[t]) : yielded[t][i].object \in Object

Init ==
  /\ query \in [joins : Plans,
                pages : {f \in [Table -> UNION {Pages[t] : t \in Table}] :
                           \A t \in Table : f[t] \in Pages[t]}]
  /\ read = [t \in Table |-> 0]
  /\ heap = <<>>
  /\ chan = [t \in Table |-> IF t = N THEN Asked ELSE Rest]
  /\ pc = [j \in Join |-> "new"]
  /\ parentRows = [j \in Join |-> <<>>]
  /\ childRows = [j \in Join |-> <<>>]
  /\ aDone = {}
  /\ bDone = {}
  /\ yielded = [t \in Table |-> <<>>]

-----------------------------------------------------------------------------
(* The callback of _join *)

\* source.set(t, row)
With(source, t, row) ==
  [u \in DOMAIN source \cup {t} |-> IF u = t THEN row ELSE source[u]]

\* a null row makes no equality true
OnHolds(j, source) ==
  LET t == query.joins[j].ref IN
    source[t] # Null /\ Value(t, source[t]) = Value(j, source[j])

\* mutant: an amplified parent is not duplicated
HandleInPlace(j, st, p, child) ==
  LET marked == With(st.heap[p], j, child) IN
    IF query.joins[j].on /\ ~OnHolds(j, marked) THEN st
    ELSE [heap |-> [st.heap EXCEPT ![p] = marked], out |-> Append(st.out, p)]

\* _handleParentChild: with ON a match is sent as a new object and the parent is
\* marked; without ON the parent itself is sent the first time, a copy afterwards
Handle(j, st, p, child) ==
  LET source == st.heap[p]
      joined == With(source, j, child)
      sends  == query.joins[j].on => OnHolds(j, joined)
      copies == query.joins[j].on \/ j \in DOMAIN source
      marks  == query.joins[j].on \/ j \notin DOMAIN source
      objs   == IF marks THEN [st.heap EXCEPT ![p] = joined] ELSE st.heap
  IN  IF ~sends THEN st
      ELSE IF copies THEN [heap |-> Append(objs, joined),
                           out  |-> Append(st.out, Len(objs) + 1)]
      ELSE [heap |-> objs, out |-> Append(st.out, p)]

\* the element of a set of one; a state written so is evaluated once
Only(S) == CHOOSE x \in S : TRUE

\* the inner loops: a parent meets children, a child meets parents
Children(j, st, p, children) ==
  LET loop[k \in 0..Len(children)] ==
        IF k = 0 THEN st ELSE Only({Handle(j, st1, p, children[k]) : st1 \in {loop[k - 1]}})
  IN  loop[Len(children)]
Parents(j, st, parents, child) ==
  LET loop[i \in 0..Len(parents)] ==
        IF i = 0 THEN st ELSE Only({Handle(j, st1, parents[i], child) : st1 \in {loop[i - 1]}})
  IN  loop[Len(parents)]

\* incoming parents meet the children kept, incoming children all parents
ByParent(j, st, parents, children) ==
  LET loop[i \in 0..Len(parents)] ==
        IF i = 0 THEN st ELSE Children(j, loop[i - 1], parents[i], children)
  IN  loop[Len(parents)]
ByChild(j, st, parents, children) ==
  LET loop[k \in 0..Len(children)] ==
        IF k = 0 THEN st ELSE Parents(j, loop[k - 1], parents, children[k])
  IN  loop[Len(children)]

\* mutant: no left finalization
FinalizeNot(j, st, parents) == st

\* left finalization: parents without a mark are sent with a null row
FinalizeRow(j, st, p) ==
  IF j \in DOMAIN st.heap[p] THEN st
  ELSE [heap |-> [st.heap EXCEPT ![p] = With(@, j, Null)], out |-> Append(st.out, p)]
Finalize(j, st, parents) ==
  LET loop[i \in 0..Len(parents)] ==
        IF i = 0 THEN st ELSE Only({FinalizeRow(j, st1, parents[i]) : st1 \in {loop[i - 1]}})
  IN  loop[Len(parents)]

\* rows are yielded, no rows leave next() unanswered
Yield(answer, objects) == IF objects = <<>> THEN answer ELSE Batch(objects)
Yielded(t, objects, maps) ==
  [yielded EXCEPT ![t] =
     @ \o [i \in 1..Len(objects) |-> [object |-> objects[i], source |-> maps[objects[i]]]]]

\* up: what becomes of the upstream's answer; whether the table is exhausted is in bDone'
Callback(j, parents, children, up) ==
  LET all  == parentRows[j] \o parents
      last == j \in bDone' /\ query.joins[j].left
  IN  \E early \in {ByParent(j, [heap |-> heap, out |-> <<>>], parents, childRows[j])} :
      \E late \in {ByChild(j, early, all, children)} :
      \E final \in {IF last THEN Finalize(j, late, all) ELSE late} :
        /\ heap' = final.heap
        /\ parentRows' = [parentRows EXCEPT ![j] = IF last THEN <<>> ELSE all]
        /\ childRows' = [childRows EXCEPT ![j] = @ \o children]
        /\ chan' = [chan EXCEPT ![j - 1] = up,
                                ![j] = Yield(@, final.out)]
        /\ yielded' = Yielded(j, final.out, final.heap)

-----------------------------------------------------------------------------
(* The generators *)

\* _firstRowIter: every row of a page becomes an object; empty pages are skipped
Scan ==
  /\ chan[0] = Asked
  /\ IF ~HasPage(0)
       THEN /\ chan' = [chan EXCEPT ![0] = End]
            /\ UNCHANGED <<read, heap, yielded>>
       ELSE LET page == PageOf(0, read[0] + 1)
                maps == heap \o [i \in 1..Len(page) |-> [t \in {0} |-> page[i]]]
                objects == [i \in 1..Len(page) |-> Len(heap) + i]
            IN
            /\ read' = [read EXCEPT ![0] = @ + 1]
            /\ heap' = maps
            /\ chan' = [chan EXCEPT ![0] = Yield(@, objects)]
            /\ yielded' = Yielded(0, objects, maps)
  /\ UNCHANGED <<query, pc, parentRows, childRows, aDone, bDone>>

\* the first next() of drainBoth calls next() on both
Open(j) ==
  /\ pc[j] = "new"
  /\ chan[j] = Asked
  /\ pc' = [pc EXCEPT ![j] = "first"]
  /\ chan' = [chan EXCEPT ![j - 1] = Asked]
  /\ UNCHANGED <<query, read, heap, parentRows, childRows, aDone, bDone, yielded>>

\* Promise.all: both have answered
First(j) ==
  LET parents  == IF chan[j - 1] = End THEN <<>> ELSE chan[j - 1].objects
      children == IF HasPage(j) THEN PageOf(j, read[j] + 1) ELSE <<>>
  IN  /\ pc[j] = "first"
      /\ chan[j - 1] \notin {Rest, Asked}
      /\ pc' = [pc EXCEPT ![j] = "opened"]
      /\ aDone' = IF chan[j - 1] = End THEN aDone \cup {j} ELSE aDone
      /\ bDone' = IF HasPage(j) THEN bDone ELSE bDone \cup {j}
      /\ read' = [read EXCEPT ![j] = IF HasPage(j) THEN @ + 1 ELSE @]
      /\ Callback(j, parents, children, IF chan[j - 1] = End THEN End ELSE Rest)
      /\ UNCHANGED query

\* back from the first yield: next() on those that are not done
Prefetch(j) ==
  /\ pc[j] = "opened"
  /\ chan[j] = Asked
  /\ pc' = [pc EXCEPT ![j] = "race"]
  /\ chan' = [chan EXCEPT ![j - 1] = IF j \in aDone THEN @ ELSE Asked]
  /\ UNCHANGED <<query, read, heap, parentRows, childRows, aDone, bDone, yielded>>

Racing(j) == pc[j] = "race" /\ chan[j] = Asked

\* mutant: next() is not called again
TakeAOnce(j) ==
  /\ Racing(j)
  /\ chan[j - 1].is = "batch"
  /\ UNCHANGED <<query, read, pc, aDone, bDone>>
  /\ Callback(j, chan[j - 1].objects, <<>>, Rest)

\* Promise.race: upstream has a batch
TakeA(j) ==
  /\ Racing(j)
  /\ chan[j - 1].is = "batch"
  /\ UNCHANGED <<query, read, pc, aDone, bDone>>
  /\ Callback(j, chan[j - 1].objects, <<>>, Asked)

\* the table has a page
TakeB(j) ==
  /\ Racing(j)
  /\ j \notin bDone
  /\ HasPage(j)
  /\ read' = [read EXCEPT ![j] = @ + 1]
  /\ UNCHANGED <<query, pc, aDone, bDone>>
  /\ Callback(j, <<>>, PageOf(j, read[j] + 1), chan[j - 1])

\* upstream is exhausted
DoneA(j) ==
  /\ Racing(j)
  /\ j \notin aDone
  /\ chan[j - 1] = End
  /\ aDone' = aDone \cup {j}
  /\ UNCHANGED <<query, read, pc, bDone>>
  /\ Callback(j, <<>>, <<>>, End)

\* the table is exhausted
DoneB(j) ==
  /\ Racing(j)
  /\ j \notin bDone
  /\ ~HasPage(j)
  /\ bDone' = bDone \cup {j}
  /\ Callback(j, <<>>, <<>>, chan[j - 1])
  /\ UNCHANGED <<query, read, pc, aDone>>

Return(j) ==
  /\ Racing(j)
  /\ j \in aDone \cap bDone
  /\ chan' = [chan EXCEPT ![j] = End]
  /\ UNCHANGED <<query, read, heap, pc, parentRows, childRows, aDone, bDone, yielded>>

\* formJoin hands a batch on and asks for the next
Deliver ==
  /\ chan[N].is = "batch"
  /\ chan' = [chan EXCEPT ![N] = Asked]
  /\ UNCHANGED <<query, read, heap, pc, parentRows, childRows, aDone, bDone, yielded>>

Next ==
  \/ Scan
  \/ \E j \in Join : \/ Open(j) \/ First(j) \/ Prefetch(j)
                     \/ TakeA(j) \/ TakeB(j) \/ DoneA(j) \/ DoneB(j) \/ Return(j)
  \/ Deliver

\* the event loop runs every continuation and DynamoDB answers every request
Spec == Init /\ [][Next]_vars /\ WF_vars(Next)

-----------------------------------------------------------------------------
Finished == chan[N] = End

\* What the FROM clause means: a combination f of rows of the tables 0..t is a row of it
\* when each joined row matches what is left of it, or is null where a LEFT JOIN has none.
RowsTo(t, n) == UNION {Range(PageOf(t, m)) : m \in 1..n}
RowsOf(t) == RowsTo(t, Len(query.pages[t]))
Matches(j, f, row) == query.joins[j].on => OnHolds(j, With(f, j, row))
Meant(t, f) ==
  /\ f[0] \in RowsOf(0)
  /\ \A j \in 1..t :
       \/ f[j] \in RowsOf(j) /\ Matches(j, f, f[j])
       \/ /\ f[j] = Null /\ query.joins[j].left
          /\ \A row \in RowsOf(j) : ~Matches(j, f, row)
Meaning == {f \in [Table -> {Null} \cup UNION {RowsOf(t) : t \in Table}] : Meant(N, f)}

Delivered == yielded[N]

\* In whatever order the pages and the upstream batches arrive, a join delivers no
\* combination of rows that the FROM clause does not yield and none twice: no null row for
\* a parent that has a match on a later page.  Nor do they change a row they have handed
\* over, though they keep and mark objects that are already downstream: ORDER BY, UPDATE
\* and DELETE look into the source maps after the whole stream has been read.
NothingWrong ==
  /\ TypeOK
  /\ \A i \in 1..Len(Delivered) :
       LET f == Delivered[i].source IN
         /\ heap[Delivered[i].object] = f
         /\ DOMAIN f = Table /\ Meant(N, f)
         /\ \A k \in 1..(i - 1) : Delivered[k].source # f

\* When the stream ends, every combination that the FROM clause yields was delivered,
\* LEFT JOIN rows without a match included.
NothingLost ==
  Finished => \A f \in Meaning : \E i \in 1..Len(Delivered) : Delivered[i].source = f

\* The joins read their tables to the end and finish: no two generators wait for
\* each other and none forgets to ask its upstream or its table again.
Terminates == <>Finished
=============================================================================
