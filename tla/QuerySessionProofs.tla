-------------------------- MODULE QuerySessionProofs --------------------------
(***************************************************************************)
(* Proofs about QuerySession for every set of sessions and queries, every  *)
(* set of texts and any number of batches, rows and clock changes: what    *)
(* listeners hear and in which order, the results of the callback, and the *)
(* one time that the rows of a statement see.                              *)
(***************************************************************************)
EXTENDS QuerySession, TLAPS

-----------------------------------------------------------------------------
(* The inductive invariant *)

Time == 0..Chosen
Text == Script \cup {<<>>}
AnyEvent == [kind : {"fields", "result", "error", "end"}, of : Nat, nth : Nat]
AnyResult == [of : Nat, rows : Seq(Nat)]

QueryType ==
  [at : {"none", "running", "rows", "settled", "done"}, on : Session \cup {NoQuery.on},
   script : Text, i : Nat, batch : Nat, began : Time, times : SUBSET Time,
   callback : {"none", "returns", "throws"}, collects : BOOLEAN, listens : BOOLEAN,
   given : Seq(Nat), list : Seq(Nat), results : Seq(AnyResult), schemas : Nat, index : Nat,
   log : Seq(AnyEvent), failed : BOOLEAN, calls : Nat]

SessionType == [open : BOOLEAN, released : BOOLEAN, timestamp : Time, fixed : BOOLEAN,
                chosen : {0, Chosen}]

\* A listener has heard all of n statements, and nothing else.
Heard(me, n) ==
  IF me.listens THEN Range(me.log) = Told(me, n) /\ InOrder(me.log) ELSE me.log = <<>>

\* n statements are in the results.
Counted(me, n) == Recorded(me, n) /\ Len(me.results) <= n

\* Rows are counted for the first n statements only.
Ahead(me, n) == \A j \in 1..Len(me.script) : j > n => me.given[j] = 0

\* A query whose statement i is being executed.
UnderWay(me) ==
  /\ me.i \in 1..Len(me.script) /\ ~me.failed /\ me.calls = 0
  /\ Counted(me, me.i - 1)
  /\ me.at = "running" => /\ Heard(me, me.i - 1) /\ me.schemas = me.i - 1
                          /\ Ahead(me, me.i - 1) /\ me.list = <<>>
  /\ me.at = "rows" => /\ Heard(me, me.i) /\ me.schemas = me.i /\ Ahead(me, me.i)
                       /\ Current(me) = "select"
                       /\ me.collects => me.list = [r \in 1..me.given[me.i] |-> r]

\* A query that has ended, or that could not start.
Over(me) ==
  /\ me.i \in 0..Len(me.script) /\ Len(me.results) <= Len(me.script)
  /\ me.listens /\ me.i > 0 => Complete(me)
  /\ me.i > 0 => IF me.failed THEN Recorded(me, me.i - 1) /\ me.index = Len(me.results)
                 ELSE Recorded(me, Len(me.script)) /\ me.schemas = Len(me.script)

QueryOK(me) ==
  /\ me \in QueryType /\ Len(me.given) = Len(me.script)
  /\ me.at = "none" => me = NoQuery
  /\ me.at \in {"running", "rows"} => UnderWay(me)
  /\ me.at \in {"settled", "done"} => Over(me)

\* The time of a session is fixed if SET TIMESTAMP has chosen one.
TimeOK(it) == (it.fixed <=> it.chosen # 0) /\ (it.fixed => it.timestamp = it.chosen)

\* Without overlap, a query under way is alone on its session, whose time is that of its
\* statement unless that is a SET.
Alone ==
  ~overlap => \A q \in Query :
    /\ query[q].times \subseteq {query[q].began}
    /\ \/ query[q].at = "rows"
       \/ query[q].at = "running" /\ Current(query[q]) = "select"
       => session[query[q].on].timestamp = query[q].began
    /\ query[q].at \notin {"none", "done"} =>
         \A p \in Query \ {q} : query[p].on = query[q].on => query[p].at \in {"none", "done"}

IInv ==
  /\ overlap \in BOOLEAN /\ now \in 1..MaxTime
  /\ session \in [Session -> SessionType]
  /\ \A s \in Session : TimeOK(session[s])
  /\ query \in [Query -> QueryType]
  /\ \A q \in Query : QueryOK(query[q])
  /\ \A q \in Query : query[q].at # "none" => query[q].on \in Session
  /\ Alone

-----------------------------------------------------------------------------
(* Logs and results *)

LEMMA TextLength == \A script \in Text : script \in Seq(Kind) /\ Len(script) \in Nat
<1>1. <<>> \in Seq(Kind) /\ \A script \in Seq(Kind) : Len(script) \in Nat
  OBVIOUS
<1> QED
  BY <1>1, ConstantsAssumption DEF Text

\* More events, or more results, after those that come before them.
LEMMA RangeOfBoth ==
  ASSUME NEW log \in Seq(AnyEvent), NEW more \in Seq(AnyEvent)
  PROVE  /\ log \o more \in Seq(AnyEvent)
         /\ Range(log \o more) = Range(log) \cup Range(more)
<1> DEFINE both == log \o more
<1>1. /\ both \in Seq(AnyEvent) /\ Len(both) = Len(log) + Len(more)
      /\ Len(log) \in Nat /\ Len(more) \in Nat
      /\ \A j \in 1..Len(log) : both[j] = log[j]
      /\ \A j \in 1..Len(more) : both[Len(log) + j] = more[j]
  OBVIOUS
<1>2. DOMAIN both = 1..Len(both) /\ DOMAIN log = 1..Len(log) /\ DOMAIN more = 1..Len(more)
  BY <1>1
<1> HIDE DEF both
<1>3. ASSUME NEW j \in DOMAIN both PROVE both[j] \in Range(log) \cup Range(more)
  <2>1. CASE j <= Len(log)
    BY <1>1, <1>2, <2>1 DEF Range
  <2>2. CASE j > Len(log)
    <3>1. j - Len(log) \in DOMAIN more /\ j = Len(log) + (j - Len(log))
      BY <1>1, <1>2, <2>2
    <3> QED
      BY <1>1, <1>2, <3>1 DEF Range
  <2> QED
    BY <1>1, <1>2, <2>1, <2>2
<1>4. \A j \in DOMAIN log : log[j] \in Range(both)
  BY <1>1, <1>2 DEF Range
<1>5. \A j \in DOMAIN more : more[j] \in Range(both)
  <2> SUFFICES ASSUME NEW j \in DOMAIN more PROVE more[j] \in Range(both)
    OBVIOUS
  <2>1. Len(log) + j \in DOMAIN both /\ both[Len(log) + j] = more[j]
    BY <1>1, <1>2
  <2> QED
    BY <2>1 DEF Range
<1>6. Range(both) = Range(log) \cup Range(more)
  BY <1>3, <1>4, <1>5 DEF Range
<1> QED
  BY <1>1, <1>6 DEF both

LEMMA OrderOfBoth ==
  ASSUME NEW log \in Seq(AnyEvent), NEW more \in Seq(AnyEvent), InOrder(log), InOrder(more),
         \A x \in Range(log), y \in Range(more) : Before(x, y)
  PROVE  InOrder(log \o more)
<1> DEFINE both == log \o more
<1>1. /\ Len(both) = Len(log) + Len(more)
      /\ Len(log) \in Nat /\ Len(more) \in Nat
      /\ \A j \in 1..Len(log) : both[j] = log[j]
      /\ \A j \in 1..Len(more) : both[Len(log) + j] = more[j]
      /\ DOMAIN both = 1..Len(both) /\ DOMAIN log = 1..Len(log) /\ DOMAIN more = 1..Len(more)
  OBVIOUS
<1> HIDE DEF both
<1>2. \A j \in DOMAIN both : j > Len(log) =>
        j - Len(log) \in DOMAIN more /\ both[j] = more[j - Len(log)]
  <2> SUFFICES ASSUME NEW j \in DOMAIN both, j > Len(log)
               PROVE  j - Len(log) \in DOMAIN more /\ both[j] = more[j - Len(log)]
    OBVIOUS
  <2>1. j - Len(log) \in 1..Len(more) /\ Len(log) + (j - Len(log)) = j
    BY <1>1
  <2> QED
    BY <1>1, <2>1
<1>3. \A j \in DOMAIN both : j <= Len(log) => j \in DOMAIN log /\ both[j] = log[j]
  BY <1>1
<1>4. ASSUME NEW j \in DOMAIN both, NEW k \in DOMAIN both, j < k
      PROVE  Before(both[j], both[k])
  <2>1. j \in Nat /\ k \in Nat
    BY <1>1
  <2>2. CASE k <= Len(log)
    BY <1>1, <1>3, <1>4, <2>1, <2>2 DEF InOrder
  <2>3. CASE j > Len(log)
    <3>1. j - Len(log) < k - Len(log) /\ k > Len(log)
      BY <1>1, <1>4, <2>1, <2>3
    <3> QED
      BY <1>1, <1>2, <2>3, <3>1 DEF InOrder
  <2>4. CASE j <= Len(log) /\ k > Len(log)
    BY <1>2, <1>3, <2>4 DEF Range
  <2> QED
    BY <1>1, <2>1, <2>2, <2>3, <2>4
<1> QED
  BY <1>4 DEF InOrder, both

LEMMA OneEvent ==
  ASSUME NEW e \in AnyEvent
  PROVE  <<e>> \in Seq(AnyEvent) /\ Range(<<e>>) = {e} /\ InOrder(<<e>>)
<1>1. <<e>> \in Seq(AnyEvent) /\ DOMAIN <<e>> = {1} /\ <<e>>[1] = e
  OBVIOUS
<1> QED
  BY <1>1 DEF Range, InOrder

LEMMA EventIs ==
  ASSUME NEW kind \in {"fields", "result", "error", "end"}, NEW of \in Nat, NEW nth \in Nat
  PROVE  /\ Event(kind, of, nth) \in AnyEvent
         /\ Event(kind, of, nth).of = of /\ Event(kind, of, nth).nth = nth
BY DEF Event, AnyEvent

LEMMA TwoEvents ==
  ASSUME NEW d \in AnyEvent, NEW e \in AnyEvent, Before(d, e)
  PROVE  <<d, e>> \in Seq(AnyEvent) /\ Range(<<d, e>>) = {d, e} /\ InOrder(<<d, e>>)
<1>1. /\ <<d, e>> \in Seq(AnyEvent) /\ DOMAIN <<d, e>> = {1, 2}
      /\ <<d, e>>[1] = d /\ <<d, e>>[2] = e
  OBVIOUS
<1> QED
  BY <1>1 DEF Range, InOrder

LEMMA RowEvents ==
  ASSUME NEW of \in Nat, NEW from \in Nat, NEW n \in Nat
  PROVE  /\ Rows(of, from, n) \in Seq(AnyEvent)
         /\ Range(Rows(of, from, n)) = {Event("result", of, from + r) : r \in 1..n}
         /\ InOrder(Rows(of, from, n))
<1> DEFINE rows == Rows(of, from, n)
<1>1. \A r \in 1..n : from + r \in Nat
  OBVIOUS
<1>2. /\ rows = [r \in 1..n |-> Event("result", of, from + r)]
      /\ \A r \in 1..n : Event("result", of, from + r) \in AnyEvent
  BY <1>1, EventIs DEF Rows
<1>3. rows \in Seq(AnyEvent)
  BY <1>2
<1>4. DOMAIN rows = 1..n /\ \A r \in 1..n : rows[r] = Event("result", of, from + r)
  BY <1>2
<1> HIDE DEF rows
<1>5. Range(rows) = {Event("result", of, from + r) : r \in 1..n}
  BY <1>4 DEF Range
<1>6. InOrder(rows)
  <2> SUFFICES ASSUME NEW j \in 1..n, NEW k \in 1..n, j < k PROVE Before(rows[j], rows[k])
    BY <1>4 DEF InOrder
  <2>1. /\ rows[j].of = of /\ rows[k].of = of
        /\ rows[j].nth = from + j /\ rows[k].nth = from + k
    BY <1>1, <1>4, EventIs
  <2> QED
    BY <2>1 DEF Before
<1> QED
  BY <1>3, <1>5, <1>6 DEF rows

\* What is told of the first n statements, element by element.
LEMMA ToldIs ==
  ASSUME NEW me \in QueryType, NEW n \in Nat
  PROVE  \A e : e \in Told(me, n) <=>
           \E i \in 1..n :
             \/ me.script[i] \in Tabular /\ e = Event("fields", i, 0)
             \/ me.script[i] \in Packet /\ e = Event("result", i, 0)
             \/ /\ me.script[i] \in Tabular
                /\ \E r \in 1..me.given[i] : e = Event("result", i, r)
BY DEF Told

LEMMA ToldSame ==
  ASSUME NEW a \in QueryType, NEW b \in QueryType, NEW n \in Nat, a.script = b.script,
         \A j \in 1..n : a.given[j] = b.given[j]
  PROVE  Told(a, n) = Told(b, n)
<1>1. \A e : e \in Told(a, n) <=> e \in Told(b, n)
  BY ToldIs
<1> QED
  BY <1>1

\* The events of a statement stand before its rows are at an end.
LEMMA ToldPlaces ==
  ASSUME NEW me \in QueryType, NEW n \in 0..Len(me.script), Len(me.given) = Len(me.script),
         NEW e \in Told(me, n)
  PROVE  e \in AnyEvent /\ e.of \in 1..n /\ e.nth \in 0..me.given[e.of]
<1>1. Len(me.script) \in Nat /\ me.given \in Seq(Nat)
  BY TextLength DEF QueryType
<1>2. PICK i \in 1..n :
        \/ e = Event("fields", i, 0) \/ e = Event("result", i, 0)
        \/ \E r \in 1..me.given[i] : e = Event("result", i, r)
  BY <1>1, ToldIs
<1>3. n \in Nat /\ n <= Len(me.given) /\ i \in 1..Len(me.given)
  BY <1>1
<1>4. i \in Nat /\ me.given[i] \in Nat
  BY <1>1, <1>3
<1>5. CASE e = Event("fields", i, 0) \/ e = Event("result", i, 0)
  <2>1. PICK kind \in {"fields", "result"} : e = Event(kind, i, 0)
    BY <1>5
  <2>2. e \in AnyEvent /\ e.of = i /\ e.nth = 0
    BY <1>4, <2>1, EventIs
  <2> QED
    BY <1>4, <2>2
<1>6. CASE \E r \in 1..me.given[i] : e = Event("result", i, r)
  <2>1. PICK r \in 1..me.given[i] : e = Event("result", i, r)
    BY <1>6
  <2>2. r \in Nat
    BY <1>4
  <2>3. e \in AnyEvent /\ e.of = i /\ e.nth = r
    BY <1>4, <2>1, <2>2, EventIs
  <2> QED
    BY <1>4, <2>2, <2>3
<1> QED
  BY <1>2, <1>5, <1>6

\* One statement more.
LEMMA ToldNext ==
  ASSUME NEW me \in QueryType, NEW n \in 1..Len(me.script)
  PROVE  /\ me.script[n] \in Packet =>
              Told(me, n) = Told(me, n - 1) \cup {Event("result", n, 0)}
         /\ me.script[n] \in Tabular =>
              Told(me, n) = Told(me, n - 1) \cup {Event("fields", n, 0)}
                              \cup {Event("result", n, r) : r \in 1..me.given[n]}
         /\ me.script[n] = "bad" => Told(me, n) = Told(me, n - 1)
<1>1. n \in Nat /\ n - 1 \in Nat
  BY TextLength DEF QueryType
<1>2. \A i : i \in 1..n <=> i \in 1..(n - 1) \/ i = n
  BY <1>1
<1>3. \A e : e \in Told(me, n) <=>
        \/ e \in Told(me, n - 1)
        \/ me.script[n] \in Tabular /\ e = Event("fields", n, 0)
        \/ me.script[n] \in Packet /\ e = Event("result", n, 0)
        \/ /\ me.script[n] \in Tabular
           /\ \E r \in 1..me.given[n] : e = Event("result", n, r)
  <2> DEFINE of(i, e) == \/ me.script[i] \in Tabular /\ e = Event("fields", i, 0)
                         \/ me.script[i] \in Packet /\ e = Event("result", i, 0)
                         \/ /\ me.script[i] \in Tabular
                            /\ \E r \in 1..me.given[i] : e = Event("result", i, r)
  <2>1. \A e : /\ e \in Told(me, n) <=> \E i \in 1..n : of(i, e)
               /\ e \in Told(me, n - 1) <=> \E i \in 1..(n - 1) : of(i, e)
    BY <1>1, ToldIs
  <2> HIDE DEF of
  <2>2. \A e : e \in Told(me, n) <=> e \in Told(me, n - 1) \/ of(n, e)
    BY <1>2, <2>1
  <2> QED
    BY <2>2 DEF of
<1>4. me.script[n] \in Packet => me.script[n] \notin Tabular
  BY DEF Packet, Tabular
<1>5. me.script[n] = "bad" => me.script[n] \notin Tabular /\ me.script[n] \notin Packet
  BY DEF Packet, Tabular
<1>6. ASSUME me.script[n] \in Packet
      PROVE  Told(me, n) = Told(me, n - 1) \cup {Event("result", n, 0)}
  BY ONLY <1>3, <1>4, <1>6
<1>7. ASSUME me.script[n] \in Tabular
      PROVE  Told(me, n) = Told(me, n - 1) \cup {Event("fields", n, 0)}
                              \cup {Event("result", n, r) : r \in 1..me.given[n]}
  BY ONLY <1>3, <1>4, <1>7
<1>8. ASSUME me.script[n] = "bad" PROVE Told(me, n) = Told(me, n - 1)
  BY ONLY <1>3, <1>5, <1>8
<1> QED
  BY <1>6, <1>7, <1>8

\* A listener hears more, which comes after all that it has heard.
LEMMA HeardMore ==
  ASSUME NEW me \in QueryType, NEW new \in QueryType, NEW n \in Nat, NEW m \in Nat,
         Heard(me, n), NEW more \in Seq(AnyEvent), InOrder(more),
         new.listens = me.listens,
         new.log = IF me.listens THEN me.log \o more ELSE me.log,
         \A x \in Told(me, n), y \in Range(more) : Before(x, y),
         Told(new, m) = Told(me, n) \cup Range(more)
  PROVE  Heard(new, m)
<1>1. me.log \in Seq(AnyEvent)
  BY DEF QueryType
<1>2. CASE me.listens
  <2>1. Range(me.log) = Told(me, n) /\ InOrder(me.log)
    BY <1>2 DEF Heard
  <2>2. Range(me.log \o more) = Range(me.log) \cup Range(more)
    BY <1>1, RangeOfBoth
  <2>3. InOrder(me.log \o more)
    BY <1>1, <2>1, OrderOfBoth
  <2> QED
    BY <1>2, <2>1, <2>2, <2>3 DEF Heard
<1>3. CASE ~me.listens
  BY <1>3 DEF Heard
<1> QED
  BY <1>2, <1>3

LEMMA HeardSame ==
  ASSUME NEW me, NEW new, NEW n, NEW m, Heard(me, n), new.listens = me.listens,
         new.log = me.log, Told(new, m) = Told(me, n)
  PROVE  Heard(new, m)
BY DEF Heard

LEMMA AheadSame ==
  ASSUME NEW me, NEW new, NEW n, Ahead(me, n), new.script = me.script, new.given = me.given
  PROVE  Ahead(new, n)
BY DEF Ahead

\* The results depend on nothing else of the query.
LEMMA CountedSame ==
  ASSUME NEW a \in QueryType, NEW b \in QueryType, NEW n \in Nat, a.script = b.script,
         \A j \in 1..n : a.given[j] = b.given[j], a.collects = b.collects,
         a.results = b.results
  PROVE  (Recorded(a, n) => Recorded(b, n)) /\ (Counted(a, n) => Counted(b, n))
<1>1. \A i \in 1..n : RowsOf(a, i) = RowsOf(b, i)
  BY DEF RowsOf
<1> DEFINE counts(me) == {i \in 1..n : me.collects \/ me.script[i] \in Packet}
<1>2. counts(a) = counts(b)
  OBVIOUS
<1>3. \A i \in counts(a) : Result(i, RowsOf(a, i)) = Result(i, RowsOf(b, i))
  BY <1>1
<1> HIDE DEF counts
<1>4. {Result(i, RowsOf(a, i)) : i \in counts(a)} = {Result(i, RowsOf(b, i)) : i \in counts(b)}
  BY ONLY <1>2, <1>3
<1>5. Recorded(a, n) => Recorded(b, n)
  BY <1>4 DEF Recorded, counts
<1> QED
  BY <1>5 DEF Counted

LEMMA RowsAreNumbers ==
  /\ <<>> = [r \in 1..0 |-> r]
  /\ \A n \in Nat : [r \in 1..n |-> r] \in Seq(Nat)
<1>1. \A n \in Nat : [r \in 1..n |-> r] \in Seq(Nat)
  OBVIOUS
<1>2. [r \in 1..0 |-> r] \in Seq(Nat) /\ Len([r \in 1..0 |-> r]) = 0
  BY <1>1
<1>3. <<>> = [r \in 1..0 |-> r]
  BY <1>2
<1> QED
  BY <1>1, <1>3

LEMMA Joined ==
  ASSUME NEW a \in Seq(Nat), NEW b \in Seq(Nat)
  PROVE  /\ a \o b \in Seq(Nat) /\ Len(a \o b) = Len(a) + Len(b)
         /\ \A r \in 1..Len(a) : (a \o b)[r] = a[r]
         /\ \A r \in 1..Len(b) : (a \o b)[Len(a) + r] = b[r]
OBVIOUS

LEMMA MoreRows ==
  ASSUME NEW from \in Nat, NEW n \in Nat
  PROVE  [r \in 1..from |-> r] \o [r \in 1..n |-> from + r] = [r \in 1..(from + n) |-> r]
<1> DEFINE a == [r \in 1..from |-> r]
           b == [r \in 1..n |-> from + r]
           c == [r \in 1..(from + n) |-> r]
           d == a \o b
<1>1. a \in Seq(Nat) /\ Len(a) = from /\ \A r \in 1..from : a[r] = r
  OBVIOUS
<1>2. b \in Seq(Nat) /\ Len(b) = n /\ \A r \in 1..n : b[r] = from + r
  OBVIOUS
<1>3. c \in Seq(Nat) /\ Len(c) = from + n /\ \A r \in 1..(from + n) : c[r] = r
  OBVIOUS
<1> HIDE DEF a, b, c
<1>4. /\ d \in Seq(Nat) /\ Len(d) = from + n
      /\ \A r \in 1..from : d[r] = a[r]
      /\ \A r \in 1..n : d[from + r] = b[r]
  <2>1. /\ d \in Seq(Nat) /\ Len(d) = Len(a) + Len(b)
        /\ \A r \in 1..Len(a) : d[r] = a[r]
        /\ \A r \in 1..Len(b) : d[Len(a) + r] = b[r]
    BY <1>1, <1>2, Joined
  <2> HIDE DEF d
  <2> QED
    BY <1>1, <1>2, <2>1
<1> HIDE DEF d
<1>5. ASSUME NEW r \in 1..(from + n) PROVE d[r] = c[r]
  <2>1. CASE r <= from
    BY <1>1, <1>3, <1>4, <2>1
  <2>2. CASE r > from
    <3>1. r - from \in 1..n /\ from + (r - from) = r
      BY <2>2
    <3>2. d[r] = b[r - from]
      BY ONLY <1>4, <3>1
    <3>3. b[r - from] = r
      BY ONLY <1>2, <3>1
    <3>4. c[r] = r
      BY <1>3
    <3> QED
      BY ONLY <3>2, <3>3, <3>4
  <2> QED
    BY <2>1, <2>2
<1>6. d = c
  BY <1>3, <1>4, <1>5
<1> QED
  BY <1>6 DEF a, b, c, d

\* One result more.
LEMMA OneMoreResult ==
  ASSUME NEW me \in QueryType, NEW n \in Nat, NEW m \in Nat, m = n + 1, Counted(me, n),
         NEW new \in QueryType, NEW rows, Result(m, rows) \in AnyResult,
         new.results = Append(me.results, Result(m, rows)),
         new.script = me.script, new.collects = me.collects,
         \A j \in 1..n : new.given[j] = me.given[j],
         new.collects \/ new.script[m] \in Packet,
         rows = RowsOf(new, m)
  PROVE  Counted(new, m)
<1> DEFINE one == Result(m, rows)
           counts(k) == {i \in 1..k : new.collects \/ new.script[i] \in Packet}
<1>1. /\ me.results \in Seq(AnyResult) /\ new.results \in Seq(AnyResult)
      /\ Len(me.results) \in Nat /\ Len(new.results) = Len(me.results) + 1
      /\ \A j \in 1..Len(me.results) : new.results[j] = me.results[j]
      /\ new.results[Len(me.results) + 1] = one
      /\ DOMAIN me.results = 1..Len(me.results) /\ DOMAIN new.results = 1..Len(new.results)
  <2>1. me.results \in Seq(AnyResult) /\ one \in AnyResult
    BY DEF QueryType
  <2> HIDE DEF one
  <2>2. new.results = Append(me.results, one)
    BY DEF one
  <2> QED
    BY ONLY <2>1, <2>2
<1>2. one.of = m
  BY DEF Result
<1> HIDE DEF one
<1>3. Range(new.results) = Range(me.results) \cup {one}
  BY <1>1 DEF Range
<1>4. counts(m) = counts(n) \cup {m}
  OBVIOUS
<1>5. \A i \in 1..n : RowsOf(new, i) = RowsOf(me, i)
  BY DEF RowsOf
<1>6. Range(me.results) = {Result(i, RowsOf(me, i)) : i \in counts(n)}
  BY DEF Counted, Recorded
<1>7. {Result(i, RowsOf(me, i)) : i \in counts(n)} = {Result(i, RowsOf(new, i)) : i \in counts(n)}
  BY <1>5
<1>8. Range(new.results) = {Result(i, RowsOf(new, i)) : i \in counts(m)}
  <2>1. one = Result(m, RowsOf(new, m))
    BY DEF one
  <2> HIDE DEF counts
  <2> QED
    BY ONLY <1>3, <1>4, <1>6, <1>7, <2>1
<1>9. \A j \in DOMAIN me.results : me.results[j].of < m
  <2>1. ASSUME NEW x \in Range(me.results) PROVE x.of < m
    <3>1. PICK i \in 1..n : x = Result(i, RowsOf(me, i))
      BY <1>6
    <3> QED
      BY <3>1 DEF Result
  <2> QED
    BY <2>1 DEF Range
<1>10. \A j, k \in DOMAIN new.results : j < k => new.results[j].of < new.results[k].of
  BY <1>1, <1>2, <1>9 DEF Counted, Recorded
<1>11. new.collects => Len(new.results) = m
  BY <1>1 DEF Counted, Recorded
<1>12. Len(new.results) <= m
  BY <1>1 DEF Counted
<1> QED
  BY <1>8, <1>10, <1>11, <1>12 DEF Counted, Recorded

\* A statement whose rows are not collected has no result.
LEMMA NoMoreResult ==
  ASSUME NEW me \in QueryType, NEW n \in Nat, NEW m \in Nat, m = n + 1, Counted(me, n),
         NEW new \in QueryType,
         new.results = me.results, new.script = me.script,
         ~me.collects, new.collects = me.collects,
         \A j \in 1..n : new.given[j] = me.given[j], new.script[m] \notin Packet
  PROVE  Counted(new, m)
<1> DEFINE counts(k) == {i \in 1..k : new.collects \/ new.script[i] \in Packet}
<1>1. counts(m) = counts(n)
  <2>1. \A i : i \in 1..m <=> i \in 1..n \/ i = m
    OBVIOUS
  <2> QED
    BY <2>1
<1>2. Counted(new, n)
  BY CountedSame
<1>3. Range(new.results) = {Result(i, RowsOf(new, i)) : i \in counts(m)}
  BY <1>1, <1>2 DEF Counted, Recorded
<1>4. Len(new.results) \in Nat
  BY DEF QueryType
<1> QED
  BY <1>2, <1>3, <1>4 DEF Counted, Recorded

-----------------------------------------------------------------------------
(* What the steps make of a query *)

LEMMA EmitType ==
  ASSUME NEW me \in QueryType, NEW events \in Seq(AnyEvent)
  PROVE  /\ Emit(me, events) \in QueryType
         /\ Emit(me, events).log = IF me.listens THEN me.log \o events ELSE me.log
         /\ \A f \in DOMAIN me \ {"log"} : Emit(me, events)[f] = me[f]
<1> DEFINE new == me.log \o events
<1>1. new \in Seq(AnyEvent)
  BY DEF QueryType
<1> HIDE DEF new
<1>2. /\ [me EXCEPT !.log = new] \in QueryType
      /\ [me EXCEPT !.log = new].log = new
      /\ \A f \in DOMAIN me \ {"log"} : [me EXCEPT !.log = new][f] = me[f]
  BY <1>1 DEF QueryType
<1>3. Emit(me, events) = IF me.listens THEN [me EXCEPT !.log = new] ELSE me
  BY DEF Emit, new
<1> QED
  BY <1>2, <1>3 DEF new

\* All that an event leaves alone.
SameBut(told, me) ==
  /\ told.at = me.at /\ told.on = me.on /\ told.script = me.script /\ told.i = me.i
  /\ told.batch = me.batch /\ told.began = me.began /\ told.times = me.times
  /\ told.callback = me.callback /\ told.collects = me.collects /\ told.listens = me.listens
  /\ told.given = me.given /\ told.list = me.list /\ told.results = me.results
  /\ told.schemas = me.schemas /\ told.index = me.index /\ told.failed = me.failed
  /\ told.calls = me.calls

LEMMA EmitSame ==
  ASSUME NEW me \in QueryType, NEW events \in Seq(AnyEvent)
  PROVE  SameBut(Emit(me, events), me)
<1>1. DOMAIN me = {"at", "on", "script", "i", "batch", "began", "times", "callback", "collects",
                   "listens", "given", "list", "results", "schemas", "index", "log", "failed",
                   "calls"}
  BY DEF QueryType
<1>2. \A f \in DOMAIN me \ {"log"} : Emit(me, events)[f] = me[f]
  BY EmitType
<1> QED
  BY ONLY <1>1, <1>2 DEF SameBut

LEMMA NoQueryOK == QueryOK(NoQuery)
<1>1. NoQuery \in QueryType /\ Len(NoQuery.given) = Len(NoQuery.script)
  BY ConstantsAssumption DEF NoQuery, QueryType, Text, Time, Chosen
<1> QED
  BY <1>1 DEF QueryOK, NoQuery

\* The event that closes a query comes after all of its statements.
LEMMA ClosePlace ==
  ASSUME NEW me \in QueryType, Len(me.given) = Len(me.script), me.i \in 0..Len(me.script),
         NEW kind \in {"error", "end"}, NEW k \in {1, 2}
  PROVE  /\ Close(me, kind, k) \in AnyEvent
         /\ Close(me, kind, k).of = me.i
         /\ \A x \in Told(me, me.i) : Before(x, Close(me, kind, k))
<1> DEFINE given == IF me.i = 0 THEN 0 ELSE me.given[me.i]
<1>1. Len(me.script) \in Nat /\ me.given \in Seq(Nat) /\ me.i \in Nat
  BY TextLength DEF QueryType
<1>2. given \in Nat /\ (me.i > 0 => given = me.given[me.i])
  BY <1>1
<1> HIDE DEF given
<1>3. Close(me, kind, k) = Event(kind, me.i, given + k) /\ given + k \in Nat
  BY <1>2 DEF Close, given
<1>4. /\ Close(me, kind, k) \in AnyEvent /\ Close(me, kind, k).of = me.i
      /\ Close(me, kind, k).nth = given + k
  BY <1>1, <1>3, EventIs
<1>5. ASSUME NEW x \in Told(me, me.i) PROVE Before(x, Close(me, kind, k))
  <2>1. x.of \in 1..me.i /\ x.nth \in 0..me.given[x.of]
    BY ToldPlaces
  <2>2. CASE x.of < me.i
    BY <1>4, <2>2 DEF Before
  <2>3. CASE x.of = me.i
    <3>1. x.nth < given + k
      BY <1>1, <1>2, <2>1, <2>3
    <3> QED
      BY <1>4, <2>3, <3>1 DEF Before
  <2> QED
    BY <1>1, <2>1, <2>2, <2>3
<1> QED
  BY <1>4, <1>5

\* A statement has ended, and the next one has not started.
Between(me) ==
  /\ me \in QueryType /\ Len(me.given) = Len(me.script)
  /\ me.i \in 0..Len(me.script) /\ ~me.failed /\ me.calls = 0 /\ me.schemas = me.i
  /\ Heard(me, me.i) /\ Counted(me, me.i) /\ Ahead(me, me.i)

\* The next statement starts, or the query ends.
LEMMA EndedOK ==
  ASSUME NEW me, Between(me), TimeDue(me) \in Time
  PROVE  /\ QueryOK(Ended(me)) /\ Ended(me).on = me.on /\ Ended(me).script = me.script
         /\ Ended(me).listens = me.listens
         /\ \/ /\ Ended(me).at = "running" /\ Ended(me).i = me.i + 1 /\ me.i # Len(me.script)
               /\ Ended(me).began = TimeDue(me) /\ Ended(me).times = {}
               /\ Ended(me).log = me.log
            \/ /\ Ended(me).at = "settled" /\ Ended(me).i = me.i /\ me.i = Len(me.script)
               /\ Ended(me).began = me.began /\ Ended(me).times = me.times
<1>1. /\ me \in QueryType /\ me.script \in Text /\ Len(me.script) \in Nat /\ me.i \in Nat
      /\ me.log \in Seq(AnyEvent) /\ Len(me.results) \in Nat
  BY TextLength DEF QueryType, Between
<1>2. CASE me.i = Len(me.script)
  <2> DEFINE e == Close(me, "end", 1)
             told == Emit(me, <<e>>)
             new == [told EXCEPT !.at = "settled"]
  <2>1. e \in AnyEvent /\ \A x \in Told(me, me.i) : Before(x, e)
    BY <1>1, ClosePlace DEF Between
  <2> HIDE DEF e
  <2>2. <<e>> \in Seq(AnyEvent) /\ Range(<<e>>) = {e} /\ InOrder(<<e>>)
    BY <2>1, OneEvent
  <2>3. /\ told \in QueryType /\ SameBut(told, me)
        /\ told.log = IF me.listens THEN me.log \o <<e>> ELSE me.log
    BY <1>1, <2>2, EmitType, EmitSame
  <2> HIDE DEF told
  <2>4. /\ new \in QueryType /\ new.at = "settled" /\ new.log = told.log
        /\ new.on = told.on /\ new.i = told.i /\ new.began = told.began
        /\ new.times = told.times /\ new.listens = told.listens /\ new.failed = told.failed
        /\ new.script = told.script /\ new.results = told.results /\ new.given = told.given
        /\ new.schemas = told.schemas /\ new.collects = told.collects
    BY <2>3 DEF QueryType
  <2>5. Ended(me) = new
    BY <1>2 DEF Ended, told, e
  <2> HIDE DEF new
  <2>6. Told(new, me.i) = Told(me, me.i) /\ Close(new, "end", 1) = e
    BY <1>1, <2>3, <2>4, ToldSame DEF SameBut, Close, e
  <2>7. new.listens => Complete(new)
    <3> SUFFICES ASSUME new.listens PROVE Complete(new)
      OBVIOUS
    <3>1. me.listens /\ new.log = me.log \o <<e>>
      BY <2>3, <2>4 DEF SameBut
    <3>2. Range(me.log) = Told(me, me.i) /\ InOrder(me.log)
      BY <3>1 DEF Between, Heard
    <3>3. Range(new.log) = Told(me, me.i) \cup {e}
      <4>1. Range(me.log \o <<e>>) = Range(me.log) \cup Range(<<e>>)
        BY <1>1, <2>2, RangeOfBoth
      <4> QED
        BY ONLY <2>2, <3>1, <3>2, <4>1
    <3>4. InOrder(new.log)
      BY <1>1, <2>1, <2>2, <3>1, <3>2, OrderOfBoth
    <3>5. new.failed = FALSE /\ new.i = me.i /\ new.script = me.script
      BY <2>3, <2>4 DEF SameBut, Between, QueryType
    <3> QED
      BY <1>2, <2>6, <3>3, <3>4, <3>5 DEF Complete
  <2>8. Recorded(new, Len(new.script)) /\ Len(new.results) <= Len(new.script)
    <3>1. Counted(new, me.i)
      BY <1>1, <2>3, <2>4, CountedSame DEF SameBut, Between
    <3> QED
      BY <1>2, <2>3, <2>4, <3>1 DEF Counted, SameBut
  <2>9. Over(new)
    BY <1>1, <1>2, <2>3, <2>4, <2>7, <2>8 DEF Over, SameBut, Between
  <2>10. QueryOK(new)
    BY <2>3, <2>4, <2>9 DEF QueryOK, SameBut, Between
  <2> QED
    BY <1>2, <2>3, <2>4, <2>5, <2>10 DEF SameBut
<1>3. CASE me.i # Len(me.script)
  <2> DEFINE new == Ended(me)
  <2>1. new = [me EXCEPT !.at = "running", !.i = me.i + 1, !.batch = 0, !.began = TimeDue(me),
                         !.times = {}, !.list = <<>>]
    BY <1>1, <1>3 DEF Ended, Started, QueryType
  <2> HIDE DEF new
  <2>2. me.i + 1 \in Nat /\ {} \in SUBSET Time /\ <<>> \in Seq(Nat)
    BY <1>1
  <2>3. new \in QueryType
    BY <1>1, <2>1, <2>2 DEF QueryType
  <2>4. /\ new.at = "running" /\ new.i = me.i + 1 /\ new.began = TimeDue(me)
        /\ new.times = {} /\ new.log = me.log /\ new.on = me.on /\ new.listens = me.listens
        /\ new.failed = me.failed /\ new.script = me.script /\ new.results = me.results
        /\ new.schemas = me.schemas /\ new.collects = me.collects /\ new.calls = me.calls
        /\ new.given = me.given /\ new.list = <<>>
    BY <1>1, <2>1 DEF QueryType
  <2>5. new.i - 1 = me.i /\ new.i \in 1..Len(new.script)
    BY <1>1, <1>3, <2>4 DEF Between
  <2>6. Told(new, me.i) = Told(me, me.i)
    BY <1>1, <2>3, <2>4, ToldSame
  <2>7. Heard(new, me.i)
    BY <2>4, <2>6, HeardSame DEF Between
  <2>8. Counted(new, me.i)
    BY <1>1, <2>3, <2>4, CountedSame DEF Between
  <2>9. Ahead(new, me.i)
    BY <2>4, AheadSame DEF Between
  <2>10. UnderWay(new)
    BY <2>4, <2>5, <2>7, <2>8, <2>9 DEF UnderWay, Between
  <2>11. QueryOK(new)
    BY <2>3, <2>4, <2>10 DEF QueryOK, Between
  <2> QED
    BY <1>3, <2>4, <2>11 DEF new
<1> QED
  BY <1>2, <1>3

\* The query fails at a statement, or because there is none.
LEMMA FailedOK ==
  ASSUME NEW me \in QueryType, Len(me.given) = Len(me.script), me.i \in 0..Len(me.script),
         Heard(me, me.i), me.i > 0 => Counted(me, me.i - 1), me.i = 0 => me.results = <<>>
  PROVE  /\ QueryOK(Failed(me)) /\ Failed(me).at = "settled"
         /\ Failed(me).on = me.on /\ Failed(me).i = me.i
         /\ Failed(me).began = me.began /\ Failed(me).times = me.times
         /\ Failed(me).listens = me.listens
<1>1. /\ me.script \in Text /\ Len(me.script) \in Nat /\ me.i \in Nat
      /\ me.log \in Seq(AnyEvent) /\ me.results \in Seq(AnyResult) /\ Len(me.results) \in Nat
  BY TextLength DEF QueryType
<1> DEFINE d == Close(me, "error", 1)
           e == Close(me, "end", 2)
           told == Emit(me, <<d, e>>)
           index == Len(me.results)
           new == [told EXCEPT !.at = "settled", !.failed = TRUE, !.index = index]
<1>2. /\ d \in AnyEvent /\ e \in AnyEvent /\ d.of = me.i
      /\ \A x \in Told(me, me.i) : Before(x, d) /\ Before(x, e)
  BY <1>1, ClosePlace
<1>3. Before(d, e)
  <2>1. me.given \in Seq(Nat)
    BY DEF QueryType
  <2>2. (IF me.i = 0 THEN 0 ELSE me.given[me.i]) \in Nat
    BY <1>1, <2>1
  <2> QED
    BY <2>2 DEF Before, Close, Event
<1> HIDE DEF d, e
<1>4. <<d, e>> \in Seq(AnyEvent) /\ Range(<<d, e>>) = {d, e} /\ InOrder(<<d, e>>)
  BY <1>2, <1>3, TwoEvents
<1>5. /\ told \in QueryType /\ SameBut(told, me)
      /\ told.log = IF me.listens THEN me.log \o <<d, e>> ELSE me.log
  BY <1>4, EmitType, EmitSame
<1>6. Failed(me) = new
  BY DEF Failed, told, d, e
<1> HIDE DEF told, index
<1>7. index \in Nat
  BY <1>1 DEF index
<1>8. /\ new \in QueryType /\ new.at = "settled" /\ new.failed = TRUE /\ new.index = index
      /\ new.log = told.log /\ new.on = told.on /\ new.i = told.i /\ new.began = told.began
      /\ new.times = told.times /\ new.listens = told.listens /\ new.given = told.given
      /\ new.script = told.script /\ new.results = told.results
      /\ new.collects = told.collects
  BY <1>5, <1>7 DEF QueryType
<1> HIDE DEF new
<1>9. /\ Told(new, me.i) = Told(me, me.i)
      /\ Close(new, "error", 1) = d /\ Close(new, "end", 2) = e
  BY SMTT(30), <1>1, <1>5, <1>8, ToldSame DEF SameBut, Close, d, e
<1>10. new.listens => Complete(new)
  <2> SUFFICES ASSUME new.listens PROVE Complete(new)
    OBVIOUS
  <2>1. me.listens /\ new.log = me.log \o <<d, e>> /\ new.i = me.i
    BY <1>5, <1>8 DEF SameBut
  <2>2. Range(me.log) = Told(me, me.i) /\ InOrder(me.log)
    BY <2>1 DEF Heard
  <2>3. Range(new.log) = Told(me, me.i) \cup {d, e}
    <3>1. Range(me.log \o <<d, e>>) = Range(me.log) \cup Range(<<d, e>>)
      BY <1>1, <1>4, RangeOfBoth
    <3> QED
      BY ONLY <1>4, <2>1, <2>2, <3>1
  <2>4. InOrder(new.log)
    BY <1>1, <1>2, <1>4, <2>1, <2>2, OrderOfBoth
  <2> QED
    BY <1>8, <1>9, <2>1, <2>3, <2>4 DEF Complete
<1>11. /\ new.i > 0 => Recorded(new, new.i - 1)
       /\ Len(new.results) <= Len(new.script) /\ new.index = Len(new.results)
  <2>1. CASE me.i = 0
    <3>1. Len(me.results) = 0
      BY <2>1
    <3> QED
      <4>1. /\ new.i = 0 /\ new.results = me.results /\ new.script = me.script
            /\ new.index = Len(me.results)
        BY <1>5, <1>8, <2>1 DEF SameBut, index
      <4> QED
        BY ONLY <1>1, <3>1, <4>1
  <2>2. CASE me.i > 0
    <3>1. me.i - 1 \in Nat /\ Counted(me, me.i - 1)
      BY <1>1, <2>2
    <3>2. Counted(new, me.i - 1)
      <4>1. /\ new.script = me.script /\ new.collects = me.collects
            /\ new.results = me.results /\ new.given = me.given
        BY <1>5, <1>8 DEF SameBut
      <4>2. \A j \in 1..(me.i - 1) : me.given[j] = new.given[j]
        BY <4>1
      <4>3. me \in QueryType /\ new \in QueryType
        BY <1>8
      <4> QED
        BY ONLY <3>1, <4>1, <4>2, <4>3, CountedSame
    <3> QED
      BY <1>1, <1>5, <1>8, <3>1, <3>2 DEF SameBut, index, Counted
  <2> QED
    BY <1>1, <2>1, <2>2
<1>12. Over(new)
  BY <1>5, <1>8, <1>10, <1>11 DEF Over, SameBut
<1>13. QueryOK(new)
  BY <1>5, <1>8, <1>12 DEF QueryOK, SameBut
<1> QED
  BY <1>5, <1>6, <1>8, <1>13 DEF SameBut

-----------------------------------------------------------------------------
(* The steps *)

LEMMA InitHolds == Init => IInv
<1> SUFFICES ASSUME Init PROVE IInv
  OBVIOUS
<1>1. 0 \in Time
  BY ConstantsAssumption DEF Time, Chosen
<1>2. session \in [Session -> SessionType] /\ \A s \in Session : TimeOK(session[s])
  BY <1>1 DEF Init, SessionType, TimeOK
<1>3. NoQuery \in QueryType /\ NoQuery.at = "none" /\ NoQuery.times = {}
  BY NoQueryOK DEF QueryOK, NoQuery
<1>4. query = [q \in Query |-> NoQuery]
  BY DEF Init
<1>5. query \in [Query -> QueryType] /\ \A q \in Query : QueryOK(query[q])
  BY <1>3, <1>4, NoQueryOK
<1>6. Alone
  BY <1>3, <1>4 DEF Alone
<1>7. now \in 1..MaxTime
  BY ConstantsAssumption DEF Init
<1> QED
  BY <1>2, <1>3, <1>4, <1>5, <1>6, <1>7 DEF Init, IInv

LEMMA TimeDueIs ==
  ASSUME IInv, NEW me, me.on \in Session
  PROVE  TimeDue(me) \in Time
<1>1. session[me.on].chosen \in {0, Chosen} /\ now \in 1..MaxTime
  BY DEF IInv, SessionType
<1> QED
  BY <1>1, ConstantsAssumption DEF TimeDue, Time, Chosen

\* A statement starts on its session, and SET TIMESTAMP makes its assignment.
LEMMA AssignedOK ==
  ASSUME IInv, NEW s \in Session, NEW kind
  PROVE  /\ Assigned(StartStatement(s), s, kind) \in [Session -> SessionType]
         /\ \A r \in Session : TimeOK(Assigned(StartStatement(s), s, kind)[r])
         /\ \A r \in Session \ {s} : Assigned(StartStatement(s), s, kind)[r] = session[r]
         /\ kind = "select" =>
              Assigned(StartStatement(s), s, kind)[s].timestamp =
                IF session[s].chosen = 0 THEN now ELSE session[s].chosen
<1> DEFINE on == StartStatement(s)
           new == Assigned(on, s, kind)
<1>1. /\ session \in [Session -> SessionType] /\ \A r \in Session : TimeOK(session[r])
      /\ now \in Time /\ 0 \in Time /\ Chosen \in Time /\ Chosen # 0
  BY ConstantsAssumption DEF IInv, Time, Chosen
<1>2. /\ on \in [Session -> SessionType] /\ \A r \in Session \ {s} : on[r] = session[r]
      /\ on[s].fixed = session[s].fixed /\ on[s].chosen = session[s].chosen
      /\ on[s].timestamp = IF session[s].fixed THEN session[s].timestamp ELSE now
  <2>1. CASE session[s].fixed
    BY <1>1, <2>1 DEF StartStatement
  <2>2. CASE ~session[s].fixed
    BY <1>1, <2>2 DEF StartStatement, SessionType
  <2> QED
    BY <2>1, <2>2
<1>3. TimeOK(on[s])
  BY <1>1, <1>2 DEF TimeOK
<1> HIDE DEF on
<1>4. CASE kind = "setTime"
  <2> DEFINE one == [on[s] EXCEPT !.timestamp = Chosen, !.fixed = TRUE, !.chosen = Chosen]
  <2>1. on[s] \in SessionType
    BY <1>2
  <2>2. /\ one \in SessionType
        /\ one.timestamp = Chosen /\ one.fixed = TRUE /\ one.chosen = Chosen
    BY <1>1, <2>1 DEF SessionType
  <2>3. new = [on EXCEPT ![s] = one]
    BY <1>2, <1>4 DEF Assigned
  <2> HIDE DEF new, one
  <2>4. /\ new \in [Session -> SessionType] /\ \A r \in Session \ {s} : new[r] = on[r]
        /\ new[s].timestamp = Chosen /\ new[s].fixed = TRUE /\ new[s].chosen = Chosen
    BY <1>2, <2>2, <2>3
  <2>5. TimeOK(new[s])
    BY <1>1, <2>4 DEF TimeOK
  <2>6. \A r \in Session \ {s} : new[r] = session[r] /\ TimeOK(new[r])
    BY <1>1, <1>2, <2>4
  <2>7. \A r \in Session : TimeOK(new[r])
    BY <2>5, <2>6
  <2> QED
    BY <1>4, <2>4, <2>6, <2>7 DEF new, on
<1>5. CASE kind = "unsetTime"
  <2> DEFINE one == [on[s] EXCEPT !.timestamp = 0, !.fixed = FALSE, !.chosen = 0]
  <2>1. on[s] \in SessionType
    BY <1>2
  <2>2. /\ one \in SessionType
        /\ one.timestamp = 0 /\ one.fixed = FALSE /\ one.chosen = 0
    BY <1>1, <2>1 DEF SessionType
  <2>3. new = [on EXCEPT ![s] = one]
    BY <1>2, <1>5 DEF Assigned
  <2> HIDE DEF new, one
  <2>4. /\ new \in [Session -> SessionType] /\ \A r \in Session \ {s} : new[r] = on[r]
        /\ new[s].timestamp = 0 /\ new[s].fixed = FALSE /\ new[s].chosen = 0
    BY <1>2, <2>2, <2>3
  <2>5. TimeOK(new[s])
    BY <1>1, <2>4 DEF TimeOK
  <2>6. \A r \in Session \ {s} : new[r] = session[r] /\ TimeOK(new[r])
    BY <1>1, <1>2, <2>4
  <2>7. \A r \in Session : TimeOK(new[r])
    BY <2>5, <2>6
  <2> QED
    BY <1>5, <2>4, <2>6, <2>7 DEF new, on
<1>6. CASE kind \notin {"setTime", "unsetTime"}
  <2>1. new = on
    BY <1>6 DEF Assigned
  <2>2. on[s].timestamp = IF session[s].chosen = 0 THEN now ELSE session[s].chosen
    BY <1>1, <1>2 DEF TimeOK
  <2> QED
    BY <1>1, <1>2, <1>3, <2>1, <2>2 DEF on
<1> QED
  BY <1>4, <1>5, <1>6

\* A step of one query, which may start a statement on its session.
LEMMA SetStep ==
  ASSUME IInv, NEW q \in Query, NEW me, Set(q, me), UNCHANGED <<overlap, now>>,
         QueryOK(me), me.at # "none", me.on \in Session,
         ~overlap => /\ me.times \subseteq {me.began}
                     /\ \A p \in Query \ {q} :
                          query[p].on = me.on => query[p].at \in {"none", "done"},
         me.at = "running" => me.i # query[q].i /\ me.began = TimeDue(me),
         me.at = "rows" =>
           /\ \/ query[q].at = "rows"
              \/ query[q].at = "running" /\ Current(query[q]) = "select"
           /\ me.on = query[q].on /\ me.began = query[q].began
  PROVE  IInv'
<1>1. /\ query' = [query EXCEPT ![q] = me]
      /\ me.at = "running" => session' = Assigned(StartStatement(me.on), me.on, Current(me))
      /\ me.at # "running" => session' = session
  BY DEF Set
<1>2. /\ query' \in [Query -> QueryType] /\ query'[q] = me
      /\ \A p \in Query \ {q} : query'[p] = query[p]
  BY <1>1 DEF IInv, QueryOK
<1>3. /\ session' \in [Session -> SessionType] /\ \A s \in Session : TimeOK(session'[s])
      /\ \A s \in Session \ {me.on} : session'[s] = session[s]
      /\ me.at = "running" /\ Current(me) = "select" => session'[me.on].timestamp = me.began
  <2>1. CASE me.at = "running"
    BY <1>1, <2>1, AssignedOK DEF TimeDue
  <2>2. CASE me.at # "running"
    BY <1>1, <2>2 DEF IInv
  <2> QED
    BY <2>1, <2>2
<1>4. /\ \A p \in Query : QueryOK(query'[p])
      /\ \A p \in Query : query'[p].at # "none" => query'[p].on \in Session
  BY <1>2 DEF IInv
<1>5. Alone'
  <2> SUFFICES ASSUME ~overlap', NEW p \in Query
               PROVE  /\ query'[p].times \subseteq {query'[p].began}
                      /\ \/ query'[p].at = "rows"
                         \/ query'[p].at = "running" /\ Current(query'[p]) = "select"
                         => session'[query'[p].on].timestamp = query'[p].began
                      /\ query'[p].at \notin {"none", "done"} =>
                           \A x \in Query \ {p} : query'[x].on = query'[p].on =>
                             query'[x].at \in {"none", "done"}
    BY DEF Alone, Current
  <2>1. ~overlap /\ Alone
    BY DEF IInv
  <2>2. CASE p = q
    <3>1. me.at = "rows" => session'[me.on].timestamp = me.began
      BY <1>1, <2>1 DEF Alone
    <3> QED
      BY <1>2, <1>3, <2>1, <2>2, <3>1
  <2>3. CASE p # q
    <3>1. query'[p] = query[p]
      BY <1>2, <2>3
    <3>2. query[p].at \notin {"none", "done"} => query[p].on # me.on
      BY <2>1, <2>3
    <3>3. \/ query[p].at = "rows"
          \/ query[p].at = "running" /\ Current(query[p]) = "select"
          => session'[query[p].on].timestamp = query[p].began
      BY <1>3, <2>1, <3>2 DEF Alone, IInv
    <3>4. query[p].at \notin {"none", "done"} =>
            \A x \in Query \ {p} : query'[x].on = query[p].on => query'[x].at \in {"none", "done"}
      <4> SUFFICES ASSUME query[p].at \notin {"none", "done"}, NEW x \in Query \ {p},
                          query'[x].on = query[p].on
                   PROVE  query'[x].at \in {"none", "done"}
        OBVIOUS
      <4>1. x # q
        BY <1>2, <3>2
      <4> QED
        BY <1>2, <2>1, <4>1 DEF Alone
    <3> QED
      BY <2>1, <3>1, <3>3, <3>4 DEF Alone
  <2> QED
    BY <2>2, <2>3
<1> QED
  BY <1>2, <1>3, <1>4, <1>5 DEF IInv

\* What the invariant says of a query that is under way.
LEMMA QueryFacts ==
  ASSUME IInv, NEW q \in Query, query[q].at \in {"running", "rows", "settled"}
  PROVE  /\ query[q] \in QueryType /\ QueryOK(query[q]) /\ query[q].on \in Session
         /\ Len(query[q].given) = Len(query[q].script)
         /\ query[q].at \in {"running", "rows"} => UnderWay(query[q])
         /\ ~overlap =>
              /\ query[q].times \subseteq {query[q].began}
              /\ query[q].at = "rows" => session[query[q].on].timestamp = query[q].began
              /\ \A p \in Query \ {q} :
                   query[p].on = query[q].on => query[p].at \in {"none", "done"}
<1>1. query[q] \in QueryType /\ QueryOK(query[q]) /\ Alone
  BY DEF IInv
<1> QED
  BY <1>1 DEF IInv, QueryOK, Alone

LEMMA FailStep == ASSUME IInv, NEW q \in Query, Fail(q) \/ RowsFail(q), UNCHANGED overlap
                  PROVE  IInv'
<1> DEFINE me == query[q]
<1>1. /\ me.at \in {"running", "rows"} /\ Set(q, Failed(me)) /\ UNCHANGED <<overlap, now>>
      /\ me.at = "running" => me.script[me.i] = "bad"
  BY DEF Fail, RowsFail, Current
<1>2. /\ me \in QueryType /\ UnderWay(me) /\ Len(me.given) = Len(me.script) /\ me.on \in Session
  BY <1>1, QueryFacts
<1>3. ~overlap => /\ me.times \subseteq {me.began}
                  /\ \A p \in Query \ {q} :
                       query[p].on = me.on => query[p].at \in {"none", "done"}
  BY <1>1, QueryFacts
<1> HIDE DEF me
<1>4. Len(me.script) \in Nat /\ me.i \in 1..Len(me.script)
  BY <1>2, TextLength DEF UnderWay, QueryType
<1>5. Heard(me, me.i)
  <2>1. CASE me.at = "rows"
    BY <1>2, <2>1 DEF UnderWay
  <2>2. CASE me.at = "running"
    <3>1. Told(me, me.i) = Told(me, me.i - 1)
      BY <1>1, <1>2, <1>4, <2>2, ToldNext
    <3> QED
      BY <1>2, <2>2, <3>1 DEF UnderWay, Heard
  <2> QED
    BY <1>1, <2>1, <2>2
<1>6. Counted(me, me.i - 1) /\ me.i # 0 /\ me.i \in 0..Len(me.script)
  BY <1>2, <1>4 DEF UnderWay
<1>7. /\ QueryOK(Failed(me)) /\ Failed(me).at = "settled" /\ Failed(me).on = me.on
      /\ Failed(me).began = me.began /\ Failed(me).times = me.times
  BY <1>2, <1>5, <1>6, FailedOK
<1>8. /\ Failed(me).on \in Session
      /\ ~overlap => /\ Failed(me).times \subseteq {Failed(me).began}
                     /\ \A p \in Query \ {q} :
                          query[p].on = Failed(me).on => query[p].at \in {"none", "done"}
  BY <1>2, <1>3, <1>7
<1> QED
  BY <1>1, <1>7, <1>8, SetStep

\* The end of a statement.
LEMMA StatementEnds ==
  ASSUME IInv, NEW q \in Query, query[q].at \in {"running", "rows"},
         NEW me, Between(me), Set(q, Ended(me)), UNCHANGED <<overlap, now>>,
         me.i = query[q].i, me.on = query[q].on, me.began = query[q].began,
         me.times = query[q].times
  PROVE  IInv'
<1> DEFINE new == Ended(me)
<1>1. me.i \in Nat /\ query[q].on \in Session
  BY QueryFacts DEF Between, QueryType
<1>2. TimeDue(me) \in Time
  BY <1>1, TimeDueIs
<1>3. /\ QueryOK(new) /\ new.on = me.on
      /\ \/ /\ new.at = "running" /\ new.i = me.i + 1 /\ new.began = TimeDue(me)
            /\ new.times = {}
         \/ /\ new.at = "settled" /\ new.began = me.began /\ new.times = me.times
  BY <1>2, EndedOK
<1>4. Set(q, new)
  OBVIOUS
<1> HIDE DEF new
<1>5. new.on \in Session /\ new.at # "none"
  BY <1>1, <1>3
<1>6. ~overlap => /\ new.times \subseteq {new.began}
                  /\ \A p \in Query \ {q} :
                       query[p].on = new.on => query[p].at \in {"none", "done"}
  BY <1>3, QueryFacts
<1>7. new.at = "running" => new.i # query[q].i /\ new.began = TimeDue(new)
  BY <1>1, <1>3 DEF TimeDue
<1>8. new.at # "rows"
  BY <1>3
<1> QED
  BY <1>3, <1>4, <1>5, <1>6, <1>7, <1>8, SetStep

\* What is known of a query under way, and of the numbers in it.
LEMMA WayFacts ==
  ASSUME IInv, NEW q \in Query, query[q].at \in {"running", "rows"}
  PROVE  /\ query[q] \in QueryType /\ Len(query[q].given) = Len(query[q].script)
         /\ UnderWay(query[q]) /\ query[q].log \in Seq(AnyEvent)
         /\ query[q].results \in Seq(AnyResult) /\ query[q].given \in Seq(Nat)
         /\ Len(query[q].script) \in Nat /\ query[q].i \in 1..Len(query[q].script)
         /\ query[q].i \in Nat /\ query[q].i - 1 \in Nat /\ query[q].i # 0
         /\ query[q].given[query[q].i] \in Nat /\ query[q].schemas \in Nat
<1>1. query[q] \in QueryType /\ Len(query[q].given) = Len(query[q].script)
      /\ UnderWay(query[q])
  BY QueryFacts
<1>2. Len(query[q].script) \in Nat /\ query[q].i \in 1..Len(query[q].script)
  BY <1>1, TextLength DEF UnderWay, QueryType
<1>3. /\ query[q].log \in Seq(AnyEvent) /\ query[q].results \in Seq(AnyResult)
      /\ query[q].given \in Seq(Nat) /\ query[q].schemas \in Nat
  BY <1>1 DEF QueryType
<1>4. query[q].given[query[q].i] \in Nat
  BY SMTT(30), <1>1, <1>2, <1>3
<1> QED
  BY <1>1, <1>2, <1>3, <1>4

\* Everything that was told stands before an event of the statement that is being executed.
LEMMA NewIsLater ==
  ASSUME NEW me \in QueryType, Len(me.given) = Len(me.script), NEW i \in 1..Len(me.script),
         NEW e, e.of = i
  PROVE  \A x \in Told(me, i - 1) : Before(x, e)
<1>1. i \in Nat /\ i - 1 \in 0..Len(me.script)
  BY TextLength DEF QueryType
<1>2. ASSUME NEW x \in Told(me, i - 1) PROVE Before(x, e)
  <2>1. x.of \in 1..(i - 1)
    BY <1>1, ToldPlaces
  <2> QED
    BY <1>1, <2>1 DEF Before
<1> QED
  BY <1>2

LEMMA WriteStep == ASSUME IInv, NEW q \in Query, Write(q), UNCHANGED overlap PROVE IInv'
<1> DEFINE me == query[q]
           e == Event("result", me.i, 0)
           one == Result(me.i, <<>>)
           told == Emit(me, <<e>>)
           done == [told EXCEPT !.results = Append(@, one), !.schemas = @ + 1]
<1>1. /\ me.at = "running" /\ me.script[me.i] \in Packet /\ Set(q, Ended(done))
      /\ UNCHANGED <<overlap, now>>
  BY DEF Write, Current
<1>2. /\ me \in QueryType /\ Len(me.given) = Len(me.script) /\ UnderWay(me)
      /\ me.log \in Seq(AnyEvent) /\ me.results \in Seq(AnyResult)
      /\ Len(me.script) \in Nat /\ me.i \in 1..Len(me.script)
      /\ me.i \in Nat /\ me.i - 1 \in Nat /\ me.schemas \in Nat
  BY <1>1, WayFacts
<1> HIDE DEF me
<1>3. e \in AnyEvent /\ e.of = me.i
  BY <1>2, EventIs
<1>4. \A x \in Told(me, me.i - 1) : Before(x, e)
  BY <1>2, <1>3, NewIsLater
<1>5. Told(me, me.i) = Told(me, me.i - 1) \cup {e}
  BY <1>1, <1>2, ToldNext
<1> HIDE DEF e
<1>6. <<e>> \in Seq(AnyEvent) /\ Range(<<e>>) = {e} /\ InOrder(<<e>>)
  BY <1>3, OneEvent
<1>7. /\ told \in QueryType /\ SameBut(told, me)
      /\ told.log = IF me.listens THEN me.log \o <<e>> ELSE me.log
  BY <1>2, <1>6, EmitType, EmitSame
<1>8. one \in AnyResult
  BY <1>2 DEF Result, AnyResult
<1> HIDE DEF told, one
<1>9. Append(told.results, one) \in Seq(AnyResult) /\ told.schemas + 1 \in Nat
  BY <1>2, <1>7, <1>8 DEF SameBut
<1>10. done = [told EXCEPT !.results = Append(told.results, one), !.schemas = told.schemas + 1]
  BY <1>7 DEF QueryType
<1> HIDE DEF done
<1>11. done \in QueryType
  BY <1>7, <1>9, <1>10 DEF QueryType
<1>12. /\ done.results = Append(me.results, one) /\ done.schemas = me.i
       /\ done.log = told.log /\ done.on = me.on /\ done.i = me.i /\ done.began = me.began
       /\ done.times = me.times /\ done.listens = me.listens /\ done.script = me.script
       /\ done.collects = me.collects /\ done.failed = me.failed /\ done.calls = me.calls
       /\ done.given = me.given
  <2>1. me.schemas + 1 = me.i
    BY <1>1, <1>2 DEF UnderWay, me
  <2> QED
    BY <1>7, <1>10, <2>1 DEF QueryType, SameBut
<1>13. Heard(done, me.i)
  <2>1. Told(done, me.i) = Told(me, me.i - 1) \cup Range(<<e>>)
    BY <1>2, <1>5, <1>6, <1>11, <1>12, ToldSame
  <2>2. Heard(me, me.i - 1)
    BY <1>1, <1>2 DEF UnderWay, me
  <2>3. \A x \in Told(me, me.i - 1), y \in Range(<<e>>) : Before(x, y)
    BY <1>4, <1>6
  <2>4. me \in QueryType /\ me.i \in Nat /\ me.i - 1 \in Nat
    BY ONLY <1>2
  <2>5. /\ done.listens = me.listens
        /\ done.log = IF me.listens THEN me.log \o <<e>> ELSE me.log
    BY ONLY <1>7, <1>12
  <2> QED
    BY ONLY <1>6, <1>11, <2>1, <2>2, <2>3, <2>4, <2>5, HeardMore
<1>14. Counted(done, me.i)
  <2>1. <<>> = RowsOf(done, me.i) /\ done.script[me.i] \in Packet
    BY <1>1, <1>12 DEF RowsOf, me
  <2>2. Counted(me, me.i - 1) /\ me.i = (me.i - 1) + 1
    BY <1>2 DEF UnderWay
  <2>3. Result(me.i, <<>>) \in AnyResult /\ done.results = Append(me.results, Result(me.i, <<>>))
    BY <1>8, <1>12 DEF one
  <2>4. \A j \in 1..(me.i - 1) : done.given[j] = me.given[j]
    BY <1>12
  <2> QED
    BY ONLY <1>2, <1>11, <1>12, <2>1, <2>2, <2>3, <2>4, OneMoreResult
<1>15. Ahead(done, me.i)
  BY <1>1, <1>2, <1>12 DEF Ahead, UnderWay, me
<1>16. Between(done)
  BY <1>2, <1>11, <1>12, <1>13, <1>14, <1>15 DEF Between, UnderWay
<1> QED
  BY <1>1, <1>12, <1>16, StatementEnds DEF me

LEMMA ShowStep == ASSUME IInv, NEW q \in Query, Show(q), UNCHANGED overlap PROVE IInv'
<1> DEFINE me == query[q]
<1>1. PICK n \in Sizes :
        /\ me.at = "running" /\ Current(me) = "show"
        /\ Set(q, Ended([Emit(me, <<Event("fields", me.i, 0)>> \o Rows(me.i, 0, n)) EXCEPT
                     !.given[me.i] = n, !.schemas = @ + 1,
                     !.results = IF me.collects
                                 THEN Append(@, Result(me.i, [r \in 1..n |-> r])) ELSE @]))
        /\ UNCHANGED now
  BY DEF Show
<1> DEFINE e == Event("fields", me.i, 0)
           more == <<e>> \o Rows(me.i, 0, n)
           rows == [r \in 1..n |-> r]
           one == Result(me.i, rows)
           told == Emit(me, more)
           results == IF me.collects THEN Append(me.results, one) ELSE me.results
           given == [me.given EXCEPT ![me.i] = n]
           done == [told EXCEPT !.given = given, !.schemas = me.schemas + 1,
                                !.results = results]
<1>2. /\ me \in QueryType /\ Len(me.given) = Len(me.script) /\ UnderWay(me)
      /\ me.log \in Seq(AnyEvent) /\ me.results \in Seq(AnyResult) /\ me.given \in Seq(Nat)
      /\ Len(me.script) \in Nat /\ me.i \in 1..Len(me.script)
      /\ me.i \in Nat /\ me.i - 1 \in Nat /\ me.schemas \in Nat /\ n \in Nat
  BY <1>1, WayFacts, ConstantsAssumption
<1>3. /\ Heard(me, me.i - 1) /\ me.schemas + 1 = me.i /\ Ahead(me, me.i - 1)
      /\ Counted(me, me.i - 1) /\ ~me.failed /\ me.calls = 0
      /\ me.script[me.i] \in Tabular /\ me.script[me.i] \notin Packet
  <2>1. me.script[me.i] = "show"
    BY <1>1 DEF Current
  <2>2. me.script[me.i] \in Tabular /\ me.script[me.i] \notin Packet
    BY ONLY <2>1 DEF Tabular, Packet
  <2>3. me.at = "running" /\ me.at # "rows"
    BY <1>1
  <2> HIDE DEF me
  <2>4. /\ Heard(me, me.i - 1) /\ me.schemas = me.i - 1 /\ Ahead(me, me.i - 1)
        /\ Counted(me, me.i - 1) /\ ~me.failed /\ me.calls = 0
    BY ONLY <1>2, <2>3 DEF UnderWay
  <2> QED
    BY ONLY <1>2, <2>2, <2>4
<1> HIDE DEF me
<1>4. e \in AnyEvent /\ e.of = me.i /\ e.nth = 0
  <2>1. me.i \in Nat
    BY <1>2
  <2> QED
    BY ONLY <2>1, EventIs
<1>5. /\ Rows(me.i, 0, n) \in Seq(AnyEvent) /\ InOrder(Rows(me.i, 0, n))
      /\ Range(Rows(me.i, 0, n)) = {Event("result", me.i, r) : r \in 1..n}
  <2>1. {Event("result", me.i, 0 + r) : r \in 1..n} = {Event("result", me.i, r) : r \in 1..n}
    <3>1. \A r \in 1..n : Event("result", me.i, 0 + r) = Event("result", me.i, r)
      <4>1. \A r \in 1..n : 0 + r = r
        BY <1>2
      <4> QED
        BY ONLY <4>1
    <3> QED
      BY ONLY <3>1
  <2> QED
    <3>1. me.i \in Nat /\ n \in Nat /\ 0 \in Nat
      BY <1>2
    <3>2. /\ Rows(me.i, 0, n) \in Seq(AnyEvent) /\ InOrder(Rows(me.i, 0, n))
          /\ Range(Rows(me.i, 0, n)) = {Event("result", me.i, 0 + r) : r \in 1..n}
      BY ONLY <3>1, RowEvents
    <3> QED
      BY ONLY <2>1, <3>2
<1>6. /\ more \in Seq(AnyEvent) /\ InOrder(more)
      /\ Range(more) = {e} \cup {Event("result", me.i, r) : r \in 1..n}
      /\ \A y \in Range(more) : y.of = me.i
  <2>1. \A r \in 1..n : /\ Event("result", me.i, r).of = me.i /\ Event("result", me.i, r).nth = r
                        /\ 0 < r
    <3>1. me.i \in Nat /\ \A r \in 1..n : r \in Nat /\ 0 < r
      BY <1>2
    <3> QED
      BY ONLY <3>1, EventIs
  <2>2. <<e>> \in Seq(AnyEvent) /\ Range(<<e>>) = {e} /\ InOrder(<<e>>)
    BY <1>4, OneEvent
  <2>3. \A x \in Range(<<e>>), y \in Range(Rows(me.i, 0, n)) : Before(x, y)
    BY <1>4, <1>5, <2>1, <2>2 DEF Before
  <2>4. more \in Seq(AnyEvent) /\ Range(more) = Range(<<e>>) \cup Range(Rows(me.i, 0, n))
    BY <1>5, <2>2, RangeOfBoth
  <2>5. InOrder(more)
    BY <1>5, <2>2, <2>3, OrderOfBoth
  <2> QED
    BY <1>4, <1>5, <2>1, <2>2, <2>4, <2>5
<1>7. \A x \in Told(me, me.i - 1), y \in Range(more) : Before(x, y)
  BY <1>2, <1>6, NewIsLater
<1> HIDE DEF more
<1>8. /\ told \in QueryType /\ SameBut(told, me)
      /\ told.log = IF me.listens THEN me.log \o more ELSE me.log
  BY <1>2, <1>6, EmitType, EmitSame
<1>9. rows \in Seq(Nat) /\ one \in AnyResult
  BY <1>2, RowsAreNumbers DEF Result, AnyResult
<1>10. /\ given \in Seq(Nat) /\ Len(given) = Len(me.given) /\ given[me.i] = n
       /\ \A j \in 1..Len(me.script) : j # me.i => given[j] = me.given[j]
  BY SMTT(30), <1>2
<1>11. results \in Seq(AnyResult)
  BY <1>2, <1>9
<1>12. Set(q, Ended(done)) /\ UNCHANGED <<overlap, now>>
  <2>1. told.given = me.given /\ told.schemas = me.schemas /\ told.results = me.results
    BY <1>8 DEF SameBut
  <2>2. [told EXCEPT !.given[me.i] = n, !.schemas = @ + 1,
                     !.results = IF me.collects THEN Append(@, one) ELSE @] = done
    BY <1>8, <2>1 DEF QueryType
  <2> QED
    BY <1>1, <2>2 DEF told, more, me
<1> HIDE DEF e, told, given, results, one, rows
<1>13. done \in QueryType
  BY <1>2, <1>3, <1>8, <1>10, <1>11 DEF QueryType
<1>14. /\ done.results = results /\ done.schemas = me.i /\ done.given = given
       /\ done.log = told.log /\ done.on = me.on /\ done.i = me.i /\ done.began = me.began
       /\ done.times = me.times /\ done.listens = me.listens /\ done.script = me.script
       /\ done.collects = me.collects /\ done.failed = me.failed /\ done.calls = me.calls
  <2>1. /\ done.results = results /\ done.schemas = me.schemas + 1 /\ done.given = given
        /\ done.log = told.log /\ done.on = told.on /\ done.i = told.i
        /\ done.began = told.began /\ done.times = told.times
        /\ done.listens = told.listens /\ done.script = told.script
        /\ done.collects = told.collects /\ done.failed = told.failed
        /\ done.calls = told.calls
    BY ONLY <1>8 DEF QueryType, done
  <2> QED
    BY ONLY <1>3, <1>8, <2>1 DEF SameBut
<1> HIDE DEF done
<1>15. \A j \in 1..(me.i - 1) : done.given[j] = me.given[j]
  <2>1. \A j \in 1..(me.i - 1) : j \in 1..Len(me.script) /\ j # me.i
    BY ONLY <1>2
  <2> QED
    BY ONLY <1>10, <1>14, <2>1
<1>16. Heard(done, me.i)
  <2>1. Told(done, me.i - 1) = Told(me, me.i - 1)
    BY <1>2, <1>13, <1>14, <1>15, ToldSame
  <2>2. Told(done, me.i) = Told(done, me.i - 1) \cup {e}
                             \cup {Event("result", me.i, r) : r \in 1..n}
    BY <1>2, <1>3, <1>10, <1>13, <1>14, ToldNext DEF e
  <2>3. Told(done, me.i) = Told(me, me.i - 1) \cup Range(more)
    BY ONLY <1>6, <2>1, <2>2
  <2> QED
    BY ONLY <1>2, <1>3, <1>6, <1>7, <1>8, <1>13, <1>14, <2>3, HeardMore
<1>17. Counted(done, me.i)
  <2>1. me.i = (me.i - 1) + 1
    BY <1>2
  <2>2. done.script[me.i] \notin Packet
    BY <1>3, <1>14
  <2>3. rows = RowsOf(done, me.i)
    BY <1>10, <1>14, <2>2 DEF RowsOf, rows
  <2>4. CASE me.collects
    <3>1. done.collects
      BY <1>14, <2>4
    <3>2. Result(me.i, rows) \in AnyResult /\ done.results = Append(me.results, Result(me.i, rows))
      BY <1>9, <1>14, <2>4 DEF results, one
    <3> QED
      BY ONLY <1>2, <1>3, <1>13, <1>14, <1>15, <2>1, <2>3, <3>1, <3>2, OneMoreResult
  <2>5. CASE ~me.collects
    <3>1. done.results = me.results
      BY <1>14, <2>5 DEF results
    <3> QED
      BY ONLY <1>2, <1>3, <1>13, <1>14, <1>15, <2>1, <2>2, <2>5, <3>1, NoMoreResult
  <2> QED
    BY <2>4, <2>5
<1>18. Ahead(done, me.i)
  <2> SUFFICES ASSUME NEW j \in 1..Len(me.script), j > me.i PROVE given[j] = 0
    BY <1>14 DEF Ahead
  <2>1. j > me.i - 1 /\ j # me.i
    BY <1>2
  <2> QED
    BY <1>3, <1>10, <2>1 DEF Ahead
<1>19. Between(done)
  BY <1>2, <1>3, <1>10, <1>13, <1>14, <1>16, <1>17, <1>18 DEF Between
<1> QED
  BY <1>1, <1>12, <1>14, <1>19, StatementEnds DEF me

\* The rows of a SELECT are at an end.
LEMMA RowsEndStep == ASSUME IInv, NEW q \in Query, RowsEnd(q), UNCHANGED overlap PROVE IInv'
<1> DEFINE me == query[q]
           one == Result(me.i, me.list)
           results == IF me.collects THEN Append(me.results, one) ELSE me.results
           done == [me EXCEPT !.results = results]
<1>1. me.at = "rows" /\ UNCHANGED <<overlap, now>>
  BY DEF RowsEnd
<1>2. /\ me \in QueryType /\ Len(me.given) = Len(me.script) /\ UnderWay(me)
      /\ me.results \in Seq(AnyResult) /\ Len(me.script) \in Nat /\ me.i \in 1..Len(me.script)
      /\ me.i \in Nat /\ me.i - 1 \in Nat /\ me.list \in Seq(Nat)
  BY <1>1, WayFacts DEF QueryType
<1>3. /\ Heard(me, me.i) /\ me.schemas = me.i /\ Ahead(me, me.i)
      /\ Counted(me, me.i - 1) /\ ~me.failed /\ me.calls = 0 /\ me.script[me.i] \notin Packet
      /\ me.collects => me.list = [r \in 1..me.given[me.i] |-> r]
  <2>1. me.at = "rows" /\ me.at # "running"
    BY <1>1
  <2> HIDE DEF me
  <2>2. /\ Heard(me, me.i) /\ me.schemas = me.i /\ Ahead(me, me.i)
        /\ Counted(me, me.i - 1) /\ ~me.failed /\ me.calls = 0 /\ me.script[me.i] = "select"
        /\ me.collects => me.list = [r \in 1..me.given[me.i] |-> r]
    BY ONLY <1>2, <2>1 DEF UnderWay, Current
  <2>3. me.script[me.i] \notin Packet
    BY ONLY <2>2 DEF Packet
  <2> QED
    BY ONLY <2>2, <2>3
<1>4. Set(q, Ended(done))
  BY <1>2 DEF RowsEnd, QueryType
<1> HIDE DEF me
<1>5. one \in AnyResult
  BY <1>2 DEF Result, AnyResult
<1> HIDE DEF one
<1>6. results \in Seq(AnyResult)
  BY <1>2, <1>5
<1> HIDE DEF results
<1>7. done \in QueryType
  BY <1>2, <1>6 DEF QueryType
<1>8. /\ done.results = results /\ done.log = me.log /\ done.given = me.given
      /\ done.schemas = me.schemas /\ done.on = me.on /\ done.i = me.i
      /\ done.began = me.began /\ done.times = me.times /\ done.listens = me.listens
      /\ done.script = me.script /\ done.collects = me.collects /\ done.failed = me.failed
      /\ done.calls = me.calls
  BY <1>2 DEF QueryType
<1> HIDE DEF done
<1>9. \A j \in 1..(me.i - 1) : done.given[j] = me.given[j]
  BY <1>8
<1>10. Counted(done, me.i)
  <2>1. me.i = (me.i - 1) + 1
    BY <1>2
  <2>2. done.script[me.i] \notin Packet
    BY <1>3, <1>8
  <2>3. CASE me.collects
    <3>1. done.collects /\ me.list = RowsOf(done, me.i)
      BY <1>3, <1>8, <2>2, <2>3 DEF RowsOf
    <3>2. /\ Result(me.i, me.list) \in AnyResult
          /\ done.results = Append(me.results, Result(me.i, me.list))
      BY <1>5, <1>8, <2>3 DEF results, one
    <3>3. /\ me \in QueryType /\ me.i \in Nat /\ me.i - 1 \in Nat
          /\ Counted(me, me.i - 1)
          /\ done.script = me.script /\ done.collects = me.collects
      BY ONLY <1>2, <1>3, <1>8
    <3> QED
      BY ONLY <1>7, <1>9, <2>1, <3>1, <3>2, <3>3, OneMoreResult
  <2>4. CASE ~me.collects
    <3>1. done.results = me.results
      BY <1>8, <2>4 DEF results
    <3> QED
      BY ONLY <1>2, <1>3, <1>7, <1>8, <1>9, <2>1, <2>2, <2>4, <3>1, NoMoreResult
  <2> QED
    BY <2>3, <2>4
<1>11. Heard(done, me.i)
  <2>1. Told(done, me.i) = Told(me, me.i)
    BY <1>2, <1>7, <1>8, ToldSame
  <2> QED
    BY <1>3, <1>8, <2>1, HeardSame
<1>12. Ahead(done, me.i)
  BY <1>3, <1>8, AheadSame
<1>13. Between(done)
  BY <1>2, <1>3, <1>7, <1>8, <1>10, <1>11, <1>12 DEF Between
<1> QED
  BY <1>1, <1>4, <1>8, <1>13, StatementEnds DEF me

\* The fields of a SELECT.
LEMMA FieldsStep == ASSUME IInv, NEW q \in Query, Fields(q), UNCHANGED overlap PROVE IInv'
<1> DEFINE me == query[q]
           e == Event("fields", me.i, 0)
           told == Emit(me, <<e>>)
           new == [told EXCEPT !.at = "rows", !.schemas = @ + 1]
<1>1. /\ me.at = "running" /\ Current(me) = "select" /\ Set(q, new)
      /\ UNCHANGED <<overlap, now>>
  BY DEF Fields
<1>2. /\ me \in QueryType /\ Len(me.given) = Len(me.script) /\ UnderWay(me)
      /\ me.log \in Seq(AnyEvent) /\ Len(me.script) \in Nat /\ me.i \in 1..Len(me.script)
      /\ me.i \in Nat /\ me.i - 1 \in Nat /\ me.schemas \in Nat
  BY <1>1, WayFacts
<1>3. /\ me.on \in Session
      /\ ~overlap => /\ me.times \subseteq {me.began}
                     /\ \A p \in Query \ {q} :
                          query[p].on = me.on => query[p].at \in {"none", "done"}
  BY <1>1, QueryFacts
<1> HIDE DEF me
<1>4. /\ Heard(me, me.i - 1) /\ me.schemas + 1 = me.i /\ Ahead(me, me.i - 1)
      /\ Counted(me, me.i - 1) /\ ~me.failed /\ me.calls = 0 /\ me.list = <<>>
  BY <1>1, <1>2 DEF UnderWay
<1>5. e \in AnyEvent /\ e.of = me.i
  BY <1>2, EventIs
<1>6. \A x \in Told(me, me.i - 1) : Before(x, e)
  BY <1>2, <1>5, NewIsLater
<1>7. me.given[me.i] = 0
  BY <1>2, <1>4 DEF Ahead
<1>8. Told(me, me.i) = Told(me, me.i - 1) \cup {e}
  <2>1. me.script[me.i] \in Tabular
    BY <1>1 DEF Current, Tabular
  <2>2. Told(me, me.i) = Told(me, me.i - 1) \cup {e}
                           \cup {Event("result", me.i, r) : r \in 1..me.given[me.i]}
    BY <1>2, <2>1, ToldNext
  <2>3. 1..me.given[me.i] = {}
    BY <1>7
  <2> QED
    BY ONLY <2>2, <2>3
<1> HIDE DEF e
<1>9. <<e>> \in Seq(AnyEvent) /\ Range(<<e>>) = {e} /\ InOrder(<<e>>)
  BY <1>5, OneEvent
<1>10. /\ told \in QueryType /\ SameBut(told, me)
       /\ told.log = IF me.listens THEN me.log \o <<e>> ELSE me.log
  BY <1>2, <1>9, EmitType, EmitSame
<1> HIDE DEF told
<1>11. new = [told EXCEPT !.at = "rows", !.schemas = told.schemas + 1]
  BY <1>10 DEF QueryType
<1> HIDE DEF new
<1>12. told.schemas + 1 \in Nat /\ told.schemas + 1 = me.i
  BY <1>2, <1>4, <1>10 DEF SameBut
<1>13. new \in QueryType
  BY ONLY <1>10, <1>11, <1>12 DEF QueryType
<1>14. /\ new.at = "rows" /\ new.schemas = me.i /\ new.log = told.log
       /\ new.on = me.on /\ new.i = me.i /\ new.began = me.began
       /\ new.times = me.times /\ new.listens = me.listens /\ new.script = me.script
       /\ new.collects = me.collects /\ new.failed = me.failed /\ new.calls = me.calls
       /\ new.given = me.given /\ new.results = me.results /\ new.list = me.list
  BY ONLY <1>10, <1>11, <1>12 DEF QueryType, SameBut
<1>15. Heard(new, me.i)
  <2>1. Told(new, me.i) = Told(me, me.i - 1) \cup Range(<<e>>)
    <3>1. Told(new, me.i) = Told(me, me.i)
      <4>1. new.script = me.script /\ \A j \in 1..me.i : new.given[j] = me.given[j]
        BY <1>14
      <4> QED
        BY ONLY <1>2, <1>13, <4>1, ToldSame
    <3> QED
      BY ONLY <1>8, <1>9, <3>1
  <2>2. \A x \in Told(me, me.i - 1), y \in Range(<<e>>) : Before(x, y)
    BY <1>6, <1>9
  <2> QED
    <3>1. /\ me \in QueryType /\ new \in QueryType /\ me.i \in Nat /\ me.i - 1 \in Nat
          /\ Heard(me, me.i - 1) /\ new.listens = me.listens
          /\ new.log = IF me.listens THEN me.log \o <<e>> ELSE me.log
      BY <1>2, <1>4, <1>10, <1>13, <1>14
    <3> QED
      BY ONLY <1>9, <2>1, <2>2, <3>1, HeardMore
<1>16. Counted(new, me.i - 1)
  <2>1. \A j \in 1..(me.i - 1) : me.given[j] = new.given[j]
    BY <1>14
  <2> QED
    BY ONLY <1>2, <1>4, <1>13, <1>14, <2>1, CountedSame
<1>17. new.list = [r \in 1..new.given[me.i] |-> r]
  BY <1>4, <1>7, <1>14, RowsAreNumbers
<1>18. Ahead(new, me.i)
  BY <1>2, <1>4, <1>14 DEF Ahead
<1>19. UnderWay(new)
  BY <1>1, <1>2, <1>4, <1>14, <1>15, <1>16, <1>17, <1>18 DEF UnderWay, Current
<1>20. QueryOK(new)
  BY <1>2, <1>13, <1>14, <1>19 DEF QueryOK
<1>21. new.on \in Session /\ new.at # "none" /\ new.at # "running"
  BY <1>3, <1>14
<1>22. ~overlap => /\ new.times \subseteq {new.began}
                   /\ \A p \in Query \ {q} :
                        query[p].on = new.on => query[p].at \in {"none", "done"}
  BY <1>3, <1>14
<1>23. new.on = query[q].on /\ new.began = query[q].began
  BY <1>14 DEF me
<1>24. query[q].at = "running" /\ Current(query[q]) = "select"
  BY <1>1 DEF me
<1> QED
  BY <1>1, <1>20, <1>21, <1>22, <1>23, <1>24, SetStep

\* A batch of rows.
LEMMA BatchStep == ASSUME IInv, NEW q \in Query, Batch(q), UNCHANGED overlap PROVE IInv'
<1> DEFINE me == query[q]
           from == me.given[me.i]
           time == session[me.on].timestamp
<1>1. PICK n \in Sizes :
        /\ me.at = "rows"
        /\ Set(q, [Emit(me, Rows(me.i, from, n)) EXCEPT
                     !.batch = @ + 1, !.given[me.i] = from + n,
                     !.list = IF me.collects THEN @ \o [r \in 1..n |-> from + r] ELSE @,
                     !.times = @ \cup {time}])
        /\ UNCHANGED <<overlap, now>>
  <2>1. PICK n \in Sizes :
          /\ me.at = "rows"
          /\ \E f \in {me.given[me.i]} :
               Set(q, [Emit(me, Rows(me.i, f, n)) EXCEPT
                         !.batch = @ + 1, !.given[me.i] = f + n,
                         !.list = IF me.collects THEN @ \o [r \in 1..n |-> f + r] ELSE @,
                         !.times = @ \cup {session[me.on].timestamp}])
          /\ UNCHANGED now
    BY ZenonT(60) DEF Batch
  <2> QED
    BY <2>1
<1> DEFINE more == Rows(me.i, from, n)
           told == Emit(me, more)
           given == [me.given EXCEPT ![me.i] = from + n]
           list == IF me.collects THEN me.list \o [r \in 1..n |-> from + r] ELSE me.list
           times == me.times \cup {time}
           new == [told EXCEPT !.batch = me.batch + 1, !.given = given, !.list = list,
                               !.times = times]
<1>2. /\ me \in QueryType /\ Len(me.given) = Len(me.script) /\ UnderWay(me)
      /\ me.log \in Seq(AnyEvent) /\ me.given \in Seq(Nat)
      /\ Len(me.script) \in Nat /\ me.i \in 1..Len(me.script)
      /\ me.i \in Nat /\ me.i - 1 \in Nat /\ me.schemas \in Nat /\ from \in Nat
  BY <1>1, WayFacts
<1>3. /\ me.on \in Session /\ time \in Time /\ n \in Nat /\ from + n \in Nat
      /\ ~overlap => /\ me.times \subseteq {me.began} /\ time = me.began
                     /\ \A p \in Query \ {q} :
                          query[p].on = me.on => query[p].at \in {"none", "done"}
  <2>1. n \in Nat /\ from + n \in Nat
    <3>1. n \in Nat /\ from \in Nat
      BY <1>2, ConstantsAssumption
    <3> HIDE DEF from
    <3> QED
      BY ONLY <3>1
  <2>2. me.on \in Session
    BY <1>1, QueryFacts
  <2>3. time \in Time
    BY <2>2 DEF IInv, SessionType
  <2>4. ~overlap => /\ me.times \subseteq {me.began} /\ time = me.began
                    /\ \A p \in Query \ {q} :
                         query[p].on = me.on => query[p].at \in {"none", "done"}
    BY <1>1, QueryFacts
  <2> QED
    BY <2>1, <2>2, <2>3, <2>4
<1>4. me.at = "rows" /\ me.at # "running" /\ UNCHANGED <<overlap, now>>
  BY <1>1
<1> HIDE DEF me
<1>5. /\ Heard(me, me.i) /\ me.schemas = me.i /\ Ahead(me, me.i)
      /\ Counted(me, me.i - 1) /\ ~me.failed /\ me.calls = 0 /\ me.script[me.i] = "select"
      /\ me.collects => me.list = [r \in 1..from |-> r]
  BY ONLY <1>2, <1>4 DEF UnderWay, Current
<1> HIDE DEF from, time
<1>6. me.i \in Nat /\ from \in Nat /\ n \in Nat
  BY <1>2, <1>3
<1>7. /\ more \in Seq(AnyEvent) /\ InOrder(more)
      /\ Range(more) = {Event("result", me.i, from + r) : r \in 1..n}
  BY ONLY <1>6, RowEvents
<1>8. \A x \in Told(me, me.i), y \in Range(more) : Before(x, y)
  <2> SUFFICES ASSUME NEW x \in Told(me, me.i), NEW r \in 1..n
               PROVE  Before(x, Event("result", me.i, from + r))
    BY <1>7
  <2>1. me.i \in 0..Len(me.script)
    BY <1>2
  <2>2. x.of \in 1..me.i /\ x.nth \in 0..me.given[x.of]
    BY ONLY <1>2, <2>1, ToldPlaces, x \in Told(me, me.i)
  <2>3. from + r \in Nat /\ from < from + r
    BY <1>6
  <2>4. /\ Event("result", me.i, from + r).of = me.i
        /\ Event("result", me.i, from + r).nth = from + r
    BY ONLY <1>6, <2>3, EventIs
  <2>5. CASE x.of = me.i
    <3>1. x.nth \in 0..from
      BY <2>2, <2>5 DEF from
    <3> QED
      BY ONLY <1>6, <2>3, <2>4, <2>5, <3>1 DEF Before
  <2>6. CASE x.of # me.i
    BY ONLY <1>6, <2>2, <2>4, <2>6 DEF Before
  <2> QED
    BY <2>5, <2>6
<1> HIDE DEF more
<1>9. /\ told \in QueryType /\ SameBut(told, me)
      /\ told.log = IF me.listens THEN me.log \o more ELSE me.log
  BY <1>2, <1>7, EmitType, EmitSame
<1>10. /\ given \in Seq(Nat) /\ Len(given) = Len(me.given) /\ given[me.i] = from + n
       /\ \A j \in 1..Len(me.script) : j # me.i => given[j] = me.given[j]
  BY SMTT(30), <1>2, <1>3
<1>11. list \in Seq(Nat) /\ (me.collects => list = [r \in 1..(from + n) |-> r])
  <2>1. me.list \in Seq(Nat) /\ [r \in 1..n |-> from + r] \in Seq(Nat)
    BY <1>2, <1>6 DEF QueryType
  <2>2. me.collects => list = [r \in 1..(from + n) |-> r]
    <3>1. [r \in 1..from |-> r] \o [r \in 1..n |-> from + r] = [r \in 1..(from + n) |-> r]
      BY ONLY <1>6, MoreRows
    <3> QED
      BY ONLY <1>5, <3>1 DEF list
  <2> QED
    BY <2>1, <2>2
<1>12. times \in SUBSET Time /\ me.batch + 1 \in Nat
  BY <1>2, <1>3 DEF QueryType
<1>13. Set(q, new)
  <2>1. /\ told.given = me.given /\ told.batch = me.batch /\ told.list = me.list
        /\ told.times = me.times
    BY <1>9 DEF SameBut
  <2>2. [told EXCEPT !.batch = @ + 1, !.given[me.i] = from + n,
                     !.list = IF me.collects THEN @ \o [r \in 1..n |-> from + r] ELSE @,
                     !.times = @ \cup {time}] = new
    BY <1>9, <2>1 DEF QueryType
  <2> QED
    BY <1>1, <2>2 DEF told, more, me, from, time
<1> HIDE DEF told, given, list, times
<1>14. new \in QueryType
  BY ONLY <1>9, <1>10, <1>11, <1>12 DEF QueryType, new
<1>15. /\ new.at = me.at /\ new.schemas = me.schemas /\ new.log = told.log
       /\ new.on = me.on /\ new.i = me.i /\ new.began = me.began
       /\ new.times = times /\ new.listens = me.listens /\ new.script = me.script
       /\ new.collects = me.collects /\ new.failed = me.failed /\ new.calls = me.calls
       /\ new.given = given /\ new.results = me.results /\ new.list = list
  <2>1. /\ new.at = told.at /\ new.schemas = told.schemas /\ new.log = told.log
        /\ new.on = told.on /\ new.i = told.i /\ new.began = told.began
        /\ new.times = times /\ new.listens = told.listens /\ new.script = told.script
        /\ new.collects = told.collects /\ new.failed = told.failed
        /\ new.calls = told.calls /\ new.given = given /\ new.results = told.results
        /\ new.list = list
    BY ONLY <1>9 DEF QueryType, new
  <2> QED
    BY ONLY <1>9, <2>1 DEF SameBut
<1> HIDE DEF new
<1>16. \A j \in 1..(me.i - 1) : new.given[j] = me.given[j]
  <2>1. \A j \in 1..(me.i - 1) : j \in 1..Len(me.script) /\ j # me.i
    BY ONLY <1>2
  <2> QED
    BY ONLY <1>10, <1>15, <2>1
<1>17. Heard(new, me.i)
  <2>1. me.script[me.i] \in Tabular
    BY ONLY <1>5 DEF Tabular
  <2>2. Told(new, me.i - 1) = Told(me, me.i - 1)
    BY ONLY <1>2, <1>14, <1>15, <1>16, ToldSame
  <2>3. /\ Told(me, me.i) = Told(me, me.i - 1) \cup {Event("fields", me.i, 0)}
                              \cup {Event("result", me.i, r) : r \in 1..from}
        /\ Told(new, me.i) = Told(new, me.i - 1) \cup {Event("fields", me.i, 0)}
                               \cup {Event("result", me.i, r) : r \in 1..(from + n)}
    <3>1. me.given[me.i] = from /\ new.given[me.i] = from + n
      BY <1>10, <1>15 DEF from
    <3>2. /\ new \in QueryType /\ me.i \in 1..Len(new.script) /\ new.script[me.i] \in Tabular
          /\ me \in QueryType /\ me.i \in 1..Len(me.script)
      BY <1>2, <1>14, <1>15, <2>1
    <3> QED
      BY ONLY <2>1, <3>1, <3>2, ToldNext
  <2>4. {Event("result", me.i, r) : r \in 1..(from + n)} =
          {Event("result", me.i, r) : r \in 1..from} \cup Range(more)
    <3>1. ASSUME NEW r \in 1..(from + n)
          PROVE  Event("result", me.i, r) \in
                   {Event("result", me.i, k) : k \in 1..from}
                     \cup {Event("result", me.i, from + k) : k \in 1..n}
      <4>1. CASE r <= from
        <5>1. r \in 1..from
          BY <1>6, <4>1
        <5> QED
          BY ONLY <5>1
      <4>2. CASE r > from
        <5>1. r - from \in 1..n /\ r = from + (r - from)
          BY <1>6, <4>2
        <5> QED
          BY ONLY <5>1
      <4> QED
        BY <1>6, <4>1, <4>2
    <3>2. ASSUME NEW r \in 1..from
          PROVE  Event("result", me.i, r) \in {Event("result", me.i, k) : k \in 1..(from + n)}
      <4>1. r \in 1..(from + n)
        BY <1>6
      <4> QED
        BY ONLY <4>1
    <3>3. ASSUME NEW r \in 1..n
          PROVE  Event("result", me.i, from + r) \in
                   {Event("result", me.i, k) : k \in 1..(from + n)}
      <4>1. from + r \in 1..(from + n)
        BY <1>6
      <4> QED
        BY ONLY <4>1
    <3> QED
      BY ONLY <1>7, <3>1, <3>2, <3>3
  <2>5. Told(new, me.i) = Told(me, me.i) \cup Range(more)
    BY ONLY <2>2, <2>3, <2>4
  <2> QED
    <3>1. /\ me \in QueryType /\ new \in QueryType /\ me.i \in Nat /\ Heard(me, me.i)
          /\ more \in Seq(AnyEvent) /\ InOrder(more) /\ new.listens = me.listens
          /\ new.log = IF me.listens THEN me.log \o more ELSE me.log
      BY <1>2, <1>5, <1>7, <1>9, <1>14, <1>15
    <3> QED
      BY ONLY <1>8, <2>5, <3>1, HeardMore
<1>18. Counted(new, me.i - 1)
  <2>1. /\ me \in QueryType /\ new \in QueryType /\ me.i - 1 \in Nat
        /\ me.script = new.script /\ me.collects = new.collects /\ me.results = new.results
        /\ Counted(me, me.i - 1) /\ \A j \in 1..(me.i - 1) : me.given[j] = new.given[j]
    BY <1>2, <1>5, <1>14, <1>15, <1>16
  <2> QED
    BY ONLY <2>1, CountedSame
<1>19. Ahead(new, me.i)
  <2> SUFFICES ASSUME NEW j \in 1..Len(me.script), j > me.i PROVE given[j] = 0
    BY <1>15 DEF Ahead
  <2>1. j # me.i
    BY <1>2
  <2> QED
    BY <1>5, <1>10, <2>1 DEF Ahead
<1>20. UnderWay(new)
  BY <1>2, <1>4, <1>5, <1>10, <1>11, <1>15, <1>17, <1>18, <1>19 DEF UnderWay, Current
<1>21. QueryOK(new)
  BY <1>2, <1>4, <1>10, <1>14, <1>15, <1>20 DEF QueryOK
<1>22. new.on \in Session /\ new.at = "rows"
  BY <1>3, <1>4, <1>15
<1>23. ~overlap => /\ new.times \subseteq {new.began}
                   /\ \A p \in Query \ {q} :
                        query[p].on = new.on => query[p].at \in {"none", "done"}
  BY <1>3, <1>15 DEF times
<1>24. new.on = query[q].on /\ new.began = query[q].began /\ query[q].at = "rows"
  BY <1>4, <1>15 DEF me
<1> QED
  BY <1>4, <1>13, <1>21, <1>22, <1>23, <1>24, SetStep

\* The callback is called, and the query is over.
LEMMA DoneStep == ASSUME IInv, NEW q \in Query, Done(q), UNCHANGED overlap PROVE IInv'
<1> DEFINE me == query[q]
           new == [me EXCEPT !.at = "done", !.calls = Called(me)]
<1>1. me.at = "settled" /\ UNCHANGED <<now, session>>
  BY DEF Done
<1>2. me \in QueryType /\ QueryOK(me) /\ me.on \in Session
  BY <1>1, QueryFacts
<1>3. query' = [query EXCEPT ![q] = new]
  BY <1>2 DEF Done, IInv, QueryType
<1> HIDE DEF me
<1>4. Called(me) \in Nat
  BY DEF Called
<1>5. /\ new \in QueryType /\ new.at = "done"
      /\ new.on = me.on /\ new.i = me.i /\ new.began = me.began /\ new.log = me.log
      /\ new.times = me.times /\ new.listens = me.listens /\ new.script = me.script
      /\ new.collects = me.collects /\ new.failed = me.failed /\ new.index = me.index
      /\ new.schemas = me.schemas /\ new.results = me.results /\ new.given = me.given
  BY <1>2, <1>4 DEF QueryType
<1> HIDE DEF new
<1>6. \A n \in Nat : Recorded(me, n) => Recorded(new, n)
  <2> SUFFICES ASSUME NEW n \in Nat PROVE Recorded(me, n) => Recorded(new, n)
    OBVIOUS
  <2>1. \A j \in 1..n : me.given[j] = new.given[j]
    BY <1>5
  <2> QED
    BY ONLY <1>2, <1>5, <2>1, CountedSame
<1>7. /\ me.i \in Nat /\ Len(me.script) \in Nat /\ (me.i > 0 => me.i - 1 \in Nat)
      /\ Over(me) /\ Len(me.given) = Len(me.script)
  BY <1>1, <1>2, TextLength DEF QueryOK, QueryType
<1>8. me.listens /\ me.i > 0 => Complete(new)
  <2> SUFFICES ASSUME me.listens, me.i > 0 PROVE Complete(new)
    OBVIOUS
  <2>1. Complete(me)
    BY <1>7 DEF Over
  <2>2. Told(new, new.i) = Told(me, me.i)
    <3>1. \A j \in 1..me.i : new.given[j] = me.given[j]
      BY <1>5
    <3> QED
      BY ONLY <1>2, <1>5, <1>7, <3>1, ToldSame
  <2>3. \A kind, k : Close(new, kind, k) = Close(me, kind, k)
    BY ONLY <1>5 DEF Close
  <2> QED
    BY ONLY <1>5, <2>1, <2>2, <2>3 DEF Complete
<1>9. Over(new)
  BY ONLY <1>5, <1>6, <1>7, <1>8 DEF Over
<1>10. QueryOK(new)
  BY ONLY <1>5, <1>7, <1>9 DEF QueryOK
<1>11. /\ query' \in [Query -> QueryType] /\ query'[q] = new
       /\ \A p \in Query \ {q} : query'[p] = query[p]
  BY <1>3, <1>5 DEF IInv
<1>12. Alone'
  BY <1>1, <1>2, <1>5, <1>11 DEF Alone, IInv, me, Current
<1> QED
  BY <1>1, <1>2, <1>5, <1>10, <1>11, <1>12 DEF IInv

\* The listeners that are attached when query() has returned have heard nothing yet.
LEMMA ListensOK ==
  ASSUME NEW me \in QueryType, QueryOK(me), ~me.listens, NEW listens \in BOOLEAN,
         me.log = <<>>, (me.at = "running" /\ me.i = 1) \/ (me.at = "settled" /\ me.i = 0)
  PROVE  /\ QueryOK([me EXCEPT !.listens = listens])
         /\ \A f \in DOMAIN me \ {"listens"} : [me EXCEPT !.listens = listens][f] = me[f]
<1> DEFINE new == [me EXCEPT !.listens = listens]
<1>1. /\ new \in QueryType /\ \A f \in DOMAIN me \ {"listens"} : new[f] = me[f]
      /\ new.listens = listens
  BY DEF QueryType
<1>2. /\ new.at = me.at /\ new.on = me.on /\ new.i = me.i /\ new.log = <<>>
      /\ new.script = me.script /\ new.collects = me.collects /\ new.failed = me.failed
      /\ new.index = me.index /\ new.schemas = me.schemas /\ new.results = me.results
      /\ new.calls = me.calls /\ new.given = me.given /\ new.list = me.list
  BY DEF QueryType
<1> HIDE DEF new
<1>3. Len(me.given) = Len(me.script)
  BY DEF QueryOK
<1>4. CASE me.at = "running" /\ me.i = 1
  <2>1. UnderWay(me)
    BY <1>4 DEF QueryOK
  <2>2. me.i - 1 = 0
    BY <1>4
  <2>3. Told(new, 0) = {}
    BY <1>1, ToldIs
  <2>4. Range(<<>>) = {} /\ InOrder(<<>>)
    BY DEF Range, InOrder
  <2>5. Heard(new, 0)
    BY ONLY <1>2, <2>3, <2>4 DEF Heard
  <2>6. Counted(me, 0) /\ Ahead(me, 0) /\ me.schemas = 0 /\ ~me.failed /\ me.calls = 0
        /\ me.list = <<>> /\ me.i \in 1..Len(me.script)
    BY ONLY <1>4, <2>1, <2>2 DEF UnderWay
  <2>7. Counted(new, 0)
    <3>1. \A j \in 1..0 : me.given[j] = new.given[j]
      OBVIOUS
    <3>2. 0 \in Nat /\ me \in QueryType
      OBVIOUS
    <3> QED
      BY ONLY <1>1, <1>2, <2>6, <3>1, <3>2, CountedSame
  <2>8. Ahead(new, 0)
    BY ONLY <1>2, <2>6, AheadSame
  <2>9. UnderWay(new)
    BY ONLY <1>2, <1>4, <2>2, <2>5, <2>6, <2>7, <2>8 DEF UnderWay
  <2>10. QueryOK(new)
    BY ONLY <1>1, <1>2, <1>3, <1>4, <2>9 DEF QueryOK
  <2> QED
    BY <1>1, <2>10 DEF new
<1>5. CASE me.at = "settled" /\ me.i = 0
  <2>1. Over(me)
    BY <1>5 DEF QueryOK
  <2>2. Over(new)
    BY ONLY <1>2, <1>5, <2>1 DEF Over
  <2>3. QueryOK(new)
    BY ONLY <1>1, <1>2, <1>3, <1>5, <2>2 DEF QueryOK
  <2> QED
    BY <1>1, <2>3 DEF new
<1> QED
  BY <1>4, <1>5

LEMMA CallStep ==
  ASSUME IInv, NEW q \in Query, NEW s \in Session, NEW script \in Script,
         NEW callback \in Callback, NEW collects \in BOOLEAN, NEW listens \in BOOLEAN,
         Call(q, s, script, callback, collects, listens), UNCHANGED overlap
  PROVE  IInv'
<1> DEFINE given == [i \in DOMAIN script |-> 0]
           me == [NoQuery EXCEPT !.on = s, !.script = script, !.callback = callback,
                                 !.collects = collects, !.given = given]
<1>1. /\ query[q].at = "none" /\ UNCHANGED <<overlap, now>>
      /\ ~overlap => \A p \in Query : query[p].on = s => query[p].at \in {"none", "done"}
  BY DEF Call
<1>2. /\ script \in Text /\ callback \in {"none", "returns", "throws"}
      /\ NoQuery \in QueryType
  BY ConstantsAssumption, NoQueryOK DEF Text, QueryOK
<1>3. Len(script) \in Nat /\ DOMAIN script = 1..Len(script)
  <2>1. script \in Seq(Kind) /\ Len(script) \in Nat
    BY <1>2, TextLength
  <2> QED
    BY <2>1
<1>4. /\ given \in Seq(Nat) /\ Len(given) = Len(script)
      /\ \A j \in 1..Len(script) : given[j] = 0
  <2>1. given = [i \in 1..Len(script) |-> 0]
    BY <1>3
  <2> HIDE DEF given
  <2> QED
    BY ONLY <1>3, <2>1
<1> HIDE DEF given
<1>5. /\ me \in QueryType /\ me.on = s /\ me.script = script /\ me.callback = callback
      /\ me.i = 0 /\ me.results = <<>> /\ me.schemas = 0 /\ me.log = <<>>
      /\ me.listens = FALSE /\ me.failed = FALSE /\ me.calls = 0 /\ me.times = {}
      /\ me.given = given
  BY <1>2, <1>4 DEF QueryType, NoQuery
<1>6. query[q] \in QueryType /\ query[q].i = 0
  BY <1>1 DEF IInv, QueryOK, NoQuery
<1>7. \/ /\ session[s].released
         /\ query' = [query EXCEPT ![q] =
              [me EXCEPT !.at = "done", !.failed = TRUE,
                         !.calls = IF callback = "none" THEN 0 ELSE 1]]
         /\ UNCHANGED session
      \/ script = <<>> /\ Set(q, [Failed(me) EXCEPT !.listens = listens])
      \/ script # <<>> /\ Set(q, [Ended(me) EXCEPT !.listens = listens])
  <2>1. PICK it \in {me} :
          CASE session[s].released ->
                 /\ query' = [query EXCEPT ![q] =
                      [it EXCEPT !.at = "done", !.failed = TRUE,
                                 !.calls = IF callback = "none" THEN 0 ELSE 1]]
                 /\ UNCHANGED session
            [] ~session[s].released /\ script = <<>> ->
                 Set(q, [Failed(it) EXCEPT !.listens = listens])
            [] OTHER -> Set(q, [Ended(it) EXCEPT !.listens = listens])
    BY ZenonT(60) DEF Call, given
  <2>2. it = me
    OBVIOUS
  <2> HIDE DEF me
  <2> QED
    BY <2>1, <2>2
<1> HIDE DEF me
<1>8. /\ Told(me, 0) = {} /\ Heard(me, 0) /\ Counted(me, 0)
  <2>1. Told(me, 0) = {}
    BY <1>5, ToldIs
  <2>2. Heard(me, 0)
    BY ONLY <1>5 DEF Heard
  <2>3. Range(<<>>) = {} /\ Len(<<>>) = 0 /\ DOMAIN <<>> = {}
    BY DEF Range
  <2>4. {i \in 1..0 : me.collects \/ me.script[i] \in Packet} = {}
    OBVIOUS
  <2>5. {Result(i, RowsOf(me, i)) :
           i \in {i \in 1..0 : me.collects \/ me.script[i] \in Packet}} = {}
    BY ONLY <2>4
  <2>6. Recorded(me, 0)
    BY ONLY <1>5, <2>3, <2>5 DEF Recorded
  <2> QED
    BY ONLY <1>5, <2>1, <2>2, <2>3, <2>6 DEF Counted
<1>9. Between(me)
  BY ONLY <1>3, <1>4, <1>5, <1>8 DEF Between, Ahead
<1>10. CASE session[s].released /\ UNCHANGED session /\
            query' = [query EXCEPT ![q] =
              [me EXCEPT !.at = "done", !.failed = TRUE,
                         !.calls = IF callback = "none" THEN 0 ELSE 1]]
  <2> DEFINE calls == IF callback = "none" THEN 0 ELSE 1
             new == [me EXCEPT !.at = "done", !.failed = TRUE, !.calls = calls]
  <2>1. query' = [query EXCEPT ![q] = new]
    BY <1>10
  <2>2. calls \in Nat
    OBVIOUS
  <2> HIDE DEF calls
  <2>3. /\ new \in QueryType /\ new.at = "done" /\ new.failed /\ new.on = s /\ new.i = 0
        /\ new.results = <<>> /\ new.script = script /\ new.times = {} /\ new.given = given
    BY ONLY <1>5, <2>2 DEF QueryType
  <2> HIDE DEF new
  <2>4. Over(new)
    <3>1. Len(new.results) = 0
      BY <2>3
    <3> QED
      BY ONLY <1>3, <2>3, <3>1 DEF Over
  <2>5. QueryOK(new)
    BY ONLY <1>4, <2>3, <2>4 DEF QueryOK
  <2>6. /\ query' \in [Query -> QueryType] /\ query'[q] = new
        /\ \A p \in Query \ {q} : query'[p] = query[p]
    BY <2>1, <2>3 DEF IInv
  <2>7. Alone'
    <3>1. Alone /\ overlap' = overlap /\ session' = session
      BY <1>1, <1>10 DEF IInv
    <3> SUFFICES ASSUME ~overlap', NEW p \in Query
                 PROVE  /\ query'[p].times \subseteq {query'[p].began}
                        /\ \/ query'[p].at = "rows"
                           \/ query'[p].at = "running" /\ Current(query'[p]) = "select"
                           => session'[query'[p].on].timestamp = query'[p].began
                        /\ query'[p].at \notin {"none", "done"} =>
                             \A x \in Query \ {p} : query'[x].on = query'[p].on =>
                               query'[x].at \in {"none", "done"}
      BY DEF Alone, Current
    <3>2. CASE p = q
      BY ONLY <2>3, <2>6, <3>2
    <3>3. CASE p # q
      <4>1. query'[p] = query[p]
        BY <2>6, <3>3
      <4>2. /\ query[p].times \subseteq {query[p].began}
            /\ \/ query[p].at = "rows"
               \/ query[p].at = "running" /\ Current(query[p]) = "select"
               => session[query[p].on].timestamp = query[p].began
        BY <3>1 DEF Alone
      <4>3. query[p].at \notin {"none", "done"} =>
              \A x \in Query \ {p} : query[x].on = query[p].on => query[x].at \in {"none", "done"}
        BY <3>1 DEF Alone
      <4>4. query[p].at \notin {"none", "done"} =>
              \A x \in Query \ {p} : query'[x].on = query[p].on => query'[x].at \in {"none", "done"}
        <5> SUFFICES ASSUME query[p].at \notin {"none", "done"}, NEW x \in Query \ {p},
                            query'[x].on = query[p].on
                     PROVE  query'[x].at \in {"none", "done"}
          OBVIOUS
        <5>1. CASE x = q
          BY ONLY <2>3, <2>6, <5>1
        <5>2. CASE x # q
          BY ONLY <2>6, <4>3, <5>2, x \in Query \ {p}, query'[x].on = query[p].on,
                  query[p].at \notin {"none", "done"}
        <5> QED
          BY <5>1, <5>2
      <4> QED
        BY ONLY <3>1, <4>1, <4>2, <4>4
    <3> QED
      BY <3>2, <3>3
  <2> QED
    BY <1>1, <1>10, <2>3, <2>5, <2>6, <2>7 DEF IInv
<1>11. ASSUME NEW new, Set(q, new), QueryOK(new), new.on = s, new.times = {},
              \/ new.at = "settled"
              \/ new.at = "running" /\ new.i = 1 /\ new.began = TimeDue(new)
       PROVE  IInv'
  <2>1. ~overlap => /\ new.times \subseteq {new.began}
                    /\ \A p \in Query \ {q} :
                         query[p].on = new.on => query[p].at \in {"none", "done"}
    BY <1>1, <1>11
  <2>2. new.at = "running" => new.i # query[q].i /\ new.began = TimeDue(new)
    BY <1>6, <1>11
  <2>3. new.on \in Session /\ new.at # "none" /\ new.at # "rows"
    BY <1>11
  <2> QED
    BY <1>1, <1>11, <2>1, <2>2, <2>3, SetStep
<1>12. CASE script = <<>> /\ Set(q, [Failed(me) EXCEPT !.listens = listens])
  <2> DEFINE failed == Failed(me)
             new == [failed EXCEPT !.listens = listens]
  <2>1. me.i \in 0..Len(me.script) /\ Heard(me, me.i) /\ Len(me.given) = Len(me.script)
    BY ONLY <1>3, <1>4, <1>5, <1>8
  <2>2. /\ QueryOK(failed) /\ failed.at = "settled" /\ failed.on = s /\ failed.i = 0
        /\ failed.times = {} /\ ~failed.listens
    <3>1. ~(me.i > 0) /\ me.i = 0
      BY <1>5
    <3> QED
      BY ONLY <1>5, <2>1, <3>1, FailedOK
  <2>3. failed.log = <<>> /\ failed \in QueryType
    <3>1. failed = [me EXCEPT !.at = "settled", !.failed = TRUE, !.index = Len(me.results)]
      BY <1>5 DEF Failed, Emit
    <3> HIDE DEF failed
    <3> QED
      BY <1>5, <2>2, <3>1 DEF QueryType, QueryOK
  <2> HIDE DEF failed
  <2>4. QueryOK(new) /\ \A f \in DOMAIN failed \ {"listens"} : new[f] = failed[f]
    BY ONLY <2>2, <2>3, ListensOK, listens \in BOOLEAN
  <2>5. new.at = "settled" /\ new.on = s /\ new.times = {}
    BY ONLY <2>2, <2>3, <2>4 DEF QueryType
  <2>6. Set(q, new)
    BY <1>12 DEF failed
  <2> HIDE DEF new
  <2> QED
    BY <1>11, <2>4, <2>5, <2>6
<1>13. CASE script # <<>> /\ Set(q, [Ended(me) EXCEPT !.listens = listens])
  <2> DEFINE ended == Ended(me)
             new == [ended EXCEPT !.listens = listens]
  <2>1. Len(script) # 0
    <3>1. script \in Seq(Kind)
      BY <1>2, TextLength
    <3> QED
      BY <1>13, <3>1
  <2>2. TimeDue(me) \in Time
    BY <1>5, TimeDueIs
  <2>3. /\ QueryOK(ended) /\ ended.at = "running" /\ ended.on = s /\ ended.i = 1
        /\ ended.times = {} /\ ended.began = TimeDue(me) /\ ended.log = <<>>
        /\ ~ended.listens
    BY <1>5, <1>9, <2>1, <2>2, EndedOK
  <2> HIDE DEF ended
  <2>4. ended \in QueryType
    BY <2>3 DEF QueryOK
  <2>5. QueryOK(new) /\ \A f \in DOMAIN ended \ {"listens"} : new[f] = ended[f]
    BY ONLY <2>3, <2>4, ListensOK, listens \in BOOLEAN
  <2>6. /\ new.at = "running" /\ new.on = s /\ new.times = {} /\ new.i = 1
        /\ new.began = TimeDue(me)
    BY ONLY <2>3, <2>4, <2>5 DEF QueryType
  <2>7. Set(q, new)
    BY <1>13 DEF ended
  <2> HIDE DEF new
  <2>8. TimeDue(new) = TimeDue(me)
    BY <1>5, <2>6 DEF TimeDue
  <2> QED
    BY <1>11, <2>5, <2>6, <2>7, <2>8
<1> QED
  BY <1>7, <1>10, <1>12, <1>13

LEMMA SessionStep ==
  ASSUME IInv, UNCHANGED overlap, Tick \/ \E s \in Session : Open(s) \/ Release(s)
  PROVE  IInv'
<1>1. UNCHANGED query
  BY DEF Tick, Open, Release
<1>2. now' \in 1..MaxTime
  <2>1. CASE Tick
    <3>1. now \in 1..MaxTime /\ now' = now + 1 /\ now < MaxTime
      BY <2>1 DEF Tick, IInv
    <3> QED
      BY <3>1, ConstantsAssumption
  <2>2. CASE \E s \in Session : Open(s) \/ Release(s)
    BY <2>2 DEF Open, Release, IInv
  <2> QED
    BY <2>1, <2>2
<1> DEFINE same(r) == /\ session'[r].timestamp = session[r].timestamp
                      /\ session'[r].fixed = session[r].fixed
                      /\ session'[r].chosen = session[r].chosen
<1>3. session' \in [Session -> SessionType] /\ \A r \in Session : same(r)
  <2>1. CASE Tick
    BY <2>1 DEF Tick, IInv
  <2>2. session \in [Session -> SessionType]
    BY DEF IInv
  <2>3. ASSUME NEW s \in Session, Open(s)
        PROVE  session' \in [Session -> SessionType] /\ \A r \in Session : same(r)
    <3> DEFINE one == [session[s] EXCEPT !.open = TRUE]
    <3>1. session' = [session EXCEPT ![s] = one]
      BY <2>3 DEF Open
    <3>2. /\ one \in SessionType /\ one.timestamp = session[s].timestamp
          /\ one.fixed = session[s].fixed /\ one.chosen = session[s].chosen
      BY <2>2 DEF SessionType
    <3> HIDE DEF one
    <3> QED
      BY ONLY <2>2, <3>1, <3>2
  <2>4. ASSUME NEW s \in Session, Release(s)
        PROVE  session' \in [Session -> SessionType] /\ \A r \in Session : same(r)
    <3> DEFINE one == [session[s] EXCEPT !.released = TRUE]
    <3>1. session' = [session EXCEPT ![s] = one]
      BY <2>4 DEF Release
    <3>2. /\ one \in SessionType /\ one.timestamp = session[s].timestamp
          /\ one.fixed = session[s].fixed /\ one.chosen = session[s].chosen
      BY <2>2 DEF SessionType
    <3> HIDE DEF one
    <3> QED
      BY ONLY <2>2, <3>1, <3>2
  <2> HIDE DEF same
  <2> QED
    BY <2>1, <2>3, <2>4
<1>4. \A s \in Session : TimeOK(session'[s])
  BY <1>3 DEF TimeOK, IInv
<1>5. Alone'
  BY <1>1, <1>3 DEF Alone, IInv, Current
<1> QED
  BY <1>1, <1>2, <1>3, <1>4, <1>5 DEF IInv

LEMMA NextStep == IInv /\ [Next]_vars => IInv'
<1> SUFFICES ASSUME IInv, [Next]_vars PROVE IInv'
  OBVIOUS
<1>1. CASE UNCHANGED overlap /\ (Tick \/ \E s \in Session : Open(s) \/ Release(s))
  BY <1>1, SessionStep
<1>2. ASSUME UNCHANGED overlap, NEW q \in Query, Step(q) PROVE IInv'
  BY <1>2, WriteStep, FailStep, ShowStep, FieldsStep, BatchStep, RowsEndStep, DoneStep DEF Step
<1>3. ASSUME UNCHANGED overlap, NEW q \in Query, NEW s \in Session, NEW script \in Script,
             NEW callback \in Callback, NEW collects \in BOOLEAN, NEW listens \in BOOLEAN,
             Call(q, s, script, callback, collects, listens)
      PROVE  IInv'
  BY <1>3, CallStep
<1>4. CASE UNCHANGED vars
  BY <1>4 DEF vars, IInv, Alone, Current
<1> QED
  BY <1>1, <1>2, <1>3, <1>4 DEF Next

LEMMA Invariance == Spec => []IInv
BY InitHolds, NextStep, PTL DEF Spec

-----------------------------------------------------------------------------
(* The theorems *)

\* The types of clock, sessions and queries; a query that has not ended has told nobody.
THEOREM TypeCorrect == Spec => []TypeOK
<1>1. IInv => TypeOK
  <2> SUFFICES ASSUME IInv PROVE TypeOK
    OBVIOUS
  <2>1. session \in [Session -> [open : BOOLEAN, released : BOOLEAN, timestamp : 0..Chosen,
                                 fixed : BOOLEAN, chosen : {0, Chosen}]]
    BY DEF IInv, SessionType, Time
  <2>2. ASSUME NEW q \in Query, NEW me, me = query[q]
        PROVE  /\ me.at \in {"none", "running", "rows", "settled", "done"}
               /\ me.i \in 0..Len(me.script) /\ Len(me.results) <= Len(me.script)
               /\ me.at \in {"none", "running", "rows"} =>
                    me.calls = 0 /\ \A j \in DOMAIN me.log : me.log[j].kind # "end"
    <3>1. me \in QueryType /\ QueryOK(me)
      BY <2>2 DEF IInv
    <3>2. /\ Len(me.script) \in Nat /\ me.i \in Nat /\ Len(me.results) \in Nat
          /\ me.at \in {"none", "running", "rows", "settled", "done"}
      BY <3>1, TextLength DEF QueryType
    <3>3. CASE me.at = "none"
      <4>1. me = NoQuery
        BY <3>1, <3>3 DEF QueryOK
      <4>2. me.i = 0 /\ me.results = <<>> /\ me.calls = 0 /\ me.log = <<>>
        BY <4>1 DEF NoQuery
      <4>3. Len(me.results) = 0 /\ DOMAIN me.log = {}
        BY <4>2
      <4> QED
        BY ONLY <3>2, <3>3, <4>2, <4>3
    <3>4. CASE me.at \in {"running", "rows"}
      <4>1. UnderWay(me) /\ Len(me.given) = Len(me.script)
        BY <3>1, <3>4 DEF QueryOK
      <4>2. PICK n \in 0..Len(me.script) : Heard(me, n)
        <5>1. CASE me.at = "rows"
          BY <3>2, <4>1, <5>1 DEF UnderWay
        <5>2. CASE me.at = "running"
          <6>1. me.i - 1 \in 0..Len(me.script)
            BY <3>2, <4>1 DEF UnderWay
          <6> QED
            BY <4>1, <5>2, <6>1 DEF UnderWay
        <5> QED
          BY <3>4, <5>1, <5>2
      <4>3. \A e \in Told(me, n) : e.kind # "end"
        <5> SUFFICES ASSUME NEW e \in Told(me, n) PROVE e.kind # "end"
          OBVIOUS
        <5>1. n \in Nat
          BY <3>2
        <5>2. \E i \in 1..n : \/ e = Event("fields", i, 0) \/ e = Event("result", i, 0)
                              \/ \E r \in 1..me.given[i] : e = Event("result", i, r)
          BY <3>1, <5>1, ToldIs
        <5> QED
          BY ONLY <5>2 DEF Event
      <4>4. \A j \in DOMAIN me.log : me.log[j].kind # "end"
        BY <4>2, <4>3 DEF Heard, Range
      <4> QED
        BY <3>2, <4>1, <4>4 DEF UnderWay, Counted
    <3>5. CASE me.at \in {"settled", "done"}
      BY <3>1, <3>2, <3>5 DEF QueryOK, Over
    <3> QED
      BY <3>2, <3>3, <3>4, <3>5
  <2> QED
    BY <2>1, <2>2 DEF TypeOK, IInv
<1> QED
  BY <1>1, Invariance, PTL

\* Whoever listens to a query that was started gets the fields, rows and packets of every
\* statement, each once and in order, then the error if there is one, and then one 'end'.
THEOREM EventsAlwaysInOrder == Spec => []EventsInOrder
<1>1. IInv /\ TypeOK => EventsInOrder
  BY DEF IInv, QueryOK, Over, EventsInOrder
<1> QED
  BY <1>1, Invariance, TypeCorrect, PTL

\* The callback gets the packet or the collected rows of every statement before the one that
\* failed, in order, and err.index is their number, whether rows are collected or not.
THEOREM AlwaysOneResultEach == Spec => []OneResultEach
<1>1. IInv => OneResultEach
  BY DEF IInv, QueryOK, Over, OneResultEach
<1> QED
  BY <1>1, Invariance, PTL

\* All rows of a statement see one time, which is what SET TIMESTAMP has chosen or else that
\* of the statement's start, when no session runs two queries at a time.
THEOREM AlwaysOneTime == Spec => []OneTime
<1>1. IInv => OneTime
  BY DEF IInv, Alone, OneTime
<1> QED
  BY <1>1, Invariance, PTL
=============================================================================
