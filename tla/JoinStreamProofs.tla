-------------------------- MODULE JoinStreamProofs --------------------------
(***************************************************************************)
(* Proofs about JoinStream for every number of joins, every FROM clause    *)
(* and all tables in all their pages: no row that the joins yield is wrong *)
(* or is yielded twice or changed afterwards, and without a LEFT JOIN      *)
(* behind a join without ON none is lost.                                  *)
(***************************************************************************)
EXTENDS JoinStream, WellFoundedInduction, TLAPS

-----------------------------------------------------------------------------
(* The inductive invariant *)

Sent(t) == {yielded[t][i].object : i \in DOMAIN yielded[t]}
Pending(t) == IF chan[t].is = "batch" THEN Range(chan[t].objects) ELSE {}

\* the objects that join j has taken from the join before it
Arrived(j) == Sent(j - 1) \ Pending(j - 1)

Distinct(seq) == \A i, k \in DOMAIN seq : i # k => seq[i] # seq[k]

\* f and g are the same combination of rows of the tables 0..t.
Agree(f, g, t) == \A u \in 0..t : f[u] = g[u]

Row == Nat \X Nat
Record == [object : Nat, source : Source]

Types ==
  /\ query \in [joins : Plans, pages : [Table -> UNION {Pages[t] : t \in Table}]]
  /\ \A t \in Table : query.pages[t] \in Pages[t]
  /\ read \in [Table -> Nat] /\ \A t \in Table : read[t] <= Len(query.pages[t])
  /\ heap \in Seq(Source)
  /\ DOMAIN chan = Table
  /\ \A t \in Table :
       chan[t] \in {Rest, Asked, End} \/ \E objects \in Seq(Object) \ {<<>>} : chan[t] = Batch(objects)
  /\ pc \in [Join -> {"new", "first", "opened", "race"}]
  /\ parentRows \in [Join -> Seq(Nat)] /\ childRows \in [Join -> Seq(Row)]
  /\ aDone \subseteq Join /\ bDone \subseteq Join
  /\ yielded \in [Table -> Seq(Record)]

\* Where the generators wait for one another.
Waits(j) ==
  /\ pc[j] = "new" => chan[j - 1] = Rest
  /\ pc[j] = "first" => chan[j] = Asked
  /\ pc[j] = "opened" => j \in aDone \/ chan[j - 1] = Rest
  /\ j \in aDone => chan[j - 1] = End
  /\ j \in bDone => ~HasPage(j)
  /\ chan[j] = End => j \in aDone /\ j \in bDone
Control == (chan[0] = End => ~HasPage(0)) /\ \A j \in Join : Waits(j)

\* What a join has read of its table is what it keeps.
ChildrenKept ==
  \A j \in Join : Distinct(childRows[j]) /\ Range(childRows[j]) = RowsTo(j, read[j])

\* What a generator has yielded keeps the rows of the tables so far, each combination is
\* yielded once, and what is pending was yielded.
SentOK(t) ==
  /\ \A i \in DOMAIN yielded[t] :
       LET o == yielded[t][i].object
           f == yielded[t][i].source
       IN  /\ o \in Object /\ 0..t \subseteq DOMAIN heap[o] /\ 0..t \subseteq DOMAIN f
           /\ Agree(heap[o], f, t)
  /\ \A i, k \in DOMAIN yielded[t] : i # k =>
       LET o == yielded[t][i].object
           p == yielded[t][k].object
       IN  o # p /\ ~Agree(heap[o], heap[p], t)
  /\ Pending(t) \subseteq Sent(t)
  /\ chan[t].is = "batch" => Distinct(chan[t].objects)

\* An object that comes from further left has passed all joins in between.
Passed ==
  \A t, u \in Table : \A v \in (u + 1)..t : Sent(u) \cap Sent(t) \subseteq Arrived(v)

ParentsKept(j) ==
  /\ Distinct(parentRows[j])
  /\ IF query.joins[j].left /\ j \in bDone THEN parentRows[j] = <<>>
     ELSE Range(parentRows[j]) = Arrived(j)
  /\ query.joins[j].on => Range(parentRows[j]) \cap Sent(j) = {}
  /\ \A p \in Range(parentRows[j]) : \A row \in RowsTo(j, read[j]) :
       Matches(j, heap[p], row) => j \in DOMAIN heap[p]

NoMatch(j, f) == \A row \in RowsOf(j) : ~Matches(j, f, row)

\* Each row that join j yields comes from a row that it took, and is one of its children
\* or the null row.
From(j) ==
  \A o \in Sent(j) : \E p \in Arrived(j) :
    /\ Agree(heap[o], heap[p], j - 1)
    /\ \/ heap[o][j] \in RowsTo(j, read[j]) /\ Matches(j, heap[p], heap[o][j])
       \/ /\ heap[o][j] = Null /\ query.joins[j].left /\ j \in bDone
          /\ NoMatch(j, heap[p])

\* The combination of p and the row was yielded.
Has(j, p, row) == \E o \in Sent(j) : Agree(heap[o], heap[p], j - 1) /\ heap[o][j] = row

\* Each row taken was joined with each child read that matches.
Whole(j) ==
  \A p \in Arrived(j) : \A row \in RowsTo(j, read[j]) : Matches(j, heap[p], row) => Has(j, p, row)

FirstTable ==
  /\ \A o \in Sent(0) : heap[o][0] \in RowsTo(0, read[0])
  /\ \A row \in RowsTo(0, read[0]) : \E o \in Sent(0) : heap[o][0] = row

\* No LEFT JOIN stands behind a join without ON.
SafeAt(j) == query.joins[j].left /\ \A i \in 1..(j - 1) : query.joins[i].on

\* The mark of such a LEFT JOIN is its own, and a row without a match gets a null row.
MarksOwn(j) ==
  SafeAt(j) =>
    /\ \A u \in 0..(j - 1) : \A o \in Sent(u) : j \in DOMAIN heap[o] => o \in Arrived(j)
    /\ \A p \in Range(parentRows[j]) : j \in DOMAIN heap[p] =>
         \E row \in RowsTo(j, read[j]) : Matches(j, heap[p], row)
    /\ j \in bDone => \A p \in Arrived(j) : NoMatch(j, heap[p]) => Has(j, p, Null)

JoinOK(j) == ParentsKept(j) /\ From(j) /\ Whole(j) /\ MarksOwn(j)

IInv ==
  /\ Types /\ Control /\ ChildrenKept
  /\ \A t \in Table : SentOK(t)
  /\ Passed /\ FirstTable
  /\ \A j \in Join : JoinOK(j)

-----------------------------------------------------------------------------
(* Induction over the tables and over the loops of the callback *)

\* A set of numbers that is not empty has a least element.
LEMMA Least ==
  ASSUME NEW T \in SUBSET Nat, T # {}
  PROVE  \E x \in T : \A y \in T : x <= y
<1> DEFINE R == {ss \in Nat \X Nat : ss[1] < ss[2]}
<1>1. IsWellFoundedOn(R, Nat)
  BY NatLessThanWellFounded, Zenon DEF OpToRel
<1>2. PICK x \in T : \A y \in T : ~ (<<y, x>> \in R)
  <2> HIDE DEF R
  <2> QED
    BY <1>1, WFMin
<1>3. ASSUME NEW y \in T PROVE x <= y
  <2>1. <<y, x>> \notin R
    BY <1>2
  <2>2. <<y, x>> \in Nat \X Nat
    OBVIOUS
  <2> QED
    BY <2>1, <2>2
<1> QED
  BY <1>3

\* What holds of 0 and passes from i to i + 1 holds of every number to n.
LEMMA UpTo ==
  ASSUME NEW n \in Nat, NEW T, 0 \in T, \A i \in 1..n : i - 1 \in T => i \in T
  PROVE  0..n \subseteq T
<1> SUFFICES ASSUME (0..n) \ T # {} PROVE FALSE
  OBVIOUS
<1>1. PICK x \in (0..n) \ T : \A y \in (0..n) \ T : x <= y
  <2>1. (0..n) \ T \in SUBSET Nat
    OBVIOUS
  <2> QED
    BY <2>1, Least
<1>2. x # 0 /\ x \in 1..n /\ x - 1 \in 0..n
  OBVIOUS
<1>3. x - 1 \notin T
  BY <1>2
<1>4. ~(x <= x - 1)
  BY <1>2
<1> QED
  BY <1>1, <1>2, <1>3, <1>4

\* g has the value a at 0, and each value comes from the one before by F.
Iteration(g, n, S, a, F) ==
  g \in [0..n -> S] /\ g[0] = a /\ \A i \in 1..n : g[i] = F[<<g[i - 1], i>>]

\* A function that is given by its value at 0 and by each value from the one before exists.
LEMMA Iterates ==
  ASSUME NEW n \in Nat, NEW S, NEW a \in S, NEW F,
         \A x \in S : \A i \in 1..n : F[<<x, i>>] \in S
  PROVE  \E g : Iteration(g, n, S, a, F)
<1> DEFINE P(k) == \E g \in [0..k -> S] : g[0] = a /\ \A i \in 1..k : g[i] = F[<<g[i - 1], i>>]
           T == {k \in 0..n : P(k)}
<1>1. 0 \in T
  <2> DEFINE h == [i \in 0..0 |-> a]
  <2>1. h \in [0..0 -> S] /\ h[0] = a
    OBVIOUS
  <2>2. \A i \in 1..0 : h[i] = F[<<h[i - 1], i>>]
    OBVIOUS
  <2> HIDE DEF h
  <2>3. P(0)
    BY <2>1, <2>2
  <2> QED
    BY <2>3
<1>2. ASSUME NEW i \in 1..n, i - 1 \in T PROVE i \in T
  <2>1. PICK g \in [0..(i - 1) -> S] :
          g[0] = a /\ \A j \in 1..(i - 1) : g[j] = F[<<g[j - 1], j>>]
    BY <1>2
  <2> DEFINE h == [j \in 0..i |-> IF j = i THEN F[<<g[i - 1], i>>] ELSE g[j]]
  <2>2. F[<<g[i - 1], i>>] \in S
    <3>1. g[i - 1] \in S
      <4>1. i - 1 \in 0..(i - 1)
        OBVIOUS
      <4> QED
        BY <4>1
    <3> QED
      BY <3>1
  <2>3. h \in [0..i -> S]
    BY <2>2
  <2>4. h[0] = a
    BY <2>1
  <2>5. ASSUME NEW j \in 1..i PROVE h[j] = F[<<h[j - 1], j>>]
    <3>1. j - 1 \in 0..i /\ j - 1 # i /\ h[j - 1] = g[j - 1]
      OBVIOUS
    <3>2. CASE j = i
      BY <3>1, <3>2
    <3>3. CASE j # i
      <4>1. j \in 1..(i - 1) /\ j \in 0..i
        BY <3>3
      <4>2. h[j] = g[j]
        BY <4>1, <3>3
      <4> QED
        BY <4>1, <4>2, <3>1, <2>1
    <3> QED
      BY <3>2, <3>3
  <2> HIDE DEF h
  <2> QED
    BY <2>3, <2>4, <2>5
<1>3. 0..n \subseteq T
  <2> HIDE DEF T
  <2> QED
    BY <1>1, <1>2, UpTo
<1> QED
  BY <1>3 DEF Iteration

-----------------------------------------------------------------------------
(* Sequences and source maps *)

LEMMA Appended ==
  ASSUME NEW S, NEW s \in Seq(S), NEW x \in S
  PROVE  /\ Append(s, x) \in Seq(S)
         /\ DOMAIN Append(s, x) = DOMAIN s \cup {Len(s) + 1}
         /\ Len(Append(s, x)) = Len(s) + 1
         /\ \A k \in DOMAIN s : Append(s, x)[k] = s[k] /\ k # Len(s) + 1
         /\ Append(s, x)[Len(s) + 1] = x
OBVIOUS

LEMMA QueryIs ==
  ASSUME Types
  PROVE  /\ \A j \in Join : /\ query.joins[j].left \in BOOLEAN /\ query.joins[j].on \in BOOLEAN
                            /\ query.joins[j].ref \in 0..(j - 1)
         /\ \A t \in Table : query.pages[t] \in Seq(Seq(Nat))
BY ConstantsAssumption DEF Types

LEMMA WithIs ==
  ASSUME NEW f \in Source, NEW j \in Table, NEW row \in Row
  PROVE  /\ With(f, j, row) \in Source
         /\ DOMAIN With(f, j, row) = DOMAIN f \cup {j}
         /\ With(f, j, row)[j] = row
         /\ \A u \in DOMAIN f : u # j => With(f, j, row)[u] = f[u]
<1>1. PICK T \in SUBSET Table : f \in [T -> Row]
  BY DEF Source, Row
<1>2. With(f, j, row) \in [T \cup {j} -> Row]
  BY <1>1 DEF With
<1>3. T \cup {j} \in SUBSET Table
  OBVIOUS
<1>4. With(f, j, row) \in Source
  BY <1>2, <1>3 DEF Source, Row
<1> QED
  BY <1>4 DEF With

LEMMA SourceIs ==
  ASSUME NEW f \in Source
  PROVE  f = [u \in DOMAIN f |-> f[u]] /\ DOMAIN f \subseteq Table /\ \A u \in DOMAIN f : f[u] \in Row
BY DEF Source, Row

\* The later row of a table replaces the earlier one.
LEMMA WithTwice ==
  ASSUME NEW f \in Source, NEW j \in Table, NEW a \in Row, NEW b \in Row
  PROVE  With(With(f, j, a), j, b) = With(f, j, b)
<1>1. DOMAIN With(With(f, j, a), j, b) = DOMAIN With(f, j, b)
  BY DEF With
<1>2. \A u \in DOMAIN With(f, j, b) : With(With(f, j, a), j, b)[u] = With(f, j, b)[u]
  BY DEF With
<1> QED
  BY <1>1, <1>2 DEF With

\* The row of table j says nothing of the tables before it.
LEMMA WithAgrees ==
  ASSUME NEW f \in Source, NEW j \in Join, NEW row \in Row, NEW t \in Table, t < j,
         0..t \subseteq DOMAIN f
  PROVE  Agree(With(f, j, row), f, t)
<1> SUFFICES ASSUME NEW u \in 0..t PROVE With(f, j, row)[u] = f[u]
  BY DEF Agree
<1>1. u \in DOMAIN f /\ u # j
  BY DEF Table, Join
<1> QED
  BY <1>1 DEF With

\* ON of a join looks at the tables before it only.
LEMMA MatchesAgree ==
  ASSUME Types, NEW j \in Join, NEW f \in Source, NEW g \in Source, NEW row \in Row,
         0..(j - 1) \subseteq DOMAIN f, 0..(j - 1) \subseteq DOMAIN g, Agree(f, g, j - 1)
  PROVE  Matches(j, f, row) <=> Matches(j, g, row)
<1> DEFINE t == query.joins[j].ref
<1>1. t \in 0..(j - 1) /\ t # j /\ t \in DOMAIN f /\ t \in DOMAIN g
  BY QueryIs DEF Join
<1>2. With(f, j, row)[t] = f[t] /\ With(g, j, row)[t] = g[t] /\ f[t] = g[t]
  BY <1>1 DEF With, Agree
<1>3. With(f, j, row)[j] = row /\ With(g, j, row)[j] = row
  BY DEF With
<1>4. OnHolds(j, With(f, j, row)) <=> OnHolds(j, With(g, j, row))
  <2> HIDE DEF t
  <2>1. With(f, j, row)[t] = With(g, j, row)[t] /\ With(f, j, row)[j] = With(g, j, row)[j]
    BY <1>2, <1>3
  <2> QED
    BY <2>1 DEF OnHolds, t
<1> QED
  BY <1>4 DEF Matches

-----------------------------------------------------------------------------
(* The loops of the callback: M is the set of parents and rows joined so far. *)

State == [heap : Seq(Source), out : Seq(Nat)]

\* The parents P have their rows of the tables before j, each another combination.
Ready(j, h0, P) ==
  /\ h0 \in Seq(Source) /\ P \subseteq DOMAIN h0
  /\ \A p \in P : 0..(j - 1) \subseteq DOMAIN h0[p]
  /\ \A p, q \in P : p # q => ~Agree(h0[p], h0[q], j - 1)

\* An object is as it was, or marked with a row it was joined with.
Marked(j, h0, M, st) ==
  \A o \in DOMAIN h0 :
    \/ st.heap[o] = h0[o]
    \/ \E row \in Row : /\ <<o, row>> \in M /\ st.heap[o] = With(h0[o], j, row)
                        /\ query.joins[j].on \/ j \notin DOMAIN h0[o]

\* What was joined is marked and sent.
Out(j, h0, M, st) ==
  \A p, row : <<p, row>> \in M =>
    /\ j \in DOMAIN st.heap[p]
    /\ \E k \in DOMAIN st.out : st.heap[st.out[k]] = With(h0[p], j, row)

\* What is sent was joined, and is a new object or a parent that had no mark.
SentAs(j, h0, p, row, st, o) ==
  /\ o \in DOMAIN st.heap
  /\ st.heap[o] = With(h0[p], j, row)
  /\ \/ o > Len(h0)
     \/ o = p /\ j \notin DOMAIN h0[p] /\ (query.joins[j].on => row = Null)
OutOf(j, h0, M, st) ==
  \A k \in DOMAIN st.out : \E p, row : <<p, row>> \in M /\ SentAs(j, h0, p, row, st, st.out[k])

OutOnce(j, st) ==
  \A i, k \in DOMAIN st.out : i # k =>
    st.out[i] # st.out[k] /\ ~Agree(st.heap[st.out[i]], st.heap[st.out[k]], j)

Joined(j, h0, P, M, st) ==
  /\ st \in State /\ Len(h0) <= Len(st.heap)
  /\ M \subseteq P \X Row
  /\ Marked(j, h0, M, st) /\ Out(j, h0, M, st) /\ OutOf(j, h0, M, st) /\ OutOnce(j, st)

\* One more combination is joined.
LEMMA Extend ==
  ASSUME Types, NEW j \in Join, NEW h0, NEW P, Ready(j, h0, P), NEW M, NEW st,
         Joined(j, h0, P, M, st), NEW p \in P, NEW row \in Row, <<p, row>> \notin M,
         NEW st2 \in State, NEW x \in Nat,
         Len(st.heap) <= Len(st2.heap), st2.out = Append(st.out, x), x \notin Range(st.out),
         SentAs(j, h0, p, row, st2, x), j \in DOMAIN st2.heap[p],
         \A o \in DOMAIN st.heap :
           \/ st2.heap[o] = st.heap[o]
           \/ /\ o = p /\ p \notin Range(st.out) /\ st2.heap[o] = With(h0[p], j, row)
              /\ query.joins[j].on \/ j \notin DOMAIN h0[p]
  PROVE  Joined(j, h0, P, M \cup {<<p, row>>}, st2)
<1> DEFINE M2 == M \cup {<<p, row>>}
<1>1. /\ st \in State /\ st.heap \in Seq(Source) /\ st.out \in Seq(Nat)
      /\ st2.heap \in Seq(Source) /\ st2.out \in Seq(Nat) /\ h0 \in Seq(Source)
      /\ DOMAIN h0 \subseteq DOMAIN st.heap /\ DOMAIN st.heap \subseteq DOMAIN st2.heap
      /\ P \subseteq DOMAIN h0
  BY DEF Joined, State, Ready
<1>2. /\ DOMAIN st2.out = DOMAIN st.out \cup {Len(st.out) + 1}
      /\ \A k \in DOMAIN st.out : st2.out[k] = st.out[k] /\ k # Len(st.out) + 1
      /\ st2.out[Len(st.out) + 1] = x
  <2> DEFINE s == st.out
  <2>1. s \in Seq(Nat) /\ st2.out = Append(s, x)
    BY <1>1
  <2> HIDE DEF s
  <2>2. /\ DOMAIN Append(s, x) = DOMAIN s \cup {Len(s) + 1}
        /\ \A k \in DOMAIN s : Append(s, x)[k] = s[k] /\ k # Len(s) + 1
        /\ Append(s, x)[Len(s) + 1] = x
    BY <2>1, Appended
  <2> QED
    BY <2>1, <2>2 DEF s
<1>3. \A k \in DOMAIN st.out :
        st.out[k] \in DOMAIN st.heap /\ st2.heap[st.out[k]] = st.heap[st.out[k]]
  <2> TAKE k \in DOMAIN st.out
  <2>1. st.out[k] \in Range(st.out)
    BY DEF Range
  <2>2. st.out[k] \in DOMAIN st.heap
    BY DEF Joined, OutOf, SentAs
  <2> QED
    BY <2>1, <2>2
<1>4. Marked(j, h0, M2, st2)
  <2> SUFFICES ASSUME NEW o \in DOMAIN h0, st2.heap[o] # h0[o]
               PROVE  \E r \in Row : /\ <<o, r>> \in M2 /\ st2.heap[o] = With(h0[o], j, r)
                                     /\ query.joins[j].on \/ j \notin DOMAIN h0[o]
    BY DEF Marked
  <2>1. CASE st2.heap[o] = st.heap[o]
    <3>1. PICK r \in Row : /\ <<o, r>> \in M /\ st.heap[o] = With(h0[o], j, r)
                           /\ query.joins[j].on \/ j \notin DOMAIN h0[o]
      BY <2>1 DEF Joined, Marked
    <3> QED
      BY <3>1, <2>1
  <2>2. CASE st2.heap[o] # st.heap[o]
    BY <2>2, <1>1
  <2> QED
    BY <2>1, <2>2
<1>5. Out(j, h0, M2, st2)
  <2> SUFFICES ASSUME NEW q, NEW r, <<q, r>> \in M2
               PROVE  /\ j \in DOMAIN st2.heap[q]
                      /\ \E k \in DOMAIN st2.out : st2.heap[st2.out[k]] = With(h0[q], j, r)
    BY DEF Out
  <2>1. CASE <<q, r>> \in M
    <3>1. PICK k \in DOMAIN st.out : st.heap[st.out[k]] = With(h0[q], j, r)
      BY <2>1 DEF Joined, Out
    <3>2. k \in DOMAIN st2.out /\ st2.heap[st2.out[k]] = With(h0[q], j, r)
      BY <3>1, <1>2, <1>3
    <3>3. q \in DOMAIN st.heap /\ j \in DOMAIN st.heap[q]
      BY <2>1, <1>1 DEF Joined, Out
    <3>4. q = p \/ st2.heap[q] = st.heap[q]
      BY <3>3
    <3> QED
      BY <3>2, <3>3, <3>4
  <2>2. CASE q = p /\ r = row
    BY <2>2, <1>2 DEF SentAs
  <2> QED
    BY <2>1, <2>2
<1>6. OutOf(j, h0, M2, st2)
  <2> SUFFICES ASSUME NEW k \in DOMAIN st2.out
               PROVE  \E q, r : <<q, r>> \in M2 /\ SentAs(j, h0, q, r, st2, st2.out[k])
    BY DEF OutOf
  <2>1. CASE k \in DOMAIN st.out
    <3>1. PICK q, r : <<q, r>> \in M /\ SentAs(j, h0, q, r, st, st.out[k])
      BY <2>1 DEF Joined, OutOf
    <3>2. SentAs(j, h0, q, r, st2, st2.out[k])
      BY <2>1, <3>1, <1>1, <1>2, <1>3 DEF SentAs
    <3> QED
      BY <3>1, <3>2
  <2>2. CASE k = Len(st.out) + 1
    BY <2>2, <1>2
  <2> QED
    BY <2>1, <2>2, <1>2
<1>7. ASSUME NEW k \in DOMAIN st.out
      PROVE  st.out[k] # x /\ ~Agree(st.heap[st.out[k]], st2.heap[x], j)
             /\ ~Agree(st2.heap[x], st.heap[st.out[k]], j)
  <2>1. st.out[k] # x
    BY DEF Range
  <2>2. PICK q, r : <<q, r>> \in M /\ SentAs(j, h0, q, r, st, st.out[k])
    BY DEF Joined, OutOf
  <2>3. q \in P /\ r \in Row /\ h0[q] \in Source /\ h0[p] \in Source /\ j \in Table /\ j - 1 \in Table
        /\ j - 1 < j
    BY <2>2, <1>1, ConstantsAssumption DEF Joined, Table, Join
  <2>4. st.heap[st.out[k]] = With(h0[q], j, r) /\ st2.heap[x] = With(h0[p], j, row)
    BY <2>2 DEF SentAs
  <2>5. 0..(j - 1) \subseteq DOMAIN h0[q] /\ 0..(j - 1) \subseteq DOMAIN h0[p]
    BY <2>3 DEF Ready
  <2>6. CASE q # p
    <3>1. ~Agree(h0[q], h0[p], j - 1)
      BY <2>3, <2>6 DEF Ready
    <3>2. Agree(With(h0[q], j, r), h0[q], j - 1) /\ Agree(With(h0[p], j, row), h0[p], j - 1)
      BY <2>3, <2>5, WithAgrees
    <3>3. PICK u \in 0..(j - 1) : h0[q][u] # h0[p][u]
      BY <3>1 DEF Agree
    <3>4. With(h0[q], j, r)[u] # With(h0[p], j, row)[u]
      BY <3>2, <3>3 DEF Agree
    <3>5. u \in 0..j
      BY DEF Join
    <3> QED
      BY <2>1, <2>4, <3>4, <3>5 DEF Agree
  <2>7. CASE q = p
    <3>1. r # row
      BY <2>2, <2>7
    <3>2. With(h0[q], j, r)[j] = r /\ With(h0[p], j, row)[j] = row
      BY DEF With
    <3>3. j \in 0..j
      BY DEF Join
    <3> QED
      BY <2>1, <2>4, <3>1, <3>2, <3>3 DEF Agree
  <2> QED
    BY <2>6, <2>7
<1>8. OutOnce(j, st2)
  <2> SUFFICES ASSUME NEW i \in DOMAIN st2.out, NEW k \in DOMAIN st2.out, i # k
               PROVE  st2.out[i] # st2.out[k]
                      /\ ~Agree(st2.heap[st2.out[i]], st2.heap[st2.out[k]], j)
    BY DEF OutOnce
  <2>1. CASE i \in DOMAIN st.out /\ k \in DOMAIN st.out
    <3>1. st.out[i] # st.out[k] /\ ~Agree(st.heap[st.out[i]], st.heap[st.out[k]], j)
      BY <2>1 DEF Joined, OutOnce
    <3> QED
      BY <2>1, <3>1, <1>2, <1>3
  <2>2. CASE i \in DOMAIN st.out /\ k = Len(st.out) + 1
    BY <2>2, <1>2, <1>3, <1>7
  <2>3. CASE k \in DOMAIN st.out /\ i = Len(st.out) + 1
    BY <2>3, <1>2, <1>3, <1>7
  <2> QED
    BY <2>1, <2>2, <2>3, <1>2
<1>9. M2 \subseteq P \X Row
  BY DEF Joined
<1>10. Len(h0) <= Len(st2.heap)
  BY <1>1 DEF Joined
<1> QED
  BY <1>4, <1>5, <1>6, <1>8, <1>9, <1>10 DEF Joined

LEMMA SeqSubset ==
  ASSUME NEW S, NEW T, S \subseteq T, NEW s \in Seq(S)
  PROVE  s \in Seq(T)
<1>1. s \in [1..Len(s) -> S] /\ Len(s) \in Nat
  OBVIOUS
<1>2. s \in [1..Len(s) -> T]
  BY <1>1
<1> QED
  BY <1>1, <1>2

LEMMA SeqOf ==
  ASSUME NEW S, NEW T, NEW s \in Seq(S), \A i \in DOMAIN s : s[i] \in T
  PROVE  s \in Seq(T)
<1>1. s \in [1..Len(s) -> S] /\ Len(s) \in Nat
  OBVIOUS
<1>2. s \in [1..Len(s) -> T]
  BY <1>1
<1> QED
  BY <1>1, <1>2

LEMMA Updated ==
  ASSUME NEW S, NEW s \in Seq(S), NEW p \in DOMAIN s, NEW x \in S
  PROVE  /\ [s EXCEPT ![p] = x] \in Seq(S)
         /\ Len([s EXCEPT ![p] = x]) = Len(s)
         /\ DOMAIN [s EXCEPT ![p] = x] = DOMAIN s
         /\ [s EXCEPT ![p] = x][p] = x
         /\ \A k \in DOMAIN s : k # p => [s EXCEPT ![p] = x][k] = s[k]
OBVIOUS

\* A parent is as it was or marked, and without a mark it was not sent.
LEMMA ParentIs ==
  ASSUME Types, NEW j \in Join, NEW h0, NEW P, Ready(j, h0, P), NEW M, NEW st,
         Joined(j, h0, P, M, st), NEW p \in P, NEW row \in Row
  PROVE  /\ p \in DOMAIN h0 /\ p \in DOMAIN st.heap /\ st.heap[p] \in Source /\ h0[p] \in Source
         /\ st.heap \in Seq(Source) /\ st.out \in Seq(Nat) /\ j \in Table
         /\ With(st.heap[p], j, row) = With(h0[p], j, row)
         /\ With(h0[p], j, row) \in Source /\ j \in DOMAIN With(h0[p], j, row)
         /\ j \notin DOMAIN st.heap[p] => j \notin DOMAIN h0[p] /\ p \notin Range(st.out)
<1>1. /\ p \in DOMAIN h0 /\ p \in DOMAIN st.heap /\ st.heap \in Seq(Source) /\ h0 \in Seq(Source)
      /\ st.out \in Seq(Nat)
  BY DEF Joined, Ready, State
<1>2. st.heap[p] \in Source /\ h0[p] \in Source /\ j \in Table
  BY <1>1 DEF Table, Join
<1>3. With(st.heap[p], j, row) = With(h0[p], j, row)
  <2>1. CASE st.heap[p] = h0[p]
    BY <2>1
  <2>2. CASE st.heap[p] # h0[p]
    <3>1. PICK r \in Row : st.heap[p] = With(h0[p], j, r)
      BY <2>2, <1>1 DEF Joined, Marked
    <3> QED
      BY <3>1, <1>2, WithTwice
  <2> QED
    BY <2>1, <2>2
<1>4. With(h0[p], j, row) \in Source /\ j \in DOMAIN With(h0[p], j, row)
  <2>1. With(h0[p], j, row) \in Source
    BY <1>2, WithIs
  <2>2. j \in DOMAIN With(h0[p], j, row)
    BY DEF With
  <2> QED
    BY <2>1, <2>2
<1>5. ASSUME j \notin DOMAIN st.heap[p]
      PROVE  j \notin DOMAIN h0[p] /\ p \notin Range(st.out)
  <2>1. st.heap[p] = h0[p]
    <3> SUFFICES ASSUME st.heap[p] # h0[p] PROVE FALSE
      OBVIOUS
    <3>1. PICK r \in Row : st.heap[p] = With(h0[p], j, r)
      BY <1>1 DEF Joined, Marked
    <3> QED
      BY <3>1, <1>5 DEF With
  <2>2. ASSUME NEW k \in DOMAIN st.out PROVE st.out[k] # p
    <3>1. PICK q, r : SentAs(j, h0, q, r, st, st.out[k])
      BY DEF Joined, OutOf
    <3>2. j \in DOMAIN st.heap[st.out[k]]
      BY <3>1 DEF SentAs, With
    <3> QED
      BY <3>2, <1>5
  <2> QED
    BY <2>1, <2>2, <1>5 DEF Range
<1> QED
  BY <1>1, <1>2, <1>3, <1>4, <1>5

\* A parent that has no mark is marked and sent.
LEMMA ParentSent ==
  ASSUME Types, NEW j \in Join, NEW h0, NEW P, Ready(j, h0, P), NEW M, NEW st,
         Joined(j, h0, P, M, st), NEW p \in P, NEW row \in Row,
         j \notin DOMAIN st.heap[p], query.joins[j].on => row = Null
  PROVE  Joined(j, h0, P, M \cup {<<p, row>>},
                [heap |-> [st.heap EXCEPT ![p] = With(st.heap[p], j, row)], out |-> Append(st.out, p)])
<1> DEFINE joined == With(h0[p], j, row)
           objs == [st.heap EXCEPT ![p] = joined]
           st2 == [heap |-> objs, out |-> Append(st.out, p)]
<1>1. /\ p \in DOMAIN h0 /\ p \in DOMAIN st.heap /\ st.heap \in Seq(Source) /\ st.out \in Seq(Nat)
      /\ With(st.heap[p], j, row) = joined /\ joined \in Source /\ j \in DOMAIN joined
      /\ j \notin DOMAIN h0[p] /\ p \notin Range(st.out)
  BY ParentIs
<1>2. p \in Nat
  BY <1>1
<1>3. <<p, row>> \notin M
  BY DEF Joined, Out
<1>4. /\ objs \in Seq(Source) /\ Len(objs) = Len(st.heap) /\ DOMAIN objs = DOMAIN st.heap
      /\ objs[p] = joined /\ \A o \in DOMAIN st.heap : o # p => objs[o] = st.heap[o]
  <2> HIDE DEF joined
  <2> QED
    BY <1>1, Updated
<1>5. Append(st.out, p) \in Seq(Nat)
  BY <1>1, <1>2
<1> HIDE DEF joined, objs
<1>6. st2 \in State /\ st2.heap = objs /\ st2.out = Append(st.out, p)
  BY <1>4, <1>5 DEF State
<1>7. SentAs(j, h0, p, row, st2, p)
  BY <1>1, <1>4, <1>6 DEF SentAs, joined
<1>8. Len(st.heap) <= Len(st2.heap)
  BY <1>1, <1>4, <1>6
<1>9. j \in DOMAIN st2.heap[p]
  BY <1>1, <1>4, <1>6
<1>10. \A o \in DOMAIN st.heap :
         \/ st2.heap[o] = st.heap[o]
         \/ /\ o = p /\ p \notin Range(st.out) /\ st2.heap[o] = With(h0[p], j, row)
            /\ query.joins[j].on \/ j \notin DOMAIN h0[p]
  BY <1>1, <1>4, <1>6 DEF joined
<1> HIDE DEF st2
<1>11. Joined(j, h0, P, M \cup {<<p, row>>}, st2)
  BY <1>1, <1>2, <1>3, <1>6, <1>7, <1>8, <1>9, <1>10, Extend
<1> QED
  BY <1>11, <1>1 DEF st2, objs

\* A parent that was marked, or is not sent itself, is sent as a new object.
LEMMA CopySent ==
  ASSUME Types, NEW j \in Join, NEW h0, NEW P, Ready(j, h0, P), NEW M, NEW st,
         Joined(j, h0, P, M, st), NEW p \in P, NEW row \in Row, <<p, row>> \notin M,
         NEW objs \in Seq(Source), Len(objs) = Len(st.heap), j \in DOMAIN objs[p],
         \A o \in DOMAIN st.heap :
           \/ objs[o] = st.heap[o]
           \/ /\ o = p /\ p \notin Range(st.out) /\ objs[o] = With(h0[p], j, row)
              /\ query.joins[j].on \/ j \notin DOMAIN h0[p]
  PROVE  Joined(j, h0, P, M \cup {<<p, row>>},
                [heap |-> Append(objs, With(h0[p], j, row)), out |-> Append(st.out, Len(objs) + 1)])
<1> DEFINE joined == With(h0[p], j, row)
           x == Len(objs) + 1
           st2 == [heap |-> Append(objs, joined), out |-> Append(st.out, x)]
<1>1. /\ p \in DOMAIN h0 /\ p \in DOMAIN st.heap /\ st.heap \in Seq(Source) /\ st.out \in Seq(Nat)
      /\ joined \in Source
  BY ParentIs
<1>2. x \in Nat /\ Len(h0) < x /\ Len(st.heap) < x
  BY <1>1 DEF Joined, Ready
<1> HIDE DEF joined
<1>3. /\ Append(objs, joined) \in Seq(Source) /\ Len(Append(objs, joined)) = x
      /\ DOMAIN Append(objs, joined) = DOMAIN objs \cup {x}
      /\ \A k \in DOMAIN objs : Append(objs, joined)[k] = objs[k]
      /\ Append(objs, joined)[x] = joined
  BY <1>1, Appended
<1>4. DOMAIN objs = DOMAIN st.heap
  BY <1>1
<1>5. x \notin Range(st.out)
  <2> SUFFICES ASSUME NEW k \in DOMAIN st.out PROVE st.out[k] # x
    BY DEF Range
  <2>1. st.out[k] \in DOMAIN st.heap
    BY DEF Joined, OutOf, SentAs
  <2> QED
    BY <2>1, <1>1, <1>2
<1> HIDE DEF x
<1>6. st2 \in State /\ st2.heap = Append(objs, joined) /\ st2.out = Append(st.out, x)
  BY <1>1, <1>2, <1>3 DEF State
<1>7. SentAs(j, h0, p, row, st2, x)
  BY <1>2, <1>3, <1>6 DEF SentAs, joined
<1>8. Len(st.heap) <= Len(st2.heap)
  BY <1>1, <1>2, <1>3, <1>6
<1>9. j \in DOMAIN st2.heap[p]
  BY <1>1, <1>3, <1>4, <1>6
<1>10. \A o \in DOMAIN st.heap :
         \/ st2.heap[o] = st.heap[o]
         \/ /\ o = p /\ p \notin Range(st.out) /\ st2.heap[o] = With(h0[p], j, row)
            /\ query.joins[j].on \/ j \notin DOMAIN h0[p]
  BY <1>3, <1>4, <1>6
<1> HIDE DEF st2
<1>11. Joined(j, h0, P, M \cup {<<p, row>>}, st2)
  BY <1>2, <1>5, <1>6, <1>7, <1>8, <1>9, <1>10, Extend
<1> QED
  BY <1>11 DEF st2, joined, x

NoNull(M) == \A p, row : <<p, row>> \in M => row # Null

\* One parent meets one child.
LEMMA HandleIs ==
  ASSUME Types, NEW j \in Join, NEW h0, NEW P, Ready(j, h0, P), NEW M, NEW st,
         Joined(j, h0, P, M, st), NoNull(M), NEW p \in P, NEW child \in Row,
         <<p, child>> \notin M
  PROVE  Joined(j, h0, P, IF Matches(j, h0[p], child) THEN M \cup {<<p, child>>} ELSE M,
                Handle(j, st, p, child))
<1> DEFINE joined == With(h0[p], j, child)
<1>1. /\ p \in DOMAIN h0 /\ p \in DOMAIN st.heap /\ st.heap \in Seq(Source) /\ st.out \in Seq(Nat)
      /\ With(st.heap[p], j, child) = joined /\ joined \in Source /\ j \in DOMAIN joined
      /\ j \notin DOMAIN st.heap[p] => j \notin DOMAIN h0[p] /\ p \notin Range(st.out)
  BY ParentIs
<1>2. query.joins[j].on \in BOOLEAN
  BY QueryIs
<1>3. Matches(j, h0[p], child) <=> (query.joins[j].on => OnHolds(j, joined))
  BY DEF Matches
<1> HIDE DEF joined
<1>4. CASE ~Matches(j, h0[p], child)
  <2>1. Handle(j, st, p, child) = st
    BY <1>1, <1>3, <1>4 DEF Handle
  <2> QED
    BY <1>4, <2>1
<1>5. CASE Matches(j, h0[p], child) /\ query.joins[j].on
  <2> DEFINE objs == [st.heap EXCEPT ![p] = joined]
  <2>1. Handle(j, st, p, child) = [heap |-> Append(objs, joined), out |-> Append(st.out, Len(objs) + 1)]
    BY <1>1, <1>3, <1>5 DEF Handle
  <2>2. /\ objs \in Seq(Source) /\ Len(objs) = Len(st.heap)
        /\ objs[p] = joined /\ \A o \in DOMAIN st.heap : o # p => objs[o] = st.heap[o]
    BY <1>1, Updated
  <2>3. p \notin Range(st.out)
    <3> SUFFICES ASSUME NEW k \in DOMAIN st.out PROVE st.out[k] # p
      BY DEF Range
    <3>1. PICK q, r : <<q, r>> \in M /\ SentAs(j, h0, q, r, st, st.out[k])
      BY DEF Joined, OutOf
    <3>2. r # Null
      BY <3>1 DEF NoNull
    <3>3. st.out[k] > Len(h0)
      BY <3>1, <3>2, <1>5 DEF SentAs
    <3>4. p \in 1..Len(h0)
      BY <1>1 DEF Ready
    <3> QED
      BY <3>3, <3>4 DEF Ready
  <2> HIDE DEF objs
  <2>4. \A o \in DOMAIN st.heap :
           \/ objs[o] = st.heap[o]
           \/ /\ o = p /\ p \notin Range(st.out) /\ objs[o] = With(h0[p], j, child)
              /\ query.joins[j].on \/ j \notin DOMAIN h0[p]
    BY <2>2, <2>3, <1>5 DEF joined
  <2>5. Joined(j, h0, P, M \cup {<<p, child>>},
               [heap |-> Append(objs, With(h0[p], j, child)), out |-> Append(st.out, Len(objs) + 1)])
    BY <1>1, <2>2, <2>4, CopySent
  <2> QED
    BY <2>1, <2>5, <1>5 DEF joined
<1>6. CASE Matches(j, h0[p], child) /\ ~query.joins[j].on /\ j \in DOMAIN st.heap[p]
  <2>1. Handle(j, st, p, child)
          = [heap |-> Append(st.heap, joined), out |-> Append(st.out, Len(st.heap) + 1)]
    BY <1>1, <1>3, <1>6 DEF Handle
  <2>2. Joined(j, h0, P, M \cup {<<p, child>>},
               [heap |-> Append(st.heap, With(h0[p], j, child)), out |-> Append(st.out, Len(st.heap) + 1)])
    BY <1>1, <1>6, CopySent
  <2> QED
    BY <2>1, <2>2, <1>6 DEF joined
<1>7. CASE Matches(j, h0[p], child) /\ ~query.joins[j].on /\ j \notin DOMAIN st.heap[p]
  <2>1. Handle(j, st, p, child)
          = [heap |-> [st.heap EXCEPT ![p] = With(st.heap[p], j, child)], out |-> Append(st.out, p)]
    BY <1>1, <1>3, <1>7 DEF Handle
  <2>2. Joined(j, h0, P, M \cup {<<p, child>>},
               [heap |-> [st.heap EXCEPT ![p] = With(st.heap[p], j, child)], out |-> Append(st.out, p)])
    BY <1>7, ParentSent
  <2> QED
    BY <2>1, <2>2, <1>7
<1> QED
  BY <1>2, <1>4, <1>5, <1>6, <1>7

\* Left finalization of one parent.
LEMMA FinalizeRowIs ==
  ASSUME Types, NEW j \in Join, NEW h0, NEW P, Ready(j, h0, P), NEW M, NEW st,
         Joined(j, h0, P, M, st), NEW p \in P
  PROVE  Joined(j, h0, P, IF j \in DOMAIN st.heap[p] THEN M ELSE M \cup {<<p, Null>>},
                FinalizeRow(j, st, p))
<1>1. CASE j \in DOMAIN st.heap[p]
  BY <1>1 DEF FinalizeRow
<1>2. CASE j \notin DOMAIN st.heap[p]
  <2>1. Null \in Row
    BY DEF Null, Row
  <2>2. FinalizeRow(j, st, p)
          = [heap |-> [st.heap EXCEPT ![p] = With(st.heap[p], j, Null)], out |-> Append(st.out, p)]
    BY <1>2 DEF FinalizeRow
  <2>3. Joined(j, h0, P, M \cup {<<p, Null>>}, FinalizeRow(j, st, p))
    BY <2>1, <2>2, <1>2, ParentSent
  <2> QED
    BY <2>3, <1>2
<1> QED
  BY <1>1, <1>2

-----------------------------------------------------------------------------
(* The loops take their steps one after the other. *)

\* The states in which the objects of h0 are still there.
Grown(h0) == {st \in State : Len(h0) <= Len(st.heap)}

LEMMA HandleGrows ==
  ASSUME NEW h0 \in Seq(Source), NEW j \in Join, NEW st \in Grown(h0), NEW p \in DOMAIN h0,
         NEW child \in Row
  PROVE  Handle(j, st, p, child) \in Grown(h0)
<1> DEFINE joined == With(st.heap[p], j, child)
           objs == IF query.joins[j].on \/ j \notin DOMAIN st.heap[p]
                   THEN [st.heap EXCEPT ![p] = joined] ELSE st.heap
<1>1. st.heap \in Seq(Source) /\ st.out \in Seq(Nat) /\ p \in DOMAIN st.heap /\ p \in Nat
  BY DEF Grown, State
<1>2. joined \in Source
  <2>1. st.heap[p] \in Source /\ j \in Table
    BY <1>1 DEF Table, Join
  <2> QED
    BY <2>1, WithIs
<1> HIDE DEF joined
<1>3. objs \in Seq(Source) /\ Len(objs) = Len(st.heap)
  BY <1>1, <1>2
<1>4. Handle(j, st, p, child) \in {st, [heap |-> Append(objs, joined), out |-> Append(st.out, Len(objs) + 1)],
                                   [heap |-> objs, out |-> Append(st.out, p)]}
  BY DEF Handle, joined
<1> HIDE DEF objs
<1>5. [heap |-> objs, out |-> Append(st.out, p)] \in Grown(h0)
  BY <1>1, <1>3 DEF Grown, State
<1>6. [heap |-> Append(objs, joined), out |-> Append(st.out, Len(objs) + 1)] \in Grown(h0)
  <2>1. Append(objs, joined) \in Seq(Source) /\ Len(Append(objs, joined)) = Len(objs) + 1
    BY <1>2, <1>3, Appended
  <2>2. Append(st.out, Len(objs) + 1) \in Seq(Nat)
    BY <1>1, <1>3
  <2>3. Len(h0) <= Len(objs) + 1
    BY <1>1, <1>3 DEF Grown
  <2> QED
    BY <2>1, <2>2, <2>3 DEF Grown, State
<1> QED
  BY <1>4, <1>5, <1>6

LEMMA ChildrenLoop ==
  ASSUME NEW h0 \in Seq(Source), NEW j \in Join, NEW st \in Grown(h0), 
         NEW p \in DOMAIN h0, NEW children \in Seq(Row)
  PROVE  \E l : /\ Children(j, st, p, children) = l[Len(children)]
                /\ l[0] = st
                /\ \A i \in 1..Len(children) : l[i] = Handle(j, l[i - 1], p, children[i])
<1> DEFINE n == Len(children)
           E(l) == l = [i \in 0..n |-> IF i = 0 THEN st ELSE Only({Handle(j, st1, p, children[i]) : st1 \in {l[i - 1]}})]
           F == [x \in Grown(h0) \X (1..n) |-> Handle(j, x[1], p, children[x[2]])]
           loop == CHOOSE l : E(l)
<1>1. n \in Nat /\ \A i \in 1..n : children[i] \in Row
  OBVIOUS
<1>2. \A x \in Grown(h0) : \A i \in 1..n :
        F[<<x, i>>] \in Grown(h0) /\ F[<<x, i>>] = Handle(j, x, p, children[i])
  BY <1>1, HandleGrows
<1> HIDE DEF F, n
<1>3. PICK g : Iteration(g, n, Grown(h0), st, F)
  BY <1>1, <1>2, Iterates
<1>4. E(g)
  <2>1. g \in [0..n -> Grown(h0)] /\ g[0] = st /\ \A i \in 1..n : g[i] = F[<<g[i - 1], i>>]
    BY <1>3 DEF Iteration
  <2>2. ASSUME NEW i \in 0..n, i # 0 PROVE g[i] = Only({Handle(j, st1, p, children[i]) : st1 \in {g[i - 1]}})
    <3>1. i \in 1..n /\ i - 1 \in 0..n
      BY <1>1, <2>2
    <3>2. g[i] = Handle(j, g[i - 1], p, children[i])
      BY <2>1, <3>1, <1>2
    <3> QED
      BY <3>2 DEF Only
  <2> QED
    BY <2>1, <2>2
<1>5. E(loop)
  <2> HIDE DEF E
  <2> QED
    BY <1>4
<1>6. Children(j, st, p, children) = loop[n]
  BY DEF Children, n
<1> HIDE DEF loop
<1>7. loop[0] = st
  BY <1>1, <1>5
<1>8. ASSUME NEW i \in 1..n PROVE loop[i] = Handle(j, loop[i - 1], p, children[i])
  <2>1. i \in 0..n /\ i # 0
    BY <1>1
  <2>2. loop[i] = Only({Handle(j, st1, p, children[i]) : st1 \in {loop[i - 1]}})
    BY <2>1, <1>5
  <2> QED
    BY <2>2 DEF Only
<1> QED
  BY <1>6, <1>7, <1>8 DEF n

LEMMA ChildrenGrows ==
  ASSUME NEW h0 \in Seq(Source), NEW j \in Join, NEW st \in Grown(h0), 
         NEW p \in DOMAIN h0, NEW children \in Seq(Row)
  PROVE  Children(j, st, p, children) \in Grown(h0)
<1> DEFINE n == Len(children)
<1>1. n \in Nat /\ \A i \in 1..n : children[i] \in Row
  OBVIOUS
<1>2. PICK l : /\ Children(j, st, p, children) = l[n]
               /\ l[0] = st
               /\ \A i \in 1..n : l[i] = Handle(j, l[i - 1], p, children[i])
  BY ChildrenLoop
<1> HIDE DEF n
<1> DEFINE T == {i \in 0..n : l[i] \in Grown(h0)}
<1>3. 0 \in T
  BY <1>1, <1>2
<1>4. ASSUME NEW i \in 1..n, i - 1 \in T PROVE i \in T
  <2>1. l[i] = Handle(j, l[i - 1], p, children[i]) /\ l[i - 1] \in Grown(h0)
    BY <1>2, <1>4
  <2>2. l[i] \in Grown(h0)
    BY <1>1, <2>1, HandleGrows
  <2> QED
    BY <1>1, <2>2
<1>5. n \in T
  <2> HIDE DEF T
  <2>1. 0..n \subseteq T
    BY <1>1, <1>3, <1>4, UpTo
  <2> QED
    BY <1>1, <2>1
<1> QED
  BY <1>2, <1>5

LEMMA ParentsLoop ==
  ASSUME NEW h0 \in Seq(Source), NEW j \in Join, NEW st \in Grown(h0), 
         NEW parents \in Seq(DOMAIN h0), NEW child \in Row
  PROVE  \E l : /\ Parents(j, st, parents, child) = l[Len(parents)]
                /\ l[0] = st
                /\ \A i \in 1..Len(parents) : l[i] = Handle(j, l[i - 1], parents[i], child)
<1> DEFINE n == Len(parents)
           E(l) == l = [i \in 0..n |-> IF i = 0 THEN st ELSE Only({Handle(j, st1, parents[i], child) : st1 \in {l[i - 1]}})]
           F == [x \in Grown(h0) \X (1..n) |-> Handle(j, x[1], parents[x[2]], child)]
           loop == CHOOSE l : E(l)
<1>1. n \in Nat /\ \A i \in 1..n : parents[i] \in DOMAIN h0
  OBVIOUS
<1>2. \A x \in Grown(h0) : \A i \in 1..n :
        F[<<x, i>>] \in Grown(h0) /\ F[<<x, i>>] = Handle(j, x, parents[i], child)
  BY <1>1, HandleGrows
<1> HIDE DEF F, n
<1>3. PICK g : Iteration(g, n, Grown(h0), st, F)
  BY <1>1, <1>2, Iterates
<1>4. E(g)
  <2>1. g \in [0..n -> Grown(h0)] /\ g[0] = st /\ \A i \in 1..n : g[i] = F[<<g[i - 1], i>>]
    BY <1>3 DEF Iteration
  <2>2. ASSUME NEW i \in 0..n, i # 0 PROVE g[i] = Only({Handle(j, st1, parents[i], child) : st1 \in {g[i - 1]}})
    <3>1. i \in 1..n /\ i - 1 \in 0..n
      BY <1>1, <2>2
    <3>2. g[i] = Handle(j, g[i - 1], parents[i], child)
      BY <2>1, <3>1, <1>2
    <3> QED
      BY <3>2 DEF Only
  <2> QED
    BY <2>1, <2>2
<1>5. E(loop)
  <2> HIDE DEF E
  <2> QED
    BY <1>4
<1>6. Parents(j, st, parents, child) = loop[n]
  BY DEF Parents, n
<1> HIDE DEF loop
<1>7. loop[0] = st
  BY <1>1, <1>5
<1>8. ASSUME NEW i \in 1..n PROVE loop[i] = Handle(j, loop[i - 1], parents[i], child)
  <2>1. i \in 0..n /\ i # 0
    BY <1>1
  <2>2. loop[i] = Only({Handle(j, st1, parents[i], child) : st1 \in {loop[i - 1]}})
    BY <2>1, <1>5
  <2> QED
    BY <2>2 DEF Only
<1> QED
  BY <1>6, <1>7, <1>8 DEF n

LEMMA ParentsGrows ==
  ASSUME NEW h0 \in Seq(Source), NEW j \in Join, NEW st \in Grown(h0), 
         NEW parents \in Seq(DOMAIN h0), NEW child \in Row
  PROVE  Parents(j, st, parents, child) \in Grown(h0)
<1> DEFINE n == Len(parents)
<1>1. n \in Nat /\ \A i \in 1..n : parents[i] \in DOMAIN h0
  OBVIOUS
<1>2. PICK l : /\ Parents(j, st, parents, child) = l[n]
               /\ l[0] = st
               /\ \A i \in 1..n : l[i] = Handle(j, l[i - 1], parents[i], child)
  BY ParentsLoop
<1> HIDE DEF n
<1> DEFINE T == {i \in 0..n : l[i] \in Grown(h0)}
<1>3. 0 \in T
  BY <1>1, <1>2
<1>4. ASSUME NEW i \in 1..n, i - 1 \in T PROVE i \in T
  <2>1. l[i] = Handle(j, l[i - 1], parents[i], child) /\ l[i - 1] \in Grown(h0)
    BY <1>2, <1>4
  <2>2. l[i] \in Grown(h0)
    BY <1>1, <2>1, HandleGrows
  <2> QED
    BY <1>1, <2>2
<1>5. n \in T
  <2> HIDE DEF T
  <2>1. 0..n \subseteq T
    BY <1>1, <1>3, <1>4, UpTo
  <2> QED
    BY <1>1, <2>1
<1> QED
  BY <1>2, <1>5

LEMMA ByParentLoop ==
  ASSUME NEW h0 \in Seq(Source), NEW j \in Join, NEW st \in Grown(h0), 
         NEW parents \in Seq(DOMAIN h0), NEW children \in Seq(Row)
  PROVE  \E l : /\ ByParent(j, st, parents, children) = l[Len(parents)]
                /\ l[0] = st
                /\ \A i \in 1..Len(parents) : l[i] = Children(j, l[i - 1], parents[i], children)
<1> DEFINE n == Len(parents)
           E(l) == l = [i \in 0..n |-> IF i = 0 THEN st ELSE Children(j, l[i - 1], parents[i], children)]
           F == [x \in Grown(h0) \X (1..n) |-> Children(j, x[1], parents[x[2]], children)]
           loop == CHOOSE l : E(l)
<1>1. n \in Nat /\ \A i \in 1..n : parents[i] \in DOMAIN h0
  OBVIOUS
<1>2. \A x \in Grown(h0) : \A i \in 1..n :
        F[<<x, i>>] \in Grown(h0) /\ F[<<x, i>>] = Children(j, x, parents[i], children)
  BY <1>1, ChildrenGrows
<1> HIDE DEF F, n
<1>3. PICK g : Iteration(g, n, Grown(h0), st, F)
  BY <1>1, <1>2, Iterates
<1>4. E(g)
  <2>1. g \in [0..n -> Grown(h0)] /\ g[0] = st /\ \A i \in 1..n : g[i] = F[<<g[i - 1], i>>]
    BY <1>3 DEF Iteration
  <2>2. ASSUME NEW i \in 0..n, i # 0 PROVE g[i] = Children(j, g[i - 1], parents[i], children)
    <3>1. i \in 1..n /\ i - 1 \in 0..n
      BY <1>1, <2>2
    <3>2. g[i] = Children(j, g[i - 1], parents[i], children)
      BY <2>1, <3>1, <1>2
    <3> QED
      BY <3>2
  <2> QED
    BY <2>1, <2>2
<1>5. E(loop)
  <2> HIDE DEF E
  <2> QED
    BY <1>4
<1>6. ByParent(j, st, parents, children) = loop[n]
  BY DEF ByParent, n
<1> HIDE DEF loop
<1>7. loop[0] = st
  BY <1>1, <1>5
<1>8. ASSUME NEW i \in 1..n PROVE loop[i] = Children(j, loop[i - 1], parents[i], children)
  <2>1. i \in 0..n /\ i # 0
    BY <1>1
  <2>2. loop[i] = Children(j, loop[i - 1], parents[i], children)
    BY <2>1, <1>5
  <2> QED
    BY <2>2
<1> QED
  BY <1>6, <1>7, <1>8 DEF n

LEMMA ByChildLoop ==
  ASSUME NEW h0 \in Seq(Source), NEW j \in Join, NEW st \in Grown(h0), 
         NEW parents \in Seq(DOMAIN h0), NEW children \in Seq(Row)
  PROVE  \E l : /\ ByChild(j, st, parents, children) = l[Len(children)]
                /\ l[0] = st
                /\ \A i \in 1..Len(children) : l[i] = Parents(j, l[i - 1], parents, children[i])
<1> DEFINE n == Len(children)
           E(l) == l = [i \in 0..n |-> IF i = 0 THEN st ELSE Parents(j, l[i - 1], parents, children[i])]
           F == [x \in Grown(h0) \X (1..n) |-> Parents(j, x[1], parents, children[x[2]])]
           loop == CHOOSE l : E(l)
<1>1. n \in Nat /\ \A i \in 1..n : children[i] \in Row
  OBVIOUS
<1>2. \A x \in Grown(h0) : \A i \in 1..n :
        F[<<x, i>>] \in Grown(h0) /\ F[<<x, i>>] = Parents(j, x, parents, children[i])
  BY <1>1, ParentsGrows
<1> HIDE DEF F, n
<1>3. PICK g : Iteration(g, n, Grown(h0), st, F)
  BY <1>1, <1>2, Iterates
<1>4. E(g)
  <2>1. g \in [0..n -> Grown(h0)] /\ g[0] = st /\ \A i \in 1..n : g[i] = F[<<g[i - 1], i>>]
    BY <1>3 DEF Iteration
  <2>2. ASSUME NEW i \in 0..n, i # 0 PROVE g[i] = Parents(j, g[i - 1], parents, children[i])
    <3>1. i \in 1..n /\ i - 1 \in 0..n
      BY <1>1, <2>2
    <3>2. g[i] = Parents(j, g[i - 1], parents, children[i])
      BY <2>1, <3>1, <1>2
    <3> QED
      BY <3>2
  <2> QED
    BY <2>1, <2>2
<1>5. E(loop)
  <2> HIDE DEF E
  <2> QED
    BY <1>4
<1>6. ByChild(j, st, parents, children) = loop[n]
  BY DEF ByChild, n
<1> HIDE DEF loop
<1>7. loop[0] = st
  BY <1>1, <1>5
<1>8. ASSUME NEW i \in 1..n PROVE loop[i] = Parents(j, loop[i - 1], parents, children[i])
  <2>1. i \in 0..n /\ i # 0
    BY <1>1
  <2>2. loop[i] = Parents(j, loop[i - 1], parents, children[i])
    BY <2>1, <1>5
  <2> QED
    BY <2>2
<1> QED
  BY <1>6, <1>7, <1>8 DEF n

LEMMA FinalizeRowGrows ==
  ASSUME NEW h0 \in Seq(Source), NEW j \in Join, NEW st \in Grown(h0), NEW p \in DOMAIN h0
  PROVE  FinalizeRow(j, st, p) \in Grown(h0)
<1>1. st.heap \in Seq(Source) /\ st.out \in Seq(Nat) /\ p \in DOMAIN st.heap /\ p \in Nat
  BY DEF Grown, State
<1>2. With(st.heap[p], j, Null) \in Source
  <2>1. st.heap[p] \in Source /\ j \in Table /\ Null \in Row
    BY <1>1 DEF Table, Join, Null, Row
  <2> QED
    BY <2>1, WithIs
<1>3. /\ [st.heap EXCEPT ![p] = With(st.heap[p], j, Null)] \in Seq(Source)
      /\ Len([st.heap EXCEPT ![p] = With(st.heap[p], j, Null)]) = Len(st.heap)
  BY <1>1, <1>2
<1> QED
  BY <1>1, <1>3 DEF FinalizeRow, Grown, State

LEMMA FinalizeLoop ==
  ASSUME NEW h0 \in Seq(Source), NEW j \in Join, NEW st \in Grown(h0), 
         NEW parents \in Seq(DOMAIN h0)
  PROVE  \E l : /\ Finalize(j, st, parents) = l[Len(parents)]
                /\ l[0] = st
                /\ \A i \in 1..Len(parents) : l[i] = FinalizeRow(j, l[i - 1], parents[i])
<1> DEFINE n == Len(parents)
           E(l) == l = [i \in 0..n |-> IF i = 0 THEN st ELSE Only({FinalizeRow(j, st1, parents[i]) : st1 \in {l[i - 1]}})]
           F == [x \in Grown(h0) \X (1..n) |-> FinalizeRow(j, x[1], parents[x[2]])]
           loop == CHOOSE l : E(l)
<1>1. n \in Nat /\ \A i \in 1..n : parents[i] \in DOMAIN h0
  OBVIOUS
<1>2. \A x \in Grown(h0) : \A i \in 1..n :
        F[<<x, i>>] \in Grown(h0) /\ F[<<x, i>>] = FinalizeRow(j, x, parents[i])
  BY <1>1, FinalizeRowGrows
<1> HIDE DEF F, n
<1>3. PICK g : Iteration(g, n, Grown(h0), st, F)
  BY <1>1, <1>2, Iterates
<1>4. E(g)
  <2>1. g \in [0..n -> Grown(h0)] /\ g[0] = st /\ \A i \in 1..n : g[i] = F[<<g[i - 1], i>>]
    BY <1>3 DEF Iteration
  <2>2. ASSUME NEW i \in 0..n, i # 0 PROVE g[i] = Only({FinalizeRow(j, st1, parents[i]) : st1 \in {g[i - 1]}})
    <3>1. i \in 1..n /\ i - 1 \in 0..n
      BY <1>1, <2>2
    <3>2. g[i] = FinalizeRow(j, g[i - 1], parents[i])
      BY <2>1, <3>1, <1>2
    <3> QED
      BY <3>2 DEF Only
  <2> QED
    BY <2>1, <2>2
<1>5. E(loop)
  <2> HIDE DEF E
  <2> QED
    BY <1>4
<1>6. Finalize(j, st, parents) = loop[n]
  BY DEF Finalize, n
<1> HIDE DEF loop
<1>7. loop[0] = st
  BY <1>1, <1>5
<1>8. ASSUME NEW i \in 1..n PROVE loop[i] = FinalizeRow(j, loop[i - 1], parents[i])
  <2>1. i \in 0..n /\ i # 0
    BY <1>1
  <2>2. loop[i] = Only({FinalizeRow(j, st1, parents[i]) : st1 \in {loop[i - 1]}})
    BY <2>1, <1>5
  <2> QED
    BY <2>2 DEF Only
<1> QED
  BY <1>6, <1>7, <1>8 DEF n

-----------------------------------------------------------------------------
(* What the loops join: those of their parents and children that match. *)

\* no row of a table is the null row
Child == Row \ {Null}
Meets(j, h0, S) == {pr \in S : Matches(j, h0[pr[1]], pr[2])}
Firsts(seq, i) == {seq[k] : k \in 1..i}

LEMMA FirstsIs ==
  ASSUME NEW S, NEW seq \in Seq(S)
  PROVE  /\ Firsts(seq, 0) = {} /\ Firsts(seq, Len(seq)) = Range(seq)
         /\ \A i \in 1..Len(seq) : /\ seq[i] \in S /\ seq[i] \in Range(seq)
                                   /\ Firsts(seq, i) = Firsts(seq, i - 1) \cup {seq[i]}
                                   /\ Distinct(seq) => seq[i] \notin Firsts(seq, i - 1)
<1>1. DOMAIN seq = 1..Len(seq) /\ Len(seq) \in Nat /\ \A i \in 1..Len(seq) : seq[i] \in S
  OBVIOUS
<1>2. Firsts(seq, 0) = {}
  BY DEF Firsts
<1>3. Firsts(seq, Len(seq)) = Range(seq)
  BY <1>1 DEF Firsts, Range
<1>4. ASSUME NEW i \in 1..Len(seq)
      PROVE  /\ Firsts(seq, i) = Firsts(seq, i - 1) \cup {seq[i]}
             /\ Distinct(seq) => seq[i] \notin Firsts(seq, i - 1)
  <2>1. 1..i = (1..(i - 1)) \cup {i} /\ 1..i \subseteq DOMAIN seq /\ i \notin 1..(i - 1)
    BY <1>1
  <2>2. Firsts(seq, i) = Firsts(seq, i - 1) \cup {seq[i]}
    BY <2>1 DEF Firsts
  <2>3. ASSUME Distinct(seq) PROVE seq[i] \notin Firsts(seq, i - 1)
    BY <2>1, <2>3 DEF Firsts, Distinct
  <2> QED
    BY <2>2, <2>3
<1>5. \A i \in 1..Len(seq) : seq[i] \in S /\ seq[i] \in Range(seq)
  BY <1>1 DEF Range
<1> QED
  BY <1>2, <1>3, <1>4, <1>5

LEMMA MeetsIs ==
  ASSUME NEW j, NEW h0, NEW M, NEW S, NEW U
  PROVE  /\ Meets(j, h0, {}) = {}
         /\ Meets(j, h0, S \cup U) = Meets(j, h0, S) \cup Meets(j, h0, U)
BY DEF Meets

LEMMA MeetsOne ==
  ASSUME NEW j, NEW h0, NEW p, NEW child
  PROVE  /\ Matches(j, h0[p], child) => Meets(j, h0, {p} \X {child}) = {<<p, child>>}
         /\ ~Matches(j, h0[p], child) => Meets(j, h0, {p} \X {child}) = {}
<1>1. {p} \X {child} = {<<p, child>>}
  OBVIOUS
<1>2. \A pr : pr \in Meets(j, h0, {<<p, child>>}) <=> pr = <<p, child>> /\ Matches(j, h0[p], child)
  BY DEF Meets
<1> HIDE DEF Meets
<1> QED
  BY <1>1, <1>2

LEMMA NoNullMeets ==
  ASSUME NEW j, NEW h0, NEW M, NoNull(M), NEW A, NEW B \in SUBSET Child
  PROVE  NoNull(M \cup Meets(j, h0, A \X B))
<1> SUFFICES ASSUME NEW p, NEW row, <<p, row>> \in M \cup Meets(j, h0, A \X B) PROVE row # Null
  BY DEF NoNull
<1>1. CASE <<p, row>> \in M
  BY <1>1 DEF NoNull
<1>2. CASE <<p, row>> \in Meets(j, h0, A \X B)
  <2>1. <<p, row>> \in A \X B
    BY <1>2 DEF Meets
  <2> QED
    BY <2>1 DEF Child
<1> QED
  BY <1>1, <1>2

LEMMA ChildrenIs ==
  ASSUME Types, NEW j \in Join, NEW h0, NEW P, Ready(j, h0, P), NEW M, NEW st,
         Joined(j, h0, P, M, st), NoNull(M), NEW p \in P,
         NEW children \in Seq(Child), Distinct(children),
         M \cap ({p} \X Range(children)) = {}
  PROVE  Joined(j, h0, P, M \cup Meets(j, h0, {p} \X Range(children)), Children(j, st, p, children))
<1> DEFINE n == Len(children)
           Now(i) == M \cup Meets(j, h0, {p} \X Firsts(children, i))
<1>1. st \in Grown(h0) /\ h0 \in Seq(Source) /\ P \subseteq DOMAIN h0 /\ n \in Nat /\ p \in DOMAIN h0
      /\ children \in Seq(Row)
  <2>1. st \in Grown(h0) /\ h0 \in Seq(Source) /\ P \subseteq DOMAIN h0 /\ n \in Nat
    BY DEF Joined, Ready, Grown
  <2>2. Child \subseteq Row /\ children \in Seq(Row)
    <3>1. Child \subseteq Row
      BY DEF Child
    <3> QED
      BY <3>1, SeqSubset
  <2> QED
    BY <2>1, <2>2
<1>2. PICK l : /\ Children(j, st, p, children) = l[n]
               /\ l[0] = st
               /\ \A i \in 1..n : l[i] = Handle(j, l[i - 1], p, children[i])
  BY <1>1, ChildrenLoop
<1> DEFINE T == {i \in 0..n : Joined(j, h0, P, Now(i), l[i])}
<1>3. Now(0) = M
  <2>1. {p} \X Firsts(children, 0) = {}
    BY FirstsIs
  <2> QED
    BY <2>1, MeetsIs
<1>4. ASSUME NEW i \in 1..n
      PROVE  /\ children[i] \in Child
             /\ Now(i) = Now(i - 1) \cup Meets(j, h0, {p} \X {children[i]})
             /\ Now(i - 1) \cap ({p} \X {children[i]}) = {}
  <2>1. /\ children[i] \in Child /\ children[i] \in Range(children)
        /\ Firsts(children, i) = Firsts(children, i - 1) \cup {children[i]}
        /\ children[i] \notin Firsts(children, i - 1)
    BY FirstsIs
  <2>2. {p} \X Firsts(children, i)
          = ({p} \X Firsts(children, i - 1)) \cup ({p} \X {children[i]})
    BY <2>1
  <2>3. Now(i) = Now(i - 1) \cup Meets(j, h0, {p} \X {children[i]})
    BY <2>2, MeetsIs
  <2>4. ({p} \X Firsts(children, i - 1)) \cap ({p} \X {children[i]}) = {}
    BY <2>1
  <2>5. M \cap ({p} \X {children[i]}) = {}
    BY <2>1
  <2> QED
    BY <2>1, <2>3, <2>4, <2>5 DEF Meets
<1>5. \A i \in 0..n : NoNull(Now(i))
  <2> TAKE i \in 0..n
  <2>1. Firsts(children, i) \in SUBSET Child
    BY DEF Firsts
  <2> QED
    BY <2>1, NoNullMeets
<1> HIDE DEF n, Now
<1>6. 0 \in T
  BY <1>1, <1>2, <1>3
<1>7. ASSUME NEW i \in 1..n, i - 1 \in T PROVE i \in T
  <2>1. /\ i \in 0..n /\ i - 1 \in 0..n /\ NoNull(Now(i - 1)) /\ Joined(j, h0, P, Now(i - 1), l[i - 1])
        /\ l[i] = Handle(j, l[i - 1], p, children[i])
    BY <1>1, <1>2, <1>5, <1>7
  <2>2. /\ children[i] \in Child /\ Now(i) = Now(i - 1) \cup Meets(j, h0, {p} \X {children[i]})
        /\ Now(i - 1) \cap ({p} \X {children[i]}) = {}
    BY <1>4
  <2>3. Joined(j, h0, P, IF Matches(j, h0[p], children[i]) THEN Now(i - 1) \cup {<<p, children[i]>>} ELSE Now(i - 1),
               Handle(j, l[i - 1], p, children[i]))
    <3>1. <<p, children[i]>> \notin Now(i - 1) /\ children[i] \in Row
      BY <2>2 DEF Child
    <3> QED
      BY <2>1, <2>2, <3>1, HandleIs
  <2>4. Joined(j, h0, P, Now(i), Handle(j, l[i - 1], p, children[i]))
    <3>1. (IF Matches(j, h0[p], children[i]) THEN Now(i - 1) \cup {<<p, children[i]>>} ELSE Now(i - 1))
            = Now(i - 1) \cup Meets(j, h0, {p} \X {children[i]})
      <4>1. /\ Matches(j, h0[p], children[i]) => Meets(j, h0, {p} \X {children[i]}) = {<<p, children[i]>>}
            /\ ~Matches(j, h0[p], children[i]) => Meets(j, h0, {p} \X {children[i]}) = {}
        BY MeetsOne
      <4> QED
        BY <4>1
    <3> QED
      BY <2>2, <2>3, <3>1
  <2> QED
    BY <2>1, <2>4
<1>8. n \in T
  <2> HIDE DEF T
  <2>1. 0..n \subseteq T
    BY <1>1, <1>6, <1>7, UpTo
  <2> QED
    BY <1>1, <2>1
<1>9. Now(n) = M \cup Meets(j, h0, {p} \X Range(children))
  BY FirstsIs DEF Now, n
<1> QED
  BY <1>2, <1>8, <1>9

LEMMA ParentsIs ==
  ASSUME Types, NEW j \in Join, NEW h0, NEW P, Ready(j, h0, P), NEW M, NEW st,
         Joined(j, h0, P, M, st), NoNull(M), NEW child \in Child,
         NEW parents \in Seq(P), Distinct(parents),
         M \cap (Range(parents) \X {child}) = {}
  PROVE  Joined(j, h0, P, M \cup Meets(j, h0, Range(parents) \X {child}), Parents(j, st, parents, child))
<1> DEFINE n == Len(parents)
           Now(i) == M \cup Meets(j, h0, Firsts(parents, i) \X {child})
<1>1. st \in Grown(h0) /\ h0 \in Seq(Source) /\ P \subseteq DOMAIN h0 /\ n \in Nat /\ child \in Row
      /\ parents \in Seq(DOMAIN h0)
  <2>1. st \in Grown(h0) /\ h0 \in Seq(Source) /\ P \subseteq DOMAIN h0 /\ n \in Nat
    BY DEF Joined, Ready, Grown
  <2>2. parents \in Seq(DOMAIN h0)
    BY <2>1, SeqSubset
  <2> QED
    BY <2>1, <2>2 DEF Child
<1>2. PICK l : /\ Parents(j, st, parents, child) = l[n]
               /\ l[0] = st
               /\ \A i \in 1..n : l[i] = Handle(j, l[i - 1], parents[i], child)
  BY <1>1, ParentsLoop
<1> DEFINE T == {i \in 0..n : Joined(j, h0, P, Now(i), l[i])}
<1>3. Now(0) = M
  <2>1. Firsts(parents, 0) \X {child} = {}
    BY FirstsIs
  <2> QED
    BY <2>1, MeetsIs
<1>4. ASSUME NEW i \in 1..n
      PROVE  /\ parents[i] \in P
             /\ Now(i) = Now(i - 1) \cup Meets(j, h0, {parents[i]} \X {child})
             /\ Now(i - 1) \cap ({parents[i]} \X {child}) = {}
  <2>1. /\ parents[i] \in P /\ parents[i] \in Range(parents)
        /\ Firsts(parents, i) = Firsts(parents, i - 1) \cup {parents[i]}
        /\ parents[i] \notin Firsts(parents, i - 1)
    BY FirstsIs
  <2>2. Firsts(parents, i) \X {child}
          = (Firsts(parents, i - 1) \X {child}) \cup ({parents[i]} \X {child})
    BY <2>1
  <2>3. Now(i) = Now(i - 1) \cup Meets(j, h0, {parents[i]} \X {child})
    BY <2>2, MeetsIs
  <2>4. (Firsts(parents, i - 1) \X {child}) \cap ({parents[i]} \X {child}) = {}
    BY <2>1
  <2>5. M \cap ({parents[i]} \X {child}) = {}
    BY <2>1
  <2> QED
    BY <2>1, <2>3, <2>4, <2>5 DEF Meets
<1>5. \A i \in 0..n : NoNull(Now(i))
  <2> TAKE i \in 0..n
  <2>1. {child} \in SUBSET Child
    BY DEF Range
  <2> QED
    BY <2>1, NoNullMeets
<1> HIDE DEF n, Now
<1>6. 0 \in T
  BY <1>1, <1>2, <1>3
<1>7. ASSUME NEW i \in 1..n, i - 1 \in T PROVE i \in T
  <2>1. /\ i \in 0..n /\ i - 1 \in 0..n /\ NoNull(Now(i - 1)) /\ Joined(j, h0, P, Now(i - 1), l[i - 1])
        /\ l[i] = Handle(j, l[i - 1], parents[i], child)
    BY <1>1, <1>2, <1>5, <1>7
  <2>2. /\ parents[i] \in P /\ Now(i) = Now(i - 1) \cup Meets(j, h0, {parents[i]} \X {child})
        /\ Now(i - 1) \cap ({parents[i]} \X {child}) = {}
    BY <1>4
  <2>3. Joined(j, h0, P, IF Matches(j, h0[parents[i]], child) THEN Now(i - 1) \cup {<<parents[i], child>>} ELSE Now(i - 1),
               Handle(j, l[i - 1], parents[i], child))
    <3>1. <<parents[i], child>> \notin Now(i - 1) /\ child \in Row
      BY <2>2 DEF Child
    <3> QED
      BY <2>1, <2>2, <3>1, HandleIs
  <2>4. Joined(j, h0, P, Now(i), Handle(j, l[i - 1], parents[i], child))
    <3>1. (IF Matches(j, h0[parents[i]], child) THEN Now(i - 1) \cup {<<parents[i], child>>} ELSE Now(i - 1))
            = Now(i - 1) \cup Meets(j, h0, {parents[i]} \X {child})
      <4>1. /\ Matches(j, h0[parents[i]], child) => Meets(j, h0, {parents[i]} \X {child}) = {<<parents[i], child>>}
            /\ ~Matches(j, h0[parents[i]], child) => Meets(j, h0, {parents[i]} \X {child}) = {}
        BY MeetsOne
      <4> QED
        BY <4>1
    <3> QED
      BY <2>2, <2>3, <3>1
  <2> QED
    BY <2>1, <2>4
<1>8. n \in T
  <2> HIDE DEF T
  <2>1. 0..n \subseteq T
    BY <1>1, <1>6, <1>7, UpTo
  <2> QED
    BY <1>1, <2>1
<1>9. Now(n) = M \cup Meets(j, h0, Range(parents) \X {child})
  BY FirstsIs DEF Now, n
<1> QED
  BY <1>2, <1>8, <1>9

LEMMA ByParentIs ==
  ASSUME Types, NEW j \in Join, NEW h0, NEW P, Ready(j, h0, P), NEW M, NEW st,
         Joined(j, h0, P, M, st), NoNull(M), NEW parents \in Seq(P), Distinct(parents),
         NEW children \in Seq(Child), Distinct(children),
         M \cap (Range(parents) \X Range(children)) = {}
  PROVE  Joined(j, h0, P, M \cup Meets(j, h0, Range(parents) \X Range(children)), ByParent(j, st, parents, children))
<1> DEFINE n == Len(parents)
           Now(i) == M \cup Meets(j, h0, Firsts(parents, i) \X Range(children))
<1>1. st \in Grown(h0) /\ h0 \in Seq(Source) /\ P \subseteq DOMAIN h0 /\ n \in Nat
      /\ children \in Seq(Row) /\ parents \in Seq(DOMAIN h0)
  <2>1. st \in Grown(h0) /\ h0 \in Seq(Source) /\ P \subseteq DOMAIN h0 /\ n \in Nat
    BY DEF Joined, Ready, Grown
  <2>2. Child \subseteq Row /\ children \in Seq(Row)
    <3>1. Child \subseteq Row
      BY DEF Child
    <3> QED
      BY <3>1, SeqSubset
  <2>3. parents \in Seq(DOMAIN h0)
    BY <2>1, SeqSubset
  <2> QED
    BY <2>1, <2>2, <2>3
<1>2. PICK l : /\ ByParent(j, st, parents, children) = l[n]
               /\ l[0] = st
               /\ \A i \in 1..n : l[i] = Children(j, l[i - 1], parents[i], children)
  BY <1>1, ByParentLoop
<1> DEFINE T == {i \in 0..n : Joined(j, h0, P, Now(i), l[i])}
<1>3. Now(0) = M
  <2>1. Firsts(parents, 0) \X Range(children) = {}
    BY FirstsIs
  <2> QED
    BY <2>1, MeetsIs
<1>4. ASSUME NEW i \in 1..n
      PROVE  /\ parents[i] \in P
             /\ Now(i) = Now(i - 1) \cup Meets(j, h0, {parents[i]} \X Range(children))
             /\ Now(i - 1) \cap ({parents[i]} \X Range(children)) = {}
  <2>1. /\ parents[i] \in P /\ parents[i] \in Range(parents)
        /\ Firsts(parents, i) = Firsts(parents, i - 1) \cup {parents[i]}
        /\ parents[i] \notin Firsts(parents, i - 1)
    BY FirstsIs
  <2>2. Firsts(parents, i) \X Range(children)
          = (Firsts(parents, i - 1) \X Range(children)) \cup ({parents[i]} \X Range(children))
    BY <2>1
  <2>3. Now(i) = Now(i - 1) \cup Meets(j, h0, {parents[i]} \X Range(children))
    BY <2>2, MeetsIs
  <2>4. (Firsts(parents, i - 1) \X Range(children)) \cap ({parents[i]} \X Range(children)) = {}
    BY <2>1
  <2>5. M \cap ({parents[i]} \X Range(children)) = {}
    BY <2>1
  <2> QED
    BY <2>1, <2>3, <2>4, <2>5 DEF Meets
<1>5. \A i \in 0..n : NoNull(Now(i))
  <2> TAKE i \in 0..n
  <2>1. Range(children) \in SUBSET Child
    BY DEF Range
  <2> QED
    BY <2>1, NoNullMeets
<1> HIDE DEF n, Now
<1>6. 0 \in T
  BY <1>1, <1>2, <1>3
<1>7. ASSUME NEW i \in 1..n, i - 1 \in T PROVE i \in T
  <2>1. /\ i \in 0..n /\ i - 1 \in 0..n /\ NoNull(Now(i - 1)) /\ Joined(j, h0, P, Now(i - 1), l[i - 1])
        /\ l[i] = Children(j, l[i - 1], parents[i], children)
    BY <1>1, <1>2, <1>5, <1>7
  <2>2. /\ parents[i] \in P /\ Now(i) = Now(i - 1) \cup Meets(j, h0, {parents[i]} \X Range(children))
        /\ Now(i - 1) \cap ({parents[i]} \X Range(children)) = {}
    BY <1>4
  <2>4. Joined(j, h0, P, Now(i), Children(j, l[i - 1], parents[i], children))
    <3>1. Joined(j, h0, P, Now(i - 1) \cup Meets(j, h0, {parents[i]} \X Range(children)),
                 Children(j, l[i - 1], parents[i], children))
      BY <2>1, <2>2, ChildrenIs
    <3> QED
      BY <2>2, <3>1
  <2> QED
    BY <2>1, <2>4
<1>8. n \in T
  <2> HIDE DEF T
  <2>1. 0..n \subseteq T
    BY <1>1, <1>6, <1>7, UpTo
  <2> QED
    BY <1>1, <2>1
<1>9. Now(n) = M \cup Meets(j, h0, Range(parents) \X Range(children))
  BY FirstsIs DEF Now, n
<1> QED
  BY <1>2, <1>8, <1>9

LEMMA ByChildIs ==
  ASSUME Types, NEW j \in Join, NEW h0, NEW P, Ready(j, h0, P), NEW M, NEW st,
         Joined(j, h0, P, M, st), NoNull(M), NEW parents \in Seq(P), Distinct(parents),
         NEW children \in Seq(Child), Distinct(children),
         M \cap (Range(parents) \X Range(children)) = {}
  PROVE  Joined(j, h0, P, M \cup Meets(j, h0, Range(parents) \X Range(children)), ByChild(j, st, parents, children))
<1> DEFINE n == Len(children)
           Now(i) == M \cup Meets(j, h0, Range(parents) \X Firsts(children, i))
<1>1. st \in Grown(h0) /\ h0 \in Seq(Source) /\ P \subseteq DOMAIN h0 /\ n \in Nat
      /\ children \in Seq(Row) /\ parents \in Seq(DOMAIN h0)
  <2>1. st \in Grown(h0) /\ h0 \in Seq(Source) /\ P \subseteq DOMAIN h0 /\ n \in Nat
    BY DEF Joined, Ready, Grown
  <2>2. Child \subseteq Row /\ children \in Seq(Row)
    <3>1. Child \subseteq Row
      BY DEF Child
    <3> QED
      BY <3>1, SeqSubset
  <2>3. parents \in Seq(DOMAIN h0)
    BY <2>1, SeqSubset
  <2> QED
    BY <2>1, <2>2, <2>3
<1>2. PICK l : /\ ByChild(j, st, parents, children) = l[n]
               /\ l[0] = st
               /\ \A i \in 1..n : l[i] = Parents(j, l[i - 1], parents, children[i])
  BY <1>1, ByChildLoop
<1> DEFINE T == {i \in 0..n : Joined(j, h0, P, Now(i), l[i])}
<1>3. Now(0) = M
  <2>1. Range(parents) \X Firsts(children, 0) = {}
    BY FirstsIs
  <2> QED
    BY <2>1, MeetsIs
<1>4. ASSUME NEW i \in 1..n
      PROVE  /\ children[i] \in Child
             /\ Now(i) = Now(i - 1) \cup Meets(j, h0, Range(parents) \X {children[i]})
             /\ Now(i - 1) \cap (Range(parents) \X {children[i]}) = {}
  <2>1. /\ children[i] \in Child /\ children[i] \in Range(children)
        /\ Firsts(children, i) = Firsts(children, i - 1) \cup {children[i]}
        /\ children[i] \notin Firsts(children, i - 1)
    BY FirstsIs
  <2>2. Range(parents) \X Firsts(children, i)
          = (Range(parents) \X Firsts(children, i - 1)) \cup (Range(parents) \X {children[i]})
    BY <2>1
  <2>3. Now(i) = Now(i - 1) \cup Meets(j, h0, Range(parents) \X {children[i]})
    BY <2>2, MeetsIs
  <2>4. (Range(parents) \X Firsts(children, i - 1)) \cap (Range(parents) \X {children[i]}) = {}
    BY <2>1
  <2>5. M \cap (Range(parents) \X {children[i]}) = {}
    BY <2>1
  <2> QED
    BY <2>1, <2>3, <2>4, <2>5 DEF Meets
<1>5. \A i \in 0..n : NoNull(Now(i))
  <2> TAKE i \in 0..n
  <2>1. Firsts(children, i) \in SUBSET Child
    BY DEF Firsts
  <2> QED
    BY <2>1, NoNullMeets
<1> HIDE DEF n, Now
<1>6. 0 \in T
  BY <1>1, <1>2, <1>3
<1>7. ASSUME NEW i \in 1..n, i - 1 \in T PROVE i \in T
  <2>1. /\ i \in 0..n /\ i - 1 \in 0..n /\ NoNull(Now(i - 1)) /\ Joined(j, h0, P, Now(i - 1), l[i - 1])
        /\ l[i] = Parents(j, l[i - 1], parents, children[i])
    BY <1>1, <1>2, <1>5, <1>7
  <2>2. /\ children[i] \in Child /\ Now(i) = Now(i - 1) \cup Meets(j, h0, Range(parents) \X {children[i]})
        /\ Now(i - 1) \cap (Range(parents) \X {children[i]}) = {}
    BY <1>4
  <2>4. Joined(j, h0, P, Now(i), Parents(j, l[i - 1], parents, children[i]))
    BY <2>1, <2>2, ParentsIs
  <2> QED
    BY <2>1, <2>4
<1>8. n \in T
  <2> HIDE DEF T
  <2>1. 0..n \subseteq T
    BY <1>1, <1>6, <1>7, UpTo
  <2> QED
    BY <1>1, <2>1
<1>9. Now(n) = M \cup Meets(j, h0, Range(parents) \X Range(children))
  BY FirstsIs DEF Now, n
<1> QED
  BY <1>2, <1>8, <1>9

\* A parent has a mark when it had one or was joined.
LEMMA MarkIs ==
  ASSUME Types, NEW j \in Join, NEW h0, NEW P, Ready(j, h0, P), NEW M, NEW st,
         Joined(j, h0, P, M, st), NEW p \in P
  PROVE  j \in DOMAIN st.heap[p] <=> (j \in DOMAIN h0[p] \/ \E row : <<p, row>> \in M)
<1>1. p \in DOMAIN h0
  BY DEF Ready
<1>2. st.heap[p] = h0[p] \/ \E row \in Row : <<p, row>> \in M /\ st.heap[p] = With(h0[p], j, row)
  BY <1>1 DEF Joined, Marked
<1>3. \A row : <<p, row>> \in M => j \in DOMAIN st.heap[p]
  BY DEF Joined, Out
<1>4. \A row : j \in DOMAIN With(h0[p], j, row)
  BY DEF With
<1> QED
  BY <1>2, <1>3, <1>4

\* Left finalization joins the parents without a mark with the null row.
LEMMA FinalizeIs ==
  ASSUME Types, NEW j \in Join, NEW h0, NEW P, Ready(j, h0, P), NEW M, NEW st,
         Joined(j, h0, P, M, st), NEW parents \in Seq(P)
  PROVE  Joined(j, h0, P, M \cup ({p \in Range(parents) : j \notin DOMAIN st.heap[p]} \X {Null}),
                Finalize(j, st, parents))
<1> DEFINE n == Len(parents)
           Now(i) == M \cup ({p \in Firsts(parents, i) : j \notin DOMAIN st.heap[p]} \X {Null})
<1>1. st \in Grown(h0) /\ h0 \in Seq(Source) /\ P \subseteq DOMAIN h0 /\ n \in Nat
      /\ parents \in Seq(DOMAIN h0)
  <2>1. st \in Grown(h0) /\ h0 \in Seq(Source) /\ P \subseteq DOMAIN h0 /\ n \in Nat
    BY DEF Joined, Ready, Grown
  <2>2. parents \in Seq(DOMAIN h0)
    BY <2>1, SeqSubset
  <2> QED
    BY <2>1, <2>2
<1>2. PICK l : /\ Finalize(j, st, parents) = l[n]
               /\ l[0] = st
               /\ \A i \in 1..n : l[i] = FinalizeRow(j, l[i - 1], parents[i])
  BY <1>1, FinalizeLoop
<1> DEFINE T == {i \in 0..n : Joined(j, h0, P, Now(i), l[i])}
<1>3. Now(0) = M
  BY FirstsIs
<1>4. ASSUME NEW i \in 1..n
      PROVE  parents[i] \in P /\ Firsts(parents, i) = Firsts(parents, i - 1) \cup {parents[i]}
  BY FirstsIs
<1> HIDE DEF n
<1>5. 0 \in T
  <2> HIDE DEF Now
  <2> QED
    BY <1>1, <1>2, <1>3
<1>6. ASSUME NEW i \in 1..n, i - 1 \in T PROVE i \in T
  <2> DEFINE p == parents[i]
             q == l[i - 1]
             M1 == Now(i - 1)
  <2>1. /\ i \in 0..n /\ i - 1 \in 0..n /\ Joined(j, h0, P, M1, q)
        /\ l[i] = FinalizeRow(j, q, p) /\ p \in P
    BY <1>1, <1>2, <1>4, <1>6
  <2>2. Joined(j, h0, P, IF j \in DOMAIN q.heap[p] THEN M1 ELSE M1 \cup {<<p, Null>>},
               FinalizeRow(j, q, p))
    <3> HIDE DEF p, q, M1
    <3> QED
      BY <2>1, FinalizeRowIs
  <2>3. j \in DOMAIN q.heap[p] <=> (j \in DOMAIN h0[p] \/ \E row : <<p, row>> \in M1)
    <3>1. Joined(j, h0, P, M1, q) /\ p \in P
      BY <2>1
    <3> HIDE DEF p, q, M1
    <3> QED
      BY ONLY Types, j \in Join, Ready(j, h0, P), <3>1, MarkIs, Zenon
  <2>4. j \in DOMAIN st.heap[p] <=> (j \in DOMAIN h0[p] \/ \E row : <<p, row>> \in M)
    <3> HIDE DEF p
    <3> QED
      BY <2>1, MarkIs
  <2>5. (\E row : <<p, row>> \in M1)
          <=> ((\E row : <<p, row>> \in M) \/ (p \in Firsts(parents, i - 1) /\ j \notin DOMAIN st.heap[p]))
    OBVIOUS
  <2>6. Firsts(parents, i) = Firsts(parents, i - 1) \cup {p}
    BY <1>4
  <2>7. Now(i) = IF j \in DOMAIN q.heap[p] THEN M1 ELSE M1 \cup {<<p, Null>>}
    <3> HIDE DEF p, q
    <3>1. CASE j \in DOMAIN q.heap[p]
      <4>1. j \in DOMAIN st.heap[p] \/ p \in Firsts(parents, i - 1)
        BY <3>1, <2>3, <2>4, <2>5
      <4> QED
        BY <3>1, <4>1, <2>6
    <3>2. CASE j \notin DOMAIN q.heap[p]
      <4>1. j \notin DOMAIN st.heap[p]
        BY <3>2, <2>3, <2>4, <2>5
      <4> QED
        BY <3>2, <4>1, <2>6
    <3> QED
      BY <3>1, <3>2
  <2> HIDE DEF Now, M1, p, q
  <2>8. Joined(j, h0, P, Now(i), l[i])
    BY <2>1, <2>2, <2>7
  <2> QED
    BY <2>1, <2>8
<1>7. n \in T
  <2> HIDE DEF T
  <2>1. 0..n \subseteq T
    BY <1>1, <1>5, <1>6, UpTo
  <2> QED
    BY <1>1, <2>1
<1>8. Now(n) = M \cup ({p \in Range(parents) : j \notin DOMAIN st.heap[p]} \X {Null})
  BY FirstsIs DEF n
<1> HIDE DEF Now
<1> QED
  BY <1>2, <1>7, <1>8

-----------------------------------------------------------------------------
(* The callback *)

All(j, parents) == parentRows[j] \o parents
Met(j, parents, children) ==
  Meets(j, heap, Range(parents) \X Range(childRows[j]))
    \cup Meets(j, heap, Range(All(j, parents)) \X Range(children))
Last(j) == j \in bDone' /\ query.joins[j].left
Unmet(j, parents, children) ==
  {p \in Range(All(j, parents)) : /\ j \notin DOMAIN heap[p]
                                  /\ \A row : <<p, row>> \notin Met(j, parents, children)}
\* the combinations that are joined
New(j, parents, children) ==
  IF Last(j) THEN Met(j, parents, children) \cup (Unmet(j, parents, children) \X {Null})
  ELSE Met(j, parents, children)

\* The callback joins the parents and children that are new to each other, and at the end
\* of a LEFT JOIN the parents that nothing was joined with.
LEMMA CallbackIs ==
  ASSUME Types, NEW j \in Join, NEW parents, NEW children, NEW up,
         Ready(j, heap, Range(All(j, parents))),
         All(j, parents) \in Seq(Range(All(j, parents))), Distinct(All(j, parents)),
         parents \in Seq(Range(All(j, parents))), Distinct(parents),
         childRows[j] \in Seq(Child), Distinct(childRows[j]),
         children \in Seq(Child), Distinct(children),
         Range(childRows[j]) \cap Range(children) = {},
         Callback(j, parents, children, up)
  PROVE  \E final :
           /\ Joined(j, heap, Range(All(j, parents)), New(j, parents, children), final)
           /\ heap' = final.heap
           /\ parentRows' = [parentRows EXCEPT ![j] = IF Last(j) THEN <<>> ELSE All(j, parents)]
           /\ childRows' = [childRows EXCEPT ![j] = @ \o children]
           /\ chan' = [chan EXCEPT ![j - 1] = up, ![j] = Yield(@, final.out)]
           /\ yielded' = Yielded(j, final.out, final.heap)
<1> DEFINE all == All(j, parents)
           P == Range(all)
           kept == childRows[j]
           start == [heap |-> heap, out |-> <<>>]
           early == ByParent(j, start, parents, kept)
           late == ByChild(j, early, all, children)
           final == IF Last(j) THEN Finalize(j, late, all) ELSE late
           A == Meets(j, heap, Range(parents) \X Range(kept))
           B == Meets(j, heap, P \X Range(children))
<1>1. Joined(j, heap, P, {}, start) /\ NoNull({})
  <2>1. start \in State /\ heap \in Seq(Source)
    BY DEF State, Types
  <2>2. Marked(j, heap, {}, start) /\ Out(j, heap, {}, start)
    BY DEF Marked, Out
  <2>3. OutOf(j, heap, {}, start) /\ OutOnce(j, start)
    BY DEF OutOf, OutOnce
  <2> QED
    BY <2>1, <2>2, <2>3 DEF Joined, NoNull
<1> HIDE DEF start, all, P, kept
<1>2. Joined(j, heap, P, {} \cup A, early)
  <2>1. Ready(j, heap, P) /\ parents \in Seq(P) /\ kept \in Seq(Child) /\ Distinct(kept)
    BY DEF all, P, kept
  <2> QED
    BY <1>1, <2>1, ByParentIs
<1>3. NoNull({} \cup A)
  <2>1. Range(kept) \in SUBSET Child
    BY DEF Range, kept
  <2> QED
    BY <1>1, <2>1, NoNullMeets
<1>4. {} \cup A = A
  OBVIOUS
<1>5. A \cap (P \X Range(children)) = {}
  <2>1. A \subseteq Range(parents) \X Range(kept)
    BY DEF Meets
  <2> HIDE DEF A
  <2> QED
    BY <2>1 DEF kept
<1> HIDE DEF early, A
<1>6. Joined(j, heap, P, A \cup B, late)
  <2>1. Ready(j, heap, P) /\ all \in Seq(P) /\ Distinct(all)
    BY DEF all, P
  <2>2. Joined(j, heap, P, A, early) /\ NoNull(A)
    BY <1>2, <1>3, <1>4
  <2> QED
    BY <1>5, <2>1, <2>2, ByChildIs DEF P
<1>7. A \cup B = Met(j, parents, children)
  BY DEF A, Met, P, all, kept
<1> HIDE DEF B, late
<1>8. Joined(j, heap, P, New(j, parents, children), final)
  <2>1. CASE Last(j)
    <3> DEFINE D == {p \in Range(all) : j \notin DOMAIN late.heap[p]}
    <3>1. Ready(j, heap, P) /\ all \in Seq(P)
      BY DEF all, P
    <3>2. Joined(j, heap, P, (A \cup B) \cup (D \X {Null}), Finalize(j, late, all))
      BY <1>6, <3>1, FinalizeIs
    <3>3. \A p \in P : j \in DOMAIN late.heap[p]
                         <=> (j \in DOMAIN heap[p] \/ \E row : <<p, row>> \in A \cup B)
      BY <1>6, <3>1, MarkIs
    <3>4. D = Unmet(j, parents, children)
      <4>1. Range(all) = P
        BY DEF P
      <4>2. D = {p \in P : j \notin DOMAIN heap[p] /\ \A row : <<p, row>> \notin Met(j, parents, children)}
        BY <4>1, <3>3, <1>7
      <4> QED
        BY <4>2 DEF Unmet, P, all
    <3> HIDE DEF D
    <3> QED
      BY <2>1, <3>2, <3>4, <1>7 DEF New
  <2>2. CASE ~Last(j)
    BY <2>2, <1>6, <1>7 DEF New
  <2> QED
    BY <2>1, <2>2
<1>9. /\ heap' = final.heap
      /\ parentRows' = [parentRows EXCEPT ![j] = IF Last(j) THEN <<>> ELSE all]
      /\ childRows' = [childRows EXCEPT ![j] = @ \o children]
      /\ chan' = [chan EXCEPT ![j - 1] = up, ![j] = Yield(@, final.out)]
      /\ yielded' = Yielded(j, final.out, final.heap)
  BY DEF Callback, Last, all, All, kept, start, early, late
<1> QED
  <2> HIDE DEF final
  <2> QED
    BY <1>8, <1>9 DEF P, all

-----------------------------------------------------------------------------
(* A step that calls the callback: join j takes a batch of parents, or a page of *)
(* children, or both, or neither. *)

Takes(j, parents, children) ==
  /\ query' = query
  /\ chan[j] = Asked
  /\ \/ parents = <<>> /\ chan'[j - 1] = chan[j - 1]
     \/ chan[j - 1] = Batch(parents) /\ chan'[j - 1] \in {Rest, Asked}
  /\ \/ children = <<>> /\ read' = read
     \/ /\ HasPage(j) /\ children = PageOf(j, read[j] + 1)
        /\ read' = [read EXCEPT ![j] = @ + 1]
  /\ bDone \subseteq bDone' /\ bDone' \subseteq bDone \cup {j}
  /\ j \in bDone' => ~HasPage(j)

LEMMA JoinIs ==
  ASSUME NEW j \in Join
  PROVE  j \in Nat /\ j - 1 \in Nat /\ j \in Table /\ j - 1 \in Table /\ j - 1 < j /\ j # j - 1
         /\ j # 0 /\ N \in Nat /\ N \in Join
BY ConstantsAssumption DEF Join, Table

LEMMA BatchIs ==
  ASSUME NEW objects
  PROVE  /\ Batch(objects).is = "batch" /\ Batch(objects).objects = objects
         /\ Batch(objects) \notin {Rest, Asked, End}
         /\ Rest.is # "batch" /\ Asked.is # "batch" /\ End.is # "batch"
         /\ Rest # Asked /\ Asked # End /\ Rest # End
BY DEF Batch, Rest, Asked, End

LEMMA ConcatIs ==
  ASSUME NEW S, NEW s \in Seq(S), NEW u \in Seq(S)
  PROVE  /\ s \o u \in Seq(S) /\ DOMAIN s = 1..Len(s) /\ DOMAIN u = 1..Len(u)
         /\ DOMAIN (s \o u) = 1..(Len(s) + Len(u)) /\ Len(s) \in Nat /\ Len(u) \in Nat
         /\ \A i \in 1..Len(s) : (s \o u)[i] = s[i]
         /\ \A i \in (Len(s) + 1)..(Len(s) + Len(u)) :
              i - Len(s) \in 1..Len(u) /\ (s \o u)[i] = u[i - Len(s)]
OBVIOUS

LEMMA Concatenated ==
  ASSUME NEW S, NEW s \in Seq(S), NEW u \in Seq(S)
  PROVE  /\ s \o u \in Seq(S) /\ Range(s \o u) = Range(s) \cup Range(u)
         /\ Distinct(s) /\ Distinct(u) /\ Range(s) \cap Range(u) = {} => Distinct(s \o u)
<1>1. /\ s \o u \in Seq(S) /\ DOMAIN s = 1..Len(s) /\ DOMAIN u = 1..Len(u)
      /\ DOMAIN (s \o u) = 1..(Len(s) + Len(u)) /\ Len(s) \in Nat /\ Len(u) \in Nat
      /\ \A i \in 1..Len(s) : (s \o u)[i] = s[i]
      /\ \A i \in (Len(s) + 1)..(Len(s) + Len(u)) : i - Len(s) \in 1..Len(u) /\ (s \o u)[i] = u[i - Len(s)]
  BY ConcatIs
<1>2. \A i \in DOMAIN (s \o u) : i \in 1..Len(s) \/ i \in (Len(s) + 1)..(Len(s) + Len(u))
  BY <1>1
<1>3. Range(s \o u) \subseteq Range(s) \cup Range(u)
  BY <1>1, <1>2 DEF Range
<1>4. Range(s) \subseteq Range(s \o u)
  BY <1>1 DEF Range
<1>5. Range(u) \subseteq Range(s \o u)
  <2> SUFFICES ASSUME NEW i \in DOMAIN u PROVE u[i] \in Range(s \o u)
    BY DEF Range
  <2>1. i + Len(s) \in (Len(s) + 1)..(Len(s) + Len(u)) /\ (i + Len(s)) - Len(s) = i
    BY <1>1
  <2>2. (s \o u)[i + Len(s)] = u[i] /\ i + Len(s) \in DOMAIN (s \o u)
    BY <2>1, <1>1
  <2> QED
    BY <2>2 DEF Range
<1>6. ASSUME Distinct(s), Distinct(u), Range(s) \cap Range(u) = {}
      PROVE  Distinct(s \o u)
  <2> SUFFICES ASSUME NEW i \in DOMAIN (s \o u), NEW k \in DOMAIN (s \o u), i # k
               PROVE  (s \o u)[i] # (s \o u)[k]
    BY DEF Distinct
  <2>1. CASE i \in 1..Len(s) /\ k \in 1..Len(s)
    BY <2>1, <1>1, <1>6 DEF Distinct
  <2>2. CASE i \notin 1..Len(s) /\ k \notin 1..Len(s)
    <3>1. /\ i - Len(s) \in DOMAIN u /\ k - Len(s) \in DOMAIN u /\ i - Len(s) # k - Len(s)
          /\ (s \o u)[i] = u[i - Len(s)] /\ (s \o u)[k] = u[k - Len(s)]
      BY <2>2, <1>1, <1>2
    <3> QED
      BY <3>1, <1>6 DEF Distinct
  <2>3. CASE i \in 1..Len(s) /\ k \notin 1..Len(s)
    <3>1. (s \o u)[i] \in Range(s) /\ (s \o u)[k] \in Range(u)
      BY <2>3, <1>1, <1>2 DEF Range
    <3> QED
      BY <3>1, <1>6
  <2>4. CASE i \notin 1..Len(s) /\ k \in 1..Len(s)
    <3>1. (s \o u)[i] \in Range(u) /\ (s \o u)[k] \in Range(s)
      BY <2>4, <1>1, <1>2 DEF Range
    <3> QED
      BY <3>1, <1>6
  <2> QED
    BY <2>1, <2>2, <2>3, <2>4
<1> QED
  BY <1>1, <1>3, <1>4, <1>5, <1>6

LEMMA RangeSeq ==
  ASSUME NEW S, NEW s \in Seq(S)
  PROVE  s \in Seq(Range(s)) /\ Range(s) \subseteq S
<1>1. s \in [1..Len(s) -> Range(s)] /\ Len(s) \in Nat
  BY DEF Range
<1>2. s \in Seq(Range(s))
  BY <1>1
<1> QED
  BY <1>2 DEF Range

\* The parents are objects that the join before has yielded; those taken now are new.
LEMMA ParentsAre ==
  ASSUME IInv, NEW j \in Join, NEW parents, NEW children, Takes(j, parents, children)
  PROVE  /\ parentRows[j] \in Seq(Nat) /\ parents \in Seq(Nat)
         /\ All(j, parents) \in Seq(Range(All(j, parents))) /\ Distinct(All(j, parents))
         /\ parents \in Seq(Range(All(j, parents))) /\ Distinct(parents)
         /\ Range(All(j, parents)) = Range(parentRows[j]) \cup Range(parents)
         /\ Range(parents) \subseteq Pending(j - 1) /\ Range(parents) \cap Arrived(j) = {}
         /\ Range(parentRows[j]) \subseteq Arrived(j)
         /\ Range(All(j, parents)) \subseteq Sent(j - 1)
<1>1. j - 1 \in Table /\ Types /\ SentOK(j - 1) /\ ParentsKept(j)
  BY JoinIs DEF IInv, JoinOK
<1>2. parentRows[j] \in Seq(Nat)
  BY <1>1 DEF Types
<1>3. parents \in Seq(Nat) /\ Range(parents) \subseteq Pending(j - 1) /\ Distinct(parents)
  <2>1. CASE parents = <<>>
    BY <2>1 DEF Range, Distinct
  <2>2. CASE chan[j - 1] = Batch(parents)
    <3>1. chan[j - 1].is = "batch" /\ chan[j - 1].objects = parents
      BY <2>2, BatchIs
    <3>2. PICK objects \in Seq(Object) : chan[j - 1] = Batch(objects)
      BY <2>2, <1>1, BatchIs DEF Types
    <3>3. objects = parents
      BY <3>1, <3>2, BatchIs
    <3>4. parents \in Seq(Nat)
      <4>1. Object \subseteq Nat /\ parents \in Seq(Object)
        BY <3>2, <3>3 DEF Object
      <4> QED
        BY <4>1, SeqSubset
    <3> QED
      BY <3>1, <3>4, <1>1 DEF Pending, SentOK
  <2> QED
    BY <2>1, <2>2 DEF Takes
<1>4. Range(parentRows[j]) \subseteq Arrived(j) /\ Distinct(parentRows[j])
  BY <1>1 DEF ParentsKept, Range
<1>5. Range(parents) \cap Arrived(j) = {}
  BY <1>3 DEF Arrived
<1>6. /\ All(j, parents) \in Seq(Nat) /\ Distinct(All(j, parents))
      /\ Range(All(j, parents)) = Range(parentRows[j]) \cup Range(parents)
  BY <1>2, <1>3, <1>4, <1>5, Concatenated DEF All
<1>7. Range(All(j, parents)) \subseteq Sent(j - 1)
  BY <1>1, <1>3, <1>4, <1>6 DEF SentOK, Arrived
<1>8. All(j, parents) \in Seq(Range(All(j, parents)))
  BY <1>6, RangeSeq
<1>9. parents \in Seq(Range(All(j, parents)))
  <2>1. parents \in Seq(Range(parents)) /\ Range(parents) \subseteq Range(All(j, parents))
    BY <1>3, <1>6, RangeSeq
  <2> QED
    BY <2>1, SeqSubset
<1> QED
  BY <1>2, <1>3, <1>4, <1>5, <1>6, <1>7, <1>8, <1>9

\* What a generator has yielded is an object with its rows of the tables so far, and no
\* two of them have the same rows.
LEMMA SentIs ==
  ASSUME IInv, NEW t \in Table
  PROVE  /\ heap \in Seq(Source)
         /\ \A o \in Sent(t) : /\ o \in DOMAIN heap /\ o \in Nat /\ 0..t \subseteq DOMAIN heap[o]
                               /\ heap[o] \in Source
         /\ \A o, p \in Sent(t) : o # p => ~Agree(heap[o], heap[p], t)
<1>1. Types /\ SentOK(t)
  BY DEF IInv
<1>2. heap \in Seq(Source) /\ DOMAIN heap = Object /\ Object \subseteq Nat
  BY <1>1 DEF Types, Object
<1>3. ASSUME NEW o \in Sent(t)
      PROVE  o \in DOMAIN heap /\ o \in Nat /\ 0..t \subseteq DOMAIN heap[o] /\ heap[o] \in Source
  <2>1. PICK i \in DOMAIN yielded[t] : o = yielded[t][i].object
    BY DEF Sent
  <2>2. o \in Object /\ 0..t \subseteq DOMAIN heap[o]
    BY <1>1, <2>1 DEF SentOK
  <2> QED
    BY <1>2, <2>2
<1>4. ASSUME NEW o \in Sent(t), NEW p \in Sent(t), o # p
      PROVE  ~Agree(heap[o], heap[p], t)
  <2>1. PICK i \in DOMAIN yielded[t] : o = yielded[t][i].object
    BY DEF Sent
  <2>2. PICK k \in DOMAIN yielded[t] : p = yielded[t][k].object
    BY DEF Sent
  <2>3. i # k
    BY <1>4, <2>1, <2>2
  <2> QED
    BY <1>1, <2>1, <2>2, <2>3 DEF SentOK
<1> QED
  BY <1>2, <1>3, <1>4

LEMMA ParentsReady ==
  ASSUME IInv, NEW j \in Join, NEW parents, NEW children, Takes(j, parents, children)
  PROVE  Ready(j, heap, Range(All(j, parents)))
<1>1. Range(All(j, parents)) \subseteq Sent(j - 1) /\ j - 1 \in Table
  BY ParentsAre, JoinIs
<1> QED
  BY <1>1, SentIs DEF Ready

\* The rows of a page, each named by its page and number, are no null rows.
LEMMA PageIs ==
  ASSUME Types, NEW t \in Table, NEW n \in 1..Len(query.pages[t])
  PROVE  /\ PageOf(t, n) \in Seq(Child) /\ Distinct(PageOf(t, n))
         /\ \A row \in Range(PageOf(t, n)) : row[1] = n
<1> DEFINE len == Len(query.pages[t][n])
<1>1. query.pages[t] \in Seq(Seq(Nat))
  BY QueryIs
<1>2. len \in Nat /\ n \in Nat /\ n # 0
  BY <1>1
<1>3. PageOf(t, n) = [i \in 1..len |-> <<n, i>>]
  BY DEF PageOf, RowAt
<1> HIDE DEF len
<1>4. \A i \in 1..len : <<n, i>> \in Child
  <2> TAKE i \in 1..len
  <2>1. i \in Nat /\ <<n, i>>[1] = n /\ <<0, 0>>[1] = 0
    BY <1>2
  <2>2. <<n, i>> # <<0, 0>>
    BY <2>1, <1>2
  <2> QED
    BY <2>1, <2>2, <1>2 DEF Child, Row, Null
<1>5. PageOf(t, n) \in Seq(Child)
  <2>1. PageOf(t, n) \in [1..len -> Child]
    BY <1>3, <1>4
  <2> QED
    BY <2>1, <1>2
<1>6. Distinct(PageOf(t, n))
  BY <1>3 DEF Distinct
<1>7. \A row \in Range(PageOf(t, n)) : row[1] = n
  BY <1>3 DEF Range
<1> QED
  BY <1>5, <1>6, <1>7

LEMMA RowsAre ==
  ASSUME Types, NEW t \in Table, NEW n \in 0..Len(query.pages[t])
  PROVE  /\ RowsTo(t, n) \subseteq Child /\ \A row \in RowsTo(t, n) : row[1] \in 1..n
         /\ n < Len(query.pages[t]) => RowsTo(t, n + 1) = RowsTo(t, n) \cup Range(PageOf(t, n + 1))
<1>1. query.pages[t] \in Seq(Seq(Nat))
  BY QueryIs
<1>2. \A m \in 1..n : m \in 1..Len(query.pages[t])
  BY <1>1
<1>3. ASSUME NEW row \in RowsTo(t, n)
      PROVE  row \in Child /\ row[1] \in 1..n
  <2>1. PICK m \in 1..n : row \in Range(PageOf(t, m))
    BY DEF RowsTo
  <2>2. PageOf(t, m) \in Seq(Child) /\ row[1] = m
    BY <2>1, <1>2, PageIs
  <2>3. row \in Child
    BY <2>1, <2>2, RangeSeq
  <2> QED
    BY <2>2, <2>3
<1>4. RowsTo(t, n + 1) = RowsTo(t, n) \cup Range(PageOf(t, n + 1))
  <2>1. 1..(n + 1) = (1..n) \cup {n + 1}
    BY <1>1
  <2> QED
    BY <2>1 DEF RowsTo
<1> QED
  BY <1>3, <1>4

\* The children are the rows of the pages read; those read now are new.
LEMMA ChildrenAre ==
  ASSUME IInv, NEW j \in Join, NEW parents, NEW children, Takes(j, parents, children)
  PROVE  /\ childRows[j] \in Seq(Child) /\ Distinct(childRows[j])
         /\ children \in Seq(Child) /\ Distinct(children)
         /\ Range(childRows[j]) = RowsTo(j, read[j])
         /\ Range(childRows[j]) \cap Range(children) = {}
         /\ RowsTo(j, read'[j]) = RowsTo(j, read[j]) \cup Range(children)
         /\ read'[j] \in 0..Len(query.pages[j])
         /\ children # <<>> => j \notin bDone'
<1>1. Types /\ ChildrenKept /\ Control /\ j \in Table
  BY JoinIs DEF IInv
<1>2. read[j] \in 0..Len(query.pages[j]) /\ Len(query.pages[j]) \in Nat /\ read \in [Table -> Nat]
  <2>1. query.pages[j] \in Seq(Seq(Nat))
    BY <1>1, QueryIs
  <2>2. Len(query.pages[j]) \in Nat
    BY <2>1
  <2>3. read \in [Table -> Nat] /\ read[j] <= Len(query.pages[j])
    BY <1>1 DEF Types
  <2>4. read[j] \in Nat
    BY <2>3, <1>1
  <2> QED
    BY <2>2, <2>3, <2>4
<1>3. Distinct(childRows[j]) /\ Range(childRows[j]) = RowsTo(j, read[j])
  BY <1>1 DEF ChildrenKept
<1>4. RowsTo(j, read[j]) \subseteq Child /\ \A row \in RowsTo(j, read[j]) : row[1] \in 1..read[j]
  BY <1>1, <1>2, RowsAre
<1>5. childRows[j] \in Seq(Child)
  <2>1. childRows[j] \in Seq(Row)
    BY <1>1 DEF Types
  <2>2. childRows[j] \in Seq(Range(childRows[j]))
    BY <2>1, RangeSeq
  <2> QED
    BY <2>2, <1>3, <1>4, SeqSubset
<1>6. CASE children = <<>> /\ read' = read
  <2>1. children \in Seq(Child) /\ Distinct(children) /\ Range(children) = {}
    BY <1>6 DEF Distinct, Range
  <2> QED
    BY <2>1, <1>2, <1>3, <1>5, <1>6
<1>7. CASE HasPage(j) /\ children = PageOf(j, read[j] + 1) /\ read' = [read EXCEPT ![j] = @ + 1]
  <2>1. read[j] < Len(query.pages[j]) /\ read[j] + 1 \in 1..Len(query.pages[j]) /\ read'[j] = read[j] + 1
    BY <1>1, <1>2, <1>7 DEF HasPage
  <2>2. /\ children \in Seq(Child) /\ Distinct(children)
        /\ \A row \in Range(children) : row[1] = read[j] + 1
    BY <1>1, <1>7, <2>1, PageIs
  <2>3. RowsTo(j, read'[j]) = RowsTo(j, read[j]) \cup Range(children)
    BY <1>1, <1>2, <1>7, <2>1, RowsAre
  <2>4. Range(childRows[j]) \cap Range(children) = {}
    <3> SUFFICES ASSUME NEW row \in RowsTo(j, read[j]), row \in Range(children) PROVE FALSE
      BY <1>3
    <3>1. row[1] \in 1..read[j] /\ row[1] = read[j] + 1
      BY <1>4, <2>2
    <3> QED
      BY <3>1, <1>2
  <2>5. j \notin bDone'
    BY <1>7 DEF Takes
  <2> QED
    BY <2>1, <2>2, <2>3, <2>4, <2>5, <1>2, <1>3, <1>5
<1> QED
  BY <1>6, <1>7 DEF Takes

\* What such a step does: M are the combinations it joins, out the objects it yields.
After(out) == [heap |-> heap', out |-> out]
Did(j, parents, children, M, out) ==
  /\ Joined(j, heap, Range(All(j, parents)), M, After(out))
  /\ M = New(j, parents, children)
  /\ parentRows' = [parentRows EXCEPT ![j] = IF Last(j) THEN <<>> ELSE All(j, parents)]
  /\ childRows' = [childRows EXCEPT ![j] = @ \o children]
  /\ chan' = [chan EXCEPT ![j - 1] = chan'[j - 1], ![j] = Yield(Asked, out)]
  /\ yielded' = Yielded(j, out, heap')

LEMMA DoneIs ==
  ASSUME IInv, NEW j \in Join, NEW parents, NEW children, Takes(j, parents, children), NEW up,
         Callback(j, parents, children, up)
  PROVE  \E M, out : Did(j, parents, children, M, out)
<1>1. Types /\ Ready(j, heap, Range(All(j, parents)))
  BY ParentsReady DEF IInv
<1>2. PICK final :
        /\ Joined(j, heap, Range(All(j, parents)), New(j, parents, children), final)
        /\ heap' = final.heap
        /\ parentRows' = [parentRows EXCEPT ![j] = IF Last(j) THEN <<>> ELSE All(j, parents)]
        /\ childRows' = [childRows EXCEPT ![j] = @ \o children]
        /\ chan' = [chan EXCEPT ![j - 1] = up, ![j] = Yield(@, final.out)]
        /\ yielded' = Yielded(j, final.out, final.heap)
  <2>1. /\ All(j, parents) \in Seq(Range(All(j, parents))) /\ Distinct(All(j, parents))
        /\ parents \in Seq(Range(All(j, parents))) /\ Distinct(parents)
    BY ParentsAre
  <2>2. /\ childRows[j] \in Seq(Child) /\ Distinct(childRows[j])
        /\ children \in Seq(Child) /\ Distinct(children)
        /\ Range(childRows[j]) \cap Range(children) = {}
    BY ChildrenAre
  <2> QED
    BY <1>1, <2>1, <2>2, CallbackIs
<1>3. final = After(final.out)
  BY <1>2 DEF Joined, State, After
<1>4. chan' = [chan EXCEPT ![j - 1] = chan'[j - 1], ![j] = Yield(Asked, final.out)]
  <2>1. DOMAIN chan = Table /\ chan[j] = Asked /\ j - 1 \in Table /\ j - 1 # j
    BY <1>1, JoinIs DEF Types, Takes
  <2>2. chan'[j - 1] = up
    BY <1>2, <2>1
  <2> QED
    BY <1>2, <2>1, <2>2
<1>5. Did(j, parents, children, New(j, parents, children), final.out)
  BY <1>2, <1>3, <1>4 DEF Did
<1> QED
  BY <1>5

-----------------------------------------------------------------------------
(* What such a step leaves as it is *)

Step(j, parents, children, M, out) ==
  Takes(j, parents, children) /\ Did(j, parents, children, M, out)

\* The objects that were yielded keep their rows; only the mark of the join may be added.
Steady(j) ==
  \A t \in Table : \A o \in Sent(t) :
    /\ o \in DOMAIN heap' /\ heap'[o] \in Source
    /\ DOMAIN heap[o] \subseteq DOMAIN heap'[o] /\ DOMAIN heap'[o] \subseteq DOMAIN heap[o] \cup {j}
    /\ Agree(heap'[o], heap[o], t)

LEMMA QuerySame ==
  ASSUME query' = query
  PROVE  /\ \A i, f, row : Matches(i, f, row)' <=> Matches(i, f, row)
         /\ \A t, n : RowsTo(t, n)' = RowsTo(t, n)
         /\ \A t : RowsOf(t)' = RowsOf(t)
         /\ \A i, f : NoMatch(i, f)' <=> NoMatch(i, f)
         /\ \A i : SafeAt(i)' <=> SafeAt(i)
<1>1. \A i, f, row : Matches(i, f, row)' <=> Matches(i, f, row)
  BY DEF Matches, OnHolds, Value
<1>2. \A t, n : RowsTo(t, n)' = RowsTo(t, n)
  BY DEF RowsTo, PageOf
<1>3. \A t : RowsOf(t)' = RowsOf(t)
  BY DEF RowsOf, RowsTo, PageOf
<1>4. \A i, f : NoMatch(i, f)' <=> NoMatch(i, f)
  BY <1>1, <1>3 DEF NoMatch
<1>5. \A i : SafeAt(i)' <=> SafeAt(i)
  BY DEF SafeAt
<1> QED
  BY <1>1, <1>2, <1>3, <1>4, <1>5

LEMMA MatchesKept ==
  ASSUME IInv, query' = query, NEW j \in Table, Steady(j), NEW i \in Join, NEW o \in Sent(i - 1),
         NEW row \in Row
  PROVE  Matches(i, heap'[o], row) <=> Matches(i, heap[o], row)
<1>1. i - 1 \in Table /\ Types
  BY JoinIs DEF IInv
<1>2. heap[o] \in Source /\ 0..(i - 1) \subseteq DOMAIN heap[o]
  BY <1>1, SentIs
<1>3. heap'[o] \in Source /\ 0..(i - 1) \subseteq DOMAIN heap'[o] /\ Agree(heap'[o], heap[o], i - 1)
  BY <1>1, <1>2 DEF Steady
<1> QED
  BY <1>1, <1>2, <1>3, MatchesAgree

\* The history of the generator that yields grows by the objects as they are then.
LEMMA YieldIs ==
  ASSUME yielded \in [Table -> Seq(Record)], NEW t \in Table, NEW objects \in Seq(Nat),
         \A i \in DOMAIN objects : heap'[objects[i]] \in Source,
         yielded' = Yielded(t, objects, heap')
  PROVE  LET n == Len(yielded[t]) IN
         /\ yielded' \in [Table -> Seq(Record)]
         /\ \A u \in Table : u # t => yielded'[u] = yielded[u] /\ Sent(u)' = Sent(u)
         /\ \A i \in DOMAIN yielded[t] : i \in DOMAIN yielded'[t] /\ yielded'[t][i] = yielded[t][i]
         /\ \A i \in DOMAIN yielded'[t] \ DOMAIN yielded[t] :
              /\ i - n \in DOMAIN objects
              /\ yielded'[t][i].object = objects[i - n]
              /\ yielded'[t][i].source = heap'[objects[i - n]]
         /\ Sent(t)' = Sent(t) \cup Range(objects)
<1> DEFINE n == Len(yielded[t])
           m == Len(objects)
           s == yielded[t]
           new == [i \in 1..m |-> [object |-> objects[i], source |-> heap'[objects[i]]]]
<1>1. s \in Seq(Record) /\ n \in Nat /\ m \in Nat /\ DOMAIN objects = 1..m
  OBVIOUS
<1>2. new \in Seq(Record)
  <2>1. \A i \in 1..m : [object |-> objects[i], source |-> heap'[objects[i]]] \in Record
    BY <1>1 DEF Record
  <2>2. new \in [1..m -> Record]
    BY <2>1
  <2> QED
    BY <2>2, <1>1
<1>3. yielded' = [yielded EXCEPT ![t] = s \o new]
  BY DEF Yielded
<1>4. Len(new) = m
  BY <1>1
<1>5. \A i \in 1..m : new[i].object = objects[i] /\ new[i].source = heap'[objects[i]]
  OBVIOUS
<1>6. n = Len(s)
  OBVIOUS
<1> HIDE DEF new, s, n, m
<1>7. /\ s \o new \in Seq(Record) /\ DOMAIN s = 1..n
      /\ DOMAIN (s \o new) = 1..(n + m)
      /\ \A i \in 1..n : (s \o new)[i] = s[i]
      /\ \A i \in (n + 1)..(n + m) : i - n \in 1..m /\ (s \o new)[i] = new[i - n]
  <2>1. /\ s \o new \in Seq(Record) /\ DOMAIN s = 1..Len(s)
        /\ DOMAIN (s \o new) = 1..(Len(s) + Len(new))
        /\ \A i \in 1..Len(s) : (s \o new)[i] = s[i]
        /\ \A i \in (Len(s) + 1)..(Len(s) + Len(new)) :
             i - Len(s) \in 1..Len(new) /\ (s \o new)[i] = new[i - Len(s)]
    BY <1>1, <1>2, ConcatIs
  <2> QED
    BY <2>1, <1>4, <1>6
<1>8. yielded' \in [Table -> Seq(Record)] /\ yielded'[t] = s \o new
      /\ \A u \in Table : u # t => yielded'[u] = yielded[u]
  BY <1>3, <1>7
<1>9. \A u \in Table : u # t => Sent(u)' = Sent(u)
  BY <1>8 DEF Sent
<1>10. \A i \in DOMAIN s : i \in DOMAIN yielded'[t] /\ yielded'[t][i] = s[i]
  BY <1>1, <1>7, <1>8
<1>11. ASSUME NEW i \in DOMAIN yielded'[t] \ DOMAIN s
       PROVE  /\ i - n \in DOMAIN objects
              /\ yielded'[t][i].object = objects[i - n]
              /\ yielded'[t][i].source = heap'[objects[i - n]]
  <2>1. i \in (n + 1)..(n + m)
    BY <1>1, <1>7, <1>8
  <2>2. i - n \in 1..m /\ yielded'[t][i] = new[i - n]
    BY <2>1, <1>7, <1>8
  <2> QED
    BY <2>2, <1>1, <1>5
<1>12. Sent(t)' = Sent(t) \cup Range(objects)
  <2>1. Sent(t)' = {yielded'[t][i].object : i \in DOMAIN yielded'[t]}
    BY DEF Sent
  <2>2. Sent(t) = {s[i].object : i \in DOMAIN s}
    BY DEF Sent, s
  <2>3. ASSUME NEW o \in Range(objects) PROVE o \in Sent(t)'
    <3>1. PICK i \in 1..m : o = objects[i]
      BY <1>1 DEF Range
    <3>2. n + i \in (n + 1)..(n + m) /\ (n + i) - n = i /\ n + i \in DOMAIN yielded'[t]
      BY <1>1, <1>7, <1>8
    <3>3. yielded'[t][n + i].object = o
      <4>1. (s \o new)[n + i] = new[(n + i) - n]
        BY <3>2, <1>7
      <4>2. yielded'[t][n + i] = new[i]
        BY <4>1, <3>2, <1>8
      <4> QED
        BY <4>2, <3>1, <1>5
    <3> QED
      BY <2>1, <3>2, <3>3
  <2>4. ASSUME NEW o \in Sent(t)' PROVE o \in Sent(t) \cup Range(objects)
    <3>1. PICK i \in DOMAIN yielded'[t] : o = yielded'[t][i].object
      BY <2>1
    <3>2. CASE i \in DOMAIN s
      BY <3>1, <3>2, <2>2, <1>10
    <3>3. CASE i \notin DOMAIN s
      <4>1. i - n \in DOMAIN objects /\ o = objects[i - n]
        BY <3>1, <3>3, <1>11
      <4> QED
        BY <4>1 DEF Range
    <3> QED
      BY <3>2, <3>3
  <2>5. ASSUME NEW o \in Sent(t) PROVE o \in Sent(t)'
    BY <2>1, <2>2, <1>10
  <2> QED
    BY <2>3, <2>4, <2>5
<1> QED
  BY <1>8, <1>9, <1>10, <1>11, <1>12 DEF s, n

\* A parent that has been sent on has no ON.
LEMMA SentWithoutOn ==
  ASSUME IInv, NEW j \in Join, NEW parents, NEW children, Takes(j, parents, children),
         NEW p \in Range(All(j, parents)), NEW t \in Table, t >= j, p \in Sent(t)
  PROVE  ~query.joins[j].on
<1>1. p \in Sent(j - 1) /\ j - 1 \in Table /\ j \in (j - 1 + 1)..t /\ Passed /\ ParentsKept(j)
  BY ParentsAre, JoinIs DEF IInv, JoinOK, Table, Join
<1>2. p \in Arrived(j)
  BY <1>1 DEF Passed
<1>3. p \in Range(parentRows[j])
  BY <1>2, ParentsAre
<1>4. p \in Sent(j)
  <2>1. CASE t = j
    BY <2>1
  <2>2. CASE t # j
    <3>1. j + 1 \in (j - 1 + 1)..t
      BY <2>2 DEF Table, Join
    <3>2. p \in Arrived(j + 1)
      BY <3>1, <1>1 DEF Passed
    <3>3. (j + 1) - 1 = j
      BY JoinIs
    <3> QED
      BY <3>2, <3>3 DEF Arrived
  <2> QED
    BY <2>1, <2>2
<1> QED
  BY <1>1, <1>3, <1>4 DEF ParentsKept

LEMMA HeapStep ==
  ASSUME IInv, NEW j \in Join, NEW parents, NEW children, NEW M, NEW out,
         Step(j, parents, children, M, out)
  PROVE  /\ heap' \in Seq(Source) /\ out \in Seq(Nat) /\ DOMAIN heap \subseteq DOMAIN heap'
         /\ M \subseteq Range(All(j, parents)) \X Row
         /\ Range(All(j, parents)) \subseteq Sent(j - 1)
         /\ \A i \in DOMAIN out : out[i] \in DOMAIN heap' /\ heap'[out[i]] \in Source
<1>1. Joined(j, heap, Range(All(j, parents)), M, After(out)) /\ heap \in Seq(Source)
  BY DEF Step, Did, IInv, Types
<1>2. After(out) \in State /\ After(out).heap = heap' /\ After(out).out = out
  BY <1>1 DEF Joined, After
<1>3. heap' \in Seq(Source) /\ out \in Seq(Nat) /\ Len(heap) <= Len(heap')
  BY <1>1, <1>2 DEF State, Joined
<1>4. \A i \in DOMAIN out : out[i] \in DOMAIN heap'
  BY <1>1, <1>2 DEF Joined, OutOf, SentAs
<1>5. Range(All(j, parents)) \subseteq Sent(j - 1)
  BY ParentsAre DEF Step
<1> QED
  BY <1>1, <1>3, <1>4, <1>5 DEF Joined

LEMMA SteadyStep ==
  ASSUME IInv, NEW j \in Join, NEW parents, NEW children, NEW M, NEW out,
         Step(j, parents, children, M, out)
  PROVE  Steady(j)
<1> SUFFICES ASSUME NEW t \in Table, NEW o \in Sent(t)
             PROVE  /\ o \in DOMAIN heap' /\ heap'[o] \in Source
                    /\ DOMAIN heap[o] \subseteq DOMAIN heap'[o]
                    /\ DOMAIN heap'[o] \subseteq DOMAIN heap[o] \cup {j}
                    /\ Agree(heap'[o], heap[o], t)
  BY DEF Steady
<1>1. o \in DOMAIN heap /\ 0..t \subseteq DOMAIN heap[o] /\ heap[o] \in Source
  BY SentIs
<1>2. o \in DOMAIN heap' /\ heap'[o] \in Source
  BY <1>1, HeapStep
<1>3. CASE heap'[o] = heap[o]
  BY <1>2, <1>3 DEF Agree
<1>4. CASE heap'[o] # heap[o]
  <2>1. PICK row \in Row : /\ <<o, row>> \in M /\ heap'[o] = With(heap[o], j, row)
                           /\ query.joins[j].on \/ j \notin DOMAIN heap[o]
    BY <1>1, <1>4 DEF Step, Did, Joined, Marked, After
  <2>2. o \in Range(All(j, parents))
    BY <2>1, HeapStep
  <2>3. t < j
    <3> SUFFICES ASSUME t >= j PROVE FALSE
      BY DEF Table, Join
    <3>1. ~query.joins[j].on
      BY <2>2, SentWithoutOn DEF Step
    <3>2. j \in DOMAIN heap[o]
      BY <1>1 DEF Table, Join
    <3> QED
      BY <2>1, <3>1, <3>2
  <2>4. Agree(heap'[o], heap[o], t)
    BY <1>1, <2>1, <2>3, WithAgrees
  <2>5. DOMAIN heap'[o] = DOMAIN heap[o] \cup {j}
    BY <2>1 DEF With
  <2> QED
    BY <1>2, <2>4, <2>5
<1> QED
  BY <1>3, <1>4

\* What is yielded was not yielded by this join or a later one.
LEMMA OutNotSent ==
  ASSUME IInv, NEW j \in Join, NEW parents, NEW children, NEW M, NEW out,
         Step(j, parents, children, M, out), NEW t \in Table, t >= j
  PROVE  Range(out) \cap Sent(t) = {}
<1> SUFFICES ASSUME NEW k \in DOMAIN out, out[k] \in Sent(t) PROVE FALSE
  BY DEF Range
<1>1. out[k] \in DOMAIN heap /\ j \in DOMAIN heap[out[k]] /\ heap \in Seq(Source)
  <2>1. out[k] \in DOMAIN heap /\ 0..t \subseteq DOMAIN heap[out[k]] /\ heap \in Seq(Source)
    BY SentIs
  <2>2. j \in 0..t
    BY DEF Table, Join
  <2> QED
    BY <2>1, <2>2
<1>2. PICK p, row : SentAs(j, heap, p, row, After(out), out[k])
  BY DEF Step, Did, Joined, OutOf, After
<1>3. CASE out[k] > Len(heap)
  BY <1>1, <1>3
<1>4. CASE out[k] = p /\ j \notin DOMAIN heap[p]
  BY <1>1, <1>4
<1> QED
  BY <1>2, <1>3, <1>4 DEF SentAs

-----------------------------------------------------------------------------
(* What such a step yields *)

\* The parent p and the child c meet in the step.
Pair(j, parents, children, p, c) ==
  \/ p \in Range(parents) /\ c \in Range(childRows[j])
  \/ p \in Range(All(j, parents)) /\ c \in Range(children)

LEMMA NewIs ==
  ASSUME NEW j, NEW parents, NEW children, NEW p, NEW row
  PROVE  <<p, row>> \in New(j, parents, children) <=>
           \/ Pair(j, parents, children, p, row) /\ Matches(j, heap[p], row)
           \/ /\ row = Null /\ Last(j) /\ p \in Range(All(j, parents)) /\ j \notin DOMAIN heap[p]
              /\ \A c : Pair(j, parents, children, p, c) => ~Matches(j, heap[p], c)
<1>1. \A c : <<p, c>> \in Met(j, parents, children)
               <=> Pair(j, parents, children, p, c) /\ Matches(j, heap[p], c)
  BY DEF Met, Meets, Pair
<1>2. p \in Unmet(j, parents, children) <=>
        /\ p \in Range(All(j, parents)) /\ j \notin DOMAIN heap[p]
        /\ \A c : Pair(j, parents, children, p, c) => ~Matches(j, heap[p], c)
  BY <1>1 DEF Unmet
<1>3. <<p, row>> \in Unmet(j, parents, children) \X {Null} <=> p \in Unmet(j, parents, children) /\ row = Null
  OBVIOUS
<1>4. CASE Last(j)
  BY <1>1, <1>2, <1>3, <1>4 DEF New
<1>5. CASE ~Last(j)
  BY <1>1, <1>5 DEF New
<1> QED
  BY <1>4, <1>5

\* The children met are rows of the pages read by now.
LEMMA PairIs ==
  ASSUME IInv, NEW j \in Join, NEW parents, NEW children, Takes(j, parents, children),
         NEW p, NEW c, Pair(j, parents, children, p, c)
  PROVE  /\ p \in Range(All(j, parents)) /\ p \in Sent(j - 1) /\ c \in RowsTo(j, read'[j])
         /\ c \in Child /\ c \in Row /\ c # Null
<1>1. /\ Range(childRows[j]) \cup Range(children) \subseteq RowsTo(j, read'[j])
      /\ childRows[j] \in Seq(Child) /\ children \in Seq(Child)
  BY ChildrenAre
<1>2. c \in Child
  BY <1>1, RangeSeq DEF Pair
<1>3. p \in Range(All(j, parents)) /\ p \in Sent(j - 1)
  BY ParentsAre DEF Pair
<1> QED
  BY <1>1, <1>2, <1>3 DEF Pair, Child

LEMMA OutIs ==
  ASSUME IInv, NEW j \in Join, NEW parents, NEW children, NEW M, NEW out,
         Step(j, parents, children, M, out), NEW o \in Range(out)
  PROVE  \E p, row :
           /\ p \in Range(All(j, parents)) /\ row \in Row
           /\ <<p, row>> \in M /\ p \in Sent(j - 1)
           /\ heap'[o] = With(heap[p], j, row) /\ heap'[o] \in Source /\ o \in DOMAIN heap'
           /\ heap'[o][j] = row /\ 0..j \subseteq DOMAIN heap'[o]
           /\ Agree(heap'[o], heap[p], j - 1)
           /\ \/ o \notin DOMAIN heap
              \/ o = p /\ j \notin DOMAIN heap[p] /\ (query.joins[j].on => row = Null)
<1>1. PICK k \in DOMAIN out : o = out[k]
  BY DEF Range
<1>2. PICK p, row : <<p, row>> \in M /\ SentAs(j, heap, p, row, After(out), out[k])
  BY DEF Step, Did, Joined, OutOf, After
<1>3. p \in Range(All(j, parents)) /\ row \in Row /\ p \in Sent(j - 1)
  BY <1>2, HeapStep
<1>4. heap[p] \in Source /\ 0..(j - 1) \subseteq DOMAIN heap[p] /\ heap \in Seq(Source)
  BY <1>3, SentIs, JoinIs
<1>5. heap'[o] = With(heap[p], j, row) /\ heap'[o] \in Source /\ o \in DOMAIN heap'
  BY <1>1, <1>2, HeapStep DEF SentAs, After
<1>6. heap'[o][j] = row /\ 0..j \subseteq DOMAIN heap'[o]
  <2>1. 0..j = 0..(j - 1) \cup {j}
    BY JoinIs
  <2> QED
    BY <2>1, <1>4, <1>5 DEF With
<1>7. Agree(heap'[o], heap[p], j - 1)
  BY <1>3, <1>4, <1>5, WithAgrees, JoinIs
<1>8. \/ o \notin DOMAIN heap
      \/ o = p /\ j \notin DOMAIN heap[p] /\ (query.joins[j].on => row = Null)
  BY <1>1, <1>2, <1>4 DEF SentAs
<1> QED
  BY <1>2, <1>3, <1>5, <1>6, <1>7, <1>8

\* The source map of what is yielded has the tables of its parent and the one joined.
LEMMA OutDomain ==
  ASSUME IInv, NEW j \in Join, NEW parents, NEW children, NEW M, NEW out,
         Step(j, parents, children, M, out), NEW o \in Range(out)
  PROVE  \E p \in Range(All(j, parents)) :
           /\ p \in Sent(j - 1) /\ DOMAIN heap'[o] = DOMAIN heap[p] \cup {j}
           /\ o \notin DOMAIN heap \/ o = p
<1>1. PICK k \in DOMAIN out : o = out[k]
  BY DEF Range
<1>2. PICK p, row : <<p, row>> \in M /\ SentAs(j, heap, p, row, After(out), out[k])
  BY DEF Step, Did, Joined, OutOf, After
<1>3. p \in Range(All(j, parents)) /\ p \in Sent(j - 1)
  BY <1>2, HeapStep
<1>4. DOMAIN heap'[o] = DOMAIN heap[p] \cup {j}
  BY <1>1, <1>2 DEF SentAs, After, With
<1>5. o \notin DOMAIN heap \/ o = p
  <2>1. heap \in Seq(Source)
    BY DEF IInv, Types
  <2> QED
    BY <1>1, <1>2, <2>1 DEF SentAs
<1> QED
  BY <1>3, <1>4, <1>5

\* What is joined is marked and yielded.
LEMMA NewYielded ==
  ASSUME IInv, NEW j \in Join, NEW parents, NEW children, NEW M, NEW out,
         Step(j, parents, children, M, out), NEW p, NEW row, <<p, row>> \in M
  PROVE  /\ j \in DOMAIN heap'[p] /\ p \in Sent(j - 1)
         /\ \E o \in Range(out) : Agree(heap'[o], heap[p], j - 1) /\ heap'[o][j] = row
<1>1. j \in DOMAIN heap'[p] /\ \E k \in DOMAIN out : heap'[out[k]] = With(heap[p], j, row)
  BY DEF Step, Did, Joined, Out, After
<1>2. PICK k \in DOMAIN out : heap'[out[k]] = With(heap[p], j, row)
  BY <1>1
<1>3. p \in Sent(j - 1) /\ row \in Row
  BY HeapStep
<1>4. heap[p] \in Source /\ 0..(j - 1) \subseteq DOMAIN heap[p]
  BY <1>3, SentIs, JoinIs
<1>5. Agree(With(heap[p], j, row), heap[p], j - 1) /\ With(heap[p], j, row)[j] = row
  BY <1>3, <1>4, WithAgrees, JoinIs DEF With
<1>6. out[k] \in Range(out)
  BY DEF Range
<1> QED
  BY <1>1, <1>2, <1>3, <1>5, <1>6

LEMMA SentStep ==
  ASSUME IInv, NEW j \in Join, NEW parents, NEW children, NEW M, NEW out,
         Step(j, parents, children, M, out)
  PROVE  /\ \A u \in Table : u # j => Sent(u)' = Sent(u)
         /\ Sent(j)' = Sent(j) \cup Range(out)
<1>1. yielded \in [Table -> Seq(Record)] /\ j \in Table /\ yielded' = Yielded(j, out, heap')
  BY JoinIs DEF IInv, Types, Step, Did
<1>2. out \in Seq(Nat) /\ \A i \in DOMAIN out : heap'[out[i]] \in Source
  BY HeapStep
<1> QED
  BY <1>1, <1>2, YieldIs

LEMMA PendingStep ==
  ASSUME IInv, NEW j \in Join, NEW parents, NEW children, NEW M, NEW out,
         Step(j, parents, children, M, out)
  PROVE  /\ Pending(j) = {} /\ Pending(j)' = Range(out)
         /\ Pending(j - 1)' = Pending(j - 1) \ Range(parents)
         /\ \A t \in Table : t \notin {j, j - 1} => Pending(t)' = Pending(t)
<1>1. /\ DOMAIN chan = Table /\ j \in Table /\ j - 1 \in Table /\ j # j - 1
      /\ chan[j] = Asked
      /\ chan' = [chan EXCEPT ![j - 1] = chan'[j - 1], ![j] = Yield(Asked, out)]
  BY JoinIs DEF IInv, Types, Step, Takes, Did
<1>2. chan'[j] = Yield(Asked, out) /\ \A t \in Table : t \notin {j, j - 1} => chan'[t] = chan[t]
  BY <1>1
<1>3. Pending(j) = {}
  BY <1>1, BatchIs DEF Pending
<1>4. Pending(j)' = Range(out)
  <2>1. CASE out = <<>>
    BY <2>1, <1>2, BatchIs DEF Pending, Yield, Range
  <2>2. CASE out # <<>>
    BY <2>2, <1>2, BatchIs DEF Pending, Yield
  <2> QED
    BY <2>1, <2>2
<1>5. \A t \in Table : t \notin {j, j - 1} => Pending(t)' = Pending(t)
  BY <1>2 DEF Pending
<1>6. Pending(j - 1)' = Pending(j - 1) \ Range(parents)
  <2>1. CASE parents = <<>> /\ chan'[j - 1] = chan[j - 1]
    <3>1. Range(parents) = {}
      BY <2>1 DEF Range
    <3> QED
      BY <2>1, <3>1 DEF Pending
  <2>2. CASE chan[j - 1] = Batch(parents) /\ chan'[j - 1] \in {Rest, Asked}
    <3>1. Pending(j - 1) = Range(parents)
      BY <2>2, BatchIs DEF Pending
    <3>2. Pending(j - 1)' = {}
      BY <2>2, BatchIs DEF Pending
    <3> QED
      BY <3>1, <3>2
  <2> QED
    BY <2>1, <2>2 DEF Step, Takes
<1> QED
  BY <1>3, <1>4, <1>5, <1>6

LEMMA ArrivedStep ==
  ASSUME IInv, NEW j \in Join, NEW parents, NEW children, NEW M, NEW out,
         Step(j, parents, children, M, out)
  PROVE  /\ Arrived(j)' = Arrived(j) \cup Range(parents)
         /\ \A i \in Join : i # j => Arrived(i)' = Arrived(i)
<1>1. Arrived(j)' = Arrived(j) \cup Range(parents)
  <2>1. Sent(j - 1)' = Sent(j - 1) /\ Pending(j - 1)' = Pending(j - 1) \ Range(parents)
    BY JoinIs, SentStep, PendingStep
  <2>2. Range(parents) \subseteq Sent(j - 1) /\ Range(parents) \subseteq Pending(j - 1)
    <3>1. /\ Range(parents) \subseteq Pending(j - 1) /\ Range(All(j, parents)) \subseteq Sent(j - 1)
          /\ Range(parents) \subseteq Range(All(j, parents))
      BY ParentsAre DEF Step
    <3> QED
      BY <3>1
  <2> QED
    BY <2>1, <2>2 DEF Arrived
<1>2. ASSUME NEW i \in Join, i # j PROVE Arrived(i)' = Arrived(i)
  <2>1. CASE i - 1 = j
    <3>1. Range(out) \cap Sent(j) = {}
      BY OutNotSent, JoinIs
    <3>2. Sent(j)' = Sent(j) \cup Range(out) /\ Pending(j)' = Range(out) /\ Pending(j) = {}
      BY SentStep, PendingStep
    <3> QED
      BY <2>1, <3>1, <3>2 DEF Arrived
  <2>2. CASE i - 1 # j
    <3>1. i - 1 \in Table /\ i - 1 \notin {j, j - 1}
      BY <1>2, <2>2, JoinIs DEF Join
    <3>2. Sent(i - 1)' = Sent(i - 1) /\ Pending(i - 1)' = Pending(i - 1)
      BY <3>1, SentStep, PendingStep
    <3> QED
      BY <3>2 DEF Arrived
  <2> QED
    BY <2>1, <2>2
<1> QED
  BY <1>1, <1>2

-----------------------------------------------------------------------------
(* The other joins *)

\* The generator j takes a step, the others do not.
Quiet(j) ==
  /\ query' = query /\ Steady(j)
  /\ \A t \in Table : t # j => Sent(t)' = Sent(t)
  /\ \A i \in Join : i # j =>
       /\ Arrived(i)' = Arrived(i) /\ read'[i] = read[i]
       /\ parentRows'[i] = parentRows[i] /\ childRows'[i] = childRows[i]
       /\ i \in bDone' <=> i \in bDone

LEMMA QuietStep ==
  ASSUME IInv, NEW j \in Join, NEW parents, NEW children, NEW M, NEW out,
         Step(j, parents, children, M, out)
  PROVE  Quiet(j)
<1>1. query' = query /\ Steady(j) /\ Types
  BY SteadyStep DEF Step, Takes, IInv
<1>2. \A t \in Table : t # j => Sent(t)' = Sent(t)
  BY SentStep
<1>3. ASSUME NEW i \in Join, i # j
      PROVE  /\ Arrived(i)' = Arrived(i) /\ read'[i] = read[i]
             /\ parentRows'[i] = parentRows[i] /\ childRows'[i] = childRows[i]
             /\ i \in bDone' <=> i \in bDone
  <2>1. Arrived(i)' = Arrived(i)
    BY <1>3, ArrivedStep
  <2>2. read'[i] = read[i] /\ (i \in bDone' <=> i \in bDone)
    <3>1. i \in Table /\ read \in [Table -> Nat]
      BY <1>1, JoinIs DEF Types
    <3> QED
      BY <1>3, <3>1 DEF Step, Takes
  <2>3. parentRows'[i] = parentRows[i] /\ childRows'[i] = childRows[i]
    <3>1. DOMAIN parentRows = Join /\ DOMAIN childRows = Join
      BY <1>1 DEF Types
    <3> QED
      BY <1>3, <3>1 DEF Step, Did
  <2> QED
    BY <2>1, <2>2, <2>3
<1> QED
  BY <1>1, <1>2, <1>3 DEF Quiet

\* What was taken and yielded before agrees as it did.
LEMMA AgreeKept ==
  ASSUME IInv, NEW j \in Table, Steady(j), NEW i \in Join, NEW o \in Sent(i), NEW p \in Sent(i - 1)
  PROVE  /\ Agree(heap'[o], heap'[p], i - 1) <=> Agree(heap[o], heap[p], i - 1)
         /\ heap'[o][i] = heap[o][i]
<1>1. i \in Table /\ i - 1 \in Table /\ 0..(i - 1) \subseteq 0..i /\ i \in 0..i
  BY JoinIs
<1>2. Agree(heap'[o], heap[o], i) /\ Agree(heap'[p], heap[p], i - 1)
  BY <1>1 DEF Steady
<1> QED
  BY <1>1, <1>2 DEF Agree

LEMMA OthersKept ==
  ASSUME IInv, NEW j \in Table, Quiet(j), NEW i \in Join, i # j
  PROVE  ParentsKept(i)' /\ From(i)' /\ Whole(i)'
<1>1. /\ query' = query /\ Steady(j) /\ Sent(i)' = Sent(i) /\ Arrived(i)' = Arrived(i)
      /\ read'[i] = read[i] /\ parentRows'[i] = parentRows[i] /\ (i \in bDone' <=> i \in bDone)
      /\ Arrived(i) \subseteq Sent(i - 1) /\ i - 1 \in Table /\ i \in Table
      /\ ParentsKept(i) /\ From(i) /\ Whole(i)
  BY JoinIs DEF Quiet, Arrived, IInv, JoinOK
<1>2. /\ RowsTo(i, read[i])' = RowsTo(i, read[i]) /\ RowsTo(i, read[i]) \subseteq Row
  <2>1. \A t, n : RowsTo(t, n)' = RowsTo(t, n)
    BY <1>1, QuerySame
  <2>2. Types /\ read[i] \in 0..Len(query.pages[i])
    <3>1. query.pages[i] \in Seq(Seq(Nat)) /\ Types
      BY <1>1, QueryIs DEF IInv
    <3>2. read[i] \in Nat /\ read[i] <= Len(query.pages[i])
      BY <1>1, <3>1 DEF Types
    <3> QED
      BY <3>1, <3>2
  <2>3. RowsTo(i, read[i]) \subseteq Row
    BY <1>1, <2>2, RowsAre DEF Child
  <2> QED
    BY <1>1, <2>1, <2>3
<1>3. \A p \in Sent(i - 1) : \A row \in Row :
        /\ Matches(i, heap[p], row)' <=> Matches(i, heap[p], row)
        /\ Matches(i, heap'[p], row) <=> Matches(i, heap[p], row)
  <2>1. \A p \in Sent(i - 1) : \A row \in Row : Matches(i, heap'[p], row) <=> Matches(i, heap[p], row)
    BY <1>1, MatchesKept
  <2>2. \A f, row : Matches(i, f, row)' <=> Matches(i, f, row)
    BY <1>1, QuerySame
  <2> QED
    BY <2>1, <2>2
<1>4. \A p \in Sent(i - 1) : NoMatch(i, heap[p])' <=> NoMatch(i, heap[p])
  <2>1. RowsOf(i)' = RowsOf(i) /\ RowsOf(i) \subseteq Row
    <3>1. query.pages[i] \in Seq(Seq(Nat)) /\ Types
      BY <1>1, QueryIs DEF IInv
    <3>2. Len(query.pages[i]) \in 0..Len(query.pages[i])
      BY <3>1
    <3> QED
      BY <1>1, <3>1, <3>2, QuerySame, RowsAre DEF RowsOf, Child
  <2> QED
    BY <2>1, <1>3 DEF NoMatch
<1>5. ParentsKept(i)'
  <2>1. Distinct(parentRows[i])' /\ Range(parentRows[i])' = Range(parentRows[i])
    BY <1>1 DEF ParentsKept, Distinct, Range
  <2>2. Range(parentRows[i]) \subseteq Arrived(i)
    BY <1>1 DEF ParentsKept, Range
  <2>3. ASSUME NEW p \in Range(parentRows[i]), NEW row \in RowsTo(i, read[i]), Matches(i, heap[p], row)'
        PROVE  i \in DOMAIN heap'[p]
    <3>1. p \in Sent(i - 1) /\ row \in Row
      BY <2>2, <1>1, <1>2
    <3>2. i \in DOMAIN heap[p]
      BY <2>3, <3>1, <1>1, <1>3 DEF ParentsKept
    <3> QED
      BY <3>1, <3>2, <1>1 DEF Steady
  <2>4. \A p \in Range(parentRows[i])' : \A row \in RowsTo(i, read[i])' :
           Matches(i, heap[p], row)' => i \in DOMAIN heap'[p]
    BY <2>1, <2>3, <1>2
  <2>5. /\ query.joins[i].left' = query.joins[i].left /\ query.joins[i].on' = query.joins[i].on
    BY <1>1
  <2>6. IF query.joins[i].left /\ i \in bDone' THEN parentRows'[i] = <<>>
        ELSE Range(parentRows[i])' = Arrived(i)'
    BY <1>1, <2>1 DEF ParentsKept
  <2>7. query.joins[i].on => Range(parentRows[i])' \cap Sent(i)' = {}
    BY <1>1, <2>1 DEF ParentsKept
  <2> QED
    BY <1>1, <2>1, <2>4, <2>6, <2>7 DEF ParentsKept
<1>6. From(i)'
  <2>1. ASSUME NEW o \in Sent(i)
        PROVE  \E p \in Arrived(i) :
                 /\ Agree(heap'[o], heap'[p], i - 1)
                 /\ \/ heap'[o][i] \in RowsTo(i, read[i])' /\ Matches(i, heap[p], heap[o][i])'
                    \/ /\ heap'[o][i] = Null /\ query.joins[i].left' /\ i \in bDone'
                       /\ NoMatch(i, heap[p])'
    <3>1. PICK p \in Arrived(i) :
            /\ Agree(heap[o], heap[p], i - 1)
            /\ \/ heap[o][i] \in RowsTo(i, read[i]) /\ Matches(i, heap[p], heap[o][i])
               \/ /\ heap[o][i] = Null /\ query.joins[i].left /\ i \in bDone
                  /\ NoMatch(i, heap[p])
      BY <1>1 DEF From
    <3>2. Agree(heap'[o], heap'[p], i - 1) /\ heap'[o][i] = heap[o][i] /\ p \in Sent(i - 1)
      BY <1>1, <3>1, AgreeKept
    <3>3. CASE heap[o][i] \in RowsTo(i, read[i]) /\ Matches(i, heap[p], heap[o][i])
      <4>1. Matches(i, heap'[p], heap'[o][i])
        BY <3>2, <3>3, <1>2, <1>3
      <4>2. Matches(i, heap[p], heap[o][i])'
        BY <1>1, <4>1, QuerySame
      <4> QED
        BY <3>2, <3>3, <4>2, <1>2
    <3>4. CASE heap[o][i] = Null /\ query.joins[i].left /\ i \in bDone /\ NoMatch(i, heap[p])
      BY <3>2, <3>4, <1>1, <1>4
    <3> QED
      BY <3>1, <3>3, <3>4
  <2> QED
    BY <2>1, <1>1 DEF From
<1>7. Whole(i)'
  <2>1. ASSUME NEW p \in Arrived(i), NEW row \in RowsTo(i, read[i]), Matches(i, heap[p], row)'
        PROVE  Has(i, p, row)'
    <3>1. p \in Sent(i - 1) /\ row \in Row
      BY <1>1, <1>2
    <3>2. Has(i, p, row)
      BY <2>1, <3>1, <1>1, <1>3 DEF Whole
    <3>3. PICK o \in Sent(i) : Agree(heap[o], heap[p], i - 1) /\ heap[o][i] = row
      BY <3>2 DEF Has
    <3>4. Agree(heap'[o], heap'[p], i - 1) /\ heap'[o][i] = row
      BY <1>1, <3>1, <3>3, AgreeKept
    <3> QED
      BY <1>1, <3>4 DEF Has
  <2> QED
    BY <2>1, <1>1, <1>2 DEF Whole
<1> QED
  BY <1>5, <1>6, <1>7

\* A mark of another LEFT JOIN is still its own when the generator j yields none.
LEMMA OthersMarks ==
  ASSUME IInv, NEW j \in Table, Quiet(j), NEW i \in Join, i # j,
         SafeAt(i) /\ j < i => \A o \in Sent(j)' : i \in DOMAIN heap'[o] => o \in Arrived(i)
  PROVE  MarksOwn(i)'
<1>1. /\ query' = query /\ Steady(j) /\ Sent(i)' = Sent(i) /\ Arrived(i)' = Arrived(i)
      /\ \A t \in Table : t # j => Sent(t)' = Sent(t)
      /\ read'[i] = read[i] /\ parentRows'[i] = parentRows[i] /\ (i \in bDone' <=> i \in bDone)
      /\ Arrived(i) \subseteq Sent(i - 1) /\ i - 1 \in Table /\ i \in Table
      /\ ParentsKept(i) /\ MarksOwn(i) /\ Types
  BY JoinIs DEF Quiet, Arrived, IInv, JoinOK
<1>2. query.pages[i] \in Seq(Seq(Nat))
  BY <1>1, QueryIs
<1>3. /\ RowsTo(i, read[i])' = RowsTo(i, read[i]) /\ RowsTo(i, read[i]) \subseteq Row
      /\ RowsOf(i)' = RowsOf(i) /\ RowsOf(i) \subseteq Row
  <2>1. (\A t, n : RowsTo(t, n)' = RowsTo(t, n)) /\ RowsOf(i)' = RowsOf(i)
    BY <1>1, QuerySame
  <2>2. read[i] \in 0..Len(query.pages[i]) /\ Len(query.pages[i]) \in 0..Len(query.pages[i])
    <3>1. read[i] \in Nat /\ read[i] <= Len(query.pages[i]) /\ Len(query.pages[i]) \in Nat
      BY <1>1, <1>2 DEF Types
    <3> QED
      BY <3>1
  <2>3. RowsTo(i, read[i]) \subseteq Row /\ RowsOf(i) \subseteq Row
    BY <1>1, <2>2, RowsAre DEF Child, RowsOf
  <2> QED
    BY <1>1, <2>1, <2>3
<1>4. \A p \in Sent(i - 1) : \A row \in Row :
        /\ Matches(i, heap[p], row)' <=> Matches(i, heap[p], row)
  <2>1. \A p \in Sent(i - 1) : \A row \in Row : Matches(i, heap'[p], row) <=> Matches(i, heap[p], row)
    BY <1>1, MatchesKept
  <2>2. \A f, row : Matches(i, f, row)' <=> Matches(i, f, row)
    BY <1>1, QuerySame
  <2> QED
    BY <2>1, <2>2
<1>5. \A t \in Table : \A o \in Sent(t) : i \in DOMAIN heap'[o] <=> i \in DOMAIN heap[o]
  BY <1>1 DEF Steady
<1> SUFFICES ASSUME SafeAt(i)
             PROVE  /\ \A u \in 0..(i - 1) : \A o \in Sent(u)' : i \in DOMAIN heap'[o] => o \in Arrived(i)'
                    /\ \A p \in Range(parentRows[i])' : i \in DOMAIN heap'[p] =>
                         \E row \in RowsTo(i, read[i])' : Matches(i, heap[p], row)'
                    /\ i \in bDone' => \A p \in Arrived(i)' : NoMatch(i, heap[p])' => Has(i, p, Null)'
  <2>1. SafeAt(i)' <=> SafeAt(i)
    BY <1>1, QuerySame
  <2> QED
    BY <2>1 DEF MarksOwn
<1>6. ASSUME NEW u \in 0..(i - 1), NEW o \in Sent(u)', i \in DOMAIN heap'[o]
      PROVE  o \in Arrived(i)'
  <2>1. u \in Table /\ u < i
    BY ConstantsAssumption DEF Table, Join
  <2>2. CASE u = j
    BY <1>1, <1>6, <2>1, <2>2
  <2>3. CASE u # j
    <3>1. o \in Sent(u) /\ i \in DOMAIN heap[o]
      BY <1>1, <1>5, <1>6, <2>1, <2>3
    <3> QED
      BY <1>1, <1>6, <3>1 DEF MarksOwn
  <2> QED
    BY <2>2, <2>3
<1>7. ASSUME NEW p \in Range(parentRows[i])', i \in DOMAIN heap'[p]
      PROVE  \E row \in RowsTo(i, read[i])' : Matches(i, heap[p], row)'
  <2>1. p \in Range(parentRows[i]) /\ p \in Sent(i - 1)
    BY <1>1, <1>7 DEF ParentsKept, Range
  <2>2. i \in DOMAIN heap[p]
    BY <1>1, <1>5, <1>7, <2>1
  <2>3. PICK row \in RowsTo(i, read[i]) : Matches(i, heap[p], row)
    BY <1>1, <2>1, <2>2 DEF MarksOwn
  <2> QED
    BY <2>1, <2>3, <1>3, <1>4
<1>8. ASSUME i \in bDone', NEW p \in Arrived(i)', NoMatch(i, heap[p])'
      PROVE  Has(i, p, Null)'
  <2>1. p \in Arrived(i) /\ p \in Sent(i - 1)
    BY <1>1, <1>8
  <2>2. NoMatch(i, heap[p])
    BY <1>8, <2>1, <1>3, <1>4 DEF NoMatch
  <2>3. PICK o \in Sent(i) : Agree(heap[o], heap[p], i - 1) /\ heap[o][i] = Null
    BY <1>1, <1>8, <2>1, <2>2 DEF MarksOwn, Has
  <2>4. Agree(heap'[o], heap'[p], i - 1) /\ heap'[o][i] = Null
    BY <1>1, <2>1, <2>3, AgreeKept
  <2> QED
    BY <1>1, <2>4 DEF Has
<1> QED
  BY <1>6, <1>7, <1>8

-----------------------------------------------------------------------------
(* The join that takes the step *)

LEMMA RowsStep ==
  ASSUME IInv, NEW j \in Join, NEW parents, NEW children, Takes(j, parents, children)
  PROVE  /\ RowsTo(j, read[j])' = RowsTo(j, read[j]) \cup Range(children)
         /\ Range(childRows[j]) = RowsTo(j, read[j])
         /\ RowsTo(j, read[j])' \subseteq Row /\ RowsOf(j)' = RowsOf(j)
         /\ j \in bDone' => RowsOf(j) = RowsTo(j, read[j])'
<1>1. query' = query /\ Types /\ j \in Table
  BY JoinIs DEF Takes, IInv
<1>2. /\ Range(childRows[j]) = RowsTo(j, read[j])
      /\ RowsTo(j, read'[j]) = RowsTo(j, read[j]) \cup Range(children)
      /\ read'[j] \in 0..Len(query.pages[j])
      /\ children # <<>> => j \notin bDone'
  BY ChildrenAre
<1>3. RowsTo(j, read[j])' = RowsTo(j, read'[j]) /\ RowsOf(j)' = RowsOf(j)
  BY <1>1, QuerySame
<1>4. RowsTo(j, read'[j]) \subseteq Row
  BY <1>1, <1>2, RowsAre DEF Child
<1>5. ASSUME j \in bDone' PROVE RowsOf(j) = RowsTo(j, read'[j])
  <2>1. read'[j] = read[j] /\ ~(read[j] < Len(query.pages[j]))
    BY <1>5 DEF Takes, HasPage
  <2>2. query.pages[j] \in Seq(Seq(Nat)) /\ read[j] \in Nat /\ read[j] <= Len(query.pages[j])
    BY <1>1, QueryIs DEF Types
  <2>3. read[j] = Len(query.pages[j])
    BY <2>1, <2>2
  <2> QED
    BY <2>1, <2>3 DEF RowsOf
<1> QED
  BY <1>2, <1>3, <1>4, <1>5

LEMMA MatchStep ==
  ASSUME IInv, NEW j \in Join, NEW parents, NEW children, NEW M, NEW out,
         Step(j, parents, children, M, out), NEW p \in Sent(j - 1), NEW row \in Row
  PROVE  Matches(j, heap[p], row)' <=> Matches(j, heap[p], row)
<1>1. query' = query /\ Steady(j) /\ j \in Table
  BY SteadyStep, JoinIs DEF Step, Takes
<1>2. Matches(j, heap'[p], row) <=> Matches(j, heap[p], row)
  BY <1>1, MatchesKept
<1> QED
  BY <1>1, <1>2, QuerySame

\* What was taken by now and read by now met now or before.
LEMMA MetBy ==
  ASSUME IInv, NEW j \in Join, NEW parents, NEW children, Takes(j, parents, children),
         NEW p \in Arrived(j) \cup Range(parents), NEW row \in RowsTo(j, read[j]) \cup Range(children)
  PROVE  \/ Pair(j, parents, children, p, row)
         \/ /\ p \in Arrived(j) /\ row \in RowsTo(j, read[j])
            /\ p \in Range(All(j, parents)) => p \in Range(parentRows[j])
<1>1. /\ Range(All(j, parents)) = Range(parentRows[j]) \cup Range(parents)
      /\ Range(parents) \cap Arrived(j) = {}
  BY ParentsAre
<1>2. Range(childRows[j]) = RowsTo(j, read[j]) /\ (children # <<>> => j \notin bDone')
  BY ChildrenAre
<1>3. CASE p \in Range(parents)
  BY <1>1, <1>2, <1>3 DEF Pair
<1>4. CASE p \in Arrived(j) /\ row \in Range(children)
  <2>1. children # <<>>
    BY <1>4 DEF Range
  <2>2. j \notin bDone
    BY <1>2, <2>1 DEF Takes
  <2>3. p \in Range(parentRows[j])
    BY <1>4, <2>2 DEF IInv, JoinOK, ParentsKept
  <2> QED
    BY <1>1, <1>4, <2>3 DEF Pair
<1>5. CASE p \in Arrived(j) /\ row \in RowsTo(j, read[j])
  BY <1>1, <1>5
<1> QED
  BY <1>3, <1>4, <1>5

\* The parents that are joined with the null row match no row of the table.
LEMMA NullJoined ==
  ASSUME IInv, NEW j \in Join, NEW parents, NEW children, NEW M, NEW out,
         Step(j, parents, children, M, out), NEW p, <<p, Null>> \in M
  PROVE  Last(j) /\ j \in bDone' /\ query.joins[j].left /\ NoMatch(j, heap[p])'
         /\ p \in Range(All(j, parents)) /\ j \notin DOMAIN heap[p]
<1>1. Takes(j, parents, children) /\ M = New(j, parents, children)
  BY DEF Step, Did
<1>2. ~Pair(j, parents, children, p, Null)
  BY <1>1, PairIs
<1>3. /\ Last(j) /\ p \in Range(All(j, parents)) /\ j \notin DOMAIN heap[p]
      /\ \A c : Pair(j, parents, children, p, c) => ~Matches(j, heap[p], c)
  BY <1>1, <1>2, NewIs
<1>4. j \in bDone' /\ query.joins[j].left
  BY <1>3 DEF Last
<1>5. p \in Sent(j - 1) /\ p \in Arrived(j) \cup Range(parents)
  BY <1>1, <1>3, ParentsAre
<1>6. ASSUME NEW row \in RowsOf(j)' PROVE ~Matches(j, heap[p], row)'
  <2>1. row \in RowsTo(j, read[j]) \cup Range(children) /\ row \in Row
    BY <1>1, <1>4, <1>6, RowsStep
  <2>2. ~Matches(j, heap[p], row)
    <3>1. CASE Pair(j, parents, children, p, row)
      BY <1>3, <3>1
    <3>2. CASE p \in Range(parentRows[j]) /\ row \in RowsTo(j, read[j])
      BY <1>3, <3>2 DEF IInv, JoinOK, ParentsKept
    <3> QED
      BY <1>1, <1>3, <1>5, <2>1, <3>1, <3>2, MetBy
  <2> QED
    BY <1>5, <2>1, <2>2, MatchStep
<1> QED
  BY <1>3, <1>4, <1>6 DEF NoMatch

LEMMA ParentsKeptStep ==
  ASSUME IInv, NEW j \in Join, NEW parents, NEW children, NEW M, NEW out,
         Step(j, parents, children, M, out)
  PROVE  ParentsKept(j)'
<1> DEFINE all == All(j, parents)
<1>1. /\ Takes(j, parents, children) /\ M = New(j, parents, children) /\ query' = query
      /\ j \in Table /\ DOMAIN parentRows = Join
      /\ parentRows' = [parentRows EXCEPT ![j] = IF Last(j) THEN <<>> ELSE all]
      /\ ParentsKept(j) /\ Steady(j)
  BY JoinIs, SteadyStep DEF Step, Did, Takes, IInv, Types, JoinOK
<1>2. /\ Distinct(all) /\ Range(all) = Range(parentRows[j]) \cup Range(parents)
      /\ Range(all) \subseteq Sent(j - 1) /\ Range(parentRows[j]) \subseteq Arrived(j)
  BY <1>1, ParentsAre
<1> HIDE DEF all
<1>3. parentRows'[j] = IF Last(j) THEN <<>> ELSE all
  BY <1>1
<1>4. Last(j) <=> query.joins[j].left' /\ j \in bDone'
  BY <1>1 DEF Last
<1>5. CASE Last(j)
  <2>1. parentRows'[j] = <<>>
    BY <1>3, <1>5
  <2>2. Distinct(parentRows[j])' /\ Range(parentRows[j])' = {}
    BY <2>1 DEF Distinct, Range
  <2> QED
    BY <2>1, <2>2, <1>4, <1>5 DEF ParentsKept
<1>6. CASE ~Last(j)
  <2>1. parentRows'[j] = all
    BY <1>3, <1>6
  <2>2. Distinct(parentRows[j])' /\ Range(parentRows[j])' = Range(all)
    BY <2>1, <1>2 DEF Distinct, Range
  <2>3. Range(all) = Arrived(j)'
    <3>1. ~(query.joins[j].left /\ j \in bDone)
      BY <1>1, <1>4, <1>6 DEF Takes
    <3>2. Range(parentRows[j]) = Arrived(j)
      BY <1>1, <3>1 DEF ParentsKept
    <3> QED
      BY <1>2, <3>2, ArrivedStep
  <2>4. ASSUME query.joins[j].on, NEW p \in Range(all) PROVE p \notin Sent(j)'
    <3>1. p \notin Sent(j)
      BY <1>1, <2>4, SentWithoutOn, JoinIs DEF all
    <3>2. p \notin Range(out)
      <4> SUFFICES ASSUME p \in Range(out) PROVE FALSE
        OBVIOUS
      <4>1. p \in DOMAIN heap
        BY <1>2, <2>4, SentIs, JoinIs
      <4>2. PICK q, row : <<q, row>> \in M /\ row = Null
        BY <2>4, <4>1, OutIs
      <4> QED
        BY <4>2, <1>6, NullJoined
    <3> QED
      BY <3>1, <3>2, SentStep
  <2>5. ASSUME NEW p \in Range(all), NEW row \in RowsTo(j, read[j])', Matches(j, heap[p], row)'
        PROVE  j \in DOMAIN heap'[p]
    <3>1. p \in Sent(j - 1) /\ j - 1 \in Table /\ row \in Row
          /\ row \in RowsTo(j, read[j]) \cup Range(children)
      BY <1>1, <1>2, RowsStep, JoinIs
    <3>2. Matches(j, heap[p], row)
      BY <2>5, <3>1, MatchStep
    <3>3. p \in Arrived(j) \cup Range(parents) /\ p \in Range(All(j, parents))
      BY <1>2 DEF all
    <3>4. CASE Pair(j, parents, children, p, row)
      <4>1. <<p, row>> \in M
        BY <1>1, <3>2, <3>4, NewIs
      <4> QED
        BY <4>1, NewYielded
    <3>5. CASE p \in Range(parentRows[j]) /\ row \in RowsTo(j, read[j])
      <4>1. j \in DOMAIN heap[p]
        BY <1>1, <3>2, <3>5 DEF ParentsKept
      <4> QED
        BY <4>1, <3>1, <1>1 DEF Steady
    <3> QED
      BY <1>1, <3>1, <3>3, <3>4, <3>5, MetBy
  <2>6. /\ query.joins[j].on' = query.joins[j].on
        /\ IF query.joins[j].left' /\ j \in bDone' THEN parentRows'[j] = <<>>
           ELSE Range(parentRows[j])' = Arrived(j)'
    BY <1>1, <1>4, <1>6, <2>2, <2>3
  <2>7. query.joins[j].on' => Range(parentRows[j])' \cap Sent(j)' = {}
    BY <2>2, <2>4, <2>6
  <2>8. \A p \in Range(parentRows[j])' : \A row \in RowsTo(j, read[j])' :
          Matches(j, heap[p], row)' => j \in DOMAIN heap'[p]
    BY <2>2, <2>5
  <2> QED
    BY <2>2, <2>6, <2>7, <2>8 DEF ParentsKept
<1> QED
  BY <1>5, <1>6

LEMMA FromStep ==
  ASSUME IInv, NEW j \in Join, NEW parents, NEW children, NEW M, NEW out,
         Step(j, parents, children, M, out)
  PROVE  From(j)'
<1>1. /\ Takes(j, parents, children) /\ M = New(j, parents, children) /\ query' = query
      /\ j \in Table /\ j - 1 \in Table /\ Steady(j) /\ From(j)
      /\ Arrived(j) \subseteq Sent(j - 1) /\ bDone \subseteq bDone'
      /\ Sent(j)' = Sent(j) \cup Range(out) /\ Arrived(j)' = Arrived(j) \cup Range(parents)
  BY JoinIs, SteadyStep, SentStep, ArrivedStep DEF Step, Did, Takes, IInv, JoinOK, Arrived
<1>2. /\ RowsTo(j, read[j])' = RowsTo(j, read[j]) \cup Range(children) /\ RowsTo(j, read[j])' \subseteq Row
      /\ RowsOf(j)' = RowsOf(j)
  BY <1>1, RowsStep
<1>3. /\ Range(All(j, parents)) = Range(parentRows[j]) \cup Range(parents)
      /\ Range(parentRows[j]) \subseteq Arrived(j) /\ Range(All(j, parents)) \subseteq Sent(j - 1)
  BY <1>1, ParentsAre
<1> SUFFICES ASSUME NEW o \in Sent(j)'
             PROVE  \E p \in Arrived(j)' :
                      /\ Agree(heap'[o], heap'[p], j - 1)
                      /\ \/ heap'[o][j] \in RowsTo(j, read[j])' /\ Matches(j, heap[p], heap[o][j])'
                         \/ /\ heap'[o][j] = Null /\ query.joins[j].left' /\ j \in bDone'
                            /\ NoMatch(j, heap[p])'
  BY DEF From
<1>4. CASE o \in Sent(j)
  <2>1. PICK p \in Arrived(j) :
          /\ Agree(heap[o], heap[p], j - 1)
          /\ \/ heap[o][j] \in RowsTo(j, read[j]) /\ Matches(j, heap[p], heap[o][j])
             \/ /\ heap[o][j] = Null /\ query.joins[j].left /\ j \in bDone
                /\ NoMatch(j, heap[p])
    BY <1>1, <1>4 DEF From
  <2>2. Agree(heap'[o], heap'[p], j - 1) /\ heap'[o][j] = heap[o][j] /\ p \in Sent(j - 1)
    BY <1>1, <1>4, <2>1, AgreeKept
  <2>3. CASE heap[o][j] \in RowsTo(j, read[j]) /\ Matches(j, heap[p], heap[o][j])
    <3>1. heap[o][j] \in Row
      BY <1>2, <2>3
    <3>2. Matches(j, heap'[p], heap'[o][j])
      BY <1>1, <2>2, <2>3, <3>1, MatchesKept
    <3>3. Matches(j, heap[p], heap[o][j])'
      BY <1>1, <3>2, QuerySame
    <3> QED
      BY <1>1, <1>2, <2>1, <2>2, <2>3, <3>3
  <2>4. CASE heap[o][j] = Null /\ query.joins[j].left /\ j \in bDone /\ NoMatch(j, heap[p])
    <3>1. \A row \in RowsOf(j) : row \in Row
      BY <1>1, <1>2, <2>4, RowsStep
    <3>2. NoMatch(j, heap[p])'
      BY <1>2, <2>2, <2>4, <3>1, MatchStep DEF NoMatch
    <3> QED
      BY <1>1, <2>1, <2>2, <2>4, <3>2
  <2> QED
    BY <2>1, <2>3, <2>4
<1>5. CASE o \in Range(out)
  <2>1. PICK p, row :
          /\ p \in Range(All(j, parents)) /\ row \in Row
          /\ <<p, row>> \in M /\ p \in Sent(j - 1) /\ heap'[o][j] = row
          /\ Agree(heap'[o], heap[p], j - 1)
    BY <1>5, OutIs
  <2>2. Agree(heap'[o], heap'[p], j - 1)
    <3>1. Agree(heap'[p], heap[p], j - 1)
      BY <1>1, <2>1 DEF Steady
    <3> QED
      BY <2>1, <3>1 DEF Agree
  <2>3. p \in Arrived(j)'
    BY <1>1, <1>3, <2>1
  <2>4. CASE Pair(j, parents, children, p, row) /\ Matches(j, heap[p], row)
    <3>1. row \in RowsTo(j, read[j])'
      BY <1>1, <1>2, <2>4, RowsStep DEF Pair
    <3>2. Matches(j, heap'[p], heap'[o][j])
      BY <1>1, <2>1, <2>4, MatchesKept
    <3>3. Matches(j, heap[p], heap[o][j])'
      BY <1>1, <3>2, QuerySame
    <3> QED
      BY <2>1, <2>2, <2>3, <3>1, <3>3
  <2>5. CASE row = Null
    <3>1. j \in bDone' /\ query.joins[j].left /\ NoMatch(j, heap[p])'
      BY <2>1, <2>5, NullJoined
    <3> QED
      BY <1>1, <2>1, <2>2, <2>3, <2>5, <3>1
  <2> QED
    BY <1>1, <2>1, <2>4, <2>5, NewIs
<1> QED
  BY <1>1, <1>4, <1>5

\* What was yielded stays, and what was joined now is yielded.
LEMMA HasStep ==
  ASSUME IInv, NEW j \in Join, NEW parents, NEW children, NEW M, NEW out,
         Step(j, parents, children, M, out), NEW p \in Sent(j - 1), NEW row,
         Has(j, p, row) \/ <<p, row>> \in M
  PROVE  Has(j, p, row)'
<1>1. Steady(j) /\ j \in Table /\ j - 1 \in Table /\ Sent(j)' = Sent(j) \cup Range(out)
  BY SteadyStep, SentStep, JoinIs
<1>2. CASE Has(j, p, row)
  <2>1. PICK o \in Sent(j) : Agree(heap[o], heap[p], j - 1) /\ heap[o][j] = row
    BY <1>2 DEF Has
  <2>2. Agree(heap'[o], heap'[p], j - 1) /\ heap'[o][j] = row
    BY <1>1, <2>1, AgreeKept
  <2> QED
    BY <1>1, <2>2 DEF Has
<1>3. CASE <<p, row>> \in M
  <2>1. PICK o \in Range(out) : Agree(heap'[o], heap[p], j - 1) /\ heap'[o][j] = row
    BY <1>3, NewYielded
  <2>2. Agree(heap'[p], heap[p], j - 1)
    BY <1>1 DEF Steady
  <2>3. Agree(heap'[o], heap'[p], j - 1)
    BY <2>1, <2>2 DEF Agree
  <2> QED
    BY <1>1, <2>1, <2>3 DEF Has
<1> QED
  BY <1>2, <1>3

LEMMA WholeStep ==
  ASSUME IInv, NEW j \in Join, NEW parents, NEW children, NEW M, NEW out,
         Step(j, parents, children, M, out)
  PROVE  Whole(j)'
<1>1. /\ Takes(j, parents, children) /\ M = New(j, parents, children) /\ Whole(j)
      /\ Arrived(j)' = Arrived(j) \cup Range(parents)
  BY ArrivedStep DEF Step, Did, IInv, JoinOK
<1> SUFFICES ASSUME NEW p \in Arrived(j)', NEW row \in RowsTo(j, read[j])', Matches(j, heap[p], row)'
             PROVE  Has(j, p, row)'
  BY DEF Whole
<1>2. p \in Sent(j - 1) /\ row \in Row /\ row \in RowsTo(j, read[j]) \cup Range(children)
      /\ p \in Arrived(j) \cup Range(parents)
  <2>1. row \in Row /\ row \in RowsTo(j, read[j]) \cup Range(children)
    BY <1>1, RowsStep
  <2>2. Range(parents) \subseteq Sent(j - 1) /\ Arrived(j) \subseteq Sent(j - 1)
    <3>1. Range(All(j, parents)) = Range(parentRows[j]) \cup Range(parents)
          /\ Range(All(j, parents)) \subseteq Sent(j - 1)
      BY <1>1, ParentsAre
    <3> QED
      BY <3>1 DEF Arrived
  <2> QED
    BY <1>1, <2>1, <2>2
<1>3. Matches(j, heap[p], row)
  BY <1>2, MatchStep
<1>4. CASE Pair(j, parents, children, p, row)
  <2>1. <<p, row>> \in M
    BY <1>1, <1>3, <1>4, NewIs
  <2> QED
    BY <1>2, <2>1, HasStep
<1>5. CASE p \in Arrived(j) /\ row \in RowsTo(j, read[j])
  <2>1. Has(j, p, row)
    BY <1>1, <1>3, <1>5 DEF Whole
  <2> QED
    BY <1>2, <2>1, HasStep
<1> QED
  BY <1>1, <1>2, <1>4, <1>5, MetBy

LEMMA MarksStep ==
  ASSUME IInv, NEW j \in Join, NEW parents, NEW children, NEW M, NEW out,
         Step(j, parents, children, M, out)
  PROVE  MarksOwn(j)'
<1>1. /\ Takes(j, parents, children) /\ M = New(j, parents, children) /\ query' = query
      /\ j \in Table /\ j - 1 \in Table /\ MarksOwn(j) /\ ParentsKept(j) /\ Steady(j)
      /\ DOMAIN parentRows = Join
      /\ parentRows' = [parentRows EXCEPT ![j] = IF Last(j) THEN <<>> ELSE All(j, parents)]
      /\ Arrived(j)' = Arrived(j) \cup Range(parents)
  BY JoinIs, SteadyStep, ArrivedStep DEF Step, Did, Takes, IInv, Types, JoinOK
<1>2. /\ Range(All(j, parents)) = Range(parentRows[j]) \cup Range(parents)
      /\ Range(parentRows[j]) \subseteq Arrived(j) /\ Range(All(j, parents)) \subseteq Sent(j - 1)
      /\ Range(parents) \cap Arrived(j) = {}
  BY <1>1, ParentsAre
<1> SUFFICES ASSUME SafeAt(j)
             PROVE  /\ \A u \in 0..(j - 1) : \A o \in Sent(u)' : j \in DOMAIN heap'[o] => o \in Arrived(j)'
                    /\ \A p \in Range(parentRows[j])' : j \in DOMAIN heap'[p] =>
                         \E row \in RowsTo(j, read[j])' : Matches(j, heap[p], row)'
                    /\ j \in bDone' => \A p \in Arrived(j)' : NoMatch(j, heap[p])' => Has(j, p, Null)'
  <2>1. SafeAt(j)' <=> SafeAt(j)
    BY <1>1, QuerySame
  <2> QED
    BY <2>1 DEF MarksOwn
<1>3. ASSUME NEW p, NEW row, Pair(j, parents, children, p, row), Matches(j, heap[p], row)
      PROVE  row \in RowsTo(j, read[j])' /\ Matches(j, heap[p], row)'
  <2>1. p \in Sent(j - 1) /\ row \in Row /\ row \in RowsTo(j, read'[j])
    BY <1>1, <1>3, PairIs
  <2>2. row \in RowsTo(j, read[j])'
    BY <1>1, <1>3, RowsStep DEF Pair
  <2> QED
    BY <1>3, <2>1, <2>2, MatchStep
\* a parent without a mark keeps none unless it is joined
<1>4. ASSUME NEW u \in 0..(j - 1), NEW o \in Sent(u)', j \in DOMAIN heap'[o]
      PROVE  o \in Arrived(j)'
  <2>1. u \in Table /\ u # j
    BY ConstantsAssumption DEF Table, Join
  <2>2. o \in Sent(u) /\ o \in DOMAIN heap
    BY <1>4, <2>1, SentStep, SentIs
  <2>3. CASE j \in DOMAIN heap[o]
    BY <1>1, <2>2, <2>3 DEF MarksOwn
  <2>4. CASE j \notin DOMAIN heap[o]
    <3>1. PICK row \in Row : <<o, row>> \in M
      BY <1>4, <2>2, <2>4 DEF Step, Did, Joined, Marked, After
    <3>2. o \in Range(All(j, parents))
      BY <3>1, HeapStep
    <3> QED
      BY <1>1, <1>2, <3>2
  <2> QED
    BY <2>3, <2>4
<1>5. ASSUME NEW p \in Range(All(j, parents)), j \in DOMAIN heap[p]
      PROVE  p \in Range(parentRows[j]) /\ \E row \in RowsTo(j, read[j]) : Matches(j, heap[p], row)
  <2>1. p \in Sent(j - 1) /\ j - 1 \in 0..(j - 1)
    BY <1>2, JoinIs
  <2>2. p \in Arrived(j)
    BY <1>1, <1>5, <2>1 DEF MarksOwn
  <2>3. p \in Range(parentRows[j])
    BY <1>2, <2>2
  <2> QED
    BY <1>1, <1>5, <2>3 DEF MarksOwn
<1>6. ASSUME NEW p \in Range(All(j, parents)), NEW row \in RowsTo(j, read[j]), Matches(j, heap[p], row)
      PROVE  row \in RowsTo(j, read[j])' /\ Matches(j, heap[p], row)'
  <2>1. p \in Sent(j - 1) /\ row \in Row /\ row \in RowsTo(j, read[j])'
    BY <1>1, <1>2, RowsStep
  <2> QED
    BY <1>6, <2>1, MatchStep
<1>7. ASSUME NEW p \in Range(parentRows[j])', j \in DOMAIN heap'[p]
      PROVE  \E row \in RowsTo(j, read[j])' : Matches(j, heap[p], row)'
  <2>1. parentRows'[j] = IF Last(j) THEN <<>> ELSE All(j, parents)
    BY <1>1
  <2>2. ~Last(j) /\ p \in Range(All(j, parents))
    BY <1>7, <2>1 DEF Range
  <2>3. p \in Sent(j - 1) /\ p \in DOMAIN heap
    BY <1>1, <1>2, <2>2, SentIs
  <2>4. CASE j \in DOMAIN heap[p]
    BY <2>2, <2>4, <1>5, <1>6
  <2>5. CASE j \notin DOMAIN heap[p]
    <3>1. PICK row \in Row : <<p, row>> \in M
      BY <1>7, <2>3, <2>5 DEF Step, Did, Joined, Marked, After
    <3>2. Pair(j, parents, children, p, row) /\ Matches(j, heap[p], row)
      BY <1>1, <2>2, <3>1, NewIs
    <3> QED
      BY <1>3, <3>2
  <2> QED
    BY <2>4, <2>5
<1>8. ASSUME j \in bDone', NEW p \in Arrived(j)', NoMatch(j, heap[p])'
      PROVE  Has(j, p, Null)'
  <2>1. Last(j) /\ p \in Sent(j - 1)
    BY <1>1, <1>2, <1>8 DEF SafeAt, Last, Arrived
  <2>2. RowsOf(j)' = RowsTo(j, read[j])'
    BY <1>1, <1>8, RowsStep
  <2>3. CASE p \in Range(All(j, parents))
    <3>1. j \notin DOMAIN heap[p]
      BY <1>5, <1>6, <1>8, <2>2, <2>3 DEF NoMatch
    <3>2. \A c : Pair(j, parents, children, p, c) => ~Matches(j, heap[p], c)
      BY <1>3, <1>8, <2>2 DEF NoMatch
    <3>3. <<p, Null>> \in M
      BY <1>1, <2>1, <2>3, <3>1, <3>2, NewIs
    <3> QED
      BY <2>1, <3>3, HasStep
  <2>4. CASE p \notin Range(All(j, parents))
    <3>1. p \in Arrived(j) /\ Range(parentRows[j]) # Arrived(j)
      BY <1>1, <1>2, <1>8, <2>4
    <3>2. j \in bDone
      BY <1>1, <3>1 DEF ParentsKept
    <3>3. NoMatch(j, heap[p])
      <4>1. RowsOf(j)' = RowsOf(j) /\ \A row \in RowsOf(j) : row \in Row
        BY <1>1, <1>8, RowsStep
      <4> QED
        BY <1>8, <2>1, <4>1, MatchStep DEF NoMatch
    <3>4. Has(j, p, Null)
      BY <1>1, <3>1, <3>2, <3>3 DEF MarksOwn
    <3> QED
      BY <2>1, <3>4, HasStep
  <2> QED
    BY <2>3, <2>4
<1> QED
  BY <1>4, <1>7, <1>8

\* A LEFT JOIN further right finds none of its marks on what is yielded.
LEMMA MarksFurther ==
  ASSUME IInv, NEW j \in Join, NEW parents, NEW children, NEW M, NEW out,
         Step(j, parents, children, M, out), NEW i \in Join, j < i, SafeAt(i),
         NEW o \in Sent(j)', i \in DOMAIN heap'[o]
  PROVE  o \in Arrived(i)
<1>1. /\ j \in Table /\ j - 1 \in Table /\ i - 1 \in Table /\ i - 1 >= j /\ j \in 0..(i - 1)
      /\ j - 1 \in 0..(i - 1) /\ j \in 1..(i - 1)
      /\ MarksOwn(i) /\ Steady(j) /\ Sent(j)' = Sent(j) \cup Range(out) /\ Takes(j, parents, children)
  BY JoinIs, SteadyStep, SentStep DEF IInv, JoinOK, Step, Join, Table
<1>2. query.joins[j].on
  BY <1>1 DEF SafeAt
<1>3. CASE o \in Sent(j)
  <2>1. i \in DOMAIN heap[o]
    BY <1>1, <1>3 DEF Steady
  <2> QED
    BY <1>1, <1>3, <2>1 DEF MarksOwn
<1>4. CASE o \in Range(out)
  <2>1. PICK p \in Range(All(j, parents)) :
          p \in Sent(j - 1) /\ DOMAIN heap'[o] = DOMAIN heap[p] \cup {j}
    BY <1>4, OutDomain
  <2>2. i \in DOMAIN heap[p]
    <3>1. i # j
      BY DEF Join
    <3> QED
      BY <2>1, <3>1
  <2>3. p \in Arrived(i)
    BY <1>1, <2>1, <2>2 DEF MarksOwn
  <2>4. p \in Sent(i - 1)
    BY <2>3 DEF Arrived
  <2> QED
    BY <1>1, <1>2, <2>1, <2>4, SentWithoutOn
<1> QED
  BY <1>1, <1>3, <1>4

LEMMA JoinsStep ==
  ASSUME IInv, NEW j \in Join, NEW parents, NEW children, NEW M, NEW out,
         Step(j, parents, children, M, out), NEW i \in Join
  PROVE  JoinOK(i)'
<1>1. CASE i = j
  BY <1>1, ParentsKeptStep, FromStep, WholeStep, MarksStep DEF JoinOK
<1>2. CASE i # j
  <2>1. j \in Table /\ Quiet(j)
    BY QuietStep, JoinIs
  <2>2. ParentsKept(i)' /\ From(i)' /\ Whole(i)'
    BY <1>2, <2>1, OthersKept
  <2>3. SafeAt(i) /\ j < i => \A o \in Sent(j)' : i \in DOMAIN heap'[o] => o \in Arrived(i)
    BY MarksFurther
  <2>4. MarksOwn(i)'
    BY <1>2, <2>1, <2>3, OthersMarks
  <2> QED
    BY <2>2, <2>4 DEF JoinOK
<1> QED
  BY <1>1, <1>2

-----------------------------------------------------------------------------
(* What was yielded *)

\* A generator that yields nothing new has yielded what it had.
LEMMA SentKept ==
  ASSUME IInv, heap' \in Seq(Source), NEW j \in Table, Steady(j),
         NEW t \in Table, yielded'[t] = yielded[t], Pending(t)' \subseteq Pending(t),
         chan'[t] = chan[t] \/ chan'[t].is # "batch"
  PROVE  SentOK(t)'
<1>1. SentOK(t) /\ Sent(t)' = Sent(t) /\ DOMAIN heap' = Object'
  BY DEF IInv, Sent, Object
<1>2. ASSUME NEW i \in DOMAIN yielded[t]
      PROVE  LET o == yielded[t][i].object
                 f == yielded[t][i].source
             IN  /\ o \in DOMAIN heap' /\ 0..t \subseteq DOMAIN heap'[o] /\ 0..t \subseteq DOMAIN f
                 /\ Agree(heap'[o], heap[o], t) /\ Agree(heap'[o], f, t)
  <2> DEFINE o == yielded[t][i].object
  <2>1. o \in Sent(t)
    BY DEF Sent
  <2>2. o \in DOMAIN heap' /\ DOMAIN heap[o] \subseteq DOMAIN heap'[o] /\ Agree(heap'[o], heap[o], t)
    BY <2>1 DEF Steady
  <2>3. /\ 0..t \subseteq DOMAIN heap[o] /\ 0..t \subseteq DOMAIN yielded[t][i].source
        /\ Agree(heap[o], yielded[t][i].source, t)
    BY <1>1 DEF SentOK
  <2>4. Agree(heap'[o], yielded[t][i].source, t)
    BY <2>2, <2>3 DEF Agree
  <2> QED
    BY <2>2, <2>3, <2>4
<1>3. ASSUME NEW i \in DOMAIN yielded[t], NEW k \in DOMAIN yielded[t], i # k
      PROVE  LET o == yielded[t][i].object
                 p == yielded[t][k].object
             IN  o # p /\ ~Agree(heap'[o], heap'[p], t)
  <2> DEFINE o == yielded[t][i].object
             p == yielded[t][k].object
  <2>1. o # p /\ ~Agree(heap[o], heap[p], t)
    BY <1>1, <1>3 DEF SentOK
  <2>2. Agree(heap'[o], heap[o], t) /\ Agree(heap'[p], heap[p], t)
    BY <1>2
  <2>3. ~Agree(heap'[o], heap'[p], t)
    BY <2>1, <2>2 DEF Agree
  <2> QED
    BY <2>1, <2>3
<1>4. Pending(t)' \subseteq Sent(t)'
  BY <1>1 DEF SentOK
<1>5. chan'[t].is = "batch" => Distinct(chan[t].objects)'
  BY <1>1 DEF SentOK, Distinct
<1> QED
  BY <1>1, <1>2, <1>3, <1>4, <1>5 DEF SentOK

\* What is yielded now is no combination that was yielded before.
LEMMA OutNew ==
  ASSUME IInv, NEW j \in Join, NEW parents, NEW children, NEW M, NEW out,
         Step(j, parents, children, M, out), NEW o \in Sent(j), NEW x \in Range(out)
  PROVE  o # x /\ ~Agree(heap'[o], heap'[x], j)
<1>1. /\ Takes(j, parents, children) /\ M = New(j, parents, children)
      /\ Steady(j) /\ From(j) /\ ParentsKept(j)
      /\ j \in Table /\ j - 1 \in Table /\ j \in 0..j /\ 0..(j - 1) \subseteq 0..j
  <2>1. j \in Table /\ j - 1 \in Table /\ j \in 0..j /\ 0..(j - 1) \subseteq 0..j
    BY JoinIs
  <2> QED
    BY <2>1, SteadyStep DEF Step, Did, IInv, JoinOK
<1>2. o # x
  BY <1>1, OutNotSent
<1> SUFFICES ASSUME Agree(heap'[o], heap'[x], j) PROVE FALSE
  BY <1>2
<1>3. PICK p \in Arrived(j) :
        /\ Agree(heap[o], heap[p], j - 1)
        /\ \/ heap[o][j] \in RowsTo(j, read[j])
           \/ heap[o][j] = Null /\ query.joins[j].left /\ j \in bDone
  BY <1>1 DEF From
<1>4. PICK q, row :
        /\ q \in Range(All(j, parents)) /\ q \in Sent(j - 1)
        /\ <<q, row>> \in M /\ heap'[x][j] = row /\ Agree(heap'[x], heap[q], j - 1)
  BY OutIs
<1>5. heap[o][j] = row /\ Agree(heap[p], heap[q], j - 1)
  <2>1. Agree(heap'[o], heap[o], j)
    BY <1>1 DEF Steady
  <2> QED
    BY <1>1, <1>3, <1>4, <2>1 DEF Agree
<1>6. p = q /\ p \notin Range(parents) /\ p \in Range(parentRows[j])
  <2>1. p \in Sent(j - 1)
    BY <1>3 DEF Arrived
  <2>2. p = q
    BY <1>1, <1>4, <1>5, <2>1, SentIs
  <2>3. /\ Range(All(j, parents)) = Range(parentRows[j]) \cup Range(parents)
        /\ Range(parents) \cap Arrived(j) = {}
    BY <1>1, ParentsAre
  <2> QED
    BY <1>3, <1>4, <2>2, <2>3
<1>7. /\ Range(childRows[j]) = RowsTo(j, read[j]) /\ Range(childRows[j]) \cap Range(children) = {}
      /\ Null \notin RowsTo(j, read[j]) /\ Null \notin Range(children)
  <2>1. /\ Range(childRows[j]) = RowsTo(j, read[j]) /\ Range(childRows[j]) \cap Range(children) = {}
        /\ childRows[j] \in Seq(Child) /\ children \in Seq(Child)
    BY <1>1, ChildrenAre
  <2>2. Range(childRows[j]) \subseteq Child /\ Range(children) \subseteq Child
    BY <2>1, RangeSeq
  <2> QED
    BY <2>1, <2>2 DEF Child
<1>8. CASE Pair(j, parents, children, q, row)
  <2>1. row \in Range(children)
    BY <1>6, <1>8 DEF Pair
  <2> QED
    BY <1>3, <1>5, <1>7, <2>1
<1>9. CASE row = Null
  <2>1. query.joins[j].left /\ j \in bDone
    BY <1>3, <1>5, <1>7, <1>9
  <2>2. parentRows[j] = <<>>
    BY <1>1, <2>1 DEF ParentsKept
  <2> QED
    BY <1>6, <2>2 DEF Range
<1> QED
  BY <1>1, <1>4, <1>8, <1>9, NewIs

\* A generator that yields new combinations only has yielded each once.
LEMMA SentGrows ==
  ASSUME IInv, heap' \in Seq(Source), NEW j \in Table, Steady(j),
         NEW t \in Table, NEW objects \in Seq(Nat), yielded' = Yielded(t, objects, heap'),
         chan'[t] = Yield(Asked, objects),
         \A i \in DOMAIN objects : objects[i] \in DOMAIN heap' /\ 0..t \subseteq DOMAIN heap'[objects[i]],
         \A i, k \in DOMAIN objects : i # k =>
           objects[i] # objects[k] /\ ~Agree(heap'[objects[i]], heap'[objects[k]], t),
         \A o \in Sent(t), x \in Range(objects) : o # x /\ ~Agree(heap'[o], heap'[x], t)
  PROVE  SentOK(t)'
<1> DEFINE n == Len(yielded[t])
<1>1. SentOK(t) /\ DOMAIN heap' = Object' /\ yielded \in [Table -> Seq(Record)]
  BY DEF IInv, Types, Object
<1>2. \A i \in DOMAIN objects : heap'[objects[i]] \in Source
  OBVIOUS
<1>3. /\ \A i \in DOMAIN yielded[t] : i \in DOMAIN yielded'[t] /\ yielded'[t][i] = yielded[t][i]
      /\ \A i \in DOMAIN yielded'[t] \ DOMAIN yielded[t] :
           /\ i - n \in DOMAIN objects
           /\ yielded'[t][i].object = objects[i - n]
           /\ yielded'[t][i].source = heap'[objects[i - n]]
      /\ Sent(t)' = Sent(t) \cup Range(objects)
      /\ yielded' \in [Table -> Seq(Record)]
  BY <1>1, <1>2, YieldIs
<1>4. DOMAIN yielded[t] \subseteq Nat /\ DOMAIN yielded'[t] \subseteq Nat /\ n \in Nat
  BY <1>1, <1>3
<1> HIDE DEF n
<1>5. ASSUME NEW i \in DOMAIN yielded[t]
      PROVE  LET o == yielded'[t][i].object
                 f == yielded'[t][i].source
             IN  /\ o \in DOMAIN heap' /\ 0..t \subseteq DOMAIN heap'[o] /\ 0..t \subseteq DOMAIN f
                 /\ o \in Sent(t) /\ o = yielded[t][i].object
                 /\ Agree(heap'[o], heap[o], t) /\ Agree(heap'[o], f, t)
  <2> DEFINE o == yielded[t][i].object
  <2>1. o \in Sent(t) /\ yielded'[t][i] = yielded[t][i]
    BY <1>3 DEF Sent
  <2>2. o \in DOMAIN heap' /\ DOMAIN heap[o] \subseteq DOMAIN heap'[o] /\ Agree(heap'[o], heap[o], t)
    BY <2>1 DEF Steady
  <2>3. /\ 0..t \subseteq DOMAIN heap[o] /\ 0..t \subseteq DOMAIN yielded[t][i].source
        /\ Agree(heap[o], yielded[t][i].source, t)
    BY <1>1 DEF SentOK
  <2>4. Agree(heap'[o], yielded[t][i].source, t)
    BY <2>2, <2>3 DEF Agree
  <2> QED
    BY <2>1, <2>2, <2>3, <2>4
<1>6. ASSUME NEW i \in DOMAIN yielded'[t] \ DOMAIN yielded[t]
      PROVE  LET o == yielded'[t][i].object
                 f == yielded'[t][i].source
             IN  /\ o \in DOMAIN heap' /\ 0..t \subseteq DOMAIN heap'[o] /\ 0..t \subseteq DOMAIN f
                 /\ o \in Range(objects) /\ Agree(heap'[o], f, t)
                 /\ i - n \in DOMAIN objects /\ o = objects[i - n]
  <2>1. /\ i - n \in DOMAIN objects /\ yielded'[t][i].object = objects[i - n]
        /\ yielded'[t][i].source = heap'[objects[i - n]]
    BY <1>3
  <2>2. objects[i - n] \in Range(objects)
    BY <2>1 DEF Range
  <2>3. Agree(heap'[objects[i - n]], heap'[objects[i - n]], t)
    BY DEF Agree
  <2> QED
    BY <2>1, <2>2, <2>3
<1>7. ASSUME NEW i \in DOMAIN yielded'[t], NEW k \in DOMAIN yielded'[t], i # k
      PROVE  LET o == yielded'[t][i].object
                 p == yielded'[t][k].object
             IN  o # p /\ ~Agree(heap'[o], heap'[p], t)
  <2> DEFINE o == yielded'[t][i].object
             p == yielded'[t][k].object
  <2>1. CASE i \in DOMAIN yielded[t] /\ k \in DOMAIN yielded[t]
    <3>1. /\ o = yielded[t][i].object /\ p = yielded[t][k].object
          /\ Agree(heap'[o], heap[o], t) /\ Agree(heap'[p], heap[p], t)
      BY <1>5, <2>1
    <3>2. o # p /\ ~Agree(heap[o], heap[p], t)
      BY <1>1, <1>7, <2>1, <3>1 DEF SentOK
    <3> QED
      BY <3>1, <3>2 DEF Agree
  <2>2. CASE i \in DOMAIN yielded[t] /\ k \notin DOMAIN yielded[t]
    <3>1. o \in Sent(t) /\ p \in Range(objects)
      BY <1>5, <1>6, <2>2
    <3> QED
      BY <3>1
  <2>3. CASE i \notin DOMAIN yielded[t] /\ k \in DOMAIN yielded[t]
    <3>1. p \in Sent(t) /\ o \in Range(objects)
      BY <1>5, <1>6, <2>3
    <3>2. p # o /\ ~Agree(heap'[p], heap'[o], t)
      BY <3>1
    <3> QED
      BY <3>2 DEF Agree
  <2>4. CASE i \notin DOMAIN yielded[t] /\ k \notin DOMAIN yielded[t]
    <3>1. i - n \in DOMAIN objects /\ k - n \in DOMAIN objects /\ o = objects[i - n] /\ p = objects[k - n]
      BY <1>6, <2>4
    <3>2. i - n # k - n
      BY <1>4, <1>7
    <3> QED
      BY <3>1, <3>2
  <2> QED
    BY <2>1, <2>2, <2>3, <2>4
<1>8. Pending(t)' \subseteq Sent(t)' /\ (chan'[t].is = "batch" => Distinct(chan[t].objects)')
  <2>1. CASE objects = <<>>
    <3>1. chan'[t] = Asked
      BY <2>1 DEF Yield
    <3> QED
      BY <3>1, BatchIs DEF Pending
  <2>2. CASE objects # <<>>
    <3>1. chan'[t].is = "batch" /\ chan'[t].objects = objects
      BY <2>2, BatchIs DEF Yield
    <3> QED
      BY <3>1, <1>3 DEF Pending, Distinct
  <2> QED
    BY <2>1, <2>2
<1>9. \A i \in DOMAIN yielded'[t] :
        LET o == yielded'[t][i].object
            f == yielded'[t][i].source
        IN  /\ o \in DOMAIN heap' /\ 0..t \subseteq DOMAIN heap'[o] /\ 0..t \subseteq DOMAIN f
            /\ Agree(heap'[o], f, t)
  BY <1>5, <1>6
<1> QED
  BY <1>1, <1>7, <1>8, <1>9 DEF SentOK

LEMMA SentsStep ==
  ASSUME IInv, NEW j \in Join, NEW parents, NEW children, NEW M, NEW out,
         Step(j, parents, children, M, out), NEW t \in Table
  PROVE  SentOK(t)'
<1>1. /\ heap' \in Seq(Source) /\ j \in Table /\ j - 1 \in Table /\ Steady(j) /\ j # j - 1
      /\ out \in Seq(Nat) /\ yielded \in [Table -> Seq(Record)] /\ DOMAIN chan = Table
      /\ yielded' = Yielded(j, out, heap')
      /\ chan' = [chan EXCEPT ![j - 1] = chan'[j - 1], ![j] = Yield(Asked, out)]
      /\ chan'[j - 1] = chan[j - 1] \/ chan'[j - 1] \in {Rest, Asked}
  BY JoinIs, HeapStep, SteadyStep DEF Step, Takes, Did, IInv, Types
<1>2. \A i \in DOMAIN out : out[i] \in DOMAIN heap' /\ heap'[out[i]] \in Source
  BY HeapStep
<1>3. CASE t = j
  <2>1. chan'[t] = Yield(Asked, out)
    BY <1>1, <1>3
  <2>2. \A i \in DOMAIN out : 0..j \subseteq DOMAIN heap'[out[i]]
    <3>1. \A i \in DOMAIN out : out[i] \in Range(out)
      BY DEF Range
    <3>2. \A o \in Range(out) : 0..j \subseteq DOMAIN heap'[o]
      BY OutIs
    <3> QED
      BY <3>1, <3>2
  <2>3. \A i, k \in DOMAIN out : i # k =>
          out[i] # out[k] /\ ~Agree(heap'[out[i]], heap'[out[k]], j)
    BY DEF Step, Did, Joined, OutOnce, After
  <2>4. \A o \in Sent(j), x \in Range(out) : o # x /\ ~Agree(heap'[o], heap'[x], j)
    BY OutNew
  <2> QED
    BY <1>1, <1>2, <1>3, <2>1, <2>2, <2>3, <2>4, SentGrows
<1>4. CASE t # j
  <2>1. yielded'[t] = yielded[t]
    BY <1>1, <1>2, <1>4, YieldIs
  <2>2. Pending(t)' \subseteq Pending(t)
    BY <1>4, PendingStep
  <2>3. chan'[t] = chan[t] \/ chan'[t].is # "batch"
    BY <1>1, <1>4, BatchIs
  <2> QED
    BY <1>1, <2>1, <2>2, <2>3, SentKept
<1> QED
  BY <1>3, <1>4

-----------------------------------------------------------------------------
(* What was passed, kept and read *)

LEMMA PassedStep ==
  ASSUME IInv, NEW j \in Join, NEW parents, NEW children, NEW M, NEW out,
         Step(j, parents, children, M, out)
  PROVE  Passed'
<1> SUFFICES ASSUME NEW t \in Table, NEW u \in Table, NEW v \in (u + 1)..t,
                    NEW o \in Sent(u)' \cap Sent(t)'
             PROVE  o \in Arrived(v)'
  BY DEF Passed
<1>1. /\ Takes(j, parents, children) /\ Passed /\ j \in Nat /\ j - 1 \in Table
      /\ Sent(j)' = Sent(j) \cup Range(out)
      /\ \A i \in Table : i # j => Sent(i)' = Sent(i)
  BY JoinIs, SentStep DEF Step, IInv
<1>2. u \in Nat /\ t \in Nat /\ v \in Join /\ u < v /\ v <= t
  BY ConstantsAssumption DEF Table, Join
<1>3. Arrived(v) \subseteq Arrived(v)'
  BY <1>2, ArrivedStep
<1>4. CASE o \in Sent(u) \cap Sent(t)
  BY <1>1, <1>3, <1>4 DEF Passed
<1>5. CASE o \notin Sent(u)
  <2>1. u = j /\ o \in Range(out) /\ t # j
    BY <1>1, <1>2, <1>5
  <2>2. o \in Sent(t) /\ t >= j
    BY <1>1, <1>2, <2>1
  <2> QED
    BY <2>1, <2>2, OutNotSent
<1>6. CASE o \notin Sent(t)
  <2>1. t = j /\ o \in Range(out) /\ u # j
    BY <1>1, <1>2, <1>6
  <2>2. o \in Sent(u) /\ o \in DOMAIN heap
    BY <1>1, <2>1, SentIs
  <2>3. o \in Range(All(j, parents)) /\ o \in Sent(j - 1)
    <3>1. PICK p \in Range(All(j, parents)) : p \in Sent(j - 1) /\ (o \notin DOMAIN heap \/ o = p)
      BY <2>1, OutDomain
    <3> QED
      BY <2>2, <3>1
  <2>4. CASE v = j
    <3>1. Range(All(j, parents)) \subseteq Arrived(j) \cup Range(parents)
      <4>1. /\ Range(All(j, parents)) = Range(parentRows[j]) \cup Range(parents)
            /\ Range(parentRows[j]) \subseteq Arrived(j)
        BY <1>1, ParentsAre
      <4> QED
        BY <4>1
    <3> QED
      BY <2>3, <2>4, <3>1, ArrivedStep
  <2>5. CASE v # j
    <3>1. v \in (u + 1)..(j - 1)
      BY <1>1, <1>2, <2>1, <2>5
    <3> QED
      BY <1>1, <1>3, <2>2, <2>3, <3>1 DEF Passed
  <2> QED
    BY <2>4, <2>5
<1> QED
  BY <1>4, <1>5, <1>6

LEMMA ChildrenSame ==
  ASSUME ChildrenKept, query' = query,
         \A i \in Join : childRows'[i] = childRows[i] /\ read'[i] = read[i]
  PROVE  ChildrenKept'
<1> SUFFICES ASSUME NEW i \in Join
             PROVE  Distinct(childRows[i])' /\ Range(childRows[i])' = RowsTo(i, read[i])'
  BY DEF ChildrenKept
<1>1. RowsTo(i, read[i])' = RowsTo(i, read[i])
  BY QuerySame
<1>2. Distinct(childRows[i])' /\ Range(childRows[i])' = Range(childRows[i])
  BY DEF ChildrenKept, Distinct, Range
<1> QED
  BY <1>1, <1>2 DEF ChildrenKept

LEMMA ChildrenStep ==
  ASSUME IInv, NEW j \in Join, NEW parents, NEW children, NEW M, NEW out,
         Step(j, parents, children, M, out)
  PROVE  ChildrenKept'
<1> SUFFICES ASSUME NEW i \in Join
             PROVE  Distinct(childRows[i])' /\ Range(childRows[i])' = RowsTo(i, read[i])'
  BY DEF ChildrenKept
<1>1. /\ Takes(j, parents, children) /\ query' = query /\ DOMAIN childRows = Join
      /\ childRows' = [childRows EXCEPT ![j] = @ \o children] /\ ChildrenKept
  BY DEF Step, Takes, Did, IInv, Types
<1>2. CASE i # j
  <2>1. childRows'[i] = childRows[i] /\ read'[i] = read[i]
    BY <1>2, QuietStep DEF Quiet
  <2>2. RowsTo(i, read[i])' = RowsTo(i, read[i])
    BY <1>1, <2>1, QuerySame
  <2>3. Distinct(childRows[i])' /\ Range(childRows[i])' = Range(childRows[i])
    <3>1. Distinct(childRows[i])
      BY <1>1 DEF ChildrenKept
    <3> QED
      BY ONLY <2>1, <3>1 DEF Distinct, Range
  <2> QED
    BY <1>1, <2>2, <2>3 DEF ChildrenKept
<1>3. CASE i = j
  <2>1. childRows'[j] = childRows[j] \o children
    BY <1>1
  <2>2. /\ childRows[j] \in Seq(Child) /\ Distinct(childRows[j])
        /\ children \in Seq(Child) /\ Distinct(children)
        /\ Range(childRows[j]) \cap Range(children) = {}
        /\ Range(childRows[j]) = RowsTo(j, read[j])
    BY <1>1, ChildrenAre
  <2>3. /\ Distinct(childRows[j] \o children)
        /\ Range(childRows[j] \o children) = Range(childRows[j]) \cup Range(children)
    BY <2>2, Concatenated
  <2>4. Distinct(childRows[j])' /\ Range(childRows[j])' = RowsTo(j, read[j]) \cup Range(children)
    <3>1. Distinct(childRows[j])'
      BY ONLY <2>1, <2>3 DEF Distinct
    <3>2. Range(childRows[j])' = Range(childRows[j] \o children)
      BY ONLY <2>1 DEF Range
    <3> QED
      BY <2>2, <2>3, <3>1, <3>2
  <2>5. RowsTo(j, read[j])' = RowsTo(j, read[j]) \cup Range(children)
    BY <1>1, RowsStep
  <2> QED
    BY <1>3, <2>4, <2>5
<1> QED
  BY <1>2, <1>3

LEMMA FirstKept ==
  ASSUME IInv, NEW j \in Table, Steady(j), query' = query, Sent(0)' = Sent(0), read'[0] = read[0]
  PROVE  FirstTable'
<1>1. 0 \in Table /\ FirstTable
  BY ConstantsAssumption DEF Table, IInv
<1>2. RowsTo(0, read[0])' = RowsTo(0, read[0])
  BY QuerySame
<1>3. \A o \in Sent(0) : heap'[o][0] = heap[o][0]
  BY <1>1 DEF Steady, Agree
<1> QED
  BY <1>1, <1>2, <1>3 DEF FirstTable

-----------------------------------------------------------------------------
(* The types, and who waits for whom *)

LEMMA TypesKept ==
  ASSUME Types, query' = query, heap' \in Seq(Source), Len(heap) <= Len(heap'),
         DOMAIN chan' = Table,
         \A t \in Table : \/ chan'[t] \in {chan[t], Rest, Asked, End}
                          \/ \E objects \in Seq(Nat) :
                               /\ objects # <<>> /\ chan'[t] = Batch(objects)
                               /\ \A i \in DOMAIN objects : objects[i] \in DOMAIN heap',
         read' = read \/ \E t \in Table : HasPage(t) /\ read' = [read EXCEPT ![t] = @ + 1],
         pc' \in [Join -> {"new", "first", "opened", "race"}],
         parentRows' \in [Join -> Seq(Nat)], childRows' \in [Join -> Seq(Row)],
         aDone' \subseteq Join, bDone' \subseteq Join, yielded' \in [Table -> Seq(Record)]
  PROVE  Types'
<1>1. DOMAIN heap' = Object' /\ Object \subseteq Object'
  BY DEF Types, Object
<1>2. ASSUME NEW t \in Table
      PROVE  \/ chan'[t] \in {Rest, Asked, End}
             \/ \E objects \in Seq(Object') \ {<<>>} : chan'[t] = Batch(objects)
  <2>1. CASE chan'[t] = chan[t]
    <3>1. CASE chan[t] \in {Rest, Asked, End}
      BY <2>1, <3>1
    <3>2. ASSUME NEW objects \in Seq(Object), objects # <<>>, chan[t] = Batch(objects)
          PROVE  \E objs \in Seq(Object') \ {<<>>} : chan'[t] = Batch(objs)
      <4> DEFINE S == Object
                 T == Object'
      <4>1. objects \in Seq(S) /\ S \subseteq T
        BY <1>1
      <4> HIDE DEF S, T
      <4>2. objects \in Seq(T)
        BY <4>1, SeqSubset
      <4> QED
        BY <2>1, <3>2, <4>2 DEF T
    <3> QED
      BY <3>1, <3>2 DEF Types
  <2>2. ASSUME NEW objects \in Seq(Nat), objects # <<>>, chan'[t] = Batch(objects),
               \A i \in DOMAIN objects : objects[i] \in DOMAIN heap'
        PROVE  \E objs \in Seq(Object') \ {<<>>} : chan'[t] = Batch(objs)
    <3> DEFINE T == Object'
    <3>1. \A i \in DOMAIN objects : objects[i] \in T
      BY <1>1, <2>2
    <3> HIDE DEF T
    <3>2. objects \in Seq(T)
      BY <2>2, <3>1, SeqOf
    <3> QED
      BY <2>2, <3>2 DEF T
  <2> QED
    BY <2>1, <2>2
<1>3. read' \in [Table -> Nat] /\ \A t \in Table : read'[t] <= Len(query.pages[t])
  <2>1. read \in [Table -> Nat] /\ \A t \in Table : read[t] <= Len(query.pages[t])
    BY DEF Types
  <2>2. ASSUME NEW t \in Table, HasPage(t), read' = [read EXCEPT ![t] = @ + 1]
        PROVE  read' \in [Table -> Nat] /\ \A u \in Table : read'[u] <= Len(query.pages[u])
    <3>1. Len(query.pages[t]) \in Nat
      <4>1. query.pages[t] \in Seq(Seq(Nat))
        BY QueryIs
      <4> QED
        BY <4>1
    <3>2. read'[t] = read[t] + 1 /\ read[t] < Len(query.pages[t])
      BY <2>1, <2>2 DEF HasPage
    <3>3. read'[t] <= Len(query.pages[t])
      BY <2>1, <3>1, <3>2
    <3> QED
      BY <2>1, <2>2, <3>3
  <2> QED
    BY <2>1, <2>2
<1>4. /\ query' \in [joins : Plans, pages : [Table -> UNION {Pages[t] : t \in Table}]]
      /\ \A t \in Table : query'.pages[t] \in Pages[t]
  BY DEF Types
<1> QED
  BY <1>2, <1>3, <1>4 DEF Types

LEMMA TypesStep ==
  ASSUME IInv, NEW j \in Join, NEW parents, NEW children, NEW M, NEW out,
         Step(j, parents, children, M, out),
         pc' \in [Join -> {"new", "first", "opened", "race"}], aDone' \subseteq Join
  PROVE  Types'
<1>1. /\ Takes(j, parents, children) /\ Types /\ query' = query
      /\ j \in Table /\ j - 1 \in Table /\ j # j - 1
      /\ parentRows \in [Join -> Seq(Nat)] /\ childRows \in [Join -> Seq(Row)]
      /\ DOMAIN chan = Table /\ bDone \subseteq Join /\ yielded \in [Table -> Seq(Record)]
      /\ bDone' \subseteq bDone \cup {j}
      /\ chan' = [chan EXCEPT ![j - 1] = chan'[j - 1], ![j] = Yield(Asked, out)]
      /\ yielded' = Yielded(j, out, heap')
  BY JoinIs DEF Step, Takes, Did, IInv, Types
<1>2. heap' \in Seq(Source) /\ Len(heap) <= Len(heap') /\ out \in Seq(Nat)
      /\ \A i \in DOMAIN out : out[i] \in DOMAIN heap' /\ heap'[out[i]] \in Source
  <2>1. Len(heap) <= Len(heap')
    BY DEF Step, Did, Joined, After
  <2> QED
    BY <2>1, HeapStep
<1>3. DOMAIN chan' = Table
  BY <1>1
<1>4. ASSUME NEW t \in Table
      PROVE  \/ chan'[t] \in {chan[t], Rest, Asked, End}
             \/ \E objects \in Seq(Nat) :
                  /\ objects # <<>> /\ chan'[t] = Batch(objects)
                  /\ \A i \in DOMAIN objects : objects[i] \in DOMAIN heap'
  <2>1. CASE t = j
    <3>1. chan'[t] = IF out = <<>> THEN Asked ELSE Batch(out)
      BY <1>1, <2>1 DEF Yield
    <3> QED
      BY <1>2, <3>1
  <2>2. CASE t = j - 1
    BY <2>2 DEF Step, Takes
  <2>3. CASE t # j /\ t # j - 1
    BY <1>1, <2>3
  <2> QED
    BY <2>1, <2>2, <2>3
<1>5. read' = read \/ \E t \in Table : HasPage(t) /\ read' = [read EXCEPT ![t] = @ + 1]
  BY <1>1 DEF Takes
<1>6. parentRows' \in [Join -> Seq(Nat)]
  <2>1. All(j, parents) \in Seq(Nat)
    <3>1. parentRows[j] \in Seq(Nat) /\ parents \in Seq(Nat)
      BY <1>1, ParentsAre
    <3> QED
      BY <3>1 DEF All
  <2>2. parentRows' = [parentRows EXCEPT ![j] = IF Last(j) THEN <<>> ELSE All(j, parents)]
    BY DEF Step, Did
  <2>3. <<>> \in Seq(Nat)
    OBVIOUS
  <2> QED
    BY <1>1, <2>1, <2>2, <2>3
<1>7. childRows' \in [Join -> Seq(Row)]
  <2>1. childRows[j] \o children \in Seq(Row)
    <3>1. childRows[j] \in Seq(Child) /\ children \in Seq(Child) /\ Child \subseteq Row
      BY <1>1, ChildrenAre DEF Child
    <3>2. childRows[j] \in Seq(Row) /\ children \in Seq(Row)
      BY <3>1, SeqSubset
    <3> QED
      BY <3>2
  <2>2. childRows' = [childRows EXCEPT ![j] = @ \o children]
    BY DEF Step, Did
  <2> QED
    BY <1>1, <2>1, <2>2
<1>8. yielded' \in [Table -> Seq(Record)]
  BY <1>1, <1>2, YieldIs
<1>9. bDone' \subseteq Join
  BY <1>1
<1> QED
  BY <1>1, <1>2, <1>3, <1>4, <1>5, <1>6, <1>7, <1>8, <1>9, TypesKept

LEMMA ControlStep ==
  ASSUME IInv, NEW j \in Join, NEW parents, NEW children, NEW M, NEW out,
         Step(j, parents, children, M, out),
         \A i \in Join : i # j => pc'[i] = pc[i] /\ (i \in aDone' <=> i \in aDone),
         pc'[j] \in {"opened", "race"}, pc'[j] = "opened" => j \in aDone' \/ chan'[j - 1] = Rest,
         j \in aDone' => chan'[j - 1] = End
  PROVE  Control'
<1>1. /\ Types /\ Takes(j, parents, children) /\ query' = query /\ Control
      /\ j \in Table /\ j - 1 \in Table /\ j # j - 1 /\ j # 0 /\ 0 \in Table
      /\ DOMAIN chan = Table /\ read \in [Table -> Nat]
      /\ chan[j] = Asked
      /\ chan' = [chan EXCEPT ![j - 1] = chan'[j - 1], ![j] = Yield(Asked, out)]
      /\ \/ chan'[j - 1] = chan[j - 1]
         \/ chan[j - 1] = Batch(parents) /\ chan'[j - 1] \in {Rest, Asked}
  <2>1. 0 \in Table
    BY ConstantsAssumption DEF Table
  <2> QED
    BY <2>1, JoinIs DEF Step, Takes, Did, IInv, Types
<1>2. /\ chan'[j] # End
      /\ \A t \in Table : t # j /\ t # j - 1 => chan'[t] = chan[t]
  <2>1. chan'[j] = Yield(Asked, out)
    BY <1>1
  <2>2. chan'[j] # End
    BY <2>1, BatchIs DEF Yield
  <2> QED
    BY <1>1, <2>2
<1>3. chan'[j - 1] = End => chan[j - 1] = End
  BY <1>1, BatchIs
<1>4. \A t \in Table : t # j => (HasPage(t)' <=> HasPage(t))
  BY <1>1 DEF HasPage, Takes
<1>5. chan'[0] = End => ~HasPage(0)'
  BY <1>1, <1>2, <1>3, <1>4 DEF Control
<1>6. Waits(j)'
  <2>1. j \in bDone' => ~HasPage(j)'
    <3>1. CASE read' = read
      BY <1>1, <3>1 DEF HasPage, Takes
    <3>2. CASE HasPage(j)
      BY <1>1, <3>2 DEF Takes
    <3> QED
      BY <1>1, <3>1, <3>2 DEF Takes
  <2>2. (pc[j])' \in {"opened", "race"}
    OBVIOUS
  <2> QED
    BY <1>2, <2>1, <2>2 DEF Waits
<1>7. ASSUME NEW i \in Join, i # j PROVE Waits(i)'
  <2>1. /\ Waits(i) /\ i \in Table /\ i - 1 \in Table /\ i - 1 # j - 1
        /\ pc'[i] = pc[i] /\ (i \in aDone' <=> i \in aDone) /\ (i \in bDone' <=> i \in bDone)
        /\ (HasPage(i)' <=> HasPage(i))
    <3>1. i \in Table /\ i - 1 \in Table /\ i - 1 # j - 1
      BY <1>7, JoinIs
    <3>2. i \in bDone' <=> i \in bDone
      BY <1>1, <1>7 DEF Takes
    <3> QED
      BY <1>1, <1>4, <1>7, <3>1, <3>2 DEF Control
  <2>2. CASE i - 1 = j
    <3>1. pc[i] # "new" /\ pc[i] # "opened" /\ i \notin aDone
      BY <1>1, <2>1, <2>2, BatchIs DEF Waits
    <3>2. i # j - 1
      BY <2>2, JoinIs
    <3>3. chan'[i] = chan[i]
      BY <1>2, <1>7, <2>1, <3>2
    <3> QED
      BY <2>1, <3>1, <3>3 DEF Waits
  <2>3. CASE i = j - 1
    <3>1. i - 1 # j
      BY <2>3, JoinIs
    <3>2. chan'[i - 1] = chan[i - 1]
      BY <1>2, <2>1, <3>1
    <3>3. chan[i] = Asked => chan'[i] = Asked
      BY <1>1, <2>3, BatchIs
    <3> QED
      BY <1>3, <2>1, <2>3, <3>2, <3>3 DEF Waits
  <2>4. CASE i - 1 # j /\ i # j - 1
    <3>1. chan'[i] = chan[i] /\ chan'[i - 1] = chan[i - 1]
      BY <1>2, <1>7, <2>1, <2>4
    <3> QED
      BY <2>1, <3>1 DEF Waits
  <2> QED
    BY <2>2, <2>3, <2>4
<1> QED
  BY <1>5, <1>6, <1>7 DEF Control

-----------------------------------------------------------------------------
(* The actions of a join that call the callback *)

LEMMA CallbackSends ==
  ASSUME Types, NEW j \in Join, NEW parents, NEW children, NEW up, Callback(j, parents, children, up)
  PROVE  chan'[j - 1] = up
<1>1. DOMAIN chan = Table /\ j - 1 \in Table /\ j # j - 1
  BY JoinIs DEF Types
<1>2. PICK out : chan' = [chan EXCEPT ![j - 1] = up, ![j] = Yield(@, out)]
  BY DEF Callback
<1> QED
  BY <1>1, <1>2

LEMMA ChanIs ==
  ASSUME Types, NEW t \in Table
  PROVE  /\ chan[t].is = "batch" <=> chan[t] \notin {Rest, Asked, End}
         /\ chan[t].is = "batch" => chan[t] = Batch(chan[t].objects)
<1>1. CASE chan[t] \in {Rest, Asked, End}
  BY <1>1, BatchIs
<1>2. ASSUME NEW objects, chan[t] = Batch(objects)
      PROVE  /\ chan[t].is = "batch" /\ chan[t].objects = objects
             /\ chan[t] \notin {Rest, Asked, End}
  BY <1>2, BatchIs
<1> QED
  BY <1>1, <1>2 DEF Types

\* A step that calls the callback keeps the invariant.
LEMMA CallbackKeeps ==
  ASSUME IInv, NEW j \in Join, NEW parents, NEW children, Takes(j, parents, children), NEW up,
         Callback(j, parents, children, up),
         pc' = pc \/ pc' = [pc EXCEPT ![j] = "opened"], pc'[j] \in {"opened", "race"},
         aDone \subseteq aDone', aDone' \subseteq aDone \cup {j},
         pc'[j] = "opened" => j \in aDone' \/ up = Rest, j \in aDone' => up = End
  PROVE  IInv'
<1>1. PICK M, out : Did(j, parents, children, M, out)
  BY DoneIs
<1>2. Step(j, parents, children, M, out) /\ Types
  BY <1>1 DEF Step, IInv
<1>3. chan'[j - 1] = up
  BY <1>2, CallbackSends
<1>4. pc \in [Join -> {"new", "first", "opened", "race"}] /\ aDone \subseteq Join
  BY <1>2 DEF Types
<1>5. Types'
  <2>1. pc' \in [Join -> {"new", "first", "opened", "race"}] /\ aDone' \subseteq Join
    BY <1>4
  <2> QED
    BY <1>2, <2>1, TypesStep
<1>6. Control'
  <2>1. \A i \in Join : i # j => pc'[i] = pc[i] /\ (i \in aDone' <=> i \in aDone)
    BY <1>4
  <2> QED
    BY <1>2, <1>3, <2>1, ControlStep
<1>7. ChildrenKept' /\ Passed'
  BY <1>2, ChildrenStep, PassedStep
<1>8. \A t \in Table : SentOK(t)'
  BY <1>2, SentsStep
<1>9. FirstTable'
  <2>1. j \in Table /\ 0 \in Table /\ 0 # j
    BY ConstantsAssumption, JoinIs DEF Table
  <2>2. Steady(j) /\ query' = query /\ Sent(0)' = Sent(0)
    BY <1>2, <2>1, QuietStep DEF Quiet
  <2>3. read'[0] = read[0]
    BY <1>2, <2>1 DEF Takes, Types
  <2> QED
    BY <2>1, <2>2, <2>3, FirstKept
<1>10. \A i \in Join : JoinOK(i)'
  BY <1>2, JoinsStep
<1> QED
  BY <1>5, <1>6, <1>7, <1>8, <1>9, <1>10 DEF IInv

LEMMA FirstKeeps ==
  ASSUME IInv, NEW j \in Join, First(j)
  PROVE  IInv'
<1> DEFINE parents  == IF chan[j - 1] = End THEN <<>> ELSE chan[j - 1].objects
           children == IF HasPage(j) THEN PageOf(j, read[j] + 1) ELSE <<>>
           up       == IF chan[j - 1] = End THEN End ELSE Rest
<1>1. /\ Types /\ Waits(j) /\ j - 1 \in Table /\ pc[j] = "first" /\ chan[j] = Asked
      /\ chan[j - 1] \notin {Rest, Asked} /\ query' = query
      /\ pc' = [pc EXCEPT ![j] = "opened"]
      /\ aDone' = IF chan[j - 1] = End THEN aDone \cup {j} ELSE aDone
      /\ bDone' = IF HasPage(j) THEN bDone ELSE bDone \cup {j}
      /\ read' = [read EXCEPT ![j] = IF HasPage(j) THEN @ + 1 ELSE @]
      /\ Callback(j, parents, children, up)
  BY JoinIs DEF First, IInv, Control, Waits
<1>2. chan'[j - 1] = up /\ (chan[j - 1] # End => chan[j - 1] = Batch(parents))
  <2> HIDE DEF children, up
  <2>1. chan'[j - 1] = up
    BY <1>1, CallbackSends
  <2>2. chan[j - 1] # End => chan[j - 1] = Batch(chan[j - 1].objects)
    BY <1>1, ChanIs
  <2> QED
    BY <2>1, <2>2
<1>3. j \notin bDone \/ ~HasPage(j)
  BY <1>1 DEF Waits
<1>4. Takes(j, parents, children)
  <2>1. \/ parents = <<>> /\ chan'[j - 1] = chan[j - 1]
        \/ chan[j - 1] = Batch(parents) /\ chan'[j - 1] \in {Rest, Asked}
    BY <1>2
  <2>2. \/ children = <<>> /\ read' = read
        \/ /\ HasPage(j) /\ children = PageOf(j, read[j] + 1)
           /\ read' = [read EXCEPT ![j] = @ + 1]
    BY <1>1 DEF Types
  <2>3. bDone \subseteq bDone' /\ bDone' \subseteq bDone \cup {j} /\ (j \in bDone' => ~HasPage(j))
    BY <1>1, <1>3
  <2> HIDE DEF parents, children, up
  <2> QED
    BY <1>1, <2>1, <2>2, <2>3 DEF Takes
<1>5. pc'[j] = "opened"
  BY <1>1 DEF Types
<1>6. /\ aDone \subseteq aDone' /\ aDone' \subseteq aDone \cup {j}
      /\ j \in aDone' \/ up = Rest
      /\ j \in aDone' => up = End
  BY <1>1 DEF Waits
<1> HIDE DEF parents, children, up
<1> QED
  BY <1>1, <1>4, <1>5, <1>6, CallbackKeeps

LEMMA RaceKeeps ==
  ASSUME IInv, NEW j \in Join, TakeA(j) \/ TakeB(j) \/ DoneA(j) \/ DoneB(j)
  PROVE  IInv'
<1>1. /\ Types /\ Waits(j) /\ j - 1 \in Table /\ pc[j] = "race" /\ chan[j] = Asked
      /\ query' = query /\ pc' = pc
  BY JoinIs DEF TakeA, TakeB, DoneA, DoneB, Racing, IInv, Control
<1>2. CASE TakeA(j)
  <2>1. Callback(j, chan[j - 1].objects, <<>>, Asked) /\ read' = read /\ aDone' = aDone /\ bDone' = bDone
        /\ chan[j - 1].is = "batch"
    BY <1>2 DEF TakeA
  <2>2. chan[j - 1] = Batch(chan[j - 1].objects) /\ chan'[j - 1] = Asked /\ chan[j - 1] # End
    BY <1>1, <2>1, ChanIs, CallbackSends
  <2>3. Takes(j, chan[j - 1].objects, <<>>)
    BY <1>1, <2>1, <2>2 DEF Takes, Waits
  <2>4. j \notin aDone
    BY <1>1, <2>2 DEF Waits
  <2> QED
    BY <1>1, <2>1, <2>3, <2>4, CallbackKeeps
<1>3. CASE TakeB(j)
  <2>1. /\ Callback(j, <<>>, PageOf(j, read[j] + 1), chan[j - 1]) /\ aDone' = aDone /\ bDone' = bDone
        /\ HasPage(j) /\ j \notin bDone /\ read' = [read EXCEPT ![j] = @ + 1]
    BY <1>3 DEF TakeB
  <2>2. chan'[j - 1] = chan[j - 1]
    BY <1>1, <2>1, CallbackSends
  <2>3. Takes(j, <<>>, PageOf(j, read[j] + 1))
    BY <1>1, <2>1, <2>2 DEF Takes
  <2>4. j \in aDone => chan[j - 1] = End
    BY <1>1 DEF Waits
  <2> QED
    BY <1>1, <2>1, <2>3, <2>4, CallbackKeeps
<1>4. CASE DoneA(j)
  <2>1. /\ Callback(j, <<>>, <<>>, End) /\ aDone' = aDone \cup {j} /\ bDone' = bDone
        /\ chan[j - 1] = End /\ read' = read
    BY <1>4 DEF DoneA
  <2>2. chan'[j - 1] = End
    BY <1>1, <2>1, CallbackSends
  <2>3. Takes(j, <<>>, <<>>)
    BY <1>1, <2>1, <2>2 DEF Takes, Waits
  <2> QED
    BY <1>1, <2>1, <2>3, CallbackKeeps
<1>5. CASE DoneB(j)
  <2>1. /\ Callback(j, <<>>, <<>>, chan[j - 1]) /\ aDone' = aDone /\ bDone' = bDone \cup {j}
        /\ ~HasPage(j) /\ read' = read
    BY <1>5 DEF DoneB
  <2>2. chan'[j - 1] = chan[j - 1]
    BY <1>1, <2>1, CallbackSends
  <2>3. Takes(j, <<>>, <<>>)
    BY <1>1, <2>1, <2>2 DEF Takes
  <2>4. j \in aDone => chan[j - 1] = End
    BY <1>1 DEF Waits
  <2> QED
    BY <1>1, <2>1, <2>3, <2>4, CallbackKeeps
<1> QED
  BY <1>2, <1>3, <1>4, <1>5

-----------------------------------------------------------------------------
(* The actions that call no callback *)

\* Nothing that the joins keep changes; new rows of the first table have no marks.
LEMMA QuietKeeps ==
  ASSUME IInv, Quiet(0), \A o \in Sent(0)' \ Sent(0) : \A i \in Join : i \notin DOMAIN heap'[o],
         NEW i \in Join
  PROVE  JoinOK(i)'
<1>1. 0 \in Table /\ i # 0 /\ 0 \in 0..(i - 1)
  BY ConstantsAssumption DEF Table, Join
<1>2. ParentsKept(i)' /\ From(i)' /\ Whole(i)'
  BY <1>1, OthersKept
<1>3. ASSUME SafeAt(i), NEW o \in Sent(0)', i \in DOMAIN heap'[o]
      PROVE  o \in Arrived(i)
  <2>1. o \in Sent(0)
    BY <1>3
  <2>2. i \in DOMAIN heap[o]
    BY <1>1, <1>3, <2>1 DEF Quiet, Steady
  <2> QED
    BY <1>1, <1>3, <2>1, <2>2 DEF IInv, JoinOK, MarksOwn
<1>4. MarksOwn(i)'
  BY <1>1, <1>3, OthersMarks
<1> QED
  BY <1>2, <1>4 DEF JoinOK

LEMMA SameKeeps ==
  ASSUME IInv, UNCHANGED <<query, read, heap, parentRows, childRows, aDone, bDone, yielded>>,
         pc' \in [Join -> {"new", "first", "opened", "race"}], DOMAIN chan' = Table,
         \A t \in Table : chan'[t] \in {chan[t], Rest, Asked, End},
         \A t \in Table : t # N /\ chan'[t] # chan[t] => chan[t].is # "batch",
         Control'
  PROVE  IInv'
<1>1. /\ Types /\ 0 \in Table /\ query' = query /\ heap' = heap /\ yielded' = yielded
      /\ heap \in Seq(Source) /\ \A t \in Table : Sent(t)' = Sent(t)
  <2>1. 0 \in Table
    BY ConstantsAssumption DEF Table
  <2>2. \A t \in Table : Sent(t)' = Sent(t)
    BY DEF Sent
  <2> QED
    BY <2>1, <2>2 DEF IInv, Types
<1>2. Types'
  <2>1. /\ parentRows' \in [Join -> Seq(Nat)] /\ childRows' \in [Join -> Seq(Row)]
        /\ aDone' \subseteq Join /\ bDone' \subseteq Join /\ yielded' \in [Table -> Seq(Record)]
        /\ query' = query /\ heap' \in Seq(Source) /\ read' = read
    BY <1>1 DEF Types
  <2>2. Len(heap) <= Len(heap')
    BY <1>1
  <2> QED
    BY <1>1, <2>1, <2>2, TypesKept
<1>3. \A t \in Table : \/ chan'[t] = chan[t] /\ Pending(t)' = Pending(t)
                       \/ chan'[t].is # "batch" /\ Pending(t)' = {}
  BY BatchIs DEF Pending
<1>4. \A t \in Table : t # N => Pending(t)' = Pending(t)
  BY <1>3 DEF Pending
<1>5. Steady(0)
  <2> SUFFICES ASSUME NEW t \in Table, NEW o \in Sent(t)
               PROVE  o \in DOMAIN heap /\ heap[o] \in Source /\ Agree(heap[o], heap[o], t)
    BY DEF Steady
  <2> QED
    BY SentIs DEF Agree
<1>6. \A i \in Join : Arrived(i)' = Arrived(i)
  <2> TAKE i \in Join
  <2>1. i - 1 \in Table /\ i - 1 # N
    BY ConstantsAssumption DEF Table, Join
  <2> QED
    BY <1>1, <1>4, <2>1 DEF Arrived
<1>7. Quiet(0)
  BY <1>1, <1>5, <1>6 DEF Quiet
<1>8. \A i \in Join : JoinOK(i)'
  BY <1>1, <1>7, QuietKeeps
<1>9. \A t \in Table : SentOK(t)'
  <2> TAKE t \in Table
  <2>1. Pending(t)' \subseteq Pending(t) /\ (chan'[t] = chan[t] \/ chan'[t].is # "batch")
    BY <1>3
  <2>2. heap' \in Seq(Source) /\ yielded'[t] = yielded[t]
    BY <1>1
  <2> QED
    BY <1>1, <1>5, <2>1, <2>2, SentKept
<1>10. Passed'
  <2> SUFFICES ASSUME NEW t \in Table, NEW u \in Table, NEW v \in (u + 1)..t
               PROVE  Sent(u)' \cap Sent(t)' \subseteq Arrived(v)'
    BY DEF Passed
  <2>1. v \in Join
    BY ConstantsAssumption DEF Table, Join
  <2> QED
    BY <1>1, <1>6, <2>1 DEF IInv, Passed
<1>11. FirstTable'
  BY <1>1, <1>5, FirstKept
<1>12. ChildrenKept'
  BY ChildrenSame DEF IInv
<1> QED
  BY <1>2, <1>8, <1>9, <1>10, <1>11, <1>12 DEF IInv

LEMMA StutterKeeps ==
  ASSUME IInv, UNCHANGED vars
  PROVE  IInv'
<1>1. Types /\ Control
  BY DEF IInv
<1>2. Control'
  BY <1>1 DEF Control, Waits, HasPage, vars
<1>3. pc' \in [Join -> {"new", "first", "opened", "race"}] /\ DOMAIN chan' = Table
  BY <1>1 DEF Types, vars
<1> QED
  BY <1>2, <1>3, SameKeeps DEF vars

LEMMA OpenKeeps ==
  ASSUME IInv, NEW j \in Join, Open(j)
  PROVE  IInv'
<1>1. /\ Types /\ Control /\ Waits(j) /\ j \in Table /\ j - 1 \in Table /\ j - 1 # j
      /\ pc \in [Join -> {"new", "first", "opened", "race"}] /\ DOMAIN chan = Table
      /\ pc[j] = "new" /\ chan[j] = Asked /\ chan[j - 1] = Rest
      /\ pc' = [pc EXCEPT ![j] = "first"] /\ chan' = [chan EXCEPT ![j - 1] = Asked]
      /\ UNCHANGED <<query, read, heap, parentRows, childRows, aDone, bDone, yielded>>
  <2>1. Waits(j)
    BY DEF IInv, Control
  <2> QED
    BY <2>1, JoinIs DEF IInv, Types, Open, Waits
<1>2. \A t : HasPage(t)' <=> HasPage(t)
  BY <1>1 DEF HasPage
<1>3. Control'
  <2>1. chan'[0] = End => ~HasPage(0)'
    <3>1. 0 \in Table
      BY ConstantsAssumption DEF Table
    <3> QED
      BY <1>1, <1>2, <3>1, BatchIs DEF Control
  <2>2. ASSUME NEW i \in Join PROVE Waits(i)'
    <3>1. Waits(i) /\ i \in Table /\ i - 1 \in Table /\ (i - 1 = j - 1 <=> i = j) /\ i - 1 # i
      BY <1>1, JoinIs DEF Control
    <3>2. CASE i = j
      BY <1>1, <1>2, <3>1, <3>2, BatchIs DEF Waits
    <3>3. CASE i # j
      <4>1. pc'[i] = pc[i] /\ chan'[i - 1] = chan[i - 1]
        BY <1>1, <3>1, <3>3
      <4>2. chan'[i] = chan[i] \/ chan'[i] = Asked
        BY <1>1, <3>1
      <4> QED
        BY <1>1, <1>2, <3>1, <4>1, <4>2, BatchIs DEF Waits
    <3> QED
      BY <3>2, <3>3
  <2> QED
    BY <2>1, <2>2 DEF Control
<1>4. /\ pc' \in [Join -> {"new", "first", "opened", "race"}] /\ DOMAIN chan' = Table
      /\ \A t \in Table : chan'[t] \in {chan[t], Rest, Asked, End}
      /\ \A t \in Table : t # N /\ chan'[t] # chan[t] => chan[t].is # "batch"
  BY <1>1, BatchIs
<1> QED
  BY <1>1, <1>3, <1>4, SameKeeps

LEMMA PrefetchKeeps ==
  ASSUME IInv, NEW j \in Join, Prefetch(j)
  PROVE  IInv'
<1>1. /\ Types /\ Control /\ Waits(j) /\ j \in Table /\ j - 1 \in Table /\ j - 1 # j
      /\ pc \in [Join -> {"new", "first", "opened", "race"}] /\ DOMAIN chan = Table
      /\ pc[j] = "opened" /\ chan[j] = Asked /\ (j \in aDone \/ chan[j - 1] = Rest)
      /\ pc' = [pc EXCEPT ![j] = "race"]
      /\ chan' = [chan EXCEPT ![j - 1] = IF j \in aDone THEN chan[j - 1] ELSE Asked]
      /\ UNCHANGED <<query, read, heap, parentRows, childRows, aDone, bDone, yielded>>
  <2>1. Waits(j)
    BY DEF IInv, Control
  <2> QED
    BY <2>1, JoinIs DEF IInv, Types, Prefetch, Waits
<1>2. \A t : HasPage(t)' <=> HasPage(t)
  BY <1>1 DEF HasPage
<1>3. /\ \A t \in Table : t # j - 1 => chan'[t] = chan[t]
      /\ \/ chan'[j - 1] = chan[j - 1]
         \/ chan[j - 1] = Rest /\ chan'[j - 1] = Asked
  BY <1>1
<1>4. Control'
  <2>1. chan'[0] = End => ~HasPage(0)'
    <3>1. 0 \in Table
      BY ConstantsAssumption DEF Table
    <3> QED
      BY <1>1, <1>2, <1>3, <3>1, BatchIs DEF Control
  <2>2. ASSUME NEW i \in Join PROVE Waits(i)'
    <3>1. Waits(i) /\ i \in Table /\ i - 1 \in Table /\ (i - 1 = j - 1 <=> i = j) /\ i - 1 # i
      BY <1>1, JoinIs DEF Control
    <3>2. CASE i = j
      <4>1. pc'[j] = "race" /\ chan'[j] = chan[j] /\ (j \in aDone => chan'[j - 1] = chan[j - 1])
        BY <1>1
      <4> QED
        BY <1>1, <1>2, <3>2, <4>1, BatchIs DEF Waits
    <3>3. CASE i # j
      <4>1. pc'[i] = pc[i] /\ chan'[i - 1] = chan[i - 1]
        BY <1>1, <3>1, <3>3
      <4>2. chan'[i] = chan[i] \/ chan'[i] = Asked
        BY <1>3, <3>1
      <4> QED
        BY <1>1, <1>2, <3>1, <4>1, <4>2, BatchIs DEF Waits
    <3> QED
      BY <3>2, <3>3
  <2> QED
    BY <2>1, <2>2 DEF Control
<1>5. /\ pc' \in [Join -> {"new", "first", "opened", "race"}] /\ DOMAIN chan' = Table
      /\ \A t \in Table : chan'[t] \in {chan[t], Rest, Asked, End}
      /\ \A t \in Table : t # N /\ chan'[t] # chan[t] => chan[t].is # "batch"
  BY <1>1, <1>3, BatchIs
<1> QED
  BY <1>1, <1>4, <1>5, SameKeeps

LEMMA ReturnKeeps ==
  ASSUME IInv, NEW j \in Join, Return(j)
  PROVE  IInv'
<1>1. /\ Types /\ Control /\ j \in Table /\ j # 0 /\ j \in aDone /\ j \in bDone
      /\ pc \in [Join -> {"new", "first", "opened", "race"}] /\ DOMAIN chan = Table
      /\ pc[j] = "race" /\ chan[j] = Asked /\ pc' = pc /\ chan' = [chan EXCEPT ![j] = End]
      /\ UNCHANGED <<query, read, heap, parentRows, childRows, aDone, bDone, yielded>>
  BY JoinIs DEF IInv, Types, Return, Racing
<1>2. \A t : HasPage(t)' <=> HasPage(t)
  BY <1>1 DEF HasPage
<1>3. chan'[j] = End /\ \A t \in Table : t # j => chan'[t] = chan[t]
  BY <1>1
<1>4. Control'
  <2>1. chan'[0] = End => ~HasPage(0)'
    <3>1. 0 \in Table
      BY ConstantsAssumption DEF Table
    <3> QED
      BY <1>1, <1>2, <1>3, <3>1 DEF Control
  <2>2. ASSUME NEW i \in Join PROVE Waits(i)'
    <3>1. Waits(i) /\ i \in Table /\ i - 1 \in Table /\ i - 1 # i
      BY <1>1, JoinIs DEF Control
    <3>2. CASE i = j
      BY <1>1, <1>2, <1>3, <3>1, <3>2 DEF Waits
    <3>3. CASE i - 1 = j
      <4>1. pc[i] # "new" /\ pc[i] # "opened" /\ i \notin aDone
        BY <1>1, <3>1, <3>3, BatchIs DEF Waits
      <4>2. chan'[i] = chan[i]
        BY <1>3, <3>1, <3>3
      <4> QED
        BY <1>1, <1>2, <3>1, <4>1, <4>2 DEF Waits
    <3>4. CASE i # j /\ i - 1 # j
      <4>1. chan'[i] = chan[i] /\ chan'[i - 1] = chan[i - 1]
        BY <1>3, <3>1, <3>4
      <4> QED
        BY <1>1, <1>2, <3>1, <4>1 DEF Waits
    <3> QED
      BY <3>2, <3>3, <3>4
  <2> QED
    BY <2>1, <2>2 DEF Control
<1>5. /\ DOMAIN chan' = Table
      /\ \A t \in Table : chan'[t] \in {chan[t], Rest, Asked, End}
      /\ \A t \in Table : t # N /\ chan'[t] # chan[t] => chan[t].is # "batch"
  BY <1>1, BatchIs
<1> QED
  BY <1>1, <1>4, <1>5, SameKeeps

LEMMA DeliverKeeps ==
  ASSUME IInv, Deliver
  PROVE  IInv'
<1>1. /\ Types /\ Control /\ N \in Table /\ N # 0 /\ 0 \in Table
      /\ pc \in [Join -> {"new", "first", "opened", "race"}] /\ DOMAIN chan = Table
      /\ chan[N].is = "batch" /\ pc' = pc /\ chan' = [chan EXCEPT ![N] = Asked]
      /\ UNCHANGED <<query, read, heap, parentRows, childRows, aDone, bDone, yielded>>
  <2>1. N \in Table /\ N # 0 /\ 0 \in Table
    BY ConstantsAssumption DEF Table
  <2> QED
    BY <2>1 DEF IInv, Types, Deliver
<1>2. \A t : HasPage(t)' <=> HasPage(t)
  BY <1>1 DEF HasPage
<1>3. chan'[N] = Asked /\ \A t \in Table : t # N => chan'[t] = chan[t]
  BY <1>1
<1>4. Control'
  <2>1. chan'[0] = End => ~HasPage(0)'
    BY <1>1, <1>2, <1>3 DEF Control
  <2>2. ASSUME NEW i \in Join PROVE Waits(i)'
    <3>1. Waits(i) /\ i \in Table /\ i - 1 \in Table /\ i - 1 # N
      BY <1>1, ConstantsAssumption DEF Table, Join, Control
    <3>2. chan'[i - 1] = chan[i - 1] /\ (chan'[i] = chan[i] \/ chan'[i] = Asked)
      BY <1>3, <3>1
    <3> QED
      BY <1>1, <1>2, <3>1, <3>2, BatchIs DEF Waits
  <2> QED
    BY <2>1, <2>2 DEF Control
<1>5. /\ DOMAIN chan' = Table
      /\ \A t \in Table : chan'[t] \in {chan[t], Rest, Asked, End}
      /\ \A t \in Table : t # N /\ chan'[t] # chan[t] => chan[t].is # "batch"
  BY <1>1, BatchIs
<1> QED
  BY <1>1, <1>4, <1>5, SameKeeps

-----------------------------------------------------------------------------
(* The scan of the first table *)

\* The join after the first table waits for it, so that its answer suits any.
LEMMA ScanControl ==
  ASSUME IInv, chan[0] = Asked, UNCHANGED <<query, pc, aDone, bDone>>,
         \A t \in Table : t # 0 => chan'[t] = chan[t] /\ read'[t] = read[t],
         chan'[0] = End => ~HasPage(0)'
  PROVE  Control'
<1>1. /\ Control /\ pc' = pc /\ aDone' = aDone /\ bDone' = bDone
      /\ \A t \in Table : t # 0 => (HasPage(t)' <=> HasPage(t))
  BY DEF IInv, HasPage
<1>2. ASSUME NEW i \in Join PROVE Waits(i)'
  <2>1. Waits(i) /\ i \in Table /\ i - 1 \in Table /\ i # 0 /\ chan'[i] = chan[i] /\ (HasPage(i)' <=> HasPage(i))
    BY <1>1, JoinIs DEF Control
  <2>2. CASE i - 1 = 0
    <3>1. pc[i] # "new" /\ pc[i] # "opened" /\ i \notin aDone
      BY <2>1, <2>2, BatchIs DEF Waits
    <3> QED
      BY <1>1, <2>1, <3>1 DEF Waits
  <2>3. CASE i - 1 # 0
    <3>1. chan'[i - 1] = chan[i - 1]
      BY <2>1, <2>3
    <3> QED
      BY <1>1, <2>1, <3>1 DEF Waits
  <2> QED
    BY <2>2, <2>3
<1> QED
  BY <1>2 DEF Control

LEMMA ScanEnds ==
  ASSUME IInv, Scan, ~HasPage(0)
  PROVE  IInv'
<1>1. /\ Types /\ 0 \in Table /\ DOMAIN chan = Table
      /\ pc \in [Join -> {"new", "first", "opened", "race"}]
      /\ chan[0] = Asked /\ chan' = [chan EXCEPT ![0] = End] /\ pc' = pc
      /\ UNCHANGED <<query, read, heap, parentRows, childRows, aDone, bDone, yielded>>
  <2>1. 0 \in Table
    BY ConstantsAssumption DEF Table
  <2> QED
    BY <2>1 DEF IInv, Types, Scan
<1>2. /\ pc' \in [Join -> {"new", "first", "opened", "race"}] /\ DOMAIN chan' = Table
      /\ \A t \in Table : chan'[t] \in {chan[t], Rest, Asked, End}
      /\ \A t \in Table : t # N /\ chan'[t] # chan[t] => chan[t].is # "batch"
  BY <1>1, BatchIs
<1>3. Control'
  <2>1. ~HasPage(0)'
    BY <1>1 DEF HasPage
  <2>2. \A t \in Table : t # 0 => chan'[t] = chan[t] /\ read'[t] = read[t]
    BY <1>1
  <2> QED
    BY <1>1, <2>1, <2>2, ScanControl
<1> QED
  BY <1>1, <1>2, <1>3, SameKeeps

\* The rows of a page of the first table become new objects, which are yielded.
Scanned(page, objects) ==
  /\ page \in Seq(Child) /\ Distinct(page)
  /\ \A row \in Range(page) : row \notin RowsTo(0, read[0])
  /\ RowsTo(0, read[0])' = RowsTo(0, read[0]) \cup Range(page)
  /\ objects \in Seq(Nat) /\ DOMAIN objects = DOMAIN page
  /\ \A i, k \in DOMAIN objects : i # k => objects[i] # objects[k]
  /\ heap' \in Seq(Source) /\ Len(heap) <= Len(heap')
  /\ \A o \in DOMAIN heap : o \in DOMAIN heap' /\ heap'[o] = heap[o]
  /\ \A i \in DOMAIN objects : /\ objects[i] \in DOMAIN heap' /\ objects[i] \notin DOMAIN heap
                               /\ DOMAIN heap'[objects[i]] = {0} /\ heap'[objects[i]][0] = page[i]
  /\ chan' = [chan EXCEPT ![0] = Yield(Asked, objects)]
  /\ yielded' = Yielded(0, objects, heap')

LEMMA ScanIs ==
  ASSUME IInv, Scan, HasPage(0)
  PROVE  \E page, objects : Scanned(page, objects)
<1> DEFINE page == PageOf(0, read[0] + 1)
           len  == Len(page)
           h    == Len(heap)
           new  == [i \in 1..len |-> [t \in {0} |-> page[i]]]
           objects == [i \in 1..len |-> h + i]
<1>1. /\ Types /\ 0 \in Table /\ query' = query /\ read \in [Table -> Nat]
      /\ heap \in Seq(Source) /\ h \in Nat /\ DOMAIN heap = 1..h
  <2>1. 0 \in Table
    BY ConstantsAssumption DEF Table
  <2>2. query' = query
    BY DEF Scan
  <2>3. Types /\ read \in [Table -> Nat] /\ heap \in Seq(Source)
    BY DEF IInv, Types
  <2>4. h \in Nat /\ DOMAIN heap = 1..h
    BY <2>3
  <2> QED
    BY <2>1, <2>2, <2>3, <2>4
<1>2. /\ read' = [read EXCEPT ![0] = @ + 1]
      /\ heap' = heap \o new
      /\ chan' = [chan EXCEPT ![0] = Yield(@, objects)]
      /\ yielded' = Yielded(0, objects, heap \o new)
      /\ chan[0] = Asked
  BY DEF Scan
<1>3. read[0] + 1 \in 1..Len(query.pages[0]) /\ read[0] \in 0..Len(query.pages[0])
      /\ read[0] < Len(query.pages[0])
  <2>1. query.pages[0] \in Seq(Seq(Nat))
    BY <1>1, QueryIs
  <2> QED
    BY <1>1, <2>1 DEF HasPage
<1>4. /\ page \in Seq(Child) /\ Distinct(page) /\ \A row \in Range(page) : row[1] = read[0] + 1
  BY <1>1, <1>3, PageIs
<1>5. /\ \A row \in RowsTo(0, read[0]) : row[1] \in 1..read[0]
      /\ RowsTo(0, read[0] + 1) = RowsTo(0, read[0]) \cup Range(page)
  BY <1>1, <1>3, RowsAre
<1> HIDE DEF page
<1>6. len \in Nat /\ DOMAIN page = 1..len /\ \A i \in 1..len : page[i] \in Row
  BY <1>4 DEF Child
<1> HIDE DEF len, h
<1>7. new \in Seq(Source) /\ Len(new) = len
  <2>1. \A i \in 1..len : [t \in {0} |-> page[i]] \in Source
    <3> TAKE i \in 1..len
    <3>1. [t \in {0} |-> page[i]] \in [{0} -> Row] /\ {0} \in SUBSET Table
      BY <1>1, <1>6
    <3> QED
      BY <3>1 DEF Source, Row
  <2>2. new \in [1..len -> Source]
    BY <2>1
  <2> QED
    BY <1>6, <2>2
<1>8. \A i \in 1..len : new[i] = [t \in {0} |-> page[i]]
  OBVIOUS
<1> HIDE DEF new
<1>9. /\ heap' \in Seq(Source) /\ DOMAIN heap' = 1..(h + len) /\ Len(heap') = h + len
      /\ \A o \in 1..h : heap'[o] = heap[o]
      /\ \A i \in 1..len : heap'[h + i] = new[i]
  <2>1. heap' \in Seq(Source) /\ Len(heap') = h + len
    BY <1>1, <1>2, <1>7 DEF h
  <2>2. \A o \in 1..h : heap'[o] = heap[o]
    BY <1>1, <1>2, <1>7, ConcatIs DEF h
  <2>3. ASSUME NEW i \in 1..len PROVE heap'[h + i] = new[i]
    <3>1. h + i \in (h + 1)..(h + len) /\ (h + i) - h = i
      BY <1>1, <1>6
    <3>2. \A k \in (h + 1)..(h + len) : (heap \o new)[k] = new[k - h]
      BY <1>1, <1>7, ConcatIs DEF h
    <3>3. (heap \o new)[h + i] = new[(h + i) - h]
      BY <3>1, <3>2
    <3> QED
      BY <1>2, <3>1, <3>3
  <2> QED
    BY <2>1, <2>2, <2>3, <1>1, <1>6
<1>10. /\ objects \in Seq(Nat) /\ DOMAIN objects = 1..len
       /\ \A i \in 1..len : objects[i] = h + i
  <2>1. objects \in [1..len -> Nat]
    BY <1>1
  <2> QED
    BY <1>6, <2>1
<1> HIDE DEF objects
<1>11. \A i, k \in DOMAIN objects : i # k => objects[i] # objects[k]
  BY <1>1, <1>10
<1>12. ASSUME NEW i \in DOMAIN objects
       PROVE  /\ objects[i] \in DOMAIN heap' /\ objects[i] \notin DOMAIN heap
              /\ DOMAIN heap'[objects[i]] = {0} /\ heap'[objects[i]][0] = page[i]
  <2>1. i \in 1..len /\ objects[i] = h + i
    BY <1>10
  <2>2. h + i \in 1..(h + len) /\ h + i \notin 1..h
    BY <1>1, <1>6, <2>1
  <2>3. heap'[objects[i]] = [t \in {0} |-> page[i]]
    BY <1>8, <1>9, <2>1
  <2> QED
    BY <1>1, <1>9, <2>1, <2>2, <2>3
<1>13. \A row \in Range(page) : row \notin RowsTo(0, read[0])
  <2> SUFFICES ASSUME NEW row \in Range(page), row \in RowsTo(0, read[0]) PROVE FALSE
    OBVIOUS
  <2>1. row[1] = read[0] + 1 /\ row[1] \in 1..read[0] /\ read[0] \in Nat
    BY <1>1, <1>4, <1>5
  <2> QED
    BY <2>1
<1>14. RowsTo(0, read[0])' = RowsTo(0, read[0]) \cup Range(page)
  <2>1. read'[0] = read[0] + 1
    BY <1>1, <1>2
  <2>2. RowsTo(0, read[0])' = RowsTo(0, read'[0])
    BY <1>1, QuerySame
  <2> QED
    BY <1>5, <2>1, <2>2
<1>15. /\ \A o \in DOMAIN heap : o \in DOMAIN heap' /\ heap'[o] = heap[o]
       /\ Len(heap) <= Len(heap')
  BY <1>1, <1>6, <1>9 DEF h
<1>16. chan' = [chan EXCEPT ![0] = Yield(Asked, objects)] /\ yielded' = Yielded(0, objects, heap')
  BY <1>2
<1>17. Scanned(page, objects)
  BY <1>4, <1>6, <1>9, <1>10, <1>11, <1>12, <1>13, <1>14, <1>15, <1>16 DEF Scanned
<1> QED
  BY <1>17

LEMMA ScanReads ==
  ASSUME IInv, Scan, HasPage(0)
  PROVE  IInv'
<1>1. PICK page, objects : Scanned(page, objects)
  BY ScanIs
<1>2. /\ Types /\ 0 \in Table /\ query' = query /\ pc' = pc /\ chan[0] = Asked
      /\ aDone' = aDone /\ bDone' = bDone /\ parentRows' = parentRows /\ childRows' = childRows
      /\ heap \in Seq(Source) /\ DOMAIN chan = Table /\ yielded \in [Table -> Seq(Record)]
      /\ read \in [Table -> Nat] /\ read' = [read EXCEPT ![0] = @ + 1]
  <2>1. 0 \in Table
    BY ConstantsAssumption DEF Table
  <2> QED
    BY <2>1 DEF IInv, Types, Scan
<1>3. /\ objects \in Seq(Nat) /\ heap' \in Seq(Source) /\ Len(heap) <= Len(heap')
      /\ chan' = [chan EXCEPT ![0] = Yield(Asked, objects)]
      /\ yielded' = Yielded(0, objects, heap')
      /\ \A i \in DOMAIN objects : objects[i] \in DOMAIN heap' /\ heap'[objects[i]] \in Source
  BY <1>1 DEF Scanned
<1>4. /\ yielded' \in [Table -> Seq(Record)]
      /\ \A u \in Table : u # 0 => yielded'[u] = yielded[u] /\ Sent(u)' = Sent(u)
      /\ Sent(0)' = Sent(0) \cup Range(objects)
  BY <1>2, <1>3, YieldIs
<1>5. \A t \in Table : t # 0 => chan'[t] = chan[t] /\ read'[t] = read[t] /\ Pending(t)' = Pending(t)
  BY <1>2, <1>3 DEF Pending
<1>6. chan'[0] = Yield(Asked, objects) /\ chan'[0] # End
      /\ Pending(0) = {} /\ Pending(0)' = Range(objects)
  <2>1. chan'[0] = Yield(Asked, objects)
    BY <1>2, <1>3
  <2>2. CASE objects = <<>>
    <3>1. chan'[0] = Asked /\ Range(objects) = {}
      BY <2>1, <2>2 DEF Yield, Range
    <3> QED
      BY <1>2, <2>1, <3>1, BatchIs DEF Pending
  <2>3. CASE objects # <<>>
    BY <1>2, <2>1, <2>3, BatchIs DEF Yield, Pending
  <2> QED
    BY <2>1, <2>2, <2>3
<1>7. Steady(0)
  <2> SUFFICES ASSUME NEW t \in Table, NEW o \in Sent(t)
               PROVE  /\ o \in DOMAIN heap' /\ heap'[o] \in Source /\ heap'[o] = heap[o]
                      /\ Agree(heap'[o], heap[o], t)
    BY DEF Steady
  <2>1. o \in DOMAIN heap /\ heap[o] \in Source
    BY SentIs
  <2>2. o \in DOMAIN heap' /\ heap'[o] = heap[o]
    BY <1>1, <2>1 DEF Scanned
  <2> QED
    BY <2>1, <2>2 DEF Agree
<1>8. /\ \A t \in Table : Range(objects) \cap Sent(t) = {}
      /\ \A x \in Range(objects) : DOMAIN heap'[x] = {0} /\ heap'[x][0] \in Range(page)
  <2>1. ASSUME NEW x \in Range(objects)
        PROVE  x \notin DOMAIN heap /\ DOMAIN heap'[x] = {0} /\ heap'[x][0] \in Range(page)
    <3>1. PICK i \in DOMAIN objects : x = objects[i]
      BY DEF Range
    <3> QED
      BY <1>1, <3>1 DEF Scanned, Range
  <2>2. \A t \in Table : \A o \in Sent(t) : o \in DOMAIN heap
    BY SentIs
  <2> QED
    BY <2>1, <2>2
<1>9. \A i \in Join : Arrived(i)' = Arrived(i)
  <2> TAKE i \in Join
  <2>1. i - 1 \in Table
    BY JoinIs
  <2>2. CASE i - 1 = 0
    BY <1>2, <1>4, <1>6, <1>8, <2>2 DEF Arrived
  <2>3. CASE i - 1 # 0
    BY <1>4, <1>5, <2>1, <2>3 DEF Arrived
  <2> QED
    BY <2>2, <2>3
<1>10. Quiet(0)
  <2>1. \A i \in Join : i \in Table /\ i # 0
    BY JoinIs
  <2> QED
    BY <1>2, <1>4, <1>5, <1>7, <1>9, <2>1 DEF Quiet
<1>11. \A i \in Join : JoinOK(i)'
  <2>1. \A i \in Join : i # 0
    BY JoinIs
  <2>2. \A o \in Sent(0)' \ Sent(0) : \A i \in Join : i \notin DOMAIN heap'[o]
    BY <1>4, <1>8, <2>1
  <2> QED
    BY <1>10, <2>2, QuietKeeps
<1>12. SentOK(0)'
  <2>1. \A i \in DOMAIN objects : objects[i] \in DOMAIN heap' /\ 0..0 \subseteq DOMAIN heap'[objects[i]]
    BY <1>1 DEF Scanned
  <2>2. ASSUME NEW i \in DOMAIN objects, NEW k \in DOMAIN objects, i # k
        PROVE  objects[i] # objects[k] /\ ~Agree(heap'[objects[i]], heap'[objects[k]], 0)
    <3>1. /\ objects[i] # objects[k] /\ heap'[objects[i]][0] = page[i]
          /\ heap'[objects[k]][0] = page[k] /\ page[i] # page[k]
      BY <1>1, <2>2 DEF Scanned, Distinct
    <3> QED
      BY <3>1 DEF Agree
  <2>3. ASSUME NEW o \in Sent(0), NEW x \in Range(objects)
        PROVE  o # x /\ ~Agree(heap'[o], heap'[x], 0)
    <3>1. o # x /\ heap'[x][0] \in Range(page)
      BY <1>2, <1>8
    <3>2. heap'[o][0] = heap[o][0] /\ heap[o][0] \in RowsTo(0, read[0])
      <4>1. heap[o][0] \in RowsTo(0, read[0])
        BY DEF IInv, FirstTable
      <4> QED
        BY <1>2, <1>7, <4>1 DEF Steady, Agree
    <3>3. heap'[o][0] # heap'[x][0]
      BY <1>1, <3>1, <3>2 DEF Scanned
    <3> QED
      BY <3>1, <3>3 DEF Agree
  <2> QED
    BY <1>2, <1>3, <1>6, <1>7, <2>1, <2>2, <2>3, SentGrows
<1>13. \A t \in Table : SentOK(t)'
  <2>1. ASSUME NEW t \in Table, t # 0 PROVE SentOK(t)'
    <3>1. yielded'[t] = yielded[t] /\ Pending(t)' \subseteq Pending(t) /\ chan'[t] = chan[t]
      BY <1>4, <1>5, <2>1
    <3> QED
      BY <1>2, <1>3, <1>7, <3>1, SentKept
  <2> QED
    BY <1>12, <2>1
<1>14. Passed'
  <2> SUFFICES ASSUME NEW t \in Table, NEW u \in Table, NEW v \in (u + 1)..t
               PROVE  Sent(u)' \cap Sent(t)' \subseteq Arrived(v)'
    BY DEF Passed
  <2>1. v \in Join /\ t # 0
    BY ConstantsAssumption DEF Table, Join
  <2>2. Sent(u)' \cap Sent(t)' \subseteq Sent(u) \cap Sent(t)
    <3>1. CASE u = 0
      BY <1>2, <1>4, <1>8, <2>1, <3>1
    <3>2. CASE u # 0
      BY <1>4, <2>1, <3>2
    <3> QED
      BY <3>1, <3>2
  <2>3. Sent(u) \cap Sent(t) \subseteq Arrived(v)
    BY DEF IInv, Passed
  <2> QED
    BY <1>9, <2>1, <2>2, <2>3
<1>15. FirstTable'
  <2>1. RowsTo(0, read[0])' = RowsTo(0, read[0]) \cup Range(page)
    BY <1>1 DEF Scanned
  <2>2. \A o \in Sent(0) : heap'[o][0] = heap[o][0]
    BY <1>2, <1>7 DEF Steady, Agree
  <2>3. FirstTable
    BY DEF IInv
  <2>4. \A o \in Sent(0)' : heap'[o][0] \in RowsTo(0, read[0])'
    BY <1>4, <1>8, <2>1, <2>2, <2>3 DEF FirstTable
  <2>5. ASSUME NEW row \in Range(page) PROVE \E o \in Range(objects) : heap'[o][0] = row
    <3>1. PICK i \in DOMAIN objects : row = page[i]
      BY <1>1 DEF Scanned, Range
    <3>2. heap'[objects[i]][0] = row /\ objects[i] \in Range(objects)
      BY <1>1, <3>1 DEF Scanned, Range
    <3> QED
      BY <3>2
  <2>6. \A row \in RowsTo(0, read[0])' : \E o \in Sent(0)' : heap'[o][0] = row
    BY <1>4, <2>1, <2>2, <2>3, <2>5 DEF FirstTable
  <2> QED
    BY <2>4, <2>6 DEF FirstTable
<1>16. ChildrenKept'
  <2>1. \A i \in Join : childRows'[i] = childRows[i] /\ read'[i] = read[i]
    BY <1>2, <1>5, JoinIs
  <2> QED
    BY <1>2, <2>1, ChildrenSame DEF IInv
<1>17. Control'
  <2>1. UNCHANGED <<query, pc, aDone, bDone>>
    BY <1>2
  <2> QED
    BY <1>2, <1>5, <1>6, <2>1, ScanControl
<1>18. Types'
  <2>1. /\ parentRows' \in [Join -> Seq(Nat)] /\ childRows' \in [Join -> Seq(Row)]
        /\ pc' \in [Join -> {"new", "first", "opened", "race"}]
        /\ aDone' \subseteq Join /\ bDone' \subseteq Join /\ DOMAIN chan' = Table
    BY <1>2, <1>3 DEF Types
  <2>2. ASSUME NEW t \in Table
        PROVE  \/ chan'[t] \in {chan[t], Rest, Asked, End}
               \/ \E objs \in Seq(Nat) :
                    /\ objs # <<>> /\ chan'[t] = Batch(objs)
                    /\ \A i \in DOMAIN objs : objs[i] \in DOMAIN heap'
    BY <1>3, <1>5, <1>6 DEF Yield
  <2>3. read' = read \/ \E t \in Table : HasPage(t) /\ read' = [read EXCEPT ![t] = @ + 1]
    BY <1>2
  <2> QED
    BY <1>2, <1>3, <1>4, <2>1, <2>2, <2>3, TypesKept
<1> QED
  BY <1>11, <1>13, <1>14, <1>15, <1>16, <1>17, <1>18 DEF IInv

-----------------------------------------------------------------------------
(* The invariant *)

LEMMA InitIs ==
  ASSUME Init
  PROVE  IInv
<1>1. /\ query \in [joins : Plans, pages : [Table -> UNION {Pages[t] : t \in Table}]]
      /\ \A t \in Table : query.pages[t] \in Pages[t]
  BY DEF Init
<1>2. /\ read = [t \in Table |-> 0] /\ heap = <<>> /\ pc = [j \in Join |-> "new"]
      /\ chan = [t \in Table |-> IF t = N THEN Asked ELSE Rest]
      /\ parentRows = [j \in Join |-> <<>>] /\ childRows = [j \in Join |-> <<>>]
      /\ aDone = {} /\ bDone = {} /\ yielded = [t \in Table |-> <<>>]
  BY DEF Init
<1>3. 0 \in Table /\ N # 0 /\ N \in Nat
  BY ConstantsAssumption DEF Table
<1>4. /\ \A t \in Table : Sent(t) = {} /\ DOMAIN yielded[t] = {}
      /\ \A t \in Table : chan[t] \in {Asked, Rest} /\ chan[t].is # "batch" /\ chan[t] # End
      /\ \A t \in Table : Pending(t) = {}
  BY <1>2, BatchIs DEF Sent, Pending
<1>5. \A t : RowsTo(t, 0) = {}
  BY DEF RowsTo
<1>6. Types
  <2>1. \A t \in Table : read[t] <= Len(query.pages[t])
    <3>1. \A t \in Table : query.pages[t] \in Seq(Seq(Nat))
      BY <1>1, ConstantsAssumption
    <3> QED
      BY <1>2, <3>1
  <2>2. heap \in Seq(Source) /\ read \in [Table -> Nat]
    BY <1>2
  <2>3. yielded \in [Table -> Seq(Record)] /\ parentRows \in [Join -> Seq(Nat)]
        /\ childRows \in [Join -> Seq(Row)]
    BY <1>2
  <2>4. /\ DOMAIN chan = Table /\ pc \in [Join -> {"new", "first", "opened", "race"}]
        /\ aDone \subseteq Join /\ bDone \subseteq Join
    BY <1>2
  <2>5. \A t \in Table : chan[t] \in {Rest, Asked, End}
    BY <1>4
  <2> QED
    BY <1>1, <2>1, <2>2, <2>3, <2>4, <2>5 DEF Types
<1>7. Control
  <2>1. \A j \in Join : Waits(j)
    <3> TAKE j \in Join
    <3>1. j - 1 \in Table /\ j - 1 # N /\ j \in Table
      BY ConstantsAssumption DEF Table, Join
    <3>2. chan[j - 1] = Rest /\ pc[j] = "new" /\ chan[j] # End
      BY <1>2, <1>4, <3>1
    <3> QED
      BY <1>2, <3>2 DEF Waits
  <2> QED
    BY <1>3, <1>4, <2>1 DEF Control
<1>8. ChildrenKept
  <2>1. \A j \in Join : childRows[j] = <<>> /\ read[j] = 0
    BY <1>2, JoinIs
  <2> QED
    BY <1>5, <2>1 DEF ChildrenKept, Distinct, Range
<1>9. \A t \in Table : SentOK(t)
  BY <1>4 DEF SentOK
<1>10. Passed
  BY <1>4 DEF Passed
<1>11. FirstTable
  BY <1>2, <1>3, <1>4, <1>5 DEF FirstTable
<1>12. ASSUME NEW j \in Join PROVE JoinOK(j)
  <2>1. /\ j \in Table /\ j - 1 \in Table /\ parentRows[j] = <<>> /\ read[j] = 0 /\ j \notin bDone
    BY <1>2, JoinIs
  <2>2. Sent(j) = {} /\ Arrived(j) = {} /\ Range(parentRows[j]) = {} /\ Distinct(parentRows[j])
    BY <1>4, <2>1 DEF Arrived, Range, Distinct
  <2>3. ParentsKept(j)
    BY <2>1, <2>2 DEF ParentsKept
  <2>4. From(j) /\ Whole(j)
    BY <2>2 DEF From, Whole
  <2>5. MarksOwn(j)
    <3>1. \A u \in 0..(j - 1) : u \in Table
      BY ConstantsAssumption DEF Table, Join
    <3> QED
      BY <1>4, <2>1, <2>2, <3>1 DEF MarksOwn
  <2> QED
    BY <2>3, <2>4, <2>5 DEF JoinOK
<1> QED
  BY <1>6, <1>7, <1>8, <1>9, <1>10, <1>11, <1>12 DEF IInv

LEMMA NextKeeps ==
  ASSUME IInv, [Next]_vars
  PROVE  IInv'
<1>1. CASE Scan
  BY <1>1, ScanEnds, ScanReads
<1>2. ASSUME NEW j \in Join,
             \/ Open(j) \/ First(j) \/ Prefetch(j)
             \/ TakeA(j) \/ TakeB(j) \/ DoneA(j) \/ DoneB(j) \/ Return(j)
      PROVE  IInv'
  BY <1>2, OpenKeeps, FirstKeeps, PrefetchKeeps, RaceKeeps, ReturnKeeps
<1>3. CASE Deliver
  BY <1>3, DeliverKeeps
<1>4. CASE UNCHANGED vars
  BY <1>4, StutterKeeps
<1> QED
  BY <1>1, <1>2, <1>3, <1>4 DEF Next

LEMMA Invariance == Spec => []IInv
<1>1. Init => IInv
  BY InitIs
<1>2. IInv /\ [Next]_vars => IInv'
  BY NextKeeps
<1> QED
  BY <1>1, <1>2, PTL DEF Spec

-----------------------------------------------------------------------------
(* The types *)

LEMMA TypesAre ==
  ASSUME IInv
  PROVE  TypeOK
<1>1. Types /\ heap \in Seq(Source) /\ Object = DOMAIN heap
  BY DEF IInv, Types, Object
<1>2. query.joins \in Plans /\ \A t \in Table : query.pages[t] \in Pages[t]
  BY <1>1 DEF Types
<1>3. \A t \in Table : read[t] \in 0..Len(query.pages[t])
  <2> TAKE t \in Table
  <2>1. query.pages[t] \in Seq(Seq(Nat)) /\ read[t] \in Nat /\ read[t] <= Len(query.pages[t])
    BY <1>1, QueryIs DEF Types
  <2> QED
    BY <2>1
<1>4. \A o \in Object : DOMAIN heap[o] \subseteq Table /\ Range(heap[o]) \subseteq Nat \X Nat
  <2> TAKE o \in Object
  <2>1. heap[o] \in Source
    BY <1>1
  <2> QED
    BY <2>1, SourceIs DEF Range, Row
<1>5. \A t \in Table :
        \/ chan[t] \in {Rest, Asked, End}
        \/ chan[t].is = "batch" /\ chan[t].objects \in Seq(Object) \ {<<>>}
  <2> TAKE t \in Table
  <2>1. ASSUME NEW objects \in Seq(Object) \ {<<>>}, chan[t] = Batch(objects)
        PROVE  chan[t].is = "batch" /\ chan[t].objects \in Seq(Object) \ {<<>>}
    BY <2>1, BatchIs
  <2> QED
    BY <1>1, <2>1 DEF Types
<1>6. parentRows \in [Join -> Seq(Object)]
  <2>1. ASSUME NEW j \in Join PROVE parentRows[j] \in Seq(Object)
    <3>1. j - 1 \in Table /\ ParentsKept(j) /\ parentRows[j] \in Seq(Nat)
      BY <1>1, JoinIs DEF IInv, JoinOK, Types
    <3>2. \A i \in DOMAIN parentRows[j] : parentRows[j][i] \in Sent(j - 1)
      BY <3>1 DEF ParentsKept, Arrived, Range
    <3>3. \A i \in DOMAIN parentRows[j] : parentRows[j][i] \in Object
      BY <1>1, <3>1, <3>2, SentIs
    <3> QED
      BY <3>1, <3>3, SeqOf
  <2> QED
    BY <1>1, <2>1 DEF Types
<1>7. \A t \in Table : \A i \in 1..Len(yielded[t]) : yielded[t][i].object \in Object
  <2> TAKE t \in Table
  <2>1. DOMAIN yielded[t] = 1..Len(yielded[t])
    BY <1>1 DEF Types
  <2> QED
    BY <2>1 DEF IInv, SentOK
<1> QED
  BY <1>1, <1>2, <1>3, <1>4, <1>5, <1>6, <1>7 DEF TypeOK, Types, Row

\* What the joins keep, hand on and have yielded are objects with rows of the tables.
THEOREM TypeCorrect == Spec => []TypeOK
<1>1. IInv => TypeOK
  BY TypesAre
<1> QED
  BY <1>1, Invariance, PTL

-----------------------------------------------------------------------------
(* Nothing is wrong *)

LEMMA RowsToOf ==
  ASSUME Types, NEW t \in Table
  PROVE  /\ RowsTo(t, read[t]) \subseteq RowsOf(t) /\ RowsOf(t) \subseteq Row
         /\ ~HasPage(t) => RowsTo(t, read[t]) = RowsOf(t)
<1>1. query.pages[t] \in Seq(Seq(Nat)) /\ read[t] \in Nat /\ read[t] <= Len(query.pages[t])
      /\ Len(query.pages[t]) \in Nat
  <2>1. query.pages[t] \in Seq(Seq(Nat))
    BY QueryIs
  <2> QED
    BY <2>1 DEF Types
<1>2. \A m \in 1..read[t] : m \in 1..Len(query.pages[t])
  BY <1>1
<1>3. RowsTo(t, read[t]) \subseteq RowsOf(t)
  BY <1>2 DEF RowsOf, RowsTo
<1>4. RowsOf(t) \subseteq Row
  <2>1. Len(query.pages[t]) \in 0..Len(query.pages[t])
    BY <1>1
  <2> QED
    BY <2>1, RowsAre DEF RowsOf, Child
<1>5. ASSUME ~HasPage(t) PROVE RowsTo(t, read[t]) = RowsOf(t)
  <2>1. read[t] = Len(query.pages[t])
    BY <1>1, <1>5 DEF HasPage
  <2> QED
    BY <2>1 DEF RowsOf
<1> QED
  BY <1>3, <1>4, <1>5

\* A combination of rows means what those rows mean.
LEMMA MeantAgree ==
  ASSUME Types, NEW t \in Table, NEW f \in Source, NEW g \in Source,
         0..t \subseteq DOMAIN f, 0..t \subseteq DOMAIN g, Agree(f, g, t), Meant(t, f)
  PROVE  Meant(t, g)
<1>1. g[0] \in RowsOf(0)
  BY DEF Agree, Meant, Table
<1>2. ASSUME NEW j \in 1..t
      PROVE  \/ g[j] \in RowsOf(j) /\ Matches(j, g, g[j])
             \/ /\ g[j] = Null /\ query.joins[j].left
                /\ \A row \in RowsOf(j) : ~Matches(j, g, row)
  <2>1. /\ j \in Join /\ j \in Table /\ g[j] = f[j] /\ Agree(f, g, j - 1)
        /\ 0..(j - 1) \subseteq DOMAIN f /\ 0..(j - 1) \subseteq DOMAIN g
    <3>1. j \in Join /\ j \in Table /\ j \in 0..t /\ 0..(j - 1) \subseteq 0..t
      BY ConstantsAssumption DEF Table, Join
    <3> QED
      BY <3>1 DEF Agree
  <2>2. RowsOf(j) \subseteq Row
    BY <2>1, RowsToOf
  <2>3. \A row \in Row : Matches(j, f, row) <=> Matches(j, g, row)
    BY <2>1, MatchesAgree
  <2>4. \/ f[j] \in RowsOf(j) /\ Matches(j, f, f[j])
        \/ /\ f[j] = Null /\ query.joins[j].left
           /\ \A row \in RowsOf(j) : ~Matches(j, f, row)
    BY DEF Meant
  <2> QED
    BY <2>1, <2>2, <2>3, <2>4
<1> QED
  BY <1>1, <1>2 DEF Meant

\* What a generator has yielded is meant, as far as its table.
LEMMA SentMeant ==
  ASSUME IInv, NEW t \in Table, NEW o \in Sent(t)
  PROVE  Meant(t, heap[o])
<1> DEFINE T == {i \in Table : \A p \in Sent(i) : Meant(i, heap[p])}
<1>1. 0 \in T
  <2>1. 0 \in Table
    BY ConstantsAssumption DEF Table
  <2>2. \A p \in Sent(0) : heap[p][0] \in RowsOf(0)
    BY <2>1, RowsToOf DEF IInv, FirstTable
  <2> QED
    BY <2>1, <2>2 DEF Meant
<1>2. ASSUME NEW j \in 1..N, j - 1 \in T PROVE j \in T
  <2>1. j \in Join /\ j \in Table /\ j - 1 \in Table /\ From(j) /\ Types
    BY JoinIs DEF Join, IInv, JoinOK
  <2>2. ASSUME NEW q \in Sent(j) PROVE Meant(j, heap[q])
    <3>1. PICK p \in Arrived(j) :
            /\ Agree(heap[q], heap[p], j - 1)
            /\ \/ heap[q][j] \in RowsTo(j, read[j]) /\ Matches(j, heap[p], heap[q][j])
               \/ /\ heap[q][j] = Null /\ query.joins[j].left /\ j \in bDone
                  /\ NoMatch(j, heap[p])
      BY <2>1 DEF From
    <3>2. p \in Sent(j - 1) /\ Meant(j - 1, heap[p])
      BY <1>2, <3>1 DEF Arrived
    <3>3. /\ heap[p] \in Source /\ heap[q] \in Source
          /\ 0..(j - 1) \subseteq DOMAIN heap[p] /\ 0..(j - 1) \subseteq DOMAIN heap[q]
      <4>1. heap[q] \in Source /\ 0..j \subseteq DOMAIN heap[q] /\ 0..(j - 1) \subseteq 0..j
        BY <2>1, SentIs, JoinIs
      <4> QED
        BY <2>1, <3>2, <4>1, SentIs
    <3>4. Agree(heap[p], heap[q], j - 1)
      BY <3>1 DEF Agree
    <3>5. Meant(j - 1, heap[q])
      BY <2>1, <3>2, <3>3, <3>4, MeantAgree
    <3>6. \A row \in RowsOf(j) : Matches(j, heap[p], row) <=> Matches(j, heap[q], row)
      BY <2>1, <3>3, <3>4, RowsToOf, MatchesAgree
    <3>7. \/ heap[q][j] \in RowsOf(j) /\ Matches(j, heap[q], heap[q][j])
          \/ /\ heap[q][j] = Null /\ query.joins[j].left
             /\ \A row \in RowsOf(j) : ~Matches(j, heap[q], row)
      BY <2>1, <3>1, <3>6, RowsToOf DEF NoMatch
    <3>8. 1..j = 1..(j - 1) \cup {j}
      BY <2>1, JoinIs
    <3> QED
      BY <3>5, <3>7, <3>8 DEF Meant
  <2> QED
    BY <2>1, <2>2
<1>3. 0..N \subseteq T
  <2> HIDE DEF T
  <2> QED
    BY <1>1, <1>2, UpTo, ConstantsAssumption
<1> QED
  BY <1>3 DEF Table

\* The last join yields maps of all tables, and the objects keep them.
LEMMA DeliveredIs ==
  ASSUME IInv, NEW i \in DOMAIN Delivered
  PROVE  LET o == Delivered[i].object
             f == Delivered[i].source
         IN  /\ heap[o] = f /\ DOMAIN f = Table /\ o \in Sent(N) /\ f \in Source
<1> DEFINE o == Delivered[i].object
           f == Delivered[i].source
<1>1. /\ N \in Table /\ Table = 0..N /\ Types /\ SentOK(N) /\ i \in DOMAIN yielded[N]
      /\ o = yielded[N][i].object /\ f = yielded[N][i].source
  BY ConstantsAssumption DEF Table, IInv, Delivered
<1>2. o \in Sent(N)
  BY <1>1 DEF Sent
<1>3. heap[o] \in Source /\ 0..N \subseteq DOMAIN heap[o]
  BY <1>1, <1>2, SentIs
<1>4. 0..N \subseteq DOMAIN f /\ Agree(heap[o], f, N)
  BY <1>1 DEF SentOK
<1>5. f \in Source
  <2>1. yielded[N] \in Seq(Record)
    BY <1>1 DEF Types
  <2>2. yielded[N][i] \in Record
    BY <1>1, <2>1
  <2> QED
    BY <1>1, <2>2 DEF Record
<1> HIDE DEF o, f
<1>6. DOMAIN f = Table /\ DOMAIN heap[o] = Table
  <2>1. DOMAIN f \subseteq Table /\ DOMAIN heap[o] \subseteq Table
    BY <1>3, <1>5, SourceIs
  <2> QED
    BY <1>1, <1>3, <1>4, <2>1
<1>7. f = heap[o]
  <2>1. f = [u \in DOMAIN f |-> f[u]] /\ heap[o] = [u \in DOMAIN heap[o] |-> heap[o][u]]
    BY <1>3, <1>5, SourceIs
  <2>2. \A u \in Table : f[u] = heap[o][u]
    BY <1>1, <1>4 DEF Agree
  <2>3. [u \in Table |-> f[u]] = [u \in Table |-> heap[o][u]]
    BY <2>2
  <2> QED
    BY <1>6, <2>1, <2>3
<1> QED
  BY <1>2, <1>5, <1>6, <1>7 DEF o, f

\* In whatever order pages and batches arrive: a delivered combination of rows is one that
\* the FROM clause means, none is delivered twice, and none is changed afterwards.
THEOREM AlwaysNothingWrong == Spec => []NothingWrong
<1>1. ASSUME IInv PROVE NothingWrong
  <2>1. TypeOK
    BY <1>1, TypesAre
  <2>2. N \in Table /\ SentOK(N) /\ Delivered = yielded[N] /\ DOMAIN Delivered = 1..Len(Delivered)
    <3>1. N \in Table
      BY ConstantsAssumption DEF Table
    <3> QED
      BY <1>1, <3>1 DEF IInv, Types, Delivered
  <2>3. ASSUME NEW i \in 1..Len(Delivered)
        PROVE  LET f == Delivered[i].source IN
               /\ heap[Delivered[i].object] = f
               /\ DOMAIN f = Table /\ Meant(N, f)
               /\ \A k \in 1..(i - 1) : Delivered[k].source # f
    <3>1. /\ heap[Delivered[i].object] = Delivered[i].source /\ DOMAIN Delivered[i].source = Table
          /\ Delivered[i].object \in Sent(N)
      BY <1>1, <2>2, DeliveredIs
    <3>2. Meant(N, Delivered[i].source)
      BY <1>1, <2>2, <3>1, SentMeant
    <3>3. ASSUME NEW k \in 1..(i - 1) PROVE Delivered[k].source # Delivered[i].source
      <4>1. k \in 1..Len(Delivered) /\ k # i
        <5>1. Len(Delivered) \in Nat
          BY <1>1, <2>2 DEF IInv, Types
        <5> QED
          BY <5>1
      <4>2. heap[Delivered[k].object] = Delivered[k].source
        BY <1>1, <2>2, <4>1, DeliveredIs
      <4>3. ~Agree(heap[Delivered[k].object], heap[Delivered[i].object], N)
        BY <2>2, <4>1 DEF SentOK
      <4> QED
        BY <3>1, <4>2, <4>3 DEF Agree
    <3> QED
      BY <3>1, <3>2, <3>3
  <2> QED
    BY <2>1, <2>3 DEF NothingWrong
<1> QED
  BY <1>1, Invariance, PTL

-----------------------------------------------------------------------------
(* Nothing is lost *)

\* When the last join is exhausted, all that lies before it is.
LEMMA AllExhausted ==
  ASSUME IInv, Finished
  PROVE  /\ \A t \in Table : chan[t] = End /\ ~HasPage(t)
         /\ \A j \in Join : j \in bDone /\ Arrived(j) = Sent(j - 1)
<1>1. Types /\ Control /\ N \in Nat /\ 0 \in Table /\ Table = 0..N
  BY ConstantsAssumption DEF IInv, Table
<1> DEFINE T == {d \in 0..N : chan[N - d] = End}
<1>2. 0 \in T
  BY <1>1 DEF Finished
<1>3. ASSUME NEW d \in 1..N, d - 1 \in T PROVE d \in T
  <2>1. N - (d - 1) \in Join /\ (N - (d - 1)) - 1 = N - d /\ d \in 0..N
    BY <1>1 DEF Join
  <2>2. chan[N - (d - 1)] = End
    BY <1>3
  <2>3. \A j \in Join : chan[j] = End => chan[j - 1] = End
    BY <1>1 DEF Control, Waits
  <2> QED
    BY <2>1, <2>2, <2>3
<1>4. 0..N \subseteq T
  <2> HIDE DEF T
  <2> QED
    BY <1>1, <1>2, <1>3, UpTo
<1>5. ASSUME NEW t \in Table PROVE chan[t] = End
  <2>1. N - t \in 0..N /\ N - (N - t) = t
    BY <1>1
  <2>2. \A d \in 0..N : chan[N - d] = End
    BY <1>4
  <2>3. chan[N - (N - t)] = End
    BY <2>1, <2>2
  <2> QED
    BY <2>1, <2>3
<1>6. ASSUME NEW j \in Join PROVE j \in bDone /\ ~HasPage(j) /\ Arrived(j) = Sent(j - 1)
  <2>1. j \in Table /\ j - 1 \in Table
    BY JoinIs
  <2>2. j \in bDone /\ ~HasPage(j)
    BY <1>1, <1>5, <2>1 DEF Control, Waits
  <2>3. Pending(j - 1) = {}
    BY <1>5, <2>1, BatchIs DEF Pending
  <2> QED
    BY <2>2, <2>3 DEF Arrived
<1>7. \A t \in Table : t = 0 \/ t \in Join
  BY <1>1 DEF Join
<1> QED
  BY <1>1, <1>5, <1>6, <1>7 DEF Control

\* The combinations that are meant have been yielded, as far as each table.
LEMMA MeantSent ==
  ASSUME IInv, Finished, \A j \in Join : query.joins[j].left => SafeAt(j),
         NEW f \in Source, DOMAIN f = Table, Meant(N, f), NEW t \in Table
  PROVE  \E o \in Sent(t) : Agree(heap[o], f, t)
<1>1. Types /\ 0 \in Table /\ Table = 0..N
  BY ConstantsAssumption DEF IInv, Table
<1> DEFINE T == {i \in Table : \E o \in Sent(i) : Agree(heap[o], f, i)}
<1>2. 0 \in T
  <2>1. f[0] \in RowsTo(0, read[0])
    BY <1>1, AllExhausted, RowsToOf DEF Meant
  <2>2. PICK o \in Sent(0) : heap[o][0] = f[0]
    BY <2>1 DEF IInv, FirstTable
  <2> QED
    BY <1>1, <2>2 DEF Agree
<1>3. ASSUME NEW j \in 1..N, j - 1 \in T PROVE j \in T
  <2>1. j \in Join /\ j \in Table /\ j - 1 \in Table /\ Whole(j) /\ MarksOwn(j)
    BY JoinIs DEF Join, IInv, JoinOK
  <2>2. PICK p \in Sent(j - 1) : Agree(heap[p], f, j - 1)
    BY <1>3
  <2>3. p \in Arrived(j) /\ j \in bDone /\ RowsTo(j, read[j]) = RowsOf(j) /\ RowsOf(j) \subseteq Row
    BY <1>1, <2>1, <2>2, AllExhausted, RowsToOf
  <2>4. \A row \in Row : Matches(j, heap[p], row) <=> Matches(j, f, row)
    <3>1. heap[p] \in Source /\ 0..(j - 1) \subseteq DOMAIN heap[p]
      BY <2>1, <2>2, SentIs
    <3>2. 0..(j - 1) \subseteq DOMAIN f
      BY <1>1, <2>1, JoinIs
    <3> QED
      BY <1>1, <2>1, <2>2, <3>1, <3>2, MatchesAgree
  <2>5. Has(j, p, f[j])
    <3>1. CASE f[j] \in RowsOf(j) /\ Matches(j, f, f[j])
      BY <2>1, <2>3, <2>4, <3>1 DEF Whole
    <3>2. CASE /\ f[j] = Null /\ query.joins[j].left
               /\ \A row \in RowsOf(j) : ~Matches(j, f, row)
      <4>1. NoMatch(j, heap[p]) /\ SafeAt(j)
        BY <2>1, <2>3, <2>4, <3>2 DEF NoMatch
      <4> QED
        BY <2>1, <2>3, <3>2, <4>1 DEF MarksOwn
    <3> QED
      BY <3>1, <3>2 DEF Meant
  <2>6. PICK o \in Sent(j) : Agree(heap[o], heap[p], j - 1) /\ heap[o][j] = f[j]
    BY <2>5 DEF Has
  <2>7. Agree(heap[o], f, j)
    <3>1. 0..j = 0..(j - 1) \cup {j}
      BY <2>1, JoinIs
    <3> QED
      BY <2>2, <2>6, <3>1 DEF Agree
  <2> QED
    BY <2>1, <2>7
<1>4. 0..N \subseteq T
  <2> HIDE DEF T
  <2> QED
    BY <1>2, <1>3, UpTo, ConstantsAssumption
<1> QED
  BY <1>1, <1>4

\* Where no LEFT JOIN stands behind a join without ON, a stream that has ended has
\* delivered every combination that the FROM clause means.
THEOREM AlwaysNothingLost ==
  ASSUME \A plan \in Plans : \A j \in Join : plan[j].left => \A i \in 1..(j - 1) : plan[i].on
  PROVE  Spec => []NothingLost
<1>1. ASSUME IInv PROVE NothingLost
  <2> SUFFICES ASSUME Finished, NEW f \in Meaning
               PROVE  \E i \in 1..Len(Delivered) : Delivered[i].source = f
    BY DEF NothingLost
  <2>1. N \in Table /\ Types /\ Delivered = yielded[N] /\ Table = 0..N
    BY <1>1, ConstantsAssumption DEF Table, IInv, Delivered
  <2>2. f \in [Table -> {Null} \cup UNION {RowsOf(t) : t \in Table}] /\ Meant(N, f)
    BY DEF Meaning
  <2>3. f \in Source /\ DOMAIN f = Table
    <3>1. Null \in Row /\ \A t \in Table : RowsOf(t) \subseteq Row
      BY <2>1, RowsToOf DEF Null, Row
    <3>2. f \in [Table -> Row]
      <4>1. ({Null} \cup UNION {RowsOf(t) : t \in Table}) \subseteq Row
        BY <3>1
      <4> QED
        BY <2>2, <4>1
    <3> QED
      BY <3>2 DEF Source, Row
  <2>4. \A j \in Join : query.joins[j].left => SafeAt(j)
    <3>1. query.joins \in Plans
      BY <2>1 DEF Types
    <3> QED
      BY <3>1 DEF SafeAt
  <2>5. PICK o \in Sent(N) : Agree(heap[o], f, N)
    BY <1>1, <2>1, <2>2, <2>3, <2>4, MeantSent
  <2>6. PICK i \in DOMAIN Delivered : Delivered[i].object = o
    BY <2>1 DEF Sent
  <2>7. Delivered[i].source = heap[o] /\ heap[o] \in Source /\ DOMAIN heap[o] = Table
    BY <1>1, <2>6, DeliveredIs
  <2>8. heap[o] = f
    <3>1. f = [u \in Table |-> f[u]] /\ heap[o] = [u \in Table |-> heap[o][u]]
      BY <2>3, <2>7, SourceIs
    <3>2. \A u \in Table : f[u] = heap[o][u]
      BY <2>1, <2>5 DEF Agree
    <3>3. [u \in Table |-> f[u]] = [u \in Table |-> heap[o][u]]
      BY <3>2
    <3> QED
      BY <3>1, <3>3
  <2>9. i \in 1..Len(Delivered)
    <3>1. Delivered \in Seq(Record)
      BY <2>1 DEF Types
    <3> QED
      BY <2>6, <3>1
  <2> QED
    BY <2>7, <2>8, <2>9
<1> QED
  BY <1>1, Invariance, PTL

=============================================================================
