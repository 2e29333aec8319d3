------------------------------ MODULE RawProofs ------------------------------
(***************************************************************************)
(* Proofs about RawInsert and RawModify for every table, every statement   *)
(* of any length and any number of writes of other clients: what an INSERT *)
(* counts and what it leaves alone, what an UPDATE or DELETE writes and    *)
(* counts, and what an INSERT leaves in the table when nobody else writes. *)
(***************************************************************************)
EXTENDS RawModify, FiniteSetTheorems, WellFoundedInduction, TLAPS

-----------------------------------------------------------------------------
(* Induction over the rows of a statement *)

\* A set of numbers that is not empty has a least element.
LEMMA Least ==
  ASSUME NEW T \in SUBSET Nat, T # {}
  PROVE  \E x \in T : \A y \in T : x <= y
<1> DEFINE R == {ss \in Nat \X Nat : ss[1] < ss[2]}
<1>1. IsWellFoundedOn(R, Nat)
  BY NatLessThanWellFounded, Zenon DEF OpToRel
<1>2. PICK x \in T : \A y \in T : ~ (<<y, x>> \in R)
  <2> HIDE DEF R
  <2> QED
    BY <1>1, WFMin
<1>3. ASSUME NEW y \in T PROVE x <= y
  <2>1. <<y, x>> \notin R
    BY <1>2
  <2>2. <<y, x>> \in Nat \X Nat
    OBVIOUS
  <2> QED
    BY <2>1, <2>2
<1> QED
  BY <1>3

\* What holds of 0 and passes from i to i + 1 holds of every number to n.
LEMMA UpTo ==
  ASSUME NEW n \in Nat, NEW T, 0 \in T, \A i \in 1..n : i - 1 \in T => i \in T
  PROVE  0..n \subseteq T
<1> SUFFICES ASSUME (0..n) \ T # {} PROVE FALSE
  OBVIOUS
<1>1. PICK x \in (0..n) \ T : \A y \in (0..n) \ T : x <= y
  <2>1. (0..n) \ T \in SUBSET Nat
    OBVIOUS
  <2> QED
    BY <2>1, Least
<1>2. x # 0 /\ x \in 1..n /\ x - 1 \in 0..n
  OBVIOUS
<1>3. x - 1 \notin T
  BY <1>2
<1>4. ~(x <= x - 1)
  BY <1>2
<1> QED
  BY <1>1, <1>2, <1>3, <1>4

\* g has the value a at 0, and each value comes from the one before by F.
Iteration(g, n, S, a, F) ==
  g \in [0..n -> S] /\ g[0] = a /\ \A i \in 1..n : g[i] = F[<<g[i - 1], i>>]

\* A function that is given by its value at 0 and by each value from the one before exists.
LEMMA Iterates ==
  ASSUME NEW n \in Nat, NEW S, NEW a \in S, NEW F,
         \A x \in S : \A i \in 1..n : F[<<x, i>>] \in S
  PROVE  \E g : Iteration(g, n, S, a, F)
<1> DEFINE P(k) == \E g \in [0..k -> S] : g[0] = a /\ \A i \in 1..k : g[i] = F[<<g[i - 1], i>>]
           T == {k \in 0..n : P(k)}
<1>1. 0 \in T
  <2> DEFINE h == [i \in 0..0 |-> a]
  <2>1. h \in [0..0 -> S] /\ h[0] = a
    OBVIOUS
  <2>2. \A i \in 1..0 : h[i] = F[<<h[i - 1], i>>]
    OBVIOUS
  <2> HIDE DEF h
  <2>3. P(0)
    BY <2>1, <2>2
  <2> QED
    BY <2>3
<1>2. ASSUME NEW i \in 1..n, i - 1 \in T PROVE i \in T
  <2>1. PICK g \in [0..(i - 1) -> S] :
          g[0] = a /\ \A j \in 1..(i - 1) : g[j] = F[<<g[j - 1], j>>]
    BY <1>2
  <2> DEFINE h == [j \in 0..i |-> IF j = i THEN F[<<g[i - 1], i>>] ELSE g[j]]
  <2>2. F[<<g[i - 1], i>>] \in S
    <3>1. g[i - 1] \in S
      <4>1. i - 1 \in 0..(i - 1)
        OBVIOUS
      <4> QED
        BY <4>1
    <3> QED
      BY <3>1
  <2>3. h \in [0..i -> S]
    BY <2>2
  <2>4. h[0] = a
    BY <2>1
  <2>5. ASSUME NEW j \in 1..i PROVE h[j] = F[<<h[j - 1], j>>]
    <3>1. j - 1 \in 0..i /\ j - 1 # i /\ h[j - 1] = g[j - 1]
      OBVIOUS
    <3>2. CASE j = i
      BY <3>1, <3>2
    <3>3. CASE j # i
      <4>1. j \in 1..(i - 1) /\ j \in 0..i
        BY <3>3
      <4>2. h[j] = g[j]
        BY <4>1, <3>3
      <4> QED
        BY <4>1, <4>2, <3>1, <2>1
    <3> QED
      BY <3>2, <3>3
  <2> HIDE DEF h
  <2> QED
    BY <2>3, <2>4, <2>5
<1>3. 0..n \subseteq T
  <2> HIDE DEF T
  <2> QED
    BY <1>1, <1>2, UpTo
<1> QED
  BY <1>3 DEF Iteration

-----------------------------------------------------------------------------
(* Counting the rows whose outcome is one of kinds *)

Num(f, n, kinds) == Cardinality({i \in 1..n : f[i] \in kinds})

LEMMA Interval ==
  ASSUME NEW n \in Nat
  PROVE  IsFiniteSet(1..n) /\ Cardinality(1..n) = n
BY FS_Interval

\* The rows of some kinds are finitely many, n at most.
LEMMA NumType ==
  ASSUME NEW n \in Nat, NEW f, NEW kinds
  PROVE  /\ IsFiniteSet({i \in 1..n : f[i] \in kinds})
         /\ Num(f, n, kinds) \in 0..n
<1> DEFINE S == {i \in 1..n : f[i] \in kinds}
<1>1. IsFiniteSet(1..n) /\ Cardinality(1..n) = n
  BY FS_Interval
<1>2. IsFiniteSet(S) /\ Cardinality(S) <= n
  BY <1>1, FS_Subset
<1>3. Cardinality(S) \in Nat
  BY <1>2, FS_CardinalityType
<1> QED
  BY <1>2, <1>3 DEF Num

LEMMA NumRange ==
  ASSUME NEW n \in Nat, NEW f, NEW kinds
  PROVE  Num(f, n, kinds) \in Nat /\ Num(f, n, kinds) <= n
<1>1. Num(f, n, kinds) \in 0..n
  BY NumType, Zenon
<1> QED
  BY <1>1

\* The outcomes f of n rows become g when the i-th row gets the outcome x.
Gets(f, g, n, i, x) == n \in Nat /\ i \in 1..n /\ DOMAIN f = 1..n /\ g = [f EXCEPT ![i] = x]

\* A row that was of none of the kinds and gets the outcome x.
LEMMA NumOne ==
  ASSUME NEW n, NEW f, NEW g, NEW i, NEW x, NEW kinds, Gets(f, g, n, i, x), f[i] \notin kinds
  PROVE  Num(g, n, kinds) = Num(f, n, kinds) + (IF x \in kinds THEN 1 ELSE 0)
<1> DEFINE S == {j \in 1..n : f[j] \in kinds}
           T == {j \in 1..n : g[j] \in kinds}
<1> USE DEF Gets
<1>1. IsFiniteSet(S) /\ Cardinality(S) \in Nat
  BY NumType, FS_CardinalityType
<1>2. CASE x \in kinds
  <2>1. T = S \cup {i} /\ i \notin S
    BY <1>2
  <2>2. Cardinality(T) = Cardinality(S) + 1
    <3> HIDE DEF S, T
    <3> QED
      BY <2>1, <1>1, FS_AddElement
  <2> QED
    BY <2>2, <1>2 DEF Num
<1>3. CASE x \notin kinds
  <2>1. T = S
    BY <1>3
  <2> HIDE DEF S, T
  <2>2. Cardinality(T) = Cardinality(S) + 0
    BY <2>1, <1>1
  <2> QED
    BY <2>2, <1>3 DEF Num, S, T
<1> QED
  BY <1>2, <1>3

\* Rows of kinds that exclude each other add up, to n at most.
LEMMA NumSum ==
  ASSUME NEW n \in Nat, NEW f, NEW K, NEW L, K \cap L = {}
  PROVE  /\ Num(f, n, K \cup L) = Num(f, n, K) + Num(f, n, L)
         /\ Num(f, n, K) + Num(f, n, L) <= n
<1> DEFINE S == {i \in 1..n : f[i] \in K}
           T == {i \in 1..n : f[i] \in L}
           U == {i \in 1..n : f[i] \in K \cup L}
<1>1. IsFiniteSet(S) /\ IsFiniteSet(T)
  BY NumType
<1>2. U = S \cup T /\ S \cap T = {}
  OBVIOUS
<1>3. Num(f, n, K \cup L) \in 0..n /\ Num(f, n, K) \in 0..n /\ Num(f, n, L) \in 0..n
  BY NumType
<1>4. Num(f, n, K \cup L) = Cardinality(U) /\ Num(f, n, K) = Cardinality(S)
      /\ Num(f, n, L) = Cardinality(T)
  BY DEF Num
<1> HIDE DEF S, T, U
<1>5. Cardinality(U) = Cardinality(S) + Cardinality(T) - Cardinality(S \cap T)
  BY <1>1, <1>2, FS_Union
<1>6. Cardinality(S \cap T) = 0
  BY <1>2, FS_EmptySet
<1>7. Num(f, n, K \cup L) = Num(f, n, K) + Num(f, n, L)
  BY <1>3, <1>4, <1>5, <1>6
<1> QED
  BY <1>3, <1>7

\* When every row is of one of the kinds, their number is n.
LEMMA NumAll ==
  ASSUME NEW n \in Nat, NEW f, NEW kinds, \A i \in 1..n : f[i] \in kinds
  PROVE  Num(f, n, kinds) = n
<1>1. {i \in 1..n : f[i] \in kinds} = 1..n
  OBVIOUS
<1>2. Cardinality(1..n) = n
  BY FS_Interval
<1> QED
  BY <1>1, <1>2 DEF Num

\* When no row is of one of the kinds, their number is 0.
LEMMA NumNone ==
  ASSUME NEW n \in Nat, NEW f, NEW kinds, \A i \in 1..n : f[i] \notin kinds
  PROVE  Num(f, n, kinds) = 0
<1>1. {i \in 1..n : f[i] \in kinds} = {}
  OBVIOUS
<1> QED
  BY <1>1, FS_EmptySet DEF Num

\* As many rows failed as there are failures, when each is of another row.
LEMMA Failures ==
  ASSUME NEW S, IsFiniteSet(S), NEW why
  PROVE  Cardinality({<<i, why>> : i \in S}) = Cardinality(S)
<1> DEFINE T == {<<i, why>> : i \in S}
           f == [i \in S |-> <<i, why>>]
<1>1. f \in Bijection(S, T)
  BY DEF Bijection, Injection, Surjection, IsInjective
<1>2. ExistsBijection(S, T)
  BY <1>1 DEF ExistsBijection
<1> QED
  BY <1>2, FS_Bijection

-----------------------------------------------------------------------------
(* Values and tables *)

Cell == Nat \cup {Null, Missing}
AnyItem == [c : Cell, d : Cell]

IsTable(t) ==
  /\ DOMAIN t \subseteq Key
  /\ t = [k \in DOMAIN t |-> t[k]]
  /\ \A k \in DOMAIN t : t[k] \in AnyItem

LEMMA CellType ==
  /\ \A x \in Cell : x \in Int
  /\ Const \in Cell /\ NewD \in Cell /\ Null \in Cell
  /\ RowC \subseteq Cell /\ Missing \notin RowC
  /\ \A x, y \in Cell : Plus(x, y) \in Cell /\ Plus(x, y) # Missing
  /\ \A x \in Cell : Plus(x, 1) \in Cell /\ Plus(x, 1) # Missing
  /\ \A x \in Cell : KeptD(x) \in Cell
BY ConstantsAssumption DEF Cell, Const, NewD, Null, Missing, Plus, KeptD

\* A value that is a number reads like itself only.
LEMMA SameNumber ==
  ASSUME NEW x \in Nat, NEW y
  PROVE  (Same(x, y) <=> x = y) /\ (Same(y, x) <=> x = y)
<1>1. x # Null /\ x # Missing
  BY DEF Null, Missing
<1>2. {x, y} # {Null, Missing} /\ {y, x} # {Null, Missing}
  BY <1>1
<1> QED
  BY <1>2 DEF Same

LEMMA WithTable ==
  ASSUME NEW t, IsTable(t), NEW k \in Key, NEW item \in AnyItem
  PROVE  IsTable(With(t, k, item))
BY DEF IsTable, With

LEMMA ItemType ==
  ASSUME NEW row \in Row
  PROVE  row.k \in Key /\ row.c \in RowC /\ ItemOf(row) \in AnyItem
         /\ ItemOf(row).c = row.c /\ ItemOf(row).d = NewD
BY CellType DEF Row, ItemOf, AnyItem

LEMMA SetColumn ==
  ASSUME NEW item \in AnyItem, NEW x \in Cell
  PROVE  /\ [item EXCEPT !.c = x] \in AnyItem
         /\ [item EXCEPT !.c = x].d = item.d
         /\ [item EXCEPT !.c = x].c = x
BY DEF AnyItem

LEMMA NewCType ==
  ASSUME mode \in Update, NEW c \in Cell, NEW row \in Row
  PROVE  NewC(c, row) \in Cell /\ NewC(c, row) # Missing
<1>1. row.c \in RowC
  BY DEF Row
<1>2. row.c \in Cell /\ row.c # Missing /\ Const \in Cell /\ Const # Missing
  BY <1>1, CellType DEF Const, Missing
<1> QED
  BY <1>2, CellType DEF NewC, Update

-----------------------------------------------------------------------------
(* The path of a statement *)

LEMMA PathIs ==
  ASSUME mode \in Mode \cup {"modify"}
  PROVE  /\ Path \in {"A", "B", "C", "insert", "ignore", "replace", "modify"}
         /\ Path \in {"A", "B", "C"} <=> mode \in Update
         /\ Path \notin {"A", "B", "C"} => Path = mode
         /\ Path = "A" => \A i \in Rows : Planned(list[i])
         /\ Path = "B" => /\ mode = "c = 1"
                          /\ \A i, j \in Rows :
                               KeyText[list[i].k] = KeyText[list[j].k] => i = j
<1>1. mode \in Update \cup {"insert", "ignore", "replace", "modify"}
  BY ConstantsAssumption
<1>2. mode \in Update => mode \notin {"A", "B", "C", "insert", "ignore", "replace", "modify"}
  BY DEF Update
<1>3. CASE mode \in Update
  BY <1>2, <1>3 DEF Path
<1>4. CASE mode \notin Update
  <2>1. Path = mode
    BY <1>4 DEF Path
  <2> QED
    BY <2>1, <1>1, <1>4
<1> QED
  BY <1>3, <1>4

LEMMA PathSame ==
  ASSUME mode' = mode, list' = list
  PROVE  Path' = Path /\ Rows' = Rows /\ Kept' = Kept /\ Increment' = Increment
BY DEF Path, Planned, Rows, Kept, Increment

-----------------------------------------------------------------------------
(* Path C: the entries that the loop over the rows makes *)

Texts == {KeyText[k] : k \in Key}
EntryOf == [k : Key, cur : AnyItem, new : BOOLEAN, changed : BOOLEAN]
EntryMap == UNION {[T -> EntryOf] : T \in SUBSET Texts}

LEMMA EntryMapIs ==
  ASSUME NEW s
  PROVE  s \in EntryMap <=> /\ DOMAIN s \subseteq Texts
                            /\ s = [t \in DOMAIN s |-> s[t]]
                            /\ \A t \in DOMAIN s : s[t] \in EntryOf
<1>1. ASSUME s \in EntryMap
      PROVE  /\ DOMAIN s \subseteq Texts
             /\ s = [t \in DOMAIN s |-> s[t]]
             /\ \A t \in DOMAIN s : s[t] \in EntryOf
  <2>1. PICK T \in SUBSET Texts : s \in [T -> EntryOf]
    BY <1>1 DEF EntryMap
  <2> QED
    BY <2>1
<1>2. ASSUME DOMAIN s \subseteq Texts,
             s = [t \in DOMAIN s |-> s[t]],
             \A t \in DOMAIN s : s[t] \in EntryOf
      PROVE  s \in EntryMap
  <2>1. s \in [DOMAIN s -> EntryOf]
    BY <1>2
  <2> QED
    BY <1>2, <2>1 DEF EntryMap
<1> QED
  BY <1>1, <1>2

LEMMA ReadStateType ==
  ASSUME IsTable(found)
  PROVE  ReadState \in EntryMap
<1> DEFINE last(t) == CHOOSE k \in DOMAIN found : KeyText[k] = t
<1>1. ASSUME NEW t \in {KeyText[k] : k \in DOMAIN found}
      PROVE  last(t) \in DOMAIN found /\ KeyText[last(t)] = t
  <2>1. \E k \in DOMAIN found : KeyText[k] = t
    OBVIOUS
  <2> QED
    BY <2>1
<1>2. ASSUME NEW t \in {KeyText[k] : k \in DOMAIN found}
      PROVE  Entry(last(t), found[last(t)], FALSE) \in EntryOf
  <2>1. last(t) \in Key /\ found[last(t)] \in AnyItem
    BY <1>1 DEF IsTable
  <2> HIDE DEF last
  <2> QED
    BY <2>1 DEF Entry, EntryOf
<1> HIDE DEF last
<1>3. ReadState = [t \in {KeyText[k] : k \in DOMAIN found} |->
                     Entry(last(t), found[last(t)], FALSE)]
  BY DEF ReadState, last
<1>4. {KeyText[k] : k \in DOMAIN found} \subseteq Texts
  BY DEF Texts, IsTable
<1>5. ReadState \in [{KeyText[k] : k \in DOMAIN found} -> EntryOf]
  BY <1>2, <1>3
<1> QED
  BY <1>4, <1>5 DEF EntryMap

LEMMA ApplyType ==
  ASSUME mode \in Update, NEW s \in EntryMap, NEW row \in Row
  PROVE  Apply(s, row) \in EntryMap
<1> DEFINE t == KeyText[row.k]
<1>1. t \in Texts /\ row.k \in Key
  BY ItemType DEF Texts
<1>2. DOMAIN s \subseteq Texts /\ \A u \in DOMAIN s : s[u] \in EntryOf
  BY EntryMapIs
<1>3. CASE t \notin DOMAIN s
  <2> DEFINE e == Entry(row.k, ItemOf(row), TRUE)
  <2>1. e \in EntryOf
    BY <1>1, ItemType DEF Entry, EntryOf
  <2>2. Apply(s, row) = With(s, t, e)
    BY <1>3 DEF Apply
  <2> HIDE DEF e, t
  <2>3. With(s, t, e) \in [DOMAIN s \cup {t} -> EntryOf]
    BY <2>1, <1>2 DEF With
  <2>4. DOMAIN s \cup {t} \in SUBSET Texts
    BY <1>1, <1>2
  <2> QED
    BY <2>2, <2>3, <2>4 DEF EntryMap
<1>4. CASE t \in DOMAIN s
  <2> DEFINE c == NewC(s[t].cur.c, row)
             b == s[t].changed \/ ~Same(s[t].cur.c, c)
             e == [s[t] EXCEPT !.cur.c = c, !.changed = b]
  <2>1. s[t] \in EntryOf /\ s[t].cur \in AnyItem /\ s[t].cur.c \in Cell /\ s[t].changed \in BOOLEAN
    BY <1>2, <1>4 DEF EntryOf, AnyItem
  <2>2. c \in Cell
    BY <2>1, NewCType
  <2>3. b \in BOOLEAN
    BY <2>1
  <2>4. Apply(s, row) = [s EXCEPT ![t] = e]
    BY <1>4 DEF Apply
  <2>5. e \in EntryOf
    <3> HIDE DEF c, b, t
    <3> QED
      BY <2>1, <2>2, <2>3 DEF EntryOf, AnyItem
  <2> HIDE DEF e, c, b, t
  <2>6. [s EXCEPT ![t] = e] \in [DOMAIN s -> EntryOf]
    <3>1. s \in [DOMAIN s -> EntryOf]
      BY EntryMapIs
    <3> QED
      BY <3>1, <2>5
  <2> QED
    BY <2>4, <2>6, <1>2 DEF EntryMap
<1> QED
  BY <1>3, <1>4

\* StateAfter is what the loop computes, and made of entries.
LEMMA StateAfterIs ==
  ASSUME mode \in Update, list \in Seq(Row), IsTable(found)
  PROVE  /\ StateAfter[0] = ReadState
         /\ \A n \in 1..Len(list) : StateAfter[n] = Apply(StateAfter[n - 1], list[n])
         /\ \A n \in 0..Len(list) : StateAfter[n] \in EntryMap
<1> DEFINE N == Len(list)
           F == [x \in EntryMap \X (1..N) |-> Apply(x[1], list[x[2]])]
<1>1. N \in Nat /\ \A i \in 1..N : list[i] \in Row
  OBVIOUS
<1>2. ASSUME NEW s \in EntryMap, NEW i \in 1..N
      PROVE  F[<<s, i>>] = Apply(s, list[i]) /\ F[<<s, i>>] \in EntryMap
  <2>1. <<s, i>> \in EntryMap \X (1..N)
    OBVIOUS
  <2>2. F[<<s, i>>] = Apply(s, list[i])
    BY <2>1
  <2> QED
    BY <2>2, <1>1, ApplyType
<1>3. ReadState \in EntryMap
  BY ReadStateType
<1>4. PICK g : Iteration(g, N, EntryMap, ReadState, F)
  <2>1. N \in Nat
    BY <1>1
  <2>2. \A s \in EntryMap : \A i \in 1..N : F[<<s, i>>] \in EntryMap
    BY <1>2
  <2> HIDE DEF N, F
  <2> QED
    BY <2>1, <2>2, <1>3, Iterates
<1>5. ASSUME NEW i \in 1..N PROVE g[i] = Apply(g[i - 1], list[i])
  <2>1. i - 1 \in 0..N
    BY <1>1
  <2>2. g[i - 1] \in EntryMap
    BY <2>1, <1>4 DEF Iteration
  <2> HIDE DEF N, F
  <2> QED
    BY <2>2, <1>2, <1>4 DEF Iteration
<1>6. g = [n \in 0..N |-> IF n = 0 THEN ReadState ELSE Apply(g[n - 1], list[n])]
  <2>1. \A n \in 0..N : n # 0 => n \in 1..N
    BY <1>1
  <2> HIDE DEF N, F
  <2> QED
    BY <2>1, <1>4, <1>5 DEF Iteration
<1>7. StateAfter = [n \in 0..N |-> IF n = 0 THEN ReadState ELSE Apply(StateAfter[n - 1], list[n])]
  BY <1>6 DEF StateAfter
<1>8. StateAfter[0] = ReadState
  BY <1>7, <1>1
<1>9. \A n \in 1..N : StateAfter[n] = Apply(StateAfter[n - 1], list[n])
  BY <1>7, <1>1
<1>10. 0..N \subseteq {n \in 0..N : StateAfter[n] \in EntryMap}
  <2> DEFINE T == {n \in 0..N : StateAfter[n] \in EntryMap}
  <2>1. 0 \in T
    BY <1>8, <1>3, <1>1
  <2>2. ASSUME NEW i \in 1..N, i - 1 \in T PROVE i \in T
    BY <2>2, <1>9, <1>1, ApplyType
  <2> HIDE DEF T, N
  <2> QED
    BY <2>1, <2>2, <1>1, UpTo DEF T
<1> QED
  BY <1>8, <1>9, <1>10

LEMMA EntriesType ==
  ASSUME mode \in Update, list \in Seq(Row), IsTable(found)
  PROVE  \A e \in Entries : e \in EntryOf
<1>1. StateAfter[Len(list)] \in EntryMap
  <2>1. Len(list) \in 0..Len(list)
    OBVIOUS
  <2> QED
    BY <2>1, StateAfterIs
<1> QED
  BY <1>1, EntryMapIs DEF Entries

-----------------------------------------------------------------------------
(* The invariant of an INSERT: types, where it may be on its path, which   *)
(* rows are left, and what its counts are made of                          *)

Outcome == {"nothing", "new", "same", "changed", "hit", "kept"}
Reading == {"reads", "compute", "write", "write new"}

Base ==
  /\ Bounds(client)
  /\ mode # "modify" => client \in Client
  /\ others \in Nat
  /\ IsTable(db) /\ IsTable(before) /\ IsTable(found)
  /\ DOMAIN before \subseteq client.keys
  /\ mode \in Mode \cup {"modify"}
  /\ list \in Seq(Row)
  /\ out \in [1..Len(list) -> Outcome]
  /\ count \in [affected : Int, changed : Int]

Control ==
  /\ at \in {"start", "items", "updates", "inserts", "transaction", "ok", "error", "modify"}
            \cup Reading
  /\ at = "modify" <=> mode = "modify"
  /\ at = "items" => Path = "A"
  /\ at = "updates" => Path = "B"
  /\ at = "inserts" => Path \in {"B", "ignore"}
  /\ at \in Reading => Path = "C"
  /\ at = "transaction" => Path \in {"insert", "replace"}

LeftOver ==
  /\ left \subseteq Rows \/ left \subseteq Key
  /\ at \in {"items", "updates", "inserts", "transaction"} => left \subseteq Rows
  /\ at \in {"reads", "modify"} => left \subseteq Key
  /\ at \in {"compute", "write", "write new"} => left = {}
  /\ at = "ok" /\ mode \notin {"insert", "replace"} => left = {}

InRange == count.affected \in 0..(2 * Len(list)) /\ count.changed \in 0..Len(list)

\* an INSERT is one transaction: all rows are new or none
AllOrNone ==
  mode = "insert" /\ at \in {"ok", "error"} =>
    \A i \in Rows : out[i] = IF at = "ok" THEN "new" ELSE "nothing"

Untouched ==
  at \in {"start", "transaction"} => failed = {} /\ \A i \in Rows : out[i] = "nothing"

\* Adding a row's value to c changes c: it is not 0 where an item may lack c, for ADD makes
\* that a 0 and counts no change.
AddsToValues == 0 \notin RowC \/ \A x \in Client : Missing \notin x.c

CountsA ==
  Path = "A" /\ at # "start" =>
    /\ at = "items" => \A i \in left : out[i] = "nothing"
    /\ count.affected >= 0
    /\ count.affected <= 2 * Num(out, Len(list), {"new", "same"})
                          + 2 * Num(out, Len(list), {"hit", "changed"})
    /\ AddsToValues => count.affected = Num(out, Len(list), {"new", "same"})
                                         + 2 * Num(out, Len(list), {"hit", "changed"})
    /\ count.changed = Num(out, Len(list), {"hit", "changed", "same"})

CountsB ==
  Path = "B" =>
    /\ at = "updates" =>
         /\ \A i \in Rows : out[i] \in {"nothing", "hit"}
         /\ \A i \in left : out[i] = "nothing"
         /\ \A f \in failed : f[1] \in Rows \ left /\ out[f[1]] = "nothing"
         /\ \A i \in Rows \ left : out[i] = "nothing" => \E f \in failed : f[1] = i
    /\ at \in {"inserts", "ok"} =>
         /\ count.changed = Num(out, Len(list), {"hit"})
         /\ count.affected = Num(out, Len(list), {"hit"}) + Len(list)
    /\ at = "inserts" =>
         /\ \A i \in left : out[i] = "nothing"
         /\ failed = {} => \A i \in Rows : /\ out[i] \in {"nothing", "hit", "new"}
                                           /\ out[i] = "nothing" => i \in left
    /\ at = "ok" => \A i \in Rows : out[i] \in {"hit", "new"}

\* no statement of the batch has been refused for another reason
Duplicates == \A f \in failed : f[2] = "DuplicateItem"

\* then the failures are those of the rows that were there, and no row is forgotten
Known ==
  Duplicates =>
    /\ failed = {<<i, "DuplicateItem">> : i \in {i \in 1..Len(list) : out[i] \in {"kept"}}}
    /\ \A i \in Kept \ left : out[i] # "nothing"

CountsIgnore ==
  Path = "ignore" =>
    /\ count.changed = 0
    /\ \A i \in Rows : out[i] \in {"nothing", "new", "kept"}
    /\ at = "inserts" =>
         /\ count.affected = Cardinality(Kept)
         /\ left \subseteq Kept
         /\ \A i \in left : out[i] = "nothing"
         /\ \A i \in Rows : out[i] # "nothing" => i \in Kept
         /\ Known
    /\ at = "ok" => count.affected = Num(out, Len(list), {"new"})

CountsInsert ==
  Path = "insert" =>
    /\ at = "ok" => count.affected = Len(list) /\ count.changed = 0
    /\ at = "transaction" => count = Zero
    /\ AllOrNone

ValuesThere ==
  Path = "A" /\ (\A x \in Client : Missing \notin x.c) => \A k \in DOMAIN db : db[k].c # Missing

Counts == Untouched /\ CountsA /\ CountsB /\ CountsIgnore /\ CountsInsert /\ ValuesThere

IInv == Base /\ Control /\ LeftOver /\ InRange /\ Counts

-----------------------------------------------------------------------------
(* The first state *)

LEMMA ListType ==
  ASSUME list \in Seq(Row)
  PROVE  /\ Len(list) \in Nat /\ Rows = 1..Len(list)
         /\ \A i \in Rows : list[i] \in Row
BY DEF Rows

LEMMA EmptyTable == IsTable([k \in {} |-> 0])
BY DEF IsTable

LEMMA ItemTable ==
  ASSUME Bounds(client), NEW K \in SUBSET client.keys, NEW t \in [K -> Item]
  PROVE  /\ IsTable(t) /\ DOMAIN t \subseteq client.keys
         /\ \A k \in DOMAIN t : t[k].c \in client.c
<1>1. Item \subseteq AnyItem /\ K \subseteq Key
  BY DEF Item, AnyItem, Bounds, Cell
<1> QED
  BY <1>1 DEF IsTable, Item

LEMMA InsertInit ==
  ASSUME Init
  PROVE  IInv
<1>1. client \in Client /\ Bounds(client)
  BY ConstantsAssumption DEF Init
<1>2. /\ IsTable(db) /\ IsTable(before) /\ IsTable(found)
      /\ DOMAIN before \subseteq client.keys
      /\ \A k \in DOMAIN db : db[k].c \in client.c
  BY <1>1, ItemTable, EmptyTable DEF Init
<1>3. list \in Seq(Row)
  <2>1. PICK n \in 1..client.rows : list \in [1..n -> {row \in Row : row.k \in client.keys}]
    BY DEF Init
  <2>2. n \in Nat
    BY <1>1 DEF Bounds
  <2> QED
    BY <2>1, <2>2
<1>4. mode \in Mode /\ mode # "modify"
  BY ConstantsAssumption DEF Init, Update
<1>5. Rows = 1..Len(list) /\ Len(list) \in Nat
  BY <1>3, ListType
<1>6. out \in [1..Len(list) -> Outcome] /\ \A i \in Rows : out[i] = "nothing"
  BY <1>5 DEF Init, Outcome
<1>7. count = Zero /\ others = 0 /\ at = "start" /\ left = {} /\ failed = {}
  BY DEF Init
<1>8. Base
  BY <1>1, <1>2, <1>3, <1>4, <1>6, <1>7 DEF Base, Zero
<1>9. Control /\ LeftOver
  BY <1>4, <1>7 DEF Control, LeftOver, Reading
<1>10. InRange
  BY <1>5, <1>7 DEF InRange, Zero
<1>11. Counts
  <2>1. CountsIgnore
    BY <1>6, <1>7 DEF CountsIgnore, Known, Zero
  <2>2. ValuesThere
    BY <1>1, <1>2 DEF ValuesThere
  <2> QED
    BY <1>6, <1>7, <2>1, <2>2
       DEF Counts, Untouched, CountsA, CountsB, CountsInsert, AllOrNone
<1> QED
  BY <1>8, <1>9, <1>10, <1>11 DEF IInv

LEMMA ModifyInitInv ==
  ASSUME ModifyInit
  PROVE  IInv
<1>1. client \in ModifyClient /\ Bounds(client)
  BY ModifyAssumption DEF ModifyInit
<1>2. /\ IsTable(db) /\ IsTable(before) /\ IsTable(found)
      /\ DOMAIN before \subseteq client.keys
  BY <1>1, ItemTable, EmptyTable DEF ModifyInit
<1>3. list = <<>> /\ list \in Seq(Row) /\ Len(list) = 0
  BY DEF ModifyInit
<1>4. mode = "modify" /\ at = "modify" /\ left = {} /\ failed = {} /\ out = <<>>
      /\ count = Zero /\ others = 0
  BY DEF ModifyInit
<1>5. Path = "modify"
  BY <1>4, PathIs DEF Update
<1>6. out \in [1..Len(list) -> Outcome]
  BY <1>3, <1>4
<1>7. Base
  BY <1>1, <1>2, <1>3, <1>4, <1>6 DEF Base, Zero
<1>8. Control /\ LeftOver /\ InRange
  BY <1>3, <1>4 DEF Control, LeftOver, InRange, Reading, Zero
<1>9. Counts
  BY <1>4, <1>5 DEF Counts, Untouched, CountsA, CountsB, CountsIgnore, Known, CountsInsert, ValuesThere
<1> QED
  BY <1>7, <1>8, <1>9 DEF IInv

-----------------------------------------------------------------------------
(* The steps of a statement *)

\* What every step leaves alone, and where a statement that has begun can be.
LEMMA Same0 ==
  ASSUME Base, mode' = mode, list' = list
  PROVE  /\ Path' = Path /\ Rows' = Rows /\ Kept' = Kept
         /\ Len(list)' = Len(list) /\ Len(list) \in Nat /\ Rows = 1..Len(list)
         /\ \A i \in Rows : list[i] \in Row
         /\ Path \in {"A", "B", "C", "insert", "ignore", "replace", "modify"}
         /\ Path \in {"A", "B", "C"} <=> mode \in Update
         /\ Path \notin {"A", "B", "C"} => Path = mode
<1>1. mode \in Mode \cup {"modify"} /\ list \in Seq(Row)
  BY DEF Base
<1> QED
  BY <1>1, PathSame, PathIs, ListType

LEMMA StartStep ==
  ASSUME IInv, Start, UNCHANGED client
  PROVE  IInv'
<1>1. Base /\ at = "start" /\ mode # "modify" /\ mode' = mode /\ list' = list
  BY DEF IInv, Control, Start
<1>2. /\ Path' = Path /\ Rows' = Rows /\ Kept' = Kept /\ Len(list)' = Len(list)
      /\ Len(list) \in Nat /\ Rows = 1..Len(list) /\ \A i \in Rows : list[i] \in Row
      /\ Path \in {"A", "B", "C", "insert", "ignore", "replace"}
      /\ Path \in {"A", "B", "C"} <=> mode \in Update
      /\ Path \notin {"A", "B", "C"} => Path = mode
  BY <1>1, Same0
<1>3. Kept \subseteq Rows /\ IsFiniteSet(Kept) /\ Cardinality(Kept) \in 0..Len(list)
  <2>1. Kept \subseteq Rows
    BY DEF Kept
  <2>2. IsFiniteSet(Rows) /\ Cardinality(Rows) = Len(list)
    BY <1>2, Interval
  <2> QED
    BY <2>1, <2>2, FS_Subset, FS_CardinalityType
<1>4. \/ mode \in {"ignore", "replace"} /\ count' = [affected |-> Cardinality(Kept), changed |-> 0]
      \/ mode \notin {"ignore", "replace"} /\ count' = [affected |-> 0, changed |-> 0]
  BY DEF Start, Zero
<1>5. Base'
  BY <1>1, <1>2, <1>3, <1>4 DEF Base, Start
<1>6. InRange'
  BY <1>2, <1>3, <1>4 DEF InRange
<1>7. /\ Path = "A" => at' = "items" /\ left' = Rows
      /\ Path = "B" => at' = "updates" /\ left' = Rows
      /\ Path = "C" => at' = "reads" /\ left' = Wanted
      /\ Path = "ignore" => at' = "inserts" /\ left' = Kept
      /\ Path = "replace" => at' = "transaction" /\ left' = Kept
      /\ Path = "insert" => at' = "transaction" /\ left' = Rows
  BY DEF Start
<1>8. Control'
  BY <1>1, <1>2, <1>7 DEF Control, Reading
<1>9. LeftOver'
  <2>1. Wanted \subseteq Key
    BY <1>2, ItemType DEF Wanted
  <2> QED
    BY <2>1, <1>1, <1>2, <1>3, <1>7 DEF LeftOver
<1>10. failed' = {} /\ out' = out /\ failed = {} /\ \A i \in Rows : out[i] = "nothing"
  BY <1>1 DEF IInv, Counts, Untouched, Start
<1>11. Counts'
  <2>1. Untouched' /\ CountsInsert'
    BY <1>2, <1>4, <1>7, <1>10 DEF Untouched, CountsInsert, AllOrNone, Zero
  <2>2. CountsA'
    <3>1. /\ Num(out, Len(list), {"new", "same"}) = 0
          /\ Num(out, Len(list), {"hit", "changed"}) = 0
          /\ Num(out, Len(list), {"hit", "changed", "same"}) = 0
      BY <1>2, <1>10, NumNone
    <3>2. Path = "A" => count' = [affected |-> 0, changed |-> 0]
      BY <1>2, <1>4 DEF Update
    <3> QED
      BY <3>1, <3>2, <1>2, <1>7, <1>10 DEF CountsA
  <2>3. CountsB'
    BY <1>2, <1>7, <1>10 DEF CountsB
  <2>4. CountsIgnore'
    <3>1. ASSUME Path = "ignore"
          PROVE  /\ count'.changed = 0 /\ count'.affected = Cardinality(Kept)
                 /\ at' = "inserts" /\ left' = Kept
      <4>1. mode = "ignore"
        BY <3>1, <1>2
      <4> QED
        BY <3>1, <4>1, <1>4, <1>7
    <3> DEFINE kept == {i \in 1..Len(list) : out[i] \in {"kept"}}
    <3>2. kept = {}
      BY <1>2, <1>10
    <3>3. failed' = {<<i, "DuplicateItem">> : i \in kept}
      <4> HIDE DEF kept
      <4> QED
        BY <3>2, <1>10
    <3>4. kept = {i \in 1..Len(list)' : out'[i] \in {"kept"}}
      BY <1>2, <1>10
    <3>5. /\ \A i \in Rows' : /\ out'[i] \in {"nothing", "new", "kept"}
                              /\ out'[i] # "nothing" => i \in Kept'
          /\ \A i \in left' : Path = "ignore" => out'[i] = "nothing"
      <4>1. Kept \subseteq Rows
        BY DEF Kept
      <4> QED
        BY <4>1, <3>1, <1>2, <1>10
    <3>6. failed' = {<<i, "DuplicateItem">> : i \in {i \in 1..Len(list)' : out'[i] \in {"kept"}}}
      BY <3>3, <3>4
    <3>7. Path = "ignore" =>
            /\ count'.changed = 0 /\ count'.affected = Cardinality(Kept')
            /\ at' # "ok" /\ left' = Kept'
            /\ \A i \in left' : out'[i] = "nothing"
      BY <3>1, <3>5, <1>2
    <3>8. Path = "ignore" => Known'
      BY <3>6, <3>7 DEF Known
    <3> HIDE DEF kept
    <3> QED
      BY <3>5, <3>7, <3>8, <1>2 DEF CountsIgnore
  <2>5. ValuesThere'
    BY <1>2 DEF IInv, Counts, ValuesThere, Start
  <2> QED
    BY <2>1, <2>2, <2>3, <2>4, <2>5 DEF Counts
<1> QED
  BY <1>5, <1>6, <1>8, <1>9, <1>11 DEF IInv

\* An increment is a change unless it is by 0; so are the counts of path A true.
LEMMA Incremented ==
  ASSUME Path = "A", mode \in Mode, list \in Seq(Row), NEW i \in Rows, NEW old \in Cell,
         ~(Increment /\ old = Null), (\A x \in Client : Missing \notin x.c) => old # Missing
  PROVE  LET row == list[i]
             new == IF ~Increment THEN NewC(old, row)
                    ELSE row.c + (IF old = Missing THEN 0 ELSE old)
         IN  /\ new \in Cell /\ new # Missing
             /\ AddsToValues \/ old # Missing =>
                  ((IF Increment THEN row.c # 0 ELSE ~Same(old, new)) <=> ~Same(old, new))
<1> DEFINE row == list[i]
<1>1. mode \in Update /\ Planned(row) /\ row \in Row
  BY PathIs, ListType
<1>2. CASE ~Increment
  BY <1>1, <1>2, NewCType
<1>3. CASE Increment
  <2>1. row.c \in Nat /\ row.c \in RowC
    <3>1. row.c \in RowC
      BY <1>1, ItemType
    <3> HIDE DEF row
    <3>2. row.c # Null
      <4>1. Planned(row) /\ mode \in {"c = c + VALUES(c)", "c = c + 1"}
        BY <1>1, <1>3 DEF Increment
      <4>2. row.c # Null \/ row.c = 1
        BY <4>1 DEF Planned
      <4> QED
        BY <4>2 DEF Null
    <3> QED
      BY <3>1, <3>2, ConstantsAssumption
  <2>2. CASE old = Missing
    <3>1. AddsToValues => row.c # 0
      BY <2>1, <2>2 DEF AddsToValues
    <3>2. ~Same(old, row.c)
      BY <2>1, <2>2, SameNumber DEF Missing
    <3> QED
      BY <2>1, <2>2, <3>1, <3>2, <1>3 DEF Cell, Missing
  <2>3. CASE old # Missing
    <3>1. old \in Nat
      BY <2>3, <1>3 DEF Cell
    <3>2. Same(old, row.c + old) <=> old = row.c + old
      BY <3>1, SameNumber
    <3>3. row.c + old \in Nat
      BY <2>1, <3>1
    <3>4. (old = row.c + old) <=> row.c = 0
      BY <2>1, <3>1
    <3> QED
      BY <2>3, <3>2, <3>3, <3>4, <1>3 DEF Cell, Missing
  <2> QED
    BY <2>2, <2>3
<1> QED
  BY <1>2, <1>3

\* The three things that an UpdateItem can do.
LEMMA UpdateItemCases ==
  ASSUME NEW i \in Rows, UpdateItem(i)
  PROVE  LET row == list[i]
             new == IF ~Increment THEN NewC(db[row.k].c, row)
                    ELSE row.c + (IF db[row.k].c = Missing THEN 0 ELSE db[row.k].c)
         IN  /\ at = "items" /\ i \in left /\ left' = left \ {i}
             /\ UNCHANGED <<before, mode, list, failed, found, others>>
             /\ \/ /\ row.k \notin DOMAIN db
                   /\ db' = With(db, row.k, ItemOf(row))
                   /\ out' = [out EXCEPT ![i] = "new"]
                   /\ Add(1, 0)
                   /\ at' = IF left' = {} THEN "ok" ELSE at
                \/ /\ row.k \in DOMAIN db
                   /\ at' = "error" /\ UNCHANGED <<db, out, count>>
                \/ /\ row.k \in DOMAIN db
                   /\ ~(Increment /\ db[row.k].c = Null)
                   /\ db' = With(db, row.k, [c |-> new, d |-> KeptD(db[row.k].d)])
                   /\ out' = [out EXCEPT ![i] = IF Same(db[row.k].c, new) THEN "same"
                                               ELSE "changed"]
                   /\ CountA(row, db[row.k].c, new)
                   /\ at' = IF left' = {} THEN "ok" ELSE at
BY DEF UpdateItem, End

LEMMA UpdateItemStep ==
  ASSUME IInv, NEW i \in Rows, UpdateItem(i), UNCHANGED client
  PROVE  IInv'
<1> DEFINE row == list[i]
           old == db[row.k].c
           new == IF ~Increment THEN NewC(old, row)
                  ELSE row.c + (IF old = Missing THEN 0 ELSE old)
           n == Len(list)
<1>1. /\ at = "items" /\ i \in left /\ left' = left \ {i}
      /\ before' = before /\ mode' = mode /\ list' = list /\ failed' = failed
      /\ found' = found /\ others' = others
  BY UpdateItemCases
<1>2. Base /\ Path = "A" /\ left \subseteq Rows /\ mode \in Mode /\ mode # "modify"
  BY <1>1 DEF IInv, Control, LeftOver, Base
<1>3. /\ Path' = Path /\ Rows' = Rows /\ Len(list)' = n /\ n \in Nat /\ Rows = 1..n
      /\ row \in Row /\ mode \in Update
  BY <1>1, <1>2, Same0
<1>4. row.k \in Key /\ row.c \in RowC /\ ItemOf(row) \in AnyItem
      /\ ItemOf(row).c # Missing /\ RowC \subseteq Cell
  BY <1>3, ItemType, CellType
<1>5. /\ out \in [1..n -> Outcome] /\ out[i] = "nothing"
      /\ \A j \in left : out[j] = "nothing"
      /\ count.affected >= 0
      /\ count.affected <= 2 * Num(out, n, {"new", "same"}) + 2 * Num(out, n, {"hit", "changed"})
      /\ AddsToValues =>
           count.affected = Num(out, n, {"new", "same"}) + 2 * Num(out, n, {"hit", "changed"})
      /\ count.changed = Num(out, n, {"hit", "changed", "same"})
      /\ count \in [affected : Int, changed : Int]
  BY <1>1, <1>2 DEF IInv, Counts, CountsA, Base
<1> DEFINE Given(x) == \* the row has the outcome x, and is counted
      /\ x \in {"new", "same", "changed"}
      /\ out' = [out EXCEPT ![i] = x]
      /\ count'.affected \in {count.affected + 1, count.affected + 2}
      /\ AddsToValues => count'.affected = count.affected + (IF x = "changed" THEN 2 ELSE 1)
      /\ count'.changed = count.changed + (IF x = "new" THEN 0 ELSE 1)
      /\ count' = [affected |-> count'.affected, changed |-> count'.changed]
<1>6. \/ /\ at' = "error" /\ db' = db /\ out' = out /\ count' = count
      \/ /\ at' = IF left' = {} THEN "ok" ELSE "items"
         /\ \E x : Given(x)
         /\ IsTable(db')
         /\ (\A x \in Client : Missing \notin x.c) => \A k \in DOMAIN db' : db'[k].c # Missing
  <2>1. CASE row.k \notin DOMAIN db /\ at' # "error"
    <3>1. db' = With(db, row.k, ItemOf(row)) /\ out' = [out EXCEPT ![i] = "new"]
          /\ Add(1, 0) /\ at' = IF left' = {} THEN "ok" ELSE "items"
      BY <2>1, <1>1, UpdateItemCases
    <3>2. Given("new")
      BY <3>1, <1>2 DEF Add, Base
    <3>3. IsTable(db')
      BY <3>1, <1>2, <1>4, WithTable DEF Base
    <3>4. (\A x \in Client : Missing \notin x.c) => \A k \in DOMAIN db' : db'[k].c # Missing
      BY <3>1, <1>2, <1>4 DEF IInv, Counts, ValuesThere, With
    <3> HIDE DEF Given
    <3> QED
      BY <3>1, <3>2, <3>3, <3>4
  <2>2. CASE row.k \in DOMAIN db /\ at' # "error"
    <3>1. /\ ~(Increment /\ old = Null)
          /\ db' = With(db, row.k, [c |-> new, d |-> KeptD(db[row.k].d)])
          /\ out' = [out EXCEPT ![i] = IF Same(old, new) THEN "same" ELSE "changed"]
          /\ CountA(row, old, new)
          /\ at' = IF left' = {} THEN "ok" ELSE "items"
      BY <2>2, <1>1, UpdateItemCases
    <3>2. db[row.k] \in AnyItem /\ old \in Cell /\ KeptD(db[row.k].d) \in Cell
      BY <2>2, <1>2, CellType DEF Base, IsTable, AnyItem
    <3>3. (\A x \in Client : Missing \notin x.c) => old # Missing
      BY <2>2, <1>2 DEF IInv, Counts, ValuesThere
    <3>4. /\ new \in Cell /\ new # Missing
          /\ AddsToValues =>
               ((IF Increment THEN row.c # 0 ELSE ~Same(old, new)) <=> ~Same(old, new))
      <4> HIDE DEF old
      <4> QED
        BY <3>1, <3>2, <3>3, <1>2, Incremented DEF Base
    <3> HIDE DEF new, old
    <3>5. \E x : Given(x)
      <4>1. PICK a \in {1, 2} : Add(a, 1) /\ (AddsToValues => a = IF Same(old, new) THEN 1 ELSE 2)
        BY <3>1, <3>4 DEF CountA
      <4>2. /\ count'.affected = count.affected + a /\ count'.changed = count.changed + 1
            /\ count' = [affected |-> count'.affected, changed |-> count'.changed]
        BY <4>1 DEF Add
      <4>3. CASE Same(old, new)
        <5>1. Given("same")
          BY <3>1, <4>1, <4>2, <4>3
        <5> QED
          BY <5>1
      <4>4. CASE ~Same(old, new)
        <5>1. Given("changed")
          BY <3>1, <4>1, <4>2, <4>4
        <5> QED
          BY <5>1
      <4> QED
        BY <4>3, <4>4
    <3>6. [c |-> new, d |-> KeptD(db[row.k].d)] \in AnyItem
      BY <3>2, <3>4 DEF AnyItem
    <3>7. IsTable(db')
      BY <3>1, <3>6, <1>2, <1>4, WithTable DEF Base
    <3>8. (\A x \in Client : Missing \notin x.c) => \A k \in DOMAIN db' : db'[k].c # Missing
      BY <3>1, <3>4, <1>2 DEF IInv, Counts, ValuesThere, With
    <3> HIDE DEF Given
    <3> QED
      BY <3>1, <3>5, <3>7, <3>8
  <2>3. CASE at' = "error"
    BY <2>3, <1>1, UpdateItemCases
  <2> QED
    BY <2>1, <2>2, <2>3
<1> HIDE DEF Given, new, old
<1>7. CASE at' = "error" /\ db' = db /\ out' = out /\ count' = count
  <2>1. Base' /\ Control' /\ LeftOver' /\ InRange'
    BY <1>1, <1>2, <1>3, <1>7 DEF IInv, Base, Control, LeftOver, InRange, Reading
  <2>2. Counts'
    BY <1>1, <1>2, <1>3, <1>7
       DEF IInv, Counts, Untouched, CountsA, CountsB, CountsIgnore, Known, CountsInsert, ValuesThere
  <2> QED
    BY <2>1, <2>2 DEF IInv
<1>8. CASE /\ at' = IF left' = {} THEN "ok" ELSE "items"
           /\ \E x : Given(x)
           /\ IsTable(db')
           /\ (\A x \in Client : Missing \notin x.c) => \A k \in DOMAIN db' : db'[k].c # Missing
  <2>1. PICK x : Given(x)
    BY <1>8
  <2>2. x \in {"new", "same", "changed"} /\ out' = [out EXCEPT ![i] = x]
    BY <2>1 DEF Given
  <2> DEFINE NewSame == Num(out, n, {"new", "same"})
             HitChanged == Num(out, n, {"hit", "changed"})
             Dups == Num(out, n, {"hit", "changed", "same"})
  <2>3. NewSame \in Nat /\ HitChanged \in Nat /\ Dups \in Nat
    BY <1>3, NumRange
  <2>4. /\ Num(out', n, {"new", "same"}) = NewSame + (IF x \in {"new", "same"} THEN 1 ELSE 0)
        /\ Num(out', n, {"hit", "changed"})
             = HitChanged + (IF x \in {"hit", "changed"} THEN 1 ELSE 0)
        /\ Num(out', n, {"hit", "changed", "same"})
             = Dups + (IF x \in {"hit", "changed", "same"} THEN 1 ELSE 0)
    <3>1. /\ n \in Nat /\ DOMAIN out = 1..n /\ i \in 1..n /\ out' = [out EXCEPT ![i] = x]
          /\ out[i] \notin {"new", "same"} /\ out[i] \notin {"hit", "changed"}
          /\ out[i] \notin {"hit", "changed", "same"}
      BY <2>2, <1>3, <1>5
    <3> HIDE DEF n
    <3>2. \A kinds : out[i] \notin kinds =>
            Num(out', n, kinds) = Num(out, n, kinds) + (IF x \in kinds THEN 1 ELSE 0)
      <4>1. Gets(out, out', n, i, x)
        BY <3>1 DEF Gets
      <4> QED
        BY <4>1, NumOne
    <3> QED
      BY <3>1, <3>2
  <2>5. /\ count.affected >= 0 /\ count.affected <= 2 * NewSame + 2 * HitChanged
        /\ AddsToValues => count.affected = NewSame + 2 * HitChanged
        /\ count.changed = Dups
        /\ count.affected \in Int /\ count.changed \in Int
    BY <1>5
  <2> HIDE DEF NewSame, HitChanged, Dups
  <2> DEFINE NewSame2 == Num(out', n, {"new", "same"})
             HitChanged2 == Num(out', n, {"hit", "changed"})
             Dups2 == Num(out', n, {"hit", "changed", "same"})
  <2>6. /\ count'.affected >= 0 /\ count'.affected <= 2 * NewSame2 + 2 * HitChanged2
        /\ AddsToValues => count'.affected = NewSame2 + 2 * HitChanged2
        /\ count'.changed = Dups2
        /\ count' \in [affected : Int, changed : Int]
    <3>1. /\ count'.affected \in {count.affected + 1, count.affected + 2}
          /\ AddsToValues => count'.affected = count.affected + (IF x = "changed" THEN 2 ELSE 1)
          /\ count'.changed = count.changed + (IF x = "new" THEN 0 ELSE 1)
          /\ count' = [affected |-> count'.affected, changed |-> count'.changed]
      BY <2>1 DEF Given
    <3>2. NewSame2 + HitChanged2 = NewSame + HitChanged + 1
          /\ NewSame2 + 2 * HitChanged2
               = NewSame + 2 * HitChanged + (IF x = "changed" THEN 2 ELSE 1)
          /\ Dups2 = Dups + (IF x = "new" THEN 0 ELSE 1)
          /\ NewSame2 \in Nat /\ HitChanged2 \in Nat /\ Dups2 \in Nat
      <4>1. /\ NewSame2 = NewSame + (IF x = "changed" THEN 0 ELSE 1)
            /\ HitChanged2 = HitChanged + (IF x = "changed" THEN 1 ELSE 0)
            /\ Dups2 = Dups + (IF x = "new" THEN 0 ELSE 1)
        BY <2>2, <2>4
      <4> HIDE DEF NewSame2, HitChanged2, Dups2
      <4> QED
        BY <4>1, <2>3
    <3> HIDE DEF NewSame2, HitChanged2, Dups2
    <3>3. count'.affected \in Int /\ count'.changed \in Int
      BY <3>1, <2>5
    <3>4. count'.affected >= 0 /\ count'.affected <= 2 * NewSame2 + 2 * HitChanged2
      BY <3>1, <3>2, <2>3, <2>5
    <3>5. AddsToValues => count'.affected = NewSame2 + 2 * HitChanged2
      BY <3>1, <3>2, <2>3, <2>5
    <3>6. count'.changed = Dups2
      BY <3>1, <3>2, <2>3, <2>5
    <3>7. count' \in [affected : Int, changed : Int]
      BY <3>1, <3>3
    <3> QED
      BY <3>4, <3>5, <3>6, <3>7
  <2>7. out' \in [1..n -> Outcome]
    BY <2>2, <1>5 DEF Outcome
  <2>8. Base'
    BY <1>1, <1>2, <1>3, <1>8, <2>6, <2>7 DEF Base
  <2>9. Control' /\ LeftOver'
    BY <1>1, <1>2, <1>3, <1>8 DEF IInv, Control, LeftOver, Reading
  <2>10. InRange'
    <3>1. /\ Num(out', n, {"new", "same"}) \in Nat /\ Num(out', n, {"hit", "changed"}) \in Nat
          /\ Num(out', n, {"hit", "changed", "same"}) \in Nat
          /\ Num(out', n, {"hit", "changed", "same"}) <= n
      BY <1>3, NumRange
    <3>2. Num(out', n, {"new", "same"}) + Num(out', n, {"hit", "changed"}) <= n
      BY <1>3, NumSum
    <3> QED
      BY <3>1, <3>2, <2>6, <1>1, <1>3 DEF InRange
  <2>11. CountsA'
    <3>1. \A j \in left' : out'[j] = "nothing"
      BY <2>2, <1>1, <1>2, <1>3, <1>5
    <3> QED
      BY <3>1, <2>6, <1>1, <1>3 DEF CountsA
  <2>12. Counts'
    BY <2>11, <1>1, <1>2, <1>3, <1>8
       DEF Counts, Untouched, CountsB, CountsIgnore, Known, CountsInsert, ValuesThere
  <2> QED
    BY <2>8, <2>9, <2>10, <2>12 DEF IInv
<1> QED
  BY <1>6, <1>7, <1>8

LEMMA WithoutTable ==
  ASSUME NEW t, IsTable(t), NEW S
  PROVE  IsTable([k \in DOMAIN t \ S |-> t[k]])
BY DEF IsTable

\* What the counts are made of, but for the values in the table.
LEMMA PartsSame ==
  ASSUME UNCHANGED <<at, left, failed, out, count>>,
         Path' = Path, Rows' = Rows, Kept' = Kept, list' = list, mode' = mode
  PROVE  /\ Untouched => Untouched'
         /\ CountsA => CountsA'
         /\ CountsB => CountsB'
         /\ CountsIgnore => CountsIgnore'
         /\ CountsInsert => CountsInsert'
<1>1. Untouched => Untouched'
  BY DEF Untouched
<1>2. CountsA => CountsA'
  BY DEF CountsA, Num
<1>3. CountsB => CountsB'
  BY DEF CountsB, Num
<1>4. CountsIgnore => CountsIgnore'
  <2>1. Duplicates' <=> Duplicates
    BY DEF Duplicates
  <2> QED
    BY <2>1 DEF CountsIgnore, Known, Num
<1>5. CountsInsert => CountsInsert'
  BY DEF CountsInsert, AllOrNone
<1> QED
  BY <1>1, <1>2, <1>3, <1>4, <1>5

LEMMA OtherStep ==
  ASSUME IInv, NEW k \in Key, Other(k), UNCHANGED client
  PROVE  IInv'
<1>1. /\ before' = before /\ mode' = mode /\ list' = list /\ at' = at /\ left' = left
      /\ failed' = failed /\ found' = found /\ out' = out /\ count' = count
      /\ others' = others + 1
  BY DEF Other
<1>2. Base
  BY DEF IInv
<1>3. /\ Path' = Path /\ Rows' = Rows /\ Kept' = Kept /\ Len(list)' = Len(list)
      /\ Path = "A" => mode \in Update
  BY <1>1, <1>2, Same0
<1>4. /\ IsTable(db')
      /\ mode # "modify" /\ (\A x \in Client : Missing \notin x.c) /\ ValuesThere /\ Path = "A"
           => \A j \in DOMAIN db' : db'[j].c # Missing
  <2>1. CASE \E item \in Item : db' = With(db, k, item)
    <3>1. PICK item \in Item : db' = With(db, k, item)
      BY <2>1
    <3>2. item \in AnyItem /\ item.c \in client.c
      BY <1>2 DEF Item, Base, Bounds, AnyItem, Cell
    <3>3. IsTable(db')
      BY <3>1, <3>2, <1>2, WithTable DEF Base
    <3>4. mode # "modify" => client \in Client
      BY <1>2 DEF Base
    <3> QED
      BY <3>1, <3>2, <3>3, <3>4 DEF ValuesThere, With
  <2>2. CASE k \in DOMAIN db /\ db' = [j \in DOMAIN db \ {k} |-> db[j]]
    <3>1. IsTable(db')
      BY <2>2, <1>2, WithoutTable DEF Base
    <3> QED
      BY <2>2, <3>1 DEF ValuesThere
  <2> QED
    BY <2>1, <2>2 DEF Other
<1>5. Base'
  BY <1>1, <1>2, <1>4 DEF Base
<1>6. Control' /\ LeftOver' /\ InRange'
  BY <1>1, <1>3 DEF IInv, Control, LeftOver, InRange, Reading
<1>7. ValuesThere'
  <2>1. Path = "A" => mode # "modify"
    BY <1>3 DEF Update
  <2> QED
    BY <2>1, <1>3, <1>4 DEF IInv, Counts, ValuesThere
<1>8. Counts'
  BY <1>1, <1>3, <1>7, PartsSame DEF IInv, Counts
<1> QED
  BY <1>5, <1>6, <1>8 DEF IInv

LEMMA BatchUpdateStep ==
  ASSUME IInv, NEW i \in Rows, BatchUpdate(i), UNCHANGED client
  PROVE  IInv'
<1> DEFINE k == list[i].k
<1>1. /\ at = "updates" /\ i \in left /\ left' = left \ {i}
      /\ before' = before /\ mode' = mode /\ list' = list /\ at' = at
      /\ found' = found /\ others' = others /\ count' = count
  BY DEF BatchUpdate
<1>2. Base /\ Path = "B" /\ left \subseteq Rows
  BY <1>1 DEF IInv, Control, LeftOver
<1>3. /\ Path' = Path /\ Rows' = Rows /\ Len(list)' = Len(list) /\ Rows = 1..Len(list)
      /\ list[i] \in Row /\ mode \in Update
  BY <1>1, <1>2, Same0
<1>4. /\ out \in [Rows -> Outcome] /\ \A j \in Rows : out[j] \in {"nothing", "hit"}
      /\ \A j \in left : out[j] = "nothing"
      /\ \A f \in failed : f[1] \in Rows \ left /\ out[f[1]] = "nothing"
      /\ \A j \in Rows \ left : out[j] = "nothing" => \E f \in failed : f[1] = j
  BY <1>1, <1>2, <1>3 DEF IInv, Counts, CountsB, Base
<1>5. CASE k \in DOMAIN db /\ db' = [db EXCEPT ![k].c = NewC(db[k].c, list[i])]
           /\ out' = [out EXCEPT ![i] = "hit"] /\ failed' = failed
  <2>1. db[k] \in AnyItem /\ db[k].c \in Cell
    BY <1>2, <1>5 DEF Base, IsTable, AnyItem
  <2>2. NewC(db[k].c, list[i]) \in Cell
    BY <2>1, <1>3, NewCType
  <2> DEFINE new == [db[k] EXCEPT !.c = NewC(db[k].c, list[i])]
  <2>3. new \in AnyItem /\ db' = [db EXCEPT ![k] = new]
    BY <2>1, <2>2, <1>5, SetColumn
  <2> HIDE DEF new, k
  <2>4. IsTable(db')
    BY <2>3, <1>2, <1>5 DEF Base, IsTable
  <2>5. out' \in [Rows -> Outcome]
    BY <1>4, <1>5 DEF Outcome
  <2>6. Base'
    BY <2>4, <2>5, <1>1, <1>2, <1>3 DEF Base
  <2>7. CountsB'
    <3>1. /\ \A j \in Rows : out'[j] \in {"nothing", "hit"}
          /\ \A j \in left' : out'[j] = "nothing"
      BY <1>1, <1>2, <1>4, <1>5
    <3>2. \A f \in failed' : f[1] \in Rows \ left' /\ out'[f[1]] = "nothing"
      BY <1>1, <1>2, <1>4, <1>5
    <3>3. \A j \in Rows \ left' : out'[j] = "nothing" => \E f \in failed' : f[1] = j
      BY <1>1, <1>2, <1>4, <1>5
    <3> QED
      BY <3>1, <3>2, <3>3, <1>1, <1>3 DEF CountsB
  <2>8. Counts'
    BY <2>7, <1>1, <1>2, <1>3
       DEF Counts, Untouched, CountsA, CountsIgnore, Known, CountsInsert, ValuesThere
  <2>9. Control' /\ LeftOver' /\ InRange'
    BY <1>1, <1>2, <1>3 DEF IInv, Control, LeftOver, InRange, Reading
  <2> QED
    BY <2>6, <2>8, <2>9 DEF IInv
<1>6. CASE (\E why : failed' = failed \cup {<<i, why>>}) /\ db' = db /\ out' = out
  <2>1. PICK why : failed' = failed \cup {<<i, why>>}
    BY <1>6
  <2>2. Base'
    BY <1>1, <1>2, <1>3, <1>6 DEF Base
  <2>3. CountsB'
    <3>1. \A f \in failed' : f[1] \in Rows \ left' /\ out'[f[1]] = "nothing"
      BY <2>1, <1>1, <1>2, <1>4, <1>6
    <3>2. ASSUME NEW j \in Rows \ left', out'[j] = "nothing"
          PROVE  \E f \in failed' : f[1] = j
      <4>1. CASE j = i
        <5>1. <<i, why>> \in failed' /\ <<i, why>>[1] = i
          BY <2>1
        <5> QED
          BY <5>1, <4>1
      <4>2. CASE j # i
        <5>1. j \in Rows \ left /\ out[j] = "nothing"
          BY <3>2, <4>2, <1>1, <1>3, <1>6
        <5> QED
          BY <5>1, <2>1, <1>4
      <4> QED
        BY <4>1, <4>2
    <3> QED
      BY <3>1, <3>2, <1>1, <1>2, <1>3, <1>4, <1>6 DEF CountsB
  <2>4. Counts'
    BY <2>3, <1>1, <1>2, <1>3
       DEF Counts, Untouched, CountsA, CountsIgnore, Known, CountsInsert, ValuesThere
  <2>5. Control' /\ LeftOver' /\ InRange'
    BY <1>1, <1>2, <1>3 DEF IInv, Control, LeftOver, InRange, Reading
  <2> QED
    BY <2>2, <2>4, <2>5 DEF IInv
<1> QED
  BY <1>5, <1>6 DEF BatchUpdate

LEMMA UpdatedStep ==
  ASSUME IInv, Updated, UNCHANGED client
  PROVE  IInv'
<1> DEFINE missing == {f[1] : f \in failed}
           n == Len(list)
           H == {i \in 1..n : out[i] \in {"hit"}}
<1>1. /\ at = "updates" /\ left = {} /\ db' = db /\ failed' = {}
      /\ before' = before /\ mode' = mode /\ list' = list
      /\ found' = found /\ others' = others /\ out' = out
  BY DEF Updated
<1>2. Base /\ Path = "B"
  BY <1>1 DEF IInv, Control
<1>3. /\ Path' = Path /\ Rows' = Rows /\ Len(list)' = n /\ Rows = 1..n /\ n \in Nat
  BY <1>1, <1>2, Same0
<1>4. /\ \A j \in Rows : out[j] \in {"nothing", "hit"}
      /\ \A f \in failed : f[1] \in Rows /\ out[f[1]] = "nothing"
      /\ \A j \in Rows : out[j] = "nothing" => \E f \in failed : f[1] = j
  BY <1>1, <1>2 DEF IInv, Counts, CountsB
<1>5. missing = Rows \ H /\ H \subseteq Rows
  BY <1>3, <1>4
<1>6. /\ Cardinality(Rows) = n /\ Cardinality(H) = Num(out, n, {"hit"})
      /\ Cardinality(H) \in Nat /\ Cardinality(H) <= n
      /\ Cardinality(missing) = n - Cardinality(H)
  <2>1. IsFiniteSet(Rows) /\ Cardinality(Rows) = n
    BY <1>3, Interval
  <2>2. Cardinality(H) = Num(out, n, {"hit"})
    BY DEF Num
  <2>3. Num(out, n, {"hit"}) \in Nat /\ Num(out, n, {"hit"}) <= n
    BY <1>3, NumRange
  <2> HIDE DEF missing, H, n
  <2>4. Cardinality(Rows \ H) = Cardinality(Rows) - Cardinality(Rows \cap H)
    BY <2>1, FS_Difference
  <2>5. Rows \cap H = H
    BY <1>5
  <2> QED
    BY <2>1, <2>2, <2>3, <2>4, <2>5, <1>5
<1>7. CASE at' = "error" /\ left' = left /\ count' = count
  <2>1. Base' /\ Control' /\ LeftOver' /\ InRange'
    BY <1>1, <1>2, <1>3, <1>7 DEF IInv, Base, Control, LeftOver, InRange, Reading
  <2>2. Counts'
    BY <1>1, <1>2, <1>3, <1>7
       DEF Counts, Untouched, CountsA, CountsB, CountsIgnore, Known, CountsInsert, ValuesThere
  <2> QED
    BY <2>1, <2>2 DEF IInv
<1>8. CASE LET hits == Cardinality(Rows) - Cardinality(missing) IN
           /\ count' = [affected |-> 2 * hits + Cardinality(missing), changed |-> hits]
           /\ left' = missing
           /\ at' = IF missing = {} THEN "ok" ELSE "inserts"
  <2>1. /\ count'.affected = Num(out, n, {"hit"}) + n
        /\ count'.changed = Num(out, n, {"hit"})
        /\ count'.affected \in 0..(2 * n) /\ count'.changed \in 0..n
        /\ count' \in [affected : Int, changed : Int]
    <3> HIDE DEF missing, n, H
    <3>1. /\ n \in Nat /\ Cardinality(H) \in Nat /\ Cardinality(H) <= n
          /\ Cardinality(Rows) - Cardinality(missing) = Cardinality(H)
          /\ 2 * Cardinality(H) + Cardinality(missing) = Cardinality(H) + n
      BY <1>3, <1>6
    <3>2. count' = [affected |-> Cardinality(H) + n, changed |-> Cardinality(H)]
      BY <3>1, <1>8
    <3>3. Num(out, n, {"hit"}) = Cardinality(H)
      BY <1>6
    <3> QED
      BY <3>1, <3>2, <3>3
  <2>2. left' = missing /\ at' = IF missing = {} THEN "ok" ELSE "inserts"
    BY <1>8
  <2>3. Base' /\ InRange'
    BY <2>1, <1>1, <1>2, <1>3 DEF Base, InRange
  <2>4. Control' /\ LeftOver'
    BY <2>2, <1>1, <1>2, <1>3, <1>5 DEF IInv, Control, LeftOver, Reading
  <2>5. CountsB'
    <3>1. \A j \in Rows : out[j] = "nothing" <=> j \in missing
      BY <1>3, <1>4, <1>5
    <3>2. missing = {} => \A j \in Rows : out[j] = "hit"
      BY <3>1, <1>4
    <3>3. /\ count'.changed = Num(out', n, {"hit"})
          /\ count'.affected = Num(out', n, {"hit"}) + n
      BY <2>1, <1>1
    <3> HIDE DEF missing, H
    <3>4. ASSUME at' = "inserts"
          PROVE  /\ \A j \in left' : out'[j] = "nothing"
                 /\ \A j \in Rows : /\ out'[j] \in {"nothing", "hit", "new"}
                                    /\ out'[j] = "nothing" => j \in left'
      BY <3>1, <3>4, <2>2, <1>1, <1>4, <1>5
    <3>5. at' = "ok" => \A j \in Rows : out'[j] \in {"hit", "new"}
      BY <3>2, <2>2, <1>1
    <3>6. at' # "updates"
      BY <2>2
    <3> QED
      BY <3>3, <3>4, <3>5, <3>6, <1>3 DEF CountsB, Num
  <2>6. Counts'
    BY <2>2, <2>5, <1>1, <1>2, <1>3
       DEF Counts, Untouched, CountsA, CountsIgnore, Known, CountsInsert, ValuesThere
  <2> QED
    BY <2>3, <2>4, <2>6 DEF IInv
<1> QED
  <2>1. \/ at' = "error" /\ left' = left /\ count' = count
        \/ LET hits == Cardinality(Rows) - Cardinality(missing) IN
           /\ count' = [affected |-> 2 * hits + Cardinality(missing), changed |-> hits]
           /\ left' = missing
           /\ at' = IF missing = {} THEN "ok" ELSE "inserts"
    BY DEF Updated, End
  <2> QED
    BY <2>1, <1>7, <1>8

LEMMA BatchInsertStep ==
  ASSUME IInv, NEW i \in Rows, BatchInsert(i), UNCHANGED client
  PROVE  IInv'
<1> DEFINE row == list[i]
<1>1. /\ at = "inserts" /\ i \in left /\ left' = left \ {i}
      /\ before' = before /\ mode' = mode /\ list' = list /\ at' = at
      /\ found' = found /\ others' = others /\ count' = count
  BY DEF BatchInsert
<1>2. Base /\ Path \in {"B", "ignore"} /\ left \subseteq Rows
  BY <1>1 DEF IInv, Control, LeftOver
<1>3. /\ Path' = Path /\ Rows' = Rows /\ Kept' = Kept /\ Len(list)' = Len(list)
      /\ Rows = 1..Len(list) /\ row \in Row
  BY <1>1, <1>2, Same0
<1>4. row.k \in Key /\ ItemOf(row) \in AnyItem
  BY <1>3, ItemType
<1>5. \E x \in {"new", "kept"} :
        /\ out' = [out EXCEPT ![i] = x]
        /\ failed' = IF x = "kept" THEN failed \cup {<<i, "DuplicateItem">>} ELSE failed
        /\ IsTable(db')
  <2>1. CASE row.k \in DOMAIN db
    BY <2>1, <1>2 DEF BatchInsert, Base
  <2>2. CASE row.k \notin DOMAIN db
    <3>1. db' = With(db, row.k, ItemOf(row))
      BY <2>2 DEF BatchInsert
    <3>2. IsTable(db')
      BY <3>1, <1>2, <1>4, WithTable DEF Base
    <3> QED
      BY <3>2, <2>2 DEF BatchInsert
  <2> QED
    BY <2>1, <2>2
<1>6. PICK x \in {"new", "kept"} :
        /\ out' = [out EXCEPT ![i] = x]
        /\ failed' = IF x = "kept" THEN failed \cup {<<i, "DuplicateItem">>} ELSE failed
        /\ IsTable(db')
  BY <1>5
<1>7. out \in [Rows -> Outcome] /\ out' \in [Rows -> Outcome]
  BY <1>2, <1>3, <1>6 DEF Base, Outcome
<1>8. Base'
  BY <1>1, <1>2, <1>3, <1>6, <1>7 DEF Base
<1>9. Control' /\ LeftOver' /\ InRange'
  BY <1>1, <1>2, <1>3 DEF IInv, Control, LeftOver, InRange, Reading
<1>10. CountsB'
  <2> SUFFICES ASSUME Path = "B" PROVE CountsB'
    BY <1>3 DEF CountsB
  <2>1. /\ count.changed = Num(out, Len(list), {"hit"})
        /\ count.affected = Num(out, Len(list), {"hit"}) + Len(list)
        /\ \A j \in left : out[j] = "nothing"
        /\ failed = {} => \A j \in Rows : /\ out[j] \in {"nothing", "hit", "new"}
                                          /\ out[j] = "nothing" => j \in left
    BY <1>1 DEF IInv, Counts, CountsB
  <2>2. Num(out', Len(list), {"hit"}) = Num(out, Len(list), {"hit"})
    <3>1. {j \in 1..Len(list) : out'[j] \in {"hit"}} = {j \in 1..Len(list) : out[j] \in {"hit"}}
      <4>1. out[i] # "hit"
        BY <2>1, <1>1
      <4> QED
        BY <4>1, <1>3, <1>6, <1>7
    <3> QED
      BY <3>1 DEF Num
  <2>3. \A j \in left' : out'[j] = "nothing"
    BY <2>1, <1>1, <1>2, <1>6, <1>7
  <2>4. failed' = {} => \A j \in Rows : /\ out'[j] \in {"nothing", "hit", "new"}
                                        /\ out'[j] = "nothing" => j \in left'
    BY <2>1, <1>1, <1>6, <1>7
  <2> QED
    BY <2>1, <2>2, <2>3, <2>4, <1>1, <1>3 DEF CountsB
<1>11. CountsIgnore'
  <2> SUFFICES ASSUME Path = "ignore" PROVE CountsIgnore'
    BY <1>3 DEF CountsIgnore, Known
  <2>1. /\ count.changed = 0
        /\ \A j \in Rows : out[j] \in {"nothing", "new", "kept"}
        /\ count.affected = Cardinality(Kept)
        /\ left \subseteq Kept
        /\ \A j \in left : out[j] = "nothing"
        /\ \A j \in Rows : out[j] # "nothing" => j \in Kept
        /\ Duplicates =>
             /\ failed = {<<j, "DuplicateItem">> : j \in {j \in 1..Len(list) : out[j] \in {"kept"}}}
             /\ \A j \in Kept \ left : out[j] # "nothing"
    BY <1>1 DEF IInv, Counts, CountsIgnore, Known
  <2>2. out[i] = "nothing"
    BY <2>1, <1>1
  <2>3. \A j \in Rows : out'[j] \in {"nothing", "new", "kept"}
    BY <2>1, <1>6, <1>7
  <2>4. Duplicates' => Duplicates
    BY <1>6 DEF Duplicates
  <2>5. Duplicates' =>
          failed' = {<<j, "DuplicateItem">> : j \in {j \in 1..Len(list) : out'[j] \in {"kept"}}}
    <3> SUFFICES ASSUME Duplicates
                 PROVE  failed' = {<<j, "DuplicateItem">> :
                                     j \in {j \in 1..Len(list) : out'[j] \in {"kept"}}}
      BY <2>4
    <3> DEFINE K == {j \in 1..Len(list) : out[j] \in {"kept"}}
               L == {j \in 1..Len(list) : out'[j] \in {"kept"}}
    <3>1. L = IF x = "kept" THEN K \cup {i} ELSE K
      BY <2>2, <1>3, <1>6, <1>7
    <3>2. failed = {<<j, "DuplicateItem">> : j \in K}
      BY <2>1
    <3> HIDE DEF K, L
    <3>3. failed' = {<<j, "DuplicateItem">> : j \in L}
      BY <3>1, <3>2, <1>6
    <3> QED
      BY <3>3 DEF L
  <2>6. Duplicates' => \A j \in Kept \ left' : out'[j] # "nothing"
    <3>1. \A j \in Kept \ left' : j \in Rows /\ (j = i \/ j \in Kept \ left)
      BY <1>1 DEF Kept
    <3> QED
      BY <3>1, <2>1, <2>4, <1>6, <1>7
  <2>7. /\ \A j \in left' : out'[j] = "nothing"
        /\ \A j \in Rows : out'[j] # "nothing" => j \in Kept
        /\ left' \subseteq Kept
    BY <2>1, <1>1, <1>2, <1>6, <1>7
  <2> QED
    BY <2>1, <2>3, <2>5, <2>6, <2>7, <1>1, <1>3 DEF CountsIgnore, Known
<1>12. Counts'
  BY <1>10, <1>11, <1>1, <1>2, <1>3
     DEF Counts, Untouched, CountsA, CountsInsert, ValuesThere
<1> QED
  BY <1>8, <1>9, <1>12 DEF IInv

LEMMA RefuseStep ==
  ASSUME IInv, NEW i \in Rows, Refuse(i), UNCHANGED client
  PROVE  IInv'
<1>1. /\ at \in {"updates", "inserts"} /\ i \in left /\ left' = left \ {i} /\ at' = at
      /\ failed' = failed \cup {<<i, "refused">>}
      /\ db' = db /\ before' = before /\ mode' = mode /\ list' = list /\ out' = out
      /\ found' = found /\ others' = others /\ count' = count
  BY DEF Refuse
<1>2. Base /\ Path \in {"B", "ignore"} /\ left \subseteq Rows
  BY <1>1 DEF IInv, Control, LeftOver
<1>3. /\ Path' = Path /\ Rows' = Rows /\ Kept' = Kept /\ Len(list)' = Len(list)
      /\ Rows = 1..Len(list)
  BY <1>1, <1>2, Same0
<1>4. Base'
  BY <1>1, <1>2, <1>3 DEF Base
<1>5. Control' /\ LeftOver' /\ InRange'
  BY <1>1, <1>2, <1>3 DEF IInv, Control, LeftOver, InRange, Reading
<1>6. <<i, "refused">> \in failed' /\ <<i, "refused">>[1] = i /\ <<i, "refused">>[2] # "DuplicateItem"
  BY <1>1
<1>7. CountsB'
  <2> SUFFICES ASSUME Path = "B" PROVE CountsB'
    BY <1>3 DEF CountsB
  <2>1. CASE at = "updates"
    <3>1. /\ \A j \in Rows : out[j] \in {"nothing", "hit"}
          /\ \A j \in left : out[j] = "nothing"
          /\ \A f \in failed : f[1] \in Rows \ left /\ out[f[1]] = "nothing"
          /\ \A j \in Rows \ left : out[j] = "nothing" => \E f \in failed : f[1] = j
      BY <2>1 DEF IInv, Counts, CountsB
    <3>2. \A f \in failed' : f[1] \in Rows \ left' /\ out[f[1]] = "nothing"
      BY <3>1, <1>1, <1>2
    <3>3. \A j \in Rows \ left' : out[j] = "nothing" => \E f \in failed' : f[1] = j
      BY <3>1, <1>1, <1>6
    <3>4. \A j \in left' : out[j] = "nothing"
      BY <3>1, <1>1
    <3> QED
      BY <2>1, <3>1, <3>2, <3>3, <3>4, <1>1, <1>3 DEF CountsB
  <2>2. CASE at = "inserts"
    <3>1. failed' # {} /\ \A j \in left' : j \in left
      BY <1>1
    <3> QED
      BY <2>2, <3>1, <1>1, <1>3 DEF IInv, Counts, CountsB
  <2> QED
    BY <2>1, <2>2, <1>1
<1>8. CountsIgnore'
  <2>1. ~Duplicates'
    BY <1>6 DEF Duplicates
  <2>2. Path = "ignore" => at = "inserts"
    BY <1>1 DEF IInv, Control
  <2>3. \A j \in left' : j \in left
    BY <1>1
  <2> QED
    BY <2>1, <2>2, <2>3, <1>1, <1>3 DEF IInv, Counts, CountsIgnore, Known
<1>9. Counts'
  BY <1>7, <1>8, <1>1, <1>2, <1>3 DEF Counts, Untouched, CountsA, CountsInsert, ValuesThere
<1> QED
  BY <1>4, <1>5, <1>9 DEF IInv

LEMMA InsertedStep ==
  ASSUME IInv, Inserted, UNCHANGED client
  PROVE  IInv'
<1> DEFINE n == Len(list)
<1>1. /\ at = "inserts" /\ left = {} /\ left' = left /\ db' = db
      /\ before' = before /\ mode' = mode /\ list' = list /\ failed' = failed
      /\ found' = found /\ others' = others /\ out' = out
  BY DEF Inserted
<1>2. Base /\ Path \in {"B", "ignore"}
  BY <1>1 DEF IInv, Control
<1>3. /\ Path' = Path /\ Rows' = Rows /\ Len(list)' = n /\ Rows = 1..n /\ n \in Nat
      /\ mode = "ignore" <=> Path = "ignore"
  <2>1. /\ Path' = Path /\ Rows' = Rows /\ Len(list)' = n /\ Rows = 1..n /\ n \in Nat
        /\ Path \in {"A", "B", "C"} <=> mode \in Update
        /\ Path \notin {"A", "B", "C"} => Path = mode
    BY <1>1, <1>2, Same0
  <2> QED
    BY <2>1, <1>2 DEF Update
<1>4. CASE Path = "B"
  <2>1. /\ count.changed = Num(out, n, {"hit"})
        /\ count.affected = Num(out, n, {"hit"}) + n
        /\ failed = {} => \A j \in Rows : out[j] \in {"hit", "new"}
    <3>1. CountsB
      BY DEF IInv, Counts
    <3>2. ASSUME failed = {}, NEW j \in Rows
          PROVE  out[j] \in {"nothing", "hit", "new"} /\ (out[j] = "nothing" => j \in left)
      BY <3>1, <3>2, <1>1, <1>4 DEF CountsB
    <3>3. failed = {} => \A j \in Rows : out[j] \in {"hit", "new"}
      BY <3>2, <1>1
    <3>4. count.changed = Num(out, n, {"hit"}) /\ count.affected = Num(out, n, {"hit"}) + n
      BY <3>1, <1>1, <1>4 DEF CountsB
    <3> QED
      BY <3>3, <3>4
  <2>2. at' = (IF failed = {} THEN "ok" ELSE "error") /\ count' = count
    BY <1>3, <1>4 DEF Inserted, End
  <2>3. Base' /\ InRange'
    BY <2>2, <1>1, <1>2, <1>3 DEF IInv, Base, InRange
  <2>4. Control' /\ LeftOver'
    BY <2>2, <1>1, <1>2, <1>3 DEF IInv, Control, LeftOver, Reading
  <2>5. CountsB'
    <3>1. failed = {} => \A j \in Rows : out[j] \in {"hit", "new"}
      BY <2>1
    <3> QED
      BY <3>1, <2>1, <2>2, <1>1, <1>3 DEF CountsB
  <2>6. Counts'
    BY <2>2, <2>5, <1>1, <1>3, <1>4
       DEF Counts, Untouched, CountsA, CountsIgnore, Known, CountsInsert, ValuesThere
  <2> QED
    BY <2>3, <2>4, <2>6 DEF IInv
<1>5. CASE Path = "ignore"
  <2> DEFINE Again0 == {j \in 1..n : out[j] \in {"kept"}}
  <2>1. /\ count.changed = 0
        /\ \A j \in Rows : out[j] \in {"nothing", "new", "kept"}
        /\ count.affected = Cardinality(Kept)
        /\ Duplicates => failed = {<<j, "DuplicateItem">> : j \in Again0}
        /\ Duplicates => \A j \in Rows : out[j] # "nothing" <=> j \in Kept
    BY <1>1, <1>5 DEF IInv, Counts, CountsIgnore, Known, Kept
  <2>2. IF Duplicates
        THEN at' = "ok" /\ count' = [affected |-> count.affected + (-Cardinality(failed)),
                                     changed |-> count.changed + 0]
        ELSE at' = "error" /\ count' = count
    BY <1>3, <1>5 DEF Inserted, End, Add, Duplicates
  <2>3. Duplicates => Cardinality(failed) = Num(out, n, {"kept"})
    <3>1. IsFiniteSet(Again0) /\ Cardinality(Again0) = Num(out, n, {"kept"})
      BY <1>3, NumType, Zenon DEF Num
    <3> HIDE DEF Again0
    <3> QED
      BY <3>1, <2>1, Failures
  <2>4. Duplicates => Cardinality(Kept) = Num(out, n, {"new"} \cup {"kept"})
    <3>1. Kept \subseteq Rows
      BY DEF Kept
    <3>2. Duplicates => Kept = {j \in 1..n : out[j] \in {"new"} \cup {"kept"}}
      BY <3>1, <2>1, <1>3
    <3> QED
      BY <3>2 DEF Num
  <2>5. Num(out, n, {"new"} \cup {"kept"}) = Num(out, n, {"new"}) + Num(out, n, {"kept"})
    <3>1. {"new"} \cap {"kept"} = {}
      OBVIOUS
    <3>2. \A f, K, L : K \cap L = {} => Num(f, n, K \cup L) = Num(f, n, K) + Num(f, n, L)
      <4> HIDE DEF n
      <4> QED
        BY <1>3, NumSum
    <3> HIDE DEF n
    <3> QED
      BY <3>1, <3>2, Zenon
  <2>6. /\ Num(out, n, {"new"}) \in Nat /\ Num(out, n, {"new"}) <= n
        /\ Num(out, n, {"kept"}) \in Nat
    BY <1>3, NumRange
  <2>7. count'.changed = 0 /\ count' \in [affected : Int, changed : Int]
        /\ (Duplicates => count'.affected = Num(out, n, {"new"}))
        /\ (~Duplicates => count' = count)
    BY <2>1, <2>2, <2>3, <2>4, <2>5, <2>6, <1>2 DEF Base
  <2>8. Base' /\ InRange'
    BY <2>6, <2>7, <1>1, <1>2, <1>3 DEF IInv, Base, InRange
  <2>9. Control' /\ LeftOver'
    BY <2>2, <1>1, <1>2, <1>3 DEF IInv, Control, LeftOver, Reading
  <2>10. CountsIgnore'
    BY <2>1, <2>2, <2>7, <1>1, <1>3 DEF CountsIgnore, Known
  <2>11. Counts'
    BY <2>2, <2>10, <1>1, <1>3, <1>5
       DEF Counts, Untouched, CountsA, CountsB, CountsInsert, ValuesThere
  <2> QED
    BY <2>8, <2>9, <2>11 DEF IInv
<1> QED
  BY <1>2, <1>4, <1>5

LEMMA ReadStep ==
  ASSUME IInv, NEW k \in Key, Read(k), UNCHANGED client
  PROVE  IInv'
<1>1. /\ at = "reads" /\ k \in left /\ left' = left \ {k}
      /\ found' = (IF k \in DOMAIN db THEN With(found, k, db[k]) ELSE found)
      /\ at' = (IF left' = {} THEN "compute" ELSE at)
      /\ db' = db /\ before' = before /\ mode' = mode /\ list' = list /\ failed' = failed
      /\ others' = others /\ out' = out /\ count' = count
  BY DEF Read
<1>2. Base /\ Path = "C" /\ left \subseteq Key
  BY <1>1 DEF IInv, Control, LeftOver, Reading
<1>3. Path' = Path /\ Rows' = Rows /\ Len(list)' = Len(list) /\ mode \in Update
  BY <1>1, <1>2, Same0
<1>4. IsTable(found')
  <2>1. k \in DOMAIN db => db[k] \in AnyItem
    BY <1>2 DEF Base, IsTable
  <2> QED
    BY <2>1, <1>1, <1>2, WithTable DEF Base
<1>5. Base' /\ InRange'
  BY <1>1, <1>2, <1>3, <1>4 DEF IInv, Base, InRange
<1>6. Control' /\ LeftOver'
  BY <1>1, <1>2, <1>3 DEF IInv, Control, LeftOver, Reading, Update
<1>7. Counts'
  BY <1>1, <1>2, <1>3
     DEF Counts, Untouched, CountsA, CountsB, CountsIgnore, Known, CountsInsert, ValuesThere
<1> QED
  BY <1>5, <1>6, <1>7 DEF IInv

LEMMA ComputeStep ==
  ASSUME IInv, Compute, UNCHANGED client
  PROVE  IInv'
<1> DEFINE hits == {i \in Rows : Hit(i)}
           changes == {i \in hits : HitChanges(i)}
<1>1. /\ at = "compute" /\ at' = "write" /\ left' = left /\ found' = found
      /\ count' = [affected |-> Cardinality(Rows) + Cardinality(changes),
                   changed |-> Cardinality(hits)]
      /\ db' = db /\ before' = before /\ mode' = mode /\ list' = list /\ failed' = failed
      /\ others' = others /\ out' = out
  BY DEF Compute
<1>2. Base /\ Path = "C" /\ left = {}
  BY <1>1 DEF IInv, Control, LeftOver, Reading
<1>3. /\ Path' = Path /\ Rows' = Rows /\ Len(list)' = Len(list) /\ mode \in Update
      /\ Rows = 1..Len(list) /\ Len(list) \in Nat
  BY <1>1, <1>2, Same0
<1>4. /\ Cardinality(Rows) = Len(list)
      /\ Cardinality(hits) \in 0..Len(list) /\ Cardinality(changes) \in 0..Len(list)
  <2>1. hits \subseteq Rows /\ changes \subseteq Rows
    OBVIOUS
  <2>2. IsFiniteSet(Rows) /\ Cardinality(Rows) = Len(list)
    BY <1>3, Interval
  <2> HIDE DEF hits, changes
  <2>3. /\ IsFiniteSet(hits) /\ Cardinality(hits) <= Len(list)
        /\ IsFiniteSet(changes) /\ Cardinality(changes) <= Len(list)
    BY <2>1, <2>2, FS_Subset
  <2>4. Cardinality(hits) \in Nat /\ Cardinality(changes) \in Nat
    BY <2>3, FS_CardinalityType
  <2> QED
    BY <2>2, <2>3, <2>4, <1>3
<1> HIDE DEF hits, changes
<1>5. Base' /\ InRange'
  BY <1>1, <1>2, <1>3, <1>4 DEF Base, InRange
<1>6. Control' /\ LeftOver'
  BY <1>1, <1>2, <1>3 DEF IInv, Control, LeftOver, Reading, Update
<1>7. Counts'
  BY <1>1, <1>2, <1>3
     DEF Counts, Untouched, CountsA, CountsB, CountsIgnore, Known, CountsInsert, ValuesThere
<1> QED
  BY <1>5, <1>6, <1>7 DEF IInv

\* The two writes of path C, which change nothing but the table and where the statement is.
LEMMA WriteStep ==
  ASSUME IInv, UNCHANGED client, at \in {"write", "write new"},
         at' \in {"ok", "write new", "error"},
         UNCHANGED <<before, mode, list, left, failed, found, out, count, others>>,
         IsTable(db')
  PROVE  IInv'
<1>1. Base /\ Path = "C" /\ left = {}
  BY DEF IInv, Control, LeftOver, Reading
<1>2. Path' = Path /\ Rows' = Rows /\ Len(list)' = Len(list) /\ mode \in Update
  BY <1>1, Same0
<1>3. Base' /\ InRange'
  BY <1>1, <1>2 DEF IInv, Base, InRange
<1>4. Control' /\ LeftOver'
  BY <1>1, <1>2 DEF IInv, Control, LeftOver, Reading, Update
<1>5. Counts'
  BY <1>1, <1>2
     DEF Counts, Untouched, CountsA, CountsB, CountsIgnore, Known, CountsInsert, ValuesThere
<1> QED
  BY <1>3, <1>4, <1>5 DEF IInv

LEMMA EntriesOfC ==
  ASSUME IInv, at \in Reading
  PROVE  \A e \in Entries : e \in EntryOf
<1>1. Base /\ Path = "C"
  BY DEF IInv, Control
<1>2. mode \in Update /\ list \in Seq(Row) /\ IsTable(found)
  BY <1>1, PathIs DEF Base
<1> QED
  BY <1>2, EntriesType

LEMMA WriteChangedStep ==
  ASSUME IInv, WriteChanged, UNCHANGED client
  PROVE  IInv'
<1> DEFINE chosen(k) == CHOOSE e \in Changed : e.k = k
           hit(k) == \E e \in Changed : e.k = k
           item(k) == [db[k] EXCEPT !.c = chosen(k).cur.c]
<1>1. at = "write" /\ IsTable(db)
  BY DEF IInv, Base, WriteChanged
<1>2. ASSUME NEW k, hit(k)
      PROVE  chosen(k).cur.c \in Cell
  <2>1. chosen(k) \in Changed
    BY <1>2
  <2> HIDE DEF chosen
  <2>2. chosen(k) \in EntryOf
    BY <2>1, <1>1, EntriesOfC DEF Changed, Reading
  <2> QED
    BY <2>2 DEF EntryOf, AnyItem
<1>3. CASE db' = [k \in DOMAIN db |-> IF hit(k) THEN item(k) ELSE db[k]]
           /\ at' = IF New = {} THEN "ok" ELSE "write new"
  <2>1. ASSUME NEW k \in DOMAIN db
        PROVE  (IF hit(k) THEN item(k) ELSE db[k]) \in AnyItem
    <3>1. db[k] \in AnyItem
      BY <1>1 DEF IsTable
    <3>2. CASE hit(k)
      <4>1. chosen(k).cur.c \in Cell
        BY <1>2, <3>2
      <4> HIDE DEF chosen, hit
      <4>2. item(k) \in AnyItem
        BY <3>1, <4>1, SetColumn
      <4> QED
        BY <3>2, <4>2
    <3>3. CASE ~hit(k)
      BY <3>1, <3>3
    <3> QED
      BY <3>2, <3>3
  <2> HIDE DEF chosen, hit, item
  <2>2. IsTable(db')
    BY <2>1, <1>1, <1>3 DEF IsTable
  <2> QED
    BY <2>2, <1>1, <1>3, WriteStep DEF WriteChanged
<1>4. CASE at' = "error" /\ db' = db
  BY <1>1, <1>4, WriteStep DEF WriteChanged
<1> QED
  BY <1>3, <1>4 DEF WriteChanged, End

LEMMA WriteNewStep ==
  ASSUME IInv, WriteNew, UNCHANGED client
  PROVE  IInv'
<1> DEFINE keys == {e.k : e \in New}
           item(k) == (CHOOSE e \in New : e.k = k).cur
<1>1. at = "write new" /\ IsTable(db)
  BY DEF IInv, Base, WriteNew
<1>2. \A e \in New : e \in EntryOf
  BY <1>1, EntriesOfC DEF New, Reading
<1>3. ASSUME NEW k \in keys PROVE item(k) \in AnyItem
  <2>1. \E e \in New : e.k = k
    OBVIOUS
  <2>2. (CHOOSE e \in New : e.k = k) \in New
    BY <2>1
  <2> QED
    BY <2>2, <1>2 DEF EntryOf
<1>4. keys \subseteq Key
  BY <1>2 DEF EntryOf
<1>5. CASE /\ at' = "ok"
           /\ db' = [k \in DOMAIN db \cup keys |-> IF k \in DOMAIN db THEN db[k] ELSE item(k)]
  <2> HIDE DEF keys, item
  <2>1. IsTable(db')
    BY <1>1, <1>3, <1>4, <1>5 DEF IsTable
  <2> QED
    BY <2>1, <1>1, <1>5, WriteStep DEF WriteNew
<1>6. CASE at' = "error" /\ db' = db
  BY <1>1, <1>6, WriteStep DEF WriteNew
<1> QED
  BY <1>5, <1>6 DEF WriteNew, End

LEMMA InsertTransactionStep ==
  ASSUME IInv, InsertTransaction, UNCHANGED client
  PROVE  IInv'
<1> DEFINE keys == {list[i].k : i \in Rows}
           item(k) == ItemOf(list[CHOOSE i \in Rows : list[i].k = k])
<1>1. /\ at = "transaction" /\ mode = "insert"
      /\ before' = before /\ mode' = mode /\ list' = list /\ left' = left
      /\ failed' = failed /\ found' = found /\ others' = others
  BY DEF InsertTransaction
<1>2. Base /\ left \subseteq Rows
  BY <1>1 DEF IInv, LeftOver
<1>3. /\ Path' = Path /\ Rows' = Rows /\ Len(list)' = Len(list) /\ Path = "insert"
      /\ Rows = 1..Len(list) /\ Len(list) \in Nat /\ \A i \in Rows : list[i] \in Row
  <2>1. mode \notin Update
    BY <1>1 DEF Update
  <2> QED
    BY <2>1, <1>1, <1>2, Same0
<1>4. \A i \in Rows : out[i] = "nothing"
  BY <1>1 DEF IInv, Counts, Untouched
<1>5. count = [affected |-> 0, changed |-> 0]
  BY <1>1, <1>3 DEF IInv, Counts, CountsInsert, Zero
<1>6. CASE /\ at' = "ok" /\ out' = [i \in Rows |-> "new"] /\ Add(Len(list), 0)
           /\ db' = [k \in DOMAIN db \cup keys |-> IF k \in DOMAIN db THEN db[k] ELSE item(k)]
  <2>1. ASSUME NEW k \in keys PROVE k \in Key /\ item(k) \in AnyItem
    <3>1. \E i \in Rows : list[i].k = k
      OBVIOUS
    <3>2. (CHOOSE i \in Rows : list[i].k = k) \in Rows
      BY <3>1
    <3> QED
      BY <3>1, <3>2, <1>3, ItemType
  <2> HIDE DEF keys, item
  <2>2. IsTable(db')
    BY <2>1, <1>2, <1>6 DEF IsTable, Base
  <2>3. out' \in [1..Len(list) -> Outcome]
    BY <1>3, <1>6 DEF Outcome
  <2>4. count' = [affected |-> Len(list), changed |-> 0]
    BY <1>3, <1>5, <1>6 DEF Add
  <2>5. Base' /\ InRange'
    BY <2>2, <2>3, <2>4, <1>1, <1>2, <1>3 DEF Base, InRange
  <2>6. Control' /\ LeftOver'
    BY <1>1, <1>2, <1>3, <1>6 DEF Control, LeftOver, Reading
  <2>7. CountsInsert'
    BY <2>4, <1>1, <1>3, <1>6 DEF CountsInsert, AllOrNone
  <2>8. Counts'
    BY <2>7, <1>1, <1>3, <1>6
       DEF Counts, Untouched, CountsA, CountsB, CountsIgnore, Known, ValuesThere
  <2> QED
    BY <2>5, <2>6, <2>8 DEF IInv
<1>7. CASE at' = "error" /\ UNCHANGED <<db, out, count>>
  <2>1. Base' /\ InRange'
    BY <1>1, <1>2, <1>3, <1>7 DEF IInv, Base, InRange
  <2>2. Control' /\ LeftOver'
    BY <1>1, <1>2, <1>3, <1>7 DEF Control, LeftOver, Reading
  <2>3. CountsInsert'
    BY <1>1, <1>3, <1>4, <1>7 DEF CountsInsert, AllOrNone
  <2>4. Counts'
    BY <2>3, <1>1, <1>3, <1>7
       DEF Counts, Untouched, CountsA, CountsB, CountsIgnore, Known, ValuesThere
  <2> QED
    BY <2>1, <2>2, <2>4 DEF IInv
<1> QED
  BY <1>6, <1>7 DEF InsertTransaction, End

LEMMA ReplaceTransactionStep ==
  ASSUME IInv, ReplaceTransaction, UNCHANGED client
  PROVE  IInv'
<1> DEFINE keys == {list[i].k : i \in left}
           hit(k) == \E i \in left : list[i].k = k
           item(k) == ItemOf(list[CHOOSE i \in left : list[i].k = k])
<1>1. /\ at = "transaction" /\ mode = "replace" /\ at' = "ok"
      /\ before' = before /\ mode' = mode /\ list' = list /\ left' = left
      /\ failed' = failed /\ found' = found /\ others' = others /\ count' = count
      /\ out' = [i \in Rows |-> IF i \in left THEN "new" ELSE "nothing"]
      /\ db' = [k \in DOMAIN db \cup keys |-> IF hit(k) THEN item(k) ELSE db[k]]
  BY DEF ReplaceTransaction, End
<1>2. Base /\ left \subseteq Rows
  BY <1>1 DEF IInv, LeftOver
<1>3. /\ Path' = Path /\ Rows' = Rows /\ Len(list)' = Len(list) /\ Path = "replace"
      /\ Rows = 1..Len(list) /\ Len(list) \in Nat /\ \A i \in Rows : list[i] \in Row
  <2>1. mode \notin Update
    BY <1>1 DEF Update
  <2> QED
    BY <2>1, <1>1, <1>2, Same0
<1>4. ASSUME NEW k, hit(k) PROVE k \in Key /\ item(k) \in AnyItem
  <2>1. (CHOOSE i \in left : list[i].k = k) \in left
    BY <1>4
  <2> QED
    BY <2>1, <1>2, <1>3, <1>4, ItemType
<1>5. \A k \in keys : hit(k)
  OBVIOUS
<1> HIDE DEF keys, item, hit
<1>6. IsTable(db')
  BY <1>1, <1>2, <1>4, <1>5 DEF IsTable, Base
<1>7. out' \in [1..Len(list) -> Outcome]
  BY <1>1, <1>3 DEF Outcome
<1>8. Base' /\ InRange'
  BY <1>1, <1>2, <1>3, <1>6, <1>7 DEF IInv, Base, InRange
<1>9. Control' /\ LeftOver'
  BY <1>1, <1>2, <1>3 DEF Control, LeftOver, Reading
<1>10. Counts'
  BY <1>1, <1>3
     DEF Counts, Untouched, CountsA, CountsB, CountsIgnore, Known, CountsInsert, ValuesThere
<1> QED
  BY <1>8, <1>9, <1>10 DEF IInv

-----------------------------------------------------------------------------
(* UPDATE and DELETE, as far as the invariant of an INSERT goes *)

\* The steps of UPDATE and DELETE and no step leave list, mode, out and count alone.
LEMMA ModifyKeeps ==
  ASSUME IInv, UNCHANGED client,
         UNCHANGED <<before, mode, list, at, failed, out, count, others>>,
         mode = "modify" \/ (db' = db /\ left' = left /\ found' = found),
         mode = "modify" => IsTable(db') /\ IsTable(found') /\ left' \subseteq Key
  PROVE  IInv'
<1>1. Base
  BY DEF IInv
<1>2. Path' = Path /\ Rows' = Rows /\ Kept' = Kept /\ Len(list)' = Len(list)
  BY <1>1, Same0
<1>3. CASE mode = "modify"
  <2>1. at = "modify" /\ Path = "modify"
    <3>1. mode \notin Update
      BY <1>3 DEF Update
    <3> QED
      BY <3>1, <1>1, <1>3, PathIs DEF IInv, Control, Base
  <2>2. Base' /\ InRange'
    BY <1>1, <1>2, <1>3 DEF IInv, Base, InRange
  <2>3. Control' /\ LeftOver'
    BY <2>1, <1>2, <1>3 DEF IInv, Control, LeftOver, Reading
  <2>4. Counts'
    BY <2>1, <1>2
       DEF Counts, Untouched, CountsA, CountsB, CountsIgnore, Known, CountsInsert, ValuesThere
  <2> QED
    BY <2>2, <2>3, <2>4 DEF IInv
<1>4. CASE mode # "modify"
  <2>1. Base' /\ InRange'
    BY <1>1, <1>2, <1>4 DEF IInv, Base, InRange
  <2>2. Control' /\ LeftOver'
    BY <1>2, <1>4 DEF IInv, Control, LeftOver, Reading
  <2>3. ValuesThere'
    BY <1>2, <1>4 DEF IInv, Counts, ValuesThere
  <2>4. Counts'
    <3>1. UNCHANGED <<at, left, failed, out, count>> /\ list' = list /\ mode' = mode
      BY <1>4
    <3>2. Counts
      BY DEF IInv
    <3> QED
      BY <3>1, <3>2, <2>3, <1>2, PartsSame DEF Counts
  <2> QED
    BY <2>1, <2>2, <2>4 DEF IInv
<1> QED
  BY <1>3, <1>4

-----------------------------------------------------------------------------
(* The invariant of an UPDATE or DELETE: which rows it has found, has sent *)
(* and has written, and what the table is while nobody else writes         *)

StatementOf ==
  [kind : {"update", "delete"}, key : Key \cup {AnyOne}, c : (RowC \cap Nat) \cup {AnyOne},
   set : {"c = 1", "c = 'x'", "c = f(c)"}, at : {"start", "reads", "writes", "ok", "error"},
   flying : SUBSET Key, stop : BOOLEAN, affected : Nat, changed : Nat, written : SUBSET Key]

\* the rows that the WHERE describes, but none where the keys are not put together
Hits == {k \in DOMAIN before : Matches(k, before[k]) /\ (client.columns = 1 \/ ~NoSingle)}

\* the table at first, with the statement applied to the rows W
Applied(W) ==
  IF m.kind = "delete" THEN [k \in DOMAIN before \ W |-> before[k]]
  ELSE [k \in DOMAIN before |->
          IF k \in W THEN [before[k] EXCEPT !.c = SetC(@)] ELSE before[k]]

Batches ==
  /\ m.at = "start" => others = 0 /\ DOMAIN found = {}
  /\ m.at \in {"start", "reads"} => m.written = {} /\ m.affected = 0 /\ m.changed = 0
  /\ m.at \in {"start", "reads", "ok"} => m.flying = {}
  /\ m.at \in {"start", "reads", "writes"} => ~m.stop
  /\ m.at = "error" => m.stop
  /\ m.at \in {"reads", "writes"} => NoSingle
  /\ m.at = "writes" =>
       m.flying \cup m.written = DOMAIN found /\ m.flying \cap m.written = {} /\ m.flying # {}
  /\ m.flying \subseteq DOMAIN found
  /\ m.at = "ok" => m.affected = Cardinality(m.written)

Alone ==
  others = 0 =>
  /\ m.at \in {"start", "reads"} => db = before
  /\ m.at = "reads" => found = [k \in Hits \ left |-> before[k]]
  /\ m.at = "writes" => found = [k \in Hits |-> before[k]] /\ db = Applied(m.written)

\* a single UPDATE whose constant is compared with the old value, and the rows that lack it
Compared == m.key # AnyOne /\ m.set = "c = 'x'"
Lacking == {k \in Hits : before[k].c # Letter}

\* The statement has been applied to the rows that it describes, and counts them.
Exact ==
  /\ db = Applied(Hits)
  /\ m.affected = Cardinality(Hits)
  /\ m.kind = "update" /\ Compared => m.changed = Cardinality(Lacking)
  /\ m.kind = "update" /\ ~Compared => m.changed = m.affected

ModifyInv ==
  mode = "modify" =>
    m \in StatementOf /\ Batches /\ Alone /\ (m.at = "ok" /\ others = 0 => Exact)

LEMMA ModifyIsExact ==
  ASSUME ModifyInv
  PROVE  ModifyExact
<1> SUFFICES ASSUME mode = "modify", m.at = "ok"
             PROVE  /\ m.flying = {} /\ m.affected = Cardinality(m.written)
                    /\ others = 0 => Exact
  BY DEF ModifyExact, Exact, Applied, Compared, Lacking, Hits
<1> QED
  BY DEF ModifyInv, Batches

-----------------------------------------------------------------------------
(* The steps of UPDATE and DELETE *)

LEMMA SetCType ==
  ASSUME m \in StatementOf, NEW c \in Cell
  PROVE  SetC(c) \in Cell
<1>1. m.set \in {"c = 1", "c = 'x'", "c = f(c)"}
  BY DEF StatementOf
<1> QED
  BY <1>1, CellType DEF SetC, Letter, Cell

\* Where the text of the statement stays, so does what it describes.
LEMMA SameText ==
  ASSUME m'.kind = m.kind, m'.key = m.key, m'.c = m.c, m'.set = m.set, before' = before,
         client' = client
  PROVE  /\ Hits' = Hits /\ NoSingle' = NoSingle
         /\ \A W : Applied(W)' = Applied(W)
         /\ Compared' = Compared /\ Lacking' = Lacking
BY DEF Hits, Matches, NoSingle, Applied, Compared, Lacking, SetC

\* Applied to no row, the statement leaves the table as it was.
LEMMA AppliedNone ==
  ASSUME IsTable(before)
  PROVE  Applied({}) = before
BY DEF Applied, IsTable

LEMMA ModifyFirst ==
  ASSUME ModifyInit
  PROVE  ModifyInv
<1>1. PICK text \in Text : m = [kind |-> text.kind, key |-> text.key, c |-> text.c,
       set |-> text.set, at |-> "start", flying |-> {}, stop |-> FALSE,
       affected |-> 0, changed |-> 0, written |-> {}]
  BY DEF ModifyInit
<1>2. /\ text.kind \in {"update", "delete"} /\ text.key \in Key \cup {AnyOne}
      /\ text.c \in (RowC \cap Nat) \cup {AnyOne}
      /\ text.set \in {"c = 1", "c = 'x'", "c = f(c)"}
  BY DEF Text
<1>3. m \in StatementOf
  BY <1>1, <1>2 DEF StatementOf
<1>4. others = 0 /\ db = before /\ DOMAIN found = {}
  BY DEF ModifyInit
<1>5. Batches /\ Alone
  BY <1>1, <1>4 DEF Batches, Alone
<1> QED
  BY <1>1, <1>3, <1>5 DEF ModifyInv

\* A statement that describes no row and has written none is exact.
LEMMA NoHits ==
  ASSUME IsTable(before), before' = before, client' = client, db' = before, Hits = {},
         m'.kind = m.kind, m'.key = m.key, m'.c = m.c, m'.set = m.set,
         m'.affected = 0, m'.changed = 0
  PROVE  Exact'
<1>1. Lacking = {}
  BY DEF Lacking
<1>2. Hits' = {} /\ Lacking' = {} /\ Applied({})' = before
  BY <1>1, SameText, AppliedNone
<1>3. Cardinality({}) = 0
  BY FS_EmptySet
<1>4. Applied(Hits)' = before
  BY <1>2
<1>5. Cardinality(Lacking)' = 0 /\ Cardinality(Hits)' = 0
  BY <1>2, <1>3
<1> QED
  BY <1>4, <1>5 DEF Exact

LEMMA SingleStep ==
  ASSUME IInv, ModifyInv, mode = "modify", Single, UNCHANGED client
  PROVE  IInv' /\ ModifyInv'
<1>1. /\ m \in StatementOf /\ m.at = "start" /\ others = 0 /\ db = before
      /\ DOMAIN found = {} /\ m.written = {} /\ m.flying = {} /\ ~m.stop
      /\ IsTable(db) /\ IsTable(found) /\ left \subseteq Key
  BY DEF ModifyInv, Batches, Alone, Single, IInv, Base, Control, LeftOver
<1>2. /\ before' = before /\ mode' = mode /\ list' = list /\ at' = at /\ failed' = failed
      /\ found' = found /\ out' = out /\ count' = count /\ others' = others
  BY DEF Single
<1>3. CASE NoSingle
  <2>1. m' = [m EXCEPT !.at = "reads"] /\ left' = client.keys /\ db' = db
    BY <1>3 DEF Single
  <2>2. IInv'
    <3>1. client.keys \subseteq Key
      BY DEF IInv, Base, Bounds
    <3> QED
      BY <2>1, <3>1, <1>1, <1>2, ModifyKeeps
  <2>3. NoSingle
    BY <1>3
  <2>4. /\ m' \in StatementOf /\ m'.kind = m.kind /\ m'.key = m.key /\ m'.c = m.c
        /\ m'.set = m.set /\ m'.at = "reads" /\ m'.flying = {} /\ m'.written = {} /\ ~m'.stop
        /\ m'.affected = m.affected /\ m'.changed = m.changed
    BY <2>1, <1>1 DEF StatementOf
  <2>5. Hits' = Hits /\ NoSingle' = NoSingle /\ Hits \subseteq client.keys
    BY <2>4, <1>1, <1>2, SameText DEF Hits, IInv, Base
  <2>6. found = [k \in Hits \ client.keys |-> before[k]]
    BY <2>5, <1>1 DEF IsTable
  <2>7. Batches' /\ Alone'
    BY <2>1, <2>3, <2>4, <2>5, <2>6, <1>1, <1>2 DEF ModifyInv, Batches, Alone
  <2> QED
    BY <2>2, <2>4, <2>7 DEF ModifyInv
<1>4. CASE ~NoSingle /\ m.key \in DOMAIN db /\ Matches(m.key, db[m.key])
  <2> DEFINE b == IF m.kind = "update" THEN ChangedOne(db[m.key].c) ELSE 0
  <2>1. /\ m' = [m EXCEPT !.at = "ok", !.affected = 1, !.written = {m.key}, !.changed = b]
        /\ db' = IF m.kind = "delete" THEN [k \in DOMAIN db \ {m.key} |-> db[k]]
                 ELSE [db EXCEPT ![m.key].c = SetC(@)]
        /\ left' = left
    BY <1>4 DEF Single
  <2>2. b \in {0, 1} /\ m.key \in Key
    BY <1>1, <1>4 DEF ChangedOne, IsTable
  <2>3. /\ m' \in StatementOf /\ m'.kind = m.kind /\ m'.key = m.key /\ m'.c = m.c
        /\ m'.set = m.set /\ m'.at = "ok" /\ m'.flying = {} /\ m'.written = {m.key}
        /\ m'.affected = 1 /\ m'.changed = b
    <3>1. {m.key} \in SUBSET Key /\ b \in Nat
      BY <2>2
    <3> HIDE DEF b
    <3> QED
      BY <2>1, <3>1, <1>1 DEF StatementOf
  <2>4. Hits = {m.key}
    BY <1>1, <1>4 DEF Hits, Matches, NoSingle
  <2>5. db[m.key] \in AnyItem /\ db[m.key].c \in Cell
    BY <1>1, <1>4 DEF IsTable, AnyItem
  <2>6. db' = Applied({m.key})
    <3>1. CASE m.kind = "delete"
      BY <2>1, <3>1, <1>1 DEF Applied
    <3>2. CASE m.kind # "delete"
      <4>1. db' = [db EXCEPT ![m.key] = [db[m.key] EXCEPT !.c = SetC(db[m.key].c)]]
        BY <2>1, <2>5, <3>2 DEF AnyItem
      <4>2. db = [k \in DOMAIN db |-> db[k]]
        BY <1>1 DEF IsTable
      <4> QED
        BY <4>1, <4>2, <3>2, <1>1 DEF Applied
    <3> QED
      BY <3>1, <3>2
  <2>7. IsTable(db')
    <3>1. CASE m.kind = "delete"
      BY <2>1, <3>1, <1>1, WithoutTable
    <3>2. CASE m.kind # "delete"
      <4>1. SetC(db[m.key].c) \in Cell
        BY <2>5, <1>1, SetCType
      <4> DEFINE new == [db[m.key] EXCEPT !.c = SetC(db[m.key].c)]
      <4>2. new \in AnyItem
        BY <2>5, <4>1, SetColumn
      <4>3. db' = [db EXCEPT ![m.key] = new]
        BY <2>1, <2>5, <3>2 DEF AnyItem
      <4> HIDE DEF new
      <4> QED
        BY <4>2, <4>3, <1>1, <1>4 DEF IsTable
    <3> QED
      BY <3>1, <3>2
  <2>8. IInv'
    BY <2>1, <2>7, <1>1, <1>2, ModifyKeeps
  <2>9. Cardinality({m.key}) = 1
    BY FS_Singleton
  <2>10. Exact'
    <3>1. Hits' = Hits /\ Compared' = Compared /\ Lacking' = Lacking
      BY <2>3, <1>2, SameText
    <3>2. db' = Applied(Hits)'
      BY <2>3, <2>4, <2>6, <1>2, SameText
    <3>3. ASSUME m.kind = "update"
          PROVE  /\ Compared => b = Cardinality(Lacking)
                 /\ ~Compared => b = 1
      <4>1. Cardinality({}) = 0
        BY FS_EmptySet
      <4>2. CASE m.set = "c = 'x'" /\ before[m.key].c = Letter
        <5>1. Lacking = {}
          BY <4>2, <2>4 DEF Lacking
        <5>2. b = 0
          BY <4>2, <3>3, <1>1 DEF ChangedOne
        <5>3. Compared
          BY <4>2, <1>4 DEF NoSingle, Compared
        <5> QED
          BY <5>1, <5>2, <5>3, <4>1
      <4>3. CASE ~(m.set = "c = 'x'" /\ before[m.key].c = Letter)
        <5>1. Compared => Lacking = {m.key}
          BY <4>3, <2>4 DEF Lacking, Compared
        <5>2. b = 1
          BY <4>3, <3>3, <1>1 DEF ChangedOne
        <5> HIDE DEF b
        <5> QED
          BY <5>1, <5>2, <2>9
      <4> QED
        BY <4>2, <4>3
    <3> HIDE DEF b
    <3>4. m'.affected = Cardinality(Hits)'
      BY <3>1, <2>3, <2>4, <2>9
    <3> QED
      BY <3>1, <3>2, <3>3, <3>4, <2>3 DEF Exact
  <2>11. Batches' /\ Alone'
    BY <2>3, <2>9, <1>2 DEF Batches, Alone
  <2> QED
    BY <2>3, <2>8, <2>10, <2>11 DEF ModifyInv
<1>5. CASE ~NoSingle /\ ~(m.key \in DOMAIN db /\ Matches(m.key, db[m.key]))
  <2>1. m' = [m EXCEPT !.at = "ok"] /\ db' = db /\ left' = left
    BY <1>5 DEF Single
  <2>2. /\ m' \in StatementOf /\ m'.kind = m.kind /\ m'.key = m.key /\ m'.c = m.c
        /\ m'.set = m.set /\ m'.at = "ok" /\ m'.flying = {} /\ m'.written = {}
        /\ m'.affected = m.affected /\ m'.changed = m.changed
    BY <2>1, <1>1 DEF StatementOf
  <2>3. Hits = {}
    BY <1>1, <1>5 DEF Hits, Matches, NoSingle
  <2>4. Cardinality({}) = 0
    BY FS_EmptySet
  <2>5. m.affected = 0 /\ m.changed = 0
    BY <1>1 DEF ModifyInv, Batches
  <2>6. IInv'
    BY <2>1, <1>1, <1>2, ModifyKeeps
  <2>7. Exact'
    BY <2>1, <2>2, <2>3, <2>5, <1>1, <1>2, NoHits
  <2>8. Batches' /\ Alone'
    BY <2>2, <2>4, <2>5, <1>2 DEF Batches, Alone
  <2> QED
    BY <2>2, <2>6, <2>7, <2>8 DEF ModifyInv
<1> QED
  BY <1>3, <1>4, <1>5

LEMMA ReadRowStep ==
  ASSUME IInv, ModifyInv, mode = "modify", NEW k \in Key, ReadRow(k), UNCHANGED client
  PROVE  IInv' /\ ModifyInv'
<1>1. /\ m \in StatementOf /\ m.at = "reads" /\ k \in left /\ left' = left \ {k}
      /\ found' = (IF k \in DOMAIN db /\ Collected(k) THEN With(found, k, db[k]) ELSE found)
      /\ Batches /\ Alone /\ IsTable(db) /\ IsTable(found) /\ left \subseteq Key
  BY DEF ModifyInv, ReadRow, IInv, Base, Control, LeftOver
<1>2. /\ db' = db /\ before' = before /\ mode' = mode /\ list' = list /\ at' = at
      /\ failed' = failed /\ out' = out /\ count' = count /\ others' = others /\ m' = m
  BY DEF ReadRow
<1>3. IsTable(found')
  <2>1. CASE k \in DOMAIN db /\ Collected(k)
    <3>1. db[k] \in AnyItem
      BY <2>1, <1>1 DEF IsTable
    <3> QED
      BY <3>1, <2>1, <1>1, WithTable
  <2> QED
    BY <2>1, <1>1
<1>4. IInv'
  BY <1>1, <1>2, <1>3, ModifyKeeps
<1>5. Hits' = Hits /\ NoSingle' = NoSingle
  BY <1>2, SameText
<1>6. ASSUME others = 0
      PROVE  db = before /\ found' = [j \in Hits \ left' |-> before[j]]
  <2>1. db = before /\ found = [j \in Hits \ left |-> before[j]]
    BY <1>1, <1>6 DEF Alone
  <2>2. CASE k \in Hits
    <3>1. found' = With(found, k, before[k])
      BY <1>1, <2>1, <2>2 DEF Hits, Collected, Batches
    <3>2. Hits \ left' = (Hits \ left) \cup {k}
      BY <1>1, <2>2
    <3> QED
      BY <2>1, <3>1, <3>2 DEF With
  <2>3. CASE k \notin Hits
    <3>1. found' = found
      BY <1>1, <2>1, <2>3 DEF Hits, Collected
    <3>2. Hits \ left' = Hits \ left
      BY <1>1, <2>3
    <3> QED
      BY <2>1, <3>1, <3>2
  <2> QED
    BY <2>1, <2>2, <2>3
<1>7. Alone'
  BY <1>1, <1>2, <1>5, <1>6 DEF Alone
<1>8. Batches'
  BY <1>1, <1>2, <1>5 DEF Batches
<1> QED
  BY <1>1, <1>2, <1>4, <1>7, <1>8 DEF ModifyInv

LEMMA ReadEndStep ==
  ASSUME IInv, ModifyInv, mode = "modify", ReadEnd, UNCHANGED client
  PROVE  IInv' /\ ModifyInv'
<1>1. /\ m \in StatementOf /\ m.at = "reads" /\ left = {} /\ ~m.stop /\ NoSingle
      /\ m.written = {} /\ m.affected = 0 /\ m.changed = 0
      /\ Alone /\ IsTable(db) /\ IsTable(before) /\ IsTable(found) /\ left \subseteq Key
  BY DEF ModifyInv, Batches, ReadEnd, IInv, Base, Control, LeftOver
<1>2. /\ db' = db /\ before' = before /\ mode' = mode /\ list' = list /\ at' = at
      /\ left' = left /\ failed' = failed /\ found' = found /\ out' = out /\ count' = count
      /\ others' = others
  BY DEF ReadEnd
<1>3. IInv'
  BY <1>1, <1>2, ModifyKeeps
<1> DEFINE next == IF DOMAIN found = {} THEN "ok" ELSE "writes"
<1>4. m' = [m EXCEPT !.at = next, !.flying = DOMAIN found]
  BY DEF ReadEnd
<1>5. DOMAIN found \subseteq Key /\ next \in {"ok", "writes"}
  BY <1>1 DEF IsTable
<1>6. /\ m' \in StatementOf /\ m'.kind = m.kind /\ m'.key = m.key /\ m'.c = m.c
      /\ m'.set = m.set /\ m'.at = next /\ m'.flying = DOMAIN found /\ m'.written = {}
      /\ m'.affected = 0 /\ m'.changed = 0 /\ ~m'.stop
  <2> HIDE DEF next
  <2> QED
    BY <1>1, <1>4, <1>5 DEF StatementOf
<1>7. Hits' = Hits /\ NoSingle' = NoSingle /\ Applied({})' = before
  BY <1>1, <1>2, <1>6, SameText, AppliedNone
<1>8. Batches'
  <2>1. Cardinality({}) = 0
    BY FS_EmptySet
  <2> QED
    BY <2>1, <1>1, <1>2, <1>6, <1>7 DEF Batches
<1>9. ASSUME others = 0
      PROVE  db = before /\ found = [k \in Hits |-> before[k]]
  <2>1. Hits \ left = Hits
    BY <1>1
  <2> QED
    BY <2>1, <1>1, <1>9 DEF Alone
<1>10. Alone'
  BY <1>2, <1>6, <1>7, <1>9 DEF Alone
<1>11. ASSUME m'.at = "ok", others' = 0
       PROVE  Exact'
  <2>1. Hits = {} /\ db' = before
    BY <1>2, <1>6, <1>9, <1>11
  <2> QED
    BY <2>1, <1>1, <1>2, <1>6, NoHits
<1> QED
  BY <1>3, <1>6, <1>8, <1>10, <1>11 DEF ModifyInv

LEMMA DropStep ==
  ASSUME IInv, ModifyInv, mode = "modify", Drop, UNCHANGED client
  PROVE  IInv' /\ ModifyInv'
<1>1. /\ m \in StatementOf /\ m.at = "error" /\ m.stop
      /\ IsTable(db) /\ IsTable(found) /\ left \subseteq Key
  BY DEF ModifyInv, Batches, Drop, IInv, Base, Control, LeftOver, StatementOf
<1>2. /\ db' = db /\ before' = before /\ mode' = mode /\ list' = list /\ at' = at
      /\ left' = left /\ failed' = failed /\ found' = found /\ out' = out /\ count' = count
      /\ others' = others
  BY DEF Drop
<1>3. IInv'
  BY <1>1, <1>2, ModifyKeeps
<1>4. m' \in StatementOf /\ m'.at = "error" /\ m'.flying = {} /\ m'.stop
  BY <1>1 DEF Drop, StatementOf
<1>5. Batches' /\ Alone'
  BY <1>4 DEF Batches, Alone
<1> QED
  BY <1>3, <1>4, <1>5 DEF ModifyInv

LEMMA OtherWritesStep ==
  ASSUME IInv, ModifyInv, mode = "modify", NEW k \in Key, OtherWrites(k), UNCHANGED client
  PROVE  IInv' /\ ModifyInv'
<1>1. /\ m \in StatementOf /\ Batches /\ m.at \notin {"start", "ok", "error"}
      /\ others \in Nat
  BY DEF ModifyInv, OtherWrites, IInv, Base
<1>2. /\ before' = before /\ mode' = mode /\ found' = found /\ others' = others + 1 /\ m' = m
  BY DEF OtherWrites, Other
<1>3. IInv'
  BY OtherStep DEF OtherWrites
<1>4. others' # 0
  BY <1>1, <1>2
<1>5. NoSingle' = NoSingle
  BY <1>2, SameText
<1>6. Batches' /\ Alone'
  BY <1>1, <1>2, <1>4, <1>5 DEF Batches, Alone
<1> QED
  BY <1>1, <1>2, <1>3, <1>4, <1>6 DEF ModifyInv

\* What one more batch does to the table while nobody else writes.
LEMMA AppliedMore ==
  ASSUME NEW W, NEW batch, batch \cap W = {}, db = Applied(W),
         found = [k \in Hits |-> before[k]], batch \subseteq Hits
  PROVE  (IF m.kind = "delete" THEN [k \in DOMAIN db \ batch |-> db[k]]
          ELSE [k \in DOMAIN db |-> IF k \in batch THEN NewItem(k) ELSE db[k]])
           = Applied(W \cup batch)
<1>1. Hits \subseteq DOMAIN before
  BY DEF Hits
<1>2. CASE m.kind = "delete"
  <2>1. db = [k \in DOMAIN before \ W |-> before[k]]
    BY <1>2 DEF Applied
  <2>2. (DOMAIN before \ W) \ batch = DOMAIN before \ (W \cup batch)
    OBVIOUS
  <2> QED
    BY <1>2, <2>1, <2>2 DEF Applied
<1>3. CASE m.kind # "delete"
  <2>1. db = [k \in DOMAIN before |->
                IF k \in W THEN [before[k] EXCEPT !.c = SetC(@)] ELSE before[k]]
    BY <1>3 DEF Applied
  <2>2. ASSUME NEW k \in batch PROVE NewItem(k) = [before[k] EXCEPT !.c = SetC(@)]
    <3>1. db[k] = before[k] /\ found[k] = before[k]
      BY <1>1, <2>1
    <3> QED
      BY <3>1 DEF NewItem
  <2>3. [k \in DOMAIN db |-> IF k \in batch THEN NewItem(k) ELSE db[k]]
          = [k \in DOMAIN before |->
               IF k \in W \cup batch THEN [before[k] EXCEPT !.c = SetC(@)] ELSE before[k]]
    BY <2>1, <2>2
  <2> QED
    BY <1>3, <2>3 DEF Applied
<1> QED
  BY <1>2, <1>3

LEMMA WriteBatchStep ==
  ASSUME IInv, ModifyInv, mode = "modify", UNCHANGED client,
         NEW batch \in SUBSET Key, batch # {}, WriteBatch(batch)
  PROVE  IInv' /\ ModifyInv'
<1>1. /\ m \in StatementOf /\ Batches /\ Alone /\ batch \subseteq m.flying /\ m.flying # {}
      /\ m.flying \subseteq DOMAIN found /\ IsTable(db) /\ IsTable(found) /\ IsTable(before)
      /\ left \subseteq Key
  BY DEF ModifyInv, Batches, WriteBatch, IInv, Base, Control, LeftOver
<1>2. /\ before' = before /\ mode' = mode /\ list' = list /\ at' = at /\ left' = left
      /\ failed' = failed /\ found' = found /\ out' = out /\ count' = count
      /\ others' = others
  BY DEF WriteBatch
<1>3. IsFiniteSet(DOMAIN found) /\ Cardinality(DOMAIN found) \in Nat
      /\ DOMAIN found \subseteq Key
  <2>1. DOMAIN found \subseteq Key /\ IsFiniteSet(Key)
    BY <1>1, ConstantsAssumption DEF IsTable
  <2> QED
    BY <2>1, FS_Subset, FS_CardinalityType
<1> DEFINE whole == m.kind = "delete" \/ batch \subseteq DOMAIN db
           rest == m.flying \ batch
           after == IF m.kind = "delete" THEN [k \in DOMAIN db \ batch |-> db[k]]
                    ELSE [k \in DOMAIN db |-> IF k \in batch THEN NewItem(k) ELSE db[k]]
           done == whole /\ Whole(rest)
           w == IF whole THEN m.written \cup batch ELSE m.written
           next == IF ~whole THEN "error" ELSE IF Whole(rest) THEN "ok" ELSE m.at
           a == IF done THEN Cardinality(DOMAIN found) ELSE 0
           b == IF done /\ m.kind = "update" THEN Cardinality(DOMAIN found) ELSE 0
           halt == m.stop \/ ~whole
<1>4. /\ db' = IF whole THEN after ELSE db
      /\ m' = [m EXCEPT !.flying = rest, !.stop = halt, !.written = w, !.at = next,
                        !.affected = a, !.changed = b]
  BY ZenonT(40) DEF WriteBatch
<1>5. m.at \in {"start", "reads", "writes", "ok", "error"} /\ m.stop \in BOOLEAN
      /\ m.written \subseteq Key /\ m.kind \in {"update", "delete"}
  BY <1>1 DEF StatementOf
<1>6. /\ rest \in SUBSET Key /\ halt \in BOOLEAN /\ w \in SUBSET Key /\ a \in Nat /\ b \in Nat
      /\ next \in {"start", "reads", "writes", "ok", "error"}
  BY <1>1, <1>3, <1>5
<1>7. /\ m' \in StatementOf /\ m'.kind = m.kind /\ m'.key = m.key /\ m'.c = m.c
      /\ m'.set = m.set /\ m'.at = next /\ m'.flying = rest /\ m'.written = w
      /\ m'.affected = a /\ m'.changed = b /\ m'.stop = halt
  <2> HIDE DEF rest, halt, w, a, b, next
  <2> QED
    BY <1>1, <1>4, <1>6 DEF StatementOf
<1>8. IsTable(db')
  <2>1. ASSUME NEW k \in batch, k \in DOMAIN db PROVE NewItem(k) \in AnyItem
    <3>1. found[k] \in AnyItem /\ db[k] \in AnyItem
      BY <2>1, <1>1 DEF IsTable
    <3>2. SetC(found[k].c) \in Cell
      BY <3>1, <1>1, SetCType DEF AnyItem
    <3> QED
      BY <3>1, <3>2, SetColumn DEF NewItem
  <2>2. IsTable([k \in DOMAIN db |-> IF k \in batch THEN NewItem(k) ELSE db[k]])
    BY <2>1, <1>1 DEF IsTable
  <2>3. IsTable([k \in DOMAIN db \ batch |-> db[k]])
    BY <1>1, WithoutTable
  <2> QED
    BY <2>2, <2>3, <1>1, <1>4
<1>9. IInv'
  BY <1>1, <1>2, <1>8, ModifyKeeps
<1>10. Hits' = Hits /\ NoSingle' = NoSingle /\ \A W : Applied(W)' = Applied(W)
       /\ Compared' = Compared
  BY <1>2, <1>7, SameText
<1>11. ASSUME m.at = "writes", others = 0
       PROVE  /\ found = [k \in Hits |-> before[k]] /\ DOMAIN found = Hits
              /\ whole => db' = Applied(w)
  <2>1. found = [k \in Hits |-> before[k]] /\ db = Applied(m.written)
    BY <1>1, <1>11 DEF Alone
  <2>2. batch \cap m.written = {} /\ batch \subseteq Hits
    BY <1>1, <1>11, <2>1 DEF Batches
  <2>3. after = Applied(m.written \cup batch)
    BY <2>1, <2>2, AppliedMore
  <2> HIDE DEF after
  <2> QED
    BY <2>1, <2>3, <1>4
<1>12. CASE m.at = "error"
  <2>1. next = "error" /\ halt
    BY <1>1, <1>12 DEF Batches, Whole
  <2>2. Batches' /\ Alone'
    BY <2>1, <1>1, <1>2, <1>7 DEF Batches, Alone
  <2> QED
    BY <2>1, <2>2, <1>2, <1>7, <1>9 DEF ModifyInv
<1>13. CASE m.at = "writes"
  <2>1. /\ ~m.stop /\ NoSingle /\ m.flying \cup m.written = DOMAIN found
        /\ m.flying \cap m.written = {}
    BY <1>1, <1>13 DEF Batches
  <2>2. next = "ok" => whole /\ rest = {} /\ done /\ w = DOMAIN found
    BY <2>1, <1>1, <1>13 DEF Whole
  <2>3. /\ next = "writes" => whole /\ rest # {}
        /\ next = "error" <=> ~whole
        /\ next \in {"ok", "writes", "error"}
    BY <2>1, <1>13 DEF Whole
  <2>4. next = "ok" => a = Cardinality(w)
    BY <2>2
  <2>5. Batches'
    <3>1. /\ halt <=> next = "error"
          /\ w = IF next = "error" THEN m.written ELSE m.written \cup batch
      BY <2>1, <2>3
    <3>2. next = "writes" => rest \cup w = DOMAIN found /\ rest \cap w = {} /\ rest # {}
      BY <2>1, <2>3, <1>1
    <3>3. next = "ok" => rest = {}
      BY <2>2
    <3>4. rest \subseteq DOMAIN found
      BY <1>1
    <3> HIDE DEF next, rest, w, a, b, halt, whole, done
    <3> QED
      BY <2>1, <2>3, <2>4, <3>1, <3>2, <3>3, <3>4, <1>2, <1>7, <1>10 DEF Batches
  <2>6. Alone'
    <3> HIDE DEF next, rest, w, a, b, halt, whole, done
    <3> QED
      BY <2>3, <1>2, <1>7, <1>10, <1>11, <1>13 DEF Alone
  <2>7. ASSUME m'.at = "ok", others' = 0
        PROVE  Exact'
    <3>1. /\ whole /\ done /\ w = DOMAIN found /\ DOMAIN found = Hits /\ db' = Applied(w)
          /\ a = Cardinality(Hits) /\ b = IF m.kind = "update" THEN Cardinality(Hits) ELSE 0
      BY <2>2, <2>7, <1>2, <1>7, <1>11, <1>13
    <3>2. db' = Applied(Hits)'
      BY <3>1, <1>10
    <3>3. m'.affected = Cardinality(Hits)'
      BY <3>1, <1>7, <1>10
    <3>4. m'.kind = "update" => m'.changed = m'.affected
      BY <3>1, <1>7
    <3>5. m.kind = "update" => ~Compared
      BY <2>1 DEF NoSingle, Compared
    <3> QED
      BY <3>2, <3>3, <3>4, <3>5, <1>7, <1>10 DEF Exact
  <2> QED
    BY <2>5, <2>6, <2>7, <1>7, <1>9 DEF ModifyInv
<1> QED
  BY <1>1, <1>5, <1>12, <1>13 DEF Batches

-----------------------------------------------------------------------------
(* Every step keeps the invariants *)

LEMMA InsertNext ==
  ASSUME IInv, Next
  PROVE  IInv'
<1>1. UNCHANGED client
  BY DEF Next
<1>2. CASE Start
  BY <1>1, <1>2, StartStep
<1>3. ASSUME NEW i \in Rows, UpdateItem(i) PROVE IInv'
  BY <1>1, <1>3, UpdateItemStep
<1>4. ASSUME NEW i \in Rows, BatchUpdate(i) PROVE IInv'
  BY <1>1, <1>4, BatchUpdateStep
<1>5. ASSUME NEW i \in Rows, BatchInsert(i) PROVE IInv'
  BY <1>1, <1>5, BatchInsertStep
<1>6. CASE Updated
  BY <1>1, <1>6, UpdatedStep
<1>7. CASE Inserted
  BY <1>1, <1>7, InsertedStep
<1>8. CASE Compute
  BY <1>1, <1>8, ComputeStep
<1>9. CASE WriteChanged
  BY <1>1, <1>9, WriteChangedStep
<1>10. CASE WriteNew
  BY <1>1, <1>10, WriteNewStep
<1>11. CASE InsertTransaction
  BY <1>1, <1>11, InsertTransactionStep
<1>12. CASE ReplaceTransaction
  BY <1>1, <1>12, ReplaceTransactionStep
<1>13. ASSUME NEW k \in Key, Read(k) PROVE IInv'
  BY <1>1, <1>13, ReadStep
<1>14. ASSUME NEW k \in client.keys, Other(k) PROVE IInv'
  <2>1. k \in Key
    BY <1>14 DEF IInv, Base, Bounds
  <2> QED
    BY <2>1, <1>1, <1>14, OtherStep
<1>15. ASSUME NEW i \in Rows, Refuse(i) PROVE IInv'
  BY <1>1, <1>15, RefuseStep
<1> QED
  BY <1>2, <1>3, <1>4, <1>5, <1>6, <1>7, <1>8, <1>9, <1>10, <1>11, <1>12, <1>13, <1>14, <1>15
     DEF Next, Statement

LEMMA ModifyNext ==
  ASSUME IInv, ModifyInv, Modify
  PROVE  IInv' /\ ModifyInv'
<1>1. mode = "modify" /\ UNCHANGED client
  BY DEF Modify
<1>2. CASE Single
  BY <1>1, <1>2, SingleStep
<1>3. CASE ReadEnd
  BY <1>1, <1>3, ReadEndStep
<1>4. CASE Drop
  BY <1>1, <1>4, DropStep
<1>5. ASSUME NEW k \in client.keys, ReadRow(k) PROVE IInv' /\ ModifyInv'
  <2>1. k \in Key
    BY DEF IInv, Base, Bounds
  <2> QED
    BY <2>1, <1>1, <1>5, ReadRowStep
<1>6. ASSUME NEW k \in client.keys, OtherWrites(k) PROVE IInv' /\ ModifyInv'
  <2>1. k \in Key
    BY DEF IInv, Base, Bounds
  <2> QED
    BY <2>1, <1>1, <1>6, OtherWritesStep
<1>7. ASSUME NEW batch \in SUBSET Key, batch # {}, WriteBatch(batch) PROVE IInv' /\ ModifyInv'
  BY <1>1, <1>7, WriteBatchStep
<1> QED
  BY <1>2, <1>3, <1>4, <1>5, <1>6, <1>7 DEF Modify

LEMMA NoStep ==
  ASSUME IInv, ModifyInv, UNCHANGED <<vars, m>>
  PROVE  IInv' /\ ModifyInv'
<1>1. /\ client' = client /\ db' = db /\ before' = before /\ mode' = mode /\ list' = list
      /\ at' = at /\ left' = left /\ failed' = failed /\ found' = found /\ out' = out
      /\ count' = count /\ others' = others /\ m' = m
  BY DEF vars
<1>2. IInv'
  <2>1. mode = "modify" => IsTable(db) /\ IsTable(found) /\ left \subseteq Key
    BY DEF IInv, Base, Control, LeftOver
  <2> QED
    BY <1>1, <2>1, ModifyKeeps
<1>3. Hits' = Hits /\ NoSingle' = NoSingle /\ Compared' = Compared /\ Lacking' = Lacking
      /\ \A W : Applied(W)' = Applied(W)
  BY <1>1, SameText
<1>4. Batches => Batches'
  BY <1>1, <1>3 DEF Batches
<1>5. Alone => Alone'
  BY <1>1, <1>3 DEF Alone
<1>6. Exact => Exact'
  BY <1>1, <1>3 DEF Exact
<1>7. m \in StatementOf => m' \in StatementOf
  BY <1>1
<1> QED
  BY <1>1, <1>2, <1>4, <1>5, <1>6, <1>7 DEF ModifyInv

LEMMA AnyStep ==
  ASSUME IInv, ModifyInv, [AnyNext]_<<vars, m>>
  PROVE  IInv' /\ ModifyInv'
<1>1. CASE mode # "modify" /\ Next /\ UNCHANGED m
  <2>1. IInv'
    BY <1>1, InsertNext
  <2>2. mode' = mode
    BY <1>1 DEF Next, Statement, Start, UpdateItem, BatchUpdate, BatchInsert, Refuse, Updated,
                Inserted,
                Compute, WriteChanged, WriteNew, InsertTransaction, ReplaceTransaction, Read, Other
  <2> QED
    BY <1>1, <2>1, <2>2 DEF ModifyInv
<1>2. CASE Modify
  BY <1>2, ModifyNext
<1>3. CASE UNCHANGED <<vars, m>>
  BY <1>3, NoStep
<1> QED
  BY <1>1, <1>2, <1>3 DEF AnyNext

LEMMA AlwaysInv == AnySpec => [](IInv /\ ModifyInv)
<1>1. AnyInit => IInv /\ ModifyInv
  <2>1. ASSUME Init PROVE IInv /\ ModifyInv
    <3>1. mode # "modify"
      BY <2>1, ConstantsAssumption DEF Init, Update
    <3> QED
      BY <2>1, <3>1, InsertInit DEF ModifyInv
  <2>2. ASSUME ModifyInit PROVE IInv /\ ModifyInv
    BY <2>2, ModifyInitInv, ModifyFirst
  <2> QED
    BY <2>1, <2>2 DEF AnyInit
<1>2. IInv /\ ModifyInv /\ [AnyNext]_<<vars, m>> => (IInv /\ ModifyInv)'
  BY AnyStep
<1> QED
  BY <1>1, <1>2, PTL DEF AnySpec

-----------------------------------------------------------------------------
(* What follows for the statements *)

\* The types hold of every statement, and one that has ended well has nothing under way.
THEOREM TypeCorrect == AnySpec => []TypeOK
<1>1. IInv => TypeOK
  <2> SUFFICES ASSUME IInv PROVE TypeOK
    OBVIOUS
  <2>1. IsTable(db)
    BY DEF IInv, Base
  <2>2. \A k \in DOMAIN db : db[k].c \in Int /\ db[k].d \in Int
    BY <2>1 DEF IsTable, AnyItem, Cell, Null, Missing
  <2>3. DOMAIN db \subseteq Key
    BY <2>1 DEF IsTable
  <2>4. at \in {"start", "items", "updates", "inserts", "reads", "compute", "write",
               "write new", "transaction", "ok", "error", "modify"}
    BY DEF IInv, Control, Reading
  <2> QED
    BY <2>2, <2>3, <2>4 DEF IInv, LeftOver, InRange, TypeOK
<1> QED
  BY <1>1, AlwaysInv, PTL

\* Kinds that pick the same rows count the same.
LEMMA NumSame ==
  ASSUME NEW n \in Nat, NEW f, NEW K, NEW L, \A i \in 1..n : f[i] \in K <=> f[i] \in L
  PROVE  Num(f, n, K) = Num(f, n, L)
<1>1. {i \in 1..n : f[i] \in K} = {i \in 1..n : f[i] \in L}
  OBVIOUS
<1> QED
  BY <1>1 DEF Num

\* At the end the counts are those of the rows' outcomes, on each of the paths.
LEMMA CountsAtEnd ==
  ASSUME IInv, AddsToValues, at = "ok", Path \in {"A", "B", "insert", "ignore"}
  PROVE  /\ count.affected = Num(out, Len(list), {"new", "same"})
                               + 2 * Num(out, Len(list), {"hit", "changed"})
         /\ count.changed = Num(out, Len(list), {"hit", "changed", "same"})
<1> DEFINE n == Len(list)
           Outcomes(kinds) == Num(out, n, kinds)
<1>1. n \in Nat /\ Rows = 1..n /\ out \in [1..n -> Outcome]
  BY ListType DEF IInv, Base
<1>2. CASE Path = "A"
  BY <1>2 DEF IInv, Counts, CountsA
<1>3. CASE Path = "B"
  <2>1. /\ count.changed = Outcomes({"hit"}) /\ count.affected = Outcomes({"hit"}) + n
        /\ \A i \in 1..n : out[i] \in {"hit", "new"}
    BY <1>1, <1>3 DEF IInv, Counts, CountsB
  <2>2. /\ Outcomes({"new", "same"}) = Outcomes({"new"})
        /\ Outcomes({"hit", "changed"}) = Outcomes({"hit"})
        /\ Outcomes({"hit", "changed", "same"}) = Outcomes({"hit"})
    <3> HIDE DEF n
    <3>1. \A K, L : (\A i \in 1..n : out[i] \in K <=> out[i] \in L) => Num(out, n, K) = Num(out, n, L)
      BY <1>1, NumSame
    <3>2. /\ \A i \in 1..n : out[i] \in {"new", "same"} <=> out[i] \in {"new"}
          /\ \A i \in 1..n : out[i] \in {"hit", "changed"} <=> out[i] \in {"hit"}
          /\ \A i \in 1..n : out[i] \in {"hit", "changed", "same"} <=> out[i] \in {"hit"}
      BY <2>1
    <3> QED
      BY <3>1, <3>2
  <2>3. Outcomes({"hit"}) + Outcomes({"new"}) = n
    <3> HIDE DEF n
    <3>1. Num(out, n, {"hit"} \cup {"new"}) = Num(out, n, {"hit"}) + Num(out, n, {"new"})
      <4>1. {"hit"} \cap {"new"} = {}
        OBVIOUS
      <4> QED
        BY <4>1, <1>1, NumSum
    <3>2. Num(out, n, {"hit"} \cup {"new"}) = n
      <4>1. \A i \in 1..n : out[i] \in {"hit"} \cup {"new"}
        BY <2>1
      <4> QED
        BY <4>1, <1>1, NumAll
    <3> QED
      BY <3>1, <3>2
  <2>4. Outcomes({"hit"}) \in Nat /\ Outcomes({"new"}) \in Nat
    BY <1>1, NumRange
  <2> HIDE DEF Outcomes, n
  <2>5. count.affected = Outcomes({"new", "same"}) + 2 * Outcomes({"hit", "changed"})
    BY <2>1, <2>2, <2>3, <2>4
  <2>6. count.changed = Outcomes({"hit", "changed", "same"})
    BY <2>1, <2>2
  <2> QED
    BY <2>5, <2>6 DEF Outcomes, n
<1>4. CASE Path = "insert"
  <2>1. count.affected = n /\ count.changed = 0 /\ \A i \in 1..n : out[i] = "new"
    <3>1. mode = "insert"
      BY <1>4, PathIs DEF IInv, Base
    <3> QED
      BY <3>1, <1>1, <1>4 DEF IInv, Counts, CountsInsert, AllOrNone
  <2>2. Outcomes({"new", "same"}) = n
    <3> HIDE DEF n
    <3>1. \A i \in 1..n : out[i] \in {"new", "same"}
      BY <2>1
    <3> QED
      BY <3>1, <1>1, NumAll
  <2>3. Outcomes({"hit", "changed"}) = 0 /\ Outcomes({"hit", "changed", "same"}) = 0
    <3> HIDE DEF n
    <3>1. /\ \A i \in 1..n : out[i] \notin {"hit", "changed"}
          /\ \A i \in 1..n : out[i] \notin {"hit", "changed", "same"}
      BY <2>1
    <3> QED
      BY <3>1, <1>1, NumNone
  <2> QED
    BY <2>1, <2>2, <2>3, <1>1
<1>5. CASE Path = "ignore"
  <2>1. count.affected = Outcomes({"new"}) /\ count.changed = 0
        /\ \A i \in 1..n : out[i] \in {"nothing", "new", "kept"}
    BY <1>1, <1>5 DEF IInv, Counts, CountsIgnore, Known
  <2>2. Outcomes({"new", "same"}) = Outcomes({"new"})
    <3> HIDE DEF n
    <3>1. \A i \in 1..n : out[i] \in {"new", "same"} <=> out[i] \in {"new"}
      BY <2>1
    <3> QED
      BY <3>1, <1>1, NumSame
  <2>3. Outcomes({"hit", "changed"}) = 0 /\ Outcomes({"hit", "changed", "same"}) = 0
    <3> HIDE DEF n
    <3>1. /\ \A i \in 1..n : out[i] \notin {"hit", "changed"}
          /\ \A i \in 1..n : out[i] \notin {"hit", "changed", "same"}
      BY <2>1
    <3> QED
      BY <3>1, <1>1, NumNone
  <2>4. Outcomes({"new"}) \in Nat
    BY <1>1, NumRange
  <2> HIDE DEF Outcomes, n
  <2>5. count.affected = Outcomes({"new", "same"}) + 2 * Outcomes({"hit", "changed"})
    BY <2>1, <2>2, <2>3, <2>4
  <2>6. count.changed = Outcomes({"hit", "changed", "same"})
    BY <2>1, <2>3
  <2> QED
    BY <2>5, <2>6 DEF Outcomes, n
<1> QED
  BY <1>2, <1>3, <1>4, <1>5

\* Whatever other clients write, the counts of paths A and B, of INSERT and of INSERT IGNORE
\* are those of what happened to the rows at DynamoDB, for every number of rows; of an
\* increment by 0 of a column that the item lacks they are not, hence the assumption.
THEOREM AlwaysTrueCounts ==
  ASSUME AddsToValues
  PROVE  AnySpec => []CountsAreTrue
<1>1. IInv /\ TypeOK => CountsAreTrue
  <2> SUFFICES ASSUME IInv, TypeOK PROVE CountsAreTrue
    OBVIOUS
  <2>1. Rows = 1..Len(list)
    BY ListType DEF IInv, Base
  <2>2. ASSUME at = "ok", Path \in {"A", "B", "insert", "ignore"}
        PROVE  LET n(kinds) == Cardinality({i \in Rows : out[i] \in kinds}) IN
                 /\ count.affected = n({"new", "same"}) + 2 * n({"hit", "changed"})
                 /\ count.changed = n({"hit", "changed", "same"})
    BY <2>1, <2>2, CountsAtEnd DEF Num
  <2> QED
    BY <2>2 DEF CountsAreTrue
<1> QED
  BY <1>1, AlwaysInv, TypeCorrect, PTL

\* An UPDATE or DELETE that nobody disturbs does what its WHERE and SET say, for every table,
\* text and size of the transactions, and in any order of the pages and the transactions.
THEOREM AlwaysModifyExact == AnySpec => []ModifyExact
<1>1. ModifyInv => ModifyExact
  BY ModifyIsExact
<1> QED
  BY <1>1, AlwaysInv, PTL

-----------------------------------------------------------------------------
(* What a step may never do *)

\* what OnlySetColumns allows a step
OnlySets ==
  mode \notin {"replace", "modify"} /\ others' = others =>
    \A k \in DOMAIN db :
      /\ k \in DOMAIN db'
      /\ db'[k].d = db[k].d \/ (Path = "A" /\ db[k].d = Missing /\ db'[k].d = NewD)
      /\ mode \in {"insert", "ignore"} => db'[k] = db[k]

\* A row that is put under a key that is not there disturbs no other.
LEMMA NewKeyOnly ==
  ASSUME NEW k, k \notin DOMAIN db, NEW item, db' = With(db, k, item)
  PROVE  OnlySets
BY DEF OnlySets, With

LEMMA StepOnlySets ==
  ASSUME IInv, Next
  PROVE  OnlySets
<1>1. Base /\ mode \in Mode \cup {"modify"} /\ IsTable(db)
  BY DEF IInv, Base
<1>2. CASE db' = db
  BY <1>2 DEF OnlySets
<1>3. ASSUME NEW i \in Rows, UpdateItem(i) PROVE OnlySets
  <2> DEFINE row == list[i]
             new == IF ~Increment THEN NewC(db[row.k].c, row)
                    ELSE row.c + (IF db[row.k].c = Missing THEN 0 ELSE db[row.k].c)
  <2>1. Path = "A" /\ mode \notin {"insert", "ignore"}
    <3>1. Path = "A"
      BY <1>3, UpdateItemCases DEF IInv, Control
    <3> QED
      BY <3>1, <1>1, PathIs DEF Update
  <2>2. CASE row.k \notin DOMAIN db /\ db' # db
    <3>1. db' = With(db, row.k, ItemOf(row))
      BY <2>2, <1>3, UpdateItemCases
    <3> QED
      BY <2>2, <3>1, NewKeyOnly
  <2>3. CASE row.k \in DOMAIN db /\ db' # db
    <3>1. db' = With(db, row.k, [c |-> new, d |-> KeptD(db[row.k].d)])
      BY <2>3, <1>3, UpdateItemCases
    <3> HIDE DEF new, row
    <3>2. \A k \in DOMAIN db : k \in DOMAIN db' /\ db'[k].d = (IF k = row.k THEN KeptD(db[k].d)
                                                               ELSE db[k].d)
      BY <3>1 DEF With
    <3> QED
      BY <2>1, <3>2 DEF OnlySets, KeptD
  <2> QED
    BY <1>2, <2>2, <2>3
<1>4. ASSUME NEW i \in Rows, BatchUpdate(i), db' # db PROVE OnlySets
  <2>1. mode \notin {"insert", "ignore"}
    <3>1. Path = "B"
      BY <1>4 DEF BatchUpdate, IInv, Control
    <3> QED
      BY <3>1, <1>1, PathIs DEF Update
  <2> DEFINE key == list[i].k
             new == NewC(db[list[i].k].c, list[i])
  <2>2. key \in DOMAIN db /\ db' = [db EXCEPT ![key].c = new]
    BY <1>4 DEF BatchUpdate
  <2>3. db[key] \in AnyItem
    BY <2>2, <1>1 DEF IsTable
  <2>4. [db[key] EXCEPT !.c = new].d = db[key].d
    BY <2>3 DEF AnyItem
  <2> HIDE DEF key, new
  <2>5. \A k \in DOMAIN db : k \in DOMAIN db' /\ db'[k].d = db[k].d
    BY <2>2, <2>4
  <2> QED
    BY <2>1, <2>5 DEF OnlySets
<1>5. ASSUME NEW i \in Rows, BatchInsert(i), db' # db PROVE OnlySets
  <2>1. list[i].k \notin DOMAIN db /\ db' = With(db, list[i].k, ItemOf(list[i]))
    BY <1>5 DEF BatchInsert
  <2> QED
    BY <2>1, NewKeyOnly
<1>6. ASSUME WriteChanged, db' # db PROVE OnlySets
  <2>1. mode \notin {"insert", "ignore"}
    <3>1. Path = "C"
      BY <1>6 DEF WriteChanged, IInv, Control, Reading
    <3> QED
      BY <3>1, <1>1, PathIs DEF Update
  <2>2. db' = [k \in DOMAIN db |->
                IF \E e \in Changed : e.k = k
                THEN [db[k] EXCEPT !.c = (CHOOSE e \in Changed : e.k = k).cur.c] ELSE db[k]]
    BY <1>6 DEF WriteChanged
  <2>3. \A k \in DOMAIN db : db[k] \in AnyItem
    BY <1>1 DEF IsTable
  <2>4. \A k \in DOMAIN db : k \in DOMAIN db' /\ db'[k].d = db[k].d
    BY <2>2, <2>3 DEF AnyItem
  <2> QED
    BY <2>1, <2>4 DEF OnlySets
<1>7. ASSUME WriteNew, db' # db PROVE OnlySets
  <2>1. \A k \in DOMAIN db : k \in DOMAIN db' /\ db'[k] = db[k]
    BY <1>7 DEF WriteNew
  <2> QED
    BY <2>1 DEF OnlySets
<1>8. ASSUME InsertTransaction, db' # db PROVE OnlySets
  <2>1. \A k \in DOMAIN db : k \in DOMAIN db' /\ db'[k] = db[k]
    BY <1>8 DEF InsertTransaction
  <2> QED
    BY <2>1 DEF OnlySets
<1>9. ASSUME ReplaceTransaction PROVE OnlySets
  BY <1>9 DEF ReplaceTransaction, OnlySets
<1>10. ASSUME NEW k \in client.keys, Other(k) PROVE OnlySets
  <2>1. others' # others
    BY <1>1, <1>10 DEF Other, Base
  <2> QED
    BY <2>1 DEF OnlySets
<1>11. CASE Start \/ Updated \/ Inserted \/ Compute \/ (\E k \in Key : Read(k))
            \/ \E i \in Rows : Refuse(i)
  <2>1. db' = db
    BY <1>11 DEF Refuse, Start, Updated, Inserted, Compute, Read
  <2> QED
    BY <1>2, <2>1
<1> QED
  BY <1>2, <1>3, <1>4, <1>5, <1>6, <1>7, <1>8, <1>9, <1>10, <1>11 DEF Next, Statement

\* A statement with ON DUPLICATE KEY UPDATE never overwrites the other columns of a row, and
\* INSERT and INSERT IGNORE overwrite none at all, even of one that another client writes
\* between its read and its write, or makes between its update and its insert.
THEOREM AlwaysOnlySetColumns == AnySpec => OnlySetColumns
<1>1. IInv /\ [AnyNext]_<<vars, m>> => [OnlySets]_vars
  <2>1. ASSUME IInv, mode # "modify", Next PROVE OnlySets
    BY <2>1, StepOnlySets
  <2>2. ASSUME Modify PROVE OnlySets
    BY <2>2 DEF Modify, OnlySets
  <2> QED
    BY <2>1, <2>2 DEF AnyNext
<1>2. [OnlySets]_vars =>
        [mode \notin {"replace", "modify"} /\ others' = others =>
           \A k \in DOMAIN db :
             /\ k \in DOMAIN db'
             /\ db'[k].d = db[k].d \/ (Path = "A" /\ db[k].d = Missing /\ db'[k].d = NewD)
             /\ mode \in {"insert", "ignore"} => db'[k] = db[k]]_vars
  BY DEF OnlySets
<1> QED
  BY <1>1, <1>2, AlwaysInv, PTL DEF AnySpec, OnlySetColumns

\* what ModifyTouches allows a step
Touches ==
  mode = "modify" /\ others' = others =>
    /\ m.kind = "update" => DOMAIN db' = DOMAIN db /\ \A k \in DOMAIN db : db'[k].d = db[k].d
    /\ m.kind = "delete" => \A k \in DOMAIN db' : k \in DOMAIN db /\ db'[k] = db[k]
    /\ \A k \in DOMAIN db : (k \in DOMAIN db' => db'[k] # db[k]) =>
         k \in m'.written /\ (k \in DOMAIN found \/ Matches(k, db[k]))

LEMMA SingleTouches ==
  ASSUME IInv, ModifyInv, mode = "modify", Single, db' # db
  PROVE  Touches
<1>1. m \in StatementOf /\ IsTable(db)
  BY DEF ModifyInv, IInv, Base
<1>2. /\ m.key \in DOMAIN db /\ Matches(m.key, db[m.key])
      /\ db' = IF m.kind = "delete" THEN [k \in DOMAIN db \ {m.key} |-> db[k]]
               ELSE [db EXCEPT ![m.key].c = SetC(@)]
      /\ m' = [m EXCEPT !.at = "ok", !.affected = 1, !.written = {m.key},
                        !.changed = IF m.kind = "update" THEN ChangedOne(db[m.key].c) ELSE 0]
  BY DEF Single
<1>3. m'.written = {m.key}
  BY <1>1, <1>2 DEF StatementOf
<1>4. CASE m.kind = "delete"
  <2>1. db' = [k \in DOMAIN db \ {m.key} |-> db[k]]
    BY <1>2, <1>4
  <2> QED
    BY <1>2, <1>3, <1>4, <2>1 DEF Touches
<1>5. CASE m.kind # "delete"
  <2>1. db[m.key] \in AnyItem
    BY <1>1, <1>2 DEF IsTable
  <2> DEFINE new == [db[m.key] EXCEPT !.c = SetC(db[m.key].c)]
  <2>2. db' = [db EXCEPT ![m.key] = new] /\ new.d = db[m.key].d
    BY <1>2, <1>5, <2>1 DEF AnyItem
  <2> HIDE DEF new
  <2>3. DOMAIN db' = DOMAIN db /\ \A k \in DOMAIN db : db'[k].d = db[k].d
    BY <2>2
  <2>4. \A k \in DOMAIN db : k # m.key => db'[k] = db[k]
    BY <2>2
  <2> QED
    BY <1>2, <1>3, <1>5, <2>3, <2>4 DEF Touches
<1> QED
  BY <1>4, <1>5

LEMMA BatchTouches ==
  ASSUME IInv, ModifyInv, mode = "modify", NEW batch \in SUBSET Key, WriteBatch(batch), db' # db
  PROVE  Touches
<1>1. /\ m \in StatementOf /\ IsTable(db) /\ batch \subseteq DOMAIN found
  BY DEF ModifyInv, Batches, IInv, Base, WriteBatch
<1>2. batch \subseteq m'.written
  <2> DEFINE whole == m.kind = "delete" \/ batch \subseteq DOMAIN db
             rest == m.flying \ batch
             done == whole /\ Whole(rest)
             w == IF whole THEN m.written \cup batch ELSE m.written
             next == IF ~whole THEN "error" ELSE IF Whole(rest) THEN "ok" ELSE m.at
             a == IF done THEN Cardinality(DOMAIN found) ELSE 0
             b == IF done /\ m.kind = "update" THEN Cardinality(DOMAIN found) ELSE 0
             halt == m.stop \/ ~whole
  <2>1. m' = [m EXCEPT !.flying = rest, !.stop = halt, !.written = w, !.at = next,
                       !.affected = a, !.changed = b]
    BY ZenonT(40) DEF WriteBatch
  <2>2. w = m.written \cup batch
    BY DEF WriteBatch
  <2> HIDE DEF rest, halt, w, next, a, b
  <2>3. m'.written = w
    BY <2>1, <1>1 DEF StatementOf
  <2> QED
    BY <2>2, <2>3
<1>3. CASE m.kind = "delete"
  <2>1. db' = [k \in DOMAIN db \ batch |-> db[k]]
    BY <1>3 DEF WriteBatch
  <2> QED
    BY <1>1, <1>2, <1>3, <2>1 DEF Touches
<1>4. CASE m.kind # "delete"
  <2>1. db' = [k \in DOMAIN db |-> IF k \in batch THEN NewItem(k) ELSE db[k]]
    BY <1>4 DEF WriteBatch
  <2>2. \A k \in DOMAIN db : NewItem(k).d = db[k].d
    <3>1. \A k \in DOMAIN db : db[k] \in AnyItem
      BY <1>1 DEF IsTable
    <3> QED
      BY <3>1 DEF NewItem, AnyItem
  <2>3. DOMAIN db' = DOMAIN db /\ \A k \in DOMAIN db : db'[k].d = db[k].d
    BY <2>1, <2>2
  <2>4. \A k \in DOMAIN db : k \notin batch => db'[k] = db[k]
    BY <2>1
  <2> QED
    BY <1>1, <1>2, <1>4, <2>3, <2>4 DEF Touches
<1> QED
  BY <1>3, <1>4

\* An UPDATE touches no column but c, a DELETE takes away only what it found, and both write
\* no row that they do not count, in every step beside any number of other clients.
THEOREM AlwaysModifyTouches == AnySpec => ModifyTouches
<1>1. IInv /\ ModifyInv /\ [AnyNext]_<<vars, m>> => [Touches]_<<vars, m>>
  <2>1. CASE mode # "modify"
    BY <2>1 DEF Touches
  <2>2. CASE db' = db
    BY <2>2 DEF Touches
  <2>3. ASSUME IInv, ModifyInv, Modify, db' # db PROVE Touches
    <3>1. CASE Single
      BY <2>3, <3>1, SingleTouches DEF Modify
    <3>2. ASSUME NEW batch \in SUBSET Key, WriteBatch(batch) PROVE Touches
      BY <2>3, <3>2, BatchTouches DEF Modify
    <3>3. ASSUME NEW k \in client.keys, OtherWrites(k) PROVE Touches
      <4>1. others' # others
        BY <2>3, <3>3 DEF OtherWrites, Other, IInv, Base
      <4> QED
        BY <4>1 DEF Touches
    <3>4. ~(ReadEnd \/ Drop \/ \E k \in client.keys : ReadRow(k))
      BY <2>3 DEF ReadEnd, Drop, ReadRow
    <3> QED
      BY <2>3, <3>1, <3>2, <3>3, <3>4 DEF Modify
  <2> QED
    BY <2>1, <2>2, <2>3 DEF AnyNext
<1>2. [Touches]_<<vars, m>> =>
        [mode = "modify" /\ others' = others =>
           /\ m.kind = "update" =>
                DOMAIN db' = DOMAIN db /\ \A k \in DOMAIN db : db'[k].d = db[k].d
           /\ m.kind = "delete" => \A k \in DOMAIN db' : k \in DOMAIN db /\ db'[k] = db[k]
           /\ \A k \in DOMAIN db : (k \in DOMAIN db' => db'[k] # db[k]) =>
                k \in m'.written /\ (k \in DOMAIN found \/ Matches(k, db[k]))]_<<vars, m>>
  BY DEF Touches
<1> QED
  BY <1>1, <1>2, AlwaysInv, PTL DEF AnySpec, ModifyTouches

-----------------------------------------------------------------------------
(***************************************************************************)
(* An INSERT beside which nobody writes does what MySQL does, on each of   *)
(* its paths: AloneExact of RawInsert, for every table, list of rows and   *)
(* value of the constants.                                                 *)
(*                                                                         *)
(* The invariant relates the table, on each path, to After, the rows       *)
(* applied in their order; what After does to one key is said first.       *)
(***************************************************************************)

(* The rows applied in their order *)

Tables == UNION {[T -> AnyItem] : T \in SUBSET Key}

LEMMA TableIs ==
  ASSUME NEW t
  PROVE  t \in Tables <=> IsTable(t)
<1>1. ASSUME t \in Tables PROVE IsTable(t)
  <2>1. PICK T \in SUBSET Key : t \in [T -> AnyItem]
    BY <1>1 DEF Tables
  <2> QED
    BY <2>1 DEF IsTable
<1>2. ASSUME IsTable(t) PROVE t \in Tables
  <2>1. DOMAIN t \in SUBSET Key /\ t \in [DOMAIN t -> AnyItem]
    BY <1>2 DEF IsTable
  <2> QED
    BY <2>1 DEF Tables
<1> QED
  BY <1>1, <1>2

\* What a row makes of the row that has its key.
Made(item, row) ==
  CASE mode \in Update -> [item EXCEPT !.c = NewC(item.c, row)]
    [] mode = "replace" -> ItemOf(row)
    [] OTHER -> item

\* One row changes what is under its key, and nothing else.
LEMMA ReferenceIs ==
  ASSUME NEW t, IsTable(t), NEW row \in Row
  PROVE  /\ IsTable(Reference(t, row))
         /\ DOMAIN Reference(t, row) = DOMAIN t \cup {row.k}
         /\ \A k \in DOMAIN t : k # row.k => Reference(t, row)[k] = t[k]
         /\ row.k \notin DOMAIN t => Reference(t, row)[row.k] = ItemOf(row)
         /\ row.k \in DOMAIN t => Reference(t, row)[row.k] = Made(t[row.k], row)
<1>1. row.k \in Key /\ ItemOf(row) \in AnyItem
  BY ItemType
<1>2. CASE row.k \notin DOMAIN t
  <2>1. Reference(t, row) = With(t, row.k, ItemOf(row))
    BY <1>2 DEF Reference
  <2>2. IsTable(Reference(t, row))
    BY <2>1, <1>1, WithTable
  <2> QED
    BY <2>1, <2>2, <1>2 DEF With
<1>3. CASE row.k \in DOMAIN t
  <2> DEFINE item == t[row.k]
  <2>1. item \in AnyItem /\ item.c \in Cell
    BY <1>3 DEF IsTable, AnyItem
  <2>2. Made(item, row) \in AnyItem
    <3>1. CASE mode \in Update
      <4> DEFINE c == NewC(item.c, row)
      <4>1. c \in Cell
        <5> HIDE DEF item
        <5> QED
          BY <2>1, <3>1, NewCType
      <4>2. Made(item, row) = [item EXCEPT !.c = c]
        <5>1. mode # "replace"
          BY <3>1 DEF Update
        <5> QED
          BY <3>1, <5>1 DEF Made
      <4> HIDE DEF item, c
      <4> QED
        BY <2>1, <4>1, <4>2, SetColumn
    <3>2. CASE mode \notin Update
      <4> HIDE DEF item
      <4> QED
        BY <2>1, <3>2, <1>1 DEF Made
    <3> QED
      BY <3>1, <3>2
  <2>3. Reference(t, row) = [t EXCEPT ![row.k] = Made(item, row)]
    <3>1. CASE mode \in Update
      <4>0. mode # "replace"
        BY <3>1 DEF Update
      <4>1. Reference(t, row) = [t EXCEPT ![row.k].c = NewC(item.c, row)]
        BY <1>3, <3>1, <4>0 DEF Reference
      <4>2. Made(item, row) = [item EXCEPT !.c = NewC(item.c, row)]
        BY <3>1, <4>0 DEF Made
      <4> DEFINE c == NewC(item.c, row)
      <4> HIDE DEF c
      <4>3. [t EXCEPT ![row.k].c = c] = [t EXCEPT ![row.k] = [item EXCEPT !.c = c]]
        BY <1>3, <2>1 DEF AnyItem
      <4> QED
        BY <4>1, <4>2, <4>3 DEF c
    <3>2. CASE mode = "replace"
      <4>1. mode \notin Update
        BY <3>2 DEF Update
      <4>2. Reference(t, row) = [t EXCEPT ![row.k] = ItemOf(row)]
        BY <1>3, <3>2, <4>1 DEF Reference
      <4>3. Made(item, row) = ItemOf(row)
        BY <3>2, <4>1 DEF Made
      <4> QED
        BY <4>2, <4>3
    <3>3. CASE mode \notin Update /\ mode # "replace"
      <4>1. Reference(t, row) = t /\ Made(item, row) = t[row.k]
        BY <1>3, <3>3 DEF Reference, Made
      <4>2. t = [t EXCEPT ![row.k] = t[row.k]]
        BY <1>3 DEF IsTable
      <4> QED
        BY <4>1, <4>2
    <3> QED
      BY <3>1, <3>2, <3>3
  <2> HIDE DEF item
  <2>4. IsTable(Reference(t, row))
    BY <2>2, <2>3 DEF IsTable
  <2>5. /\ DOMAIN Reference(t, row) = DOMAIN t
        /\ \A k \in DOMAIN t : k # row.k => Reference(t, row)[k] = t[k]
        /\ Reference(t, row)[row.k] = Made(item, row)
    BY <2>3, <1>3
  <2> QED
    BY <2>4, <2>5, <1>3 DEF item
<1> QED
  BY <1>2, <1>3

\* After is what its recursion says, and each of its values a table.
LEMMA AfterIs ==
  ASSUME list \in Seq(Row), IsTable(before)
  PROVE  /\ After[0] = before
         /\ \A n \in 1..Len(list) : After[n] = Reference(After[n - 1], list[n])
         /\ \A n \in 0..Len(list) : IsTable(After[n])
<1> DEFINE N == Len(list)
           F == [x \in Tables \X (1..N) |-> Reference(x[1], list[x[2]])]
<1>1. N \in Nat /\ \A i \in 1..N : list[i] \in Row
  OBVIOUS
<1>2. ASSUME NEW t \in Tables, NEW i \in 1..N
      PROVE  F[<<t, i>>] = Reference(t, list[i]) /\ F[<<t, i>>] \in Tables
  <2>1. <<t, i>> \in Tables \X (1..N)
    OBVIOUS
  <2>2. F[<<t, i>>] = Reference(t, list[i])
    BY <2>1
  <2>3. IsTable(t) /\ list[i] \in Row
    BY <1>1, TableIs
  <2> HIDE DEF F
  <2>4. IsTable(Reference(t, list[i]))
    BY <2>3, ReferenceIs
  <2> QED
    BY <2>2, <2>4, TableIs
<1>3. before \in Tables
  BY TableIs
<1>4. PICK g : Iteration(g, N, Tables, before, F)
  <2>1. N \in Nat
    BY <1>1
  <2>2. \A t \in Tables : \A i \in 1..N : F[<<t, i>>] \in Tables
    BY <1>2
  <2> HIDE DEF N, F
  <2> QED
    BY <2>1, <2>2, <1>3, Iterates
<1>5. ASSUME NEW i \in 1..N PROVE g[i] = Reference(g[i - 1], list[i])
  <2>1. i - 1 \in 0..N
    BY <1>1
  <2>2. g[i - 1] \in Tables
    BY <2>1, <1>4 DEF Iteration
  <2> HIDE DEF N, F
  <2> QED
    BY <2>2, <1>2, <1>4 DEF Iteration
<1>6. g = [n \in 0..N |-> IF n = 0 THEN before ELSE Reference(g[n - 1], list[n])]
  <2>1. \A n \in 0..N : n # 0 => n \in 1..N
    BY <1>1
  <2> HIDE DEF N, F
  <2> QED
    BY <2>1, <1>4, <1>5 DEF Iteration
<1>7. After = [n \in 0..N |-> IF n = 0 THEN before ELSE Reference(After[n - 1], list[n])]
  BY <1>6 DEF After
<1>8. After[0] = before
  BY <1>7, <1>1
<1>9. \A n \in 1..N : After[n] = Reference(After[n - 1], list[n])
  BY <1>7, <1>1
<1>10. \A n \in 0..N : IsTable(After[n])
  <2> DEFINE T == {n \in 0..N : IsTable(After[n])}
  <2>1. 0 \in T
    BY <1>8, <1>1
  <2>2. ASSUME NEW i \in 1..N, i - 1 \in T PROVE i \in T
    <3>1. IsTable(After[i - 1]) /\ list[i] \in Row
      BY <2>2, <1>1
    <3>2. IsTable(Reference(After[i - 1], list[i]))
      BY <3>1, ReferenceIs
    <3>3. i \in 0..N
      OBVIOUS
    <3> QED
      BY <3>2, <3>3, <1>9
  <2>3. 0..N \subseteq T
    <3> HIDE DEF T, N
    <3> QED
      BY <2>1, <2>2, <1>1, UpTo
  <2> QED
    BY <2>3
<1> QED
  BY <1>8, <1>9, <1>10

\* What the i-th row does.
LEMMA AfterStep ==
  ASSUME list \in Seq(Row), IsTable(before), NEW i \in 1..Len(list)
  PROVE  /\ IsTable(After[i - 1]) /\ IsTable(After[i]) /\ list[i] \in Row
         /\ ItemOf(list[i]).c # Missing /\ ItemOf(list[i]).d # Missing
         /\ DOMAIN After[i] = DOMAIN After[i - 1] \cup {list[i].k}
         /\ \A k \in DOMAIN After[i - 1] : k # list[i].k => After[i][k] = After[i - 1][k]
         /\ list[i].k \notin DOMAIN After[i - 1] => After[i][list[i].k] = ItemOf(list[i])
         /\ list[i].k \in DOMAIN After[i - 1] =>
              After[i][list[i].k] = Made(After[i - 1][list[i].k], list[i])
<1> DEFINE t == After[i - 1]
           u == After[i]
           row == list[i]
<1>1. i \in 0..Len(list) /\ i - 1 \in 0..Len(list)
  OBVIOUS
<1>2. u = Reference(t, row) /\ IsTable(t) /\ IsTable(u) /\ row \in Row
  BY <1>1, AfterIs
<1> HIDE DEF t, u, row
<1>3. /\ DOMAIN u = DOMAIN t \cup {row.k}
      /\ \A k \in DOMAIN t : k # row.k => u[k] = t[k]
      /\ row.k \notin DOMAIN t => u[row.k] = ItemOf(row)
      /\ row.k \in DOMAIN t => u[row.k] = Made(t[row.k], row)
  BY <1>2, ReferenceIs
<1>4. ItemOf(row).c # Missing /\ ItemOf(row).d # Missing
  <2>1. ItemOf(row).c \in RowC /\ ItemOf(row).d = NewD
    BY <1>2, ItemType
  <2> QED
    BY <2>1, CellType DEF NewD, Missing
<1> QED
  BY <1>2, <1>3, <1>4 DEF t, u, row

\* The keys that are there after n rows.
LEMMA AfterKeys ==
  ASSUME list \in Seq(Row), IsTable(before)
  PROVE  \A n \in 0..Len(list) : DOMAIN After[n] = DOMAIN before \cup {list[i].k : i \in 1..n}
<1> DEFINE N == Len(list)
           keys(n) == {list[i].k : i \in 1..n}
           T == {n \in 0..N : DOMAIN After[n] = DOMAIN before \cup keys(n)}
<1>1. N \in Nat /\ \A i \in 1..N : list[i] \in Row
  OBVIOUS
<1>2. 0 \in T
  <2>1. keys(0) = {}
    OBVIOUS
  <2> QED
    BY <2>1, <1>1, AfterIs
<1>3. ASSUME NEW i \in 1..N, i - 1 \in T PROVE i \in T
  <2>1. keys(i) = keys(i - 1) \cup {list[i].k}
    <3>1. 1..i = 1..(i - 1) \cup {i}
      OBVIOUS
    <3> QED
      BY <3>1
  <2>2. DOMAIN After[i] = DOMAIN After[i - 1] \cup {list[i].k}
    BY AfterStep
  <2> HIDE DEF keys
  <2> QED
    BY <2>1, <2>2, <1>3
<1>4. 0..N \subseteq T
  <2> HIDE DEF T, N
  <2> QED
    BY <1>1, <1>2, <1>3, UpTo
<1> QED
  BY <1>4

\* Rows of other keys leave what is under a key alone.
LEMMA AfterSkips ==
  ASSUME list \in Seq(Row), IsTable(before), NEW k, NEW a \in 0..Len(list), NEW b \in a..Len(list),
         \A i \in (a + 1)..b : list[i].k # k
  PROVE  /\ k \in DOMAIN After[b] <=> k \in DOMAIN After[a]
         /\ k \in DOMAIN After[a] => After[b][k] = After[a][k]
<1> DEFINE N == Len(list)
           same(n) == /\ k \in DOMAIN After[n] <=> k \in DOMAIN After[a]
                      /\ k \in DOMAIN After[a] => After[n][k] = After[a][k]
           T == {n \in 0..b : n >= a => same(n)}
<1>1. N \in Nat /\ a \in 0..N /\ b \in 0..N /\ a <= b /\ b \in Nat
      /\ \A i \in 1..N : list[i] \in Row
  OBVIOUS
<1>2. 0 \in T
  BY <1>1
<1>3. ASSUME NEW i \in 1..b, i - 1 \in T PROVE i \in T
  <2>1. CASE i <= a
    BY <2>1, <1>1
  <2>2. CASE i > a
    <3>1. i \in 1..N /\ i \in (a + 1)..b /\ i - 1 >= a
      BY <2>2, <1>1
    <3>2. DOMAIN After[i] = DOMAIN After[i - 1] \cup {list[i].k} /\ list[i].k # k
          /\ \A j \in DOMAIN After[i - 1] : j # list[i].k => After[i][j] = After[i - 1][j]
      BY <3>1, AfterStep
    <3>3. same(i - 1)
      BY <3>1, <1>3
    <3>4. same(i)
      BY <3>2, <3>3
    <3> QED
      BY <3>4
  <2> QED
    BY <2>1, <2>2, <1>1
<1>4. 0..b \subseteq T
  <2> HIDE DEF T, N
  <2> QED
    BY <1>1, <1>2, <1>3, UpTo
<1> HIDE DEF same
<1>5. same(b)
  BY <1>1, <1>4
<1> QED
  BY <1>5 DEF same

\* INSERT IGNORE never changes a row that is there.
LEMMA AfterKeeps ==
  ASSUME list \in Seq(Row), IsTable(before), mode = "ignore",
         NEW a \in 0..Len(list), NEW b \in a..Len(list), NEW k \in DOMAIN After[a]
  PROVE  k \in DOMAIN After[b] /\ After[b][k] = After[a][k]
<1> DEFINE N == Len(list)
           same(n) == k \in DOMAIN After[n] /\ After[n][k] = After[a][k]
           T == {n \in 0..b : n >= a => same(n)}
<1>1. N \in Nat /\ a \in 0..N /\ b \in 0..N /\ a <= b /\ b \in Nat
      /\ \A i \in 1..N : list[i] \in Row
  OBVIOUS
<1>2. 0 \in T
  BY <1>1
<1>3. ASSUME NEW i \in 1..b, i - 1 \in T PROVE i \in T
  <2>1. CASE i <= a
    BY <2>1, <1>1
  <2>2. CASE i > a
    <3>1. i \in 1..N /\ i - 1 >= a
      BY <2>2, <1>1
    <3>2. /\ DOMAIN After[i] = DOMAIN After[i - 1] \cup {list[i].k}
          /\ \A j \in DOMAIN After[i - 1] : j # list[i].k => After[i][j] = After[i - 1][j]
          /\ list[i].k \in DOMAIN After[i - 1] =>
               After[i][list[i].k] = Made(After[i - 1][list[i].k], list[i])
      BY <3>1, AfterStep
    <3>3. \A item : Made(item, list[i]) = item
      BY DEF Made, Update
    <3>4. same(i - 1)
      BY <3>1, <1>3
    <3>5. same(i)
      BY <3>2, <3>3, <3>4
    <3> QED
      BY <3>5
  <2> QED
    BY <2>1, <2>2, <1>1
<1>4. 0..b \subseteq T
  <2> HIDE DEF T, N
  <2> QED
    BY <1>1, <1>2, <1>3, UpTo
<1> HIDE DEF same
<1>5. same(b)
  BY <1>1, <1>4
<1> QED
  BY <1>5 DEF same

\* ON DUPLICATE KEY UPDATE leaves no item of a complete table without an attribute.
LEMMA AfterComplete ==
  ASSUME list \in Seq(Row), IsTable(before), mode \in Update, Complete
  PROVE  \A n \in 0..Len(list) : \A k \in DOMAIN After[n] :
           After[n][k].c # Missing /\ After[n][k].d # Missing
<1> DEFINE N == Len(list)
           whole(n) == \A k \in DOMAIN After[n] :
                         After[n][k].c # Missing /\ After[n][k].d # Missing
           T == {n \in 0..N : whole(n)}
<1>1. N \in Nat /\ \A i \in 1..N : list[i] \in Row
  OBVIOUS
<1>2. 0 \in T
  BY <1>1, AfterIs DEF Complete
<1>3. ASSUME NEW i \in 1..N, i - 1 \in T PROVE i \in T
  <2> DEFINE key == list[i].k
  <2>1. IsTable(After[i - 1]) /\ list[i] \in Row
    BY AfterStep
  <2>2. /\ DOMAIN After[i] = DOMAIN After[i - 1] \cup {key}
        /\ \A j \in DOMAIN After[i - 1] : j # key => After[i][j] = After[i - 1][j]
        /\ key \notin DOMAIN After[i - 1] => After[i][key] = ItemOf(list[i])
        /\ key \in DOMAIN After[i - 1] => After[i][key] = Made(After[i - 1][key], list[i])
    BY AfterStep
  <2>3. ItemOf(list[i]).c # Missing /\ ItemOf(list[i]).d # Missing
    BY AfterStep
  <2>4. ASSUME key \in DOMAIN After[i - 1]
        PROVE  Made(After[i - 1][key], list[i]).c # Missing
               /\ Made(After[i - 1][key], list[i]).d # Missing
    <3> DEFINE old == After[i - 1][key]
               c == NewC(old.c, list[i])
    <3>1. old \in AnyItem /\ old.c \in Cell /\ old.d # Missing
      BY <2>1, <2>4, <1>3 DEF IsTable, AnyItem
    <3>2. c \in Cell /\ c # Missing
      <4> HIDE DEF old
      <4> QED
        BY <3>1, <2>1, NewCType
    <3>3. Made(old, list[i]) = [old EXCEPT !.c = c]
      <4>1. mode # "replace"
        BY DEF Update
      <4> QED
        BY <4>1 DEF Made
    <3> HIDE DEF old, c
    <3>4. Made(old, list[i]).c = c /\ Made(old, list[i]).d = old.d
      BY <3>1, <3>2, <3>3, SetColumn
    <3>5. Made(old, list[i]).c # Missing /\ Made(old, list[i]).d # Missing
      BY <3>1, <3>2, <3>4
    <3> QED
      BY <3>5 DEF old
  <2>5. whole(i - 1)
    BY <1>3
  <2> HIDE DEF key
  <2>6. whole(i)
    BY <2>2, <2>3, <2>4, <2>5
  <2> QED
    BY <2>6
<1>4. 0..N \subseteq T
  <2> HIDE DEF T, N
  <2> QED
    BY <1>1, <1>2, <1>3, UpTo
<1> QED
  BY <1>4

-----------------------------------------------------------------------------
(* The counts of the rows applied in their order *)

\* One row more.
LEMMA NumStep ==
  ASSUME NEW i \in Nat, i > 0, NEW f, NEW kinds
  PROVE  Num(f, i, kinds) = Num(f, i - 1, kinds) + (IF f[i] \in kinds THEN 1 ELSE 0)
<1> DEFINE S == {j \in 1..(i - 1) : f[j] \in kinds}
           T == {j \in 1..i : f[j] \in kinds}
<1>1. i - 1 \in Nat /\ 1..i = 1..(i - 1) \cup {i} /\ i \notin 1..(i - 1)
  OBVIOUS
<1>2. IsFiniteSet(S) /\ Cardinality(S) \in Nat
  <2>1. IsFiniteSet(S)
    BY <1>1, NumType
  <2> QED
    BY <2>1, FS_CardinalityType
<1>3. CASE f[i] \in kinds
  <2>1. T = S \cup {i} /\ i \notin S
    BY <1>1, <1>3
  <2>2. Cardinality(T) = Cardinality(S) + 1
    <3> HIDE DEF S, T
    <3> QED
      BY <2>1, <1>2, FS_AddElement
  <2> QED
    BY <2>2, <1>3 DEF Num
<1>4. CASE f[i] \notin kinds
  <2>1. T = S
    BY <1>1, <1>4
  <2> HIDE DEF S, T
  <2>2. Cardinality(T) = Cardinality(S) + 0
    BY <2>1, <1>2
  <2> QED
    BY <2>2, <1>4 DEF Num, S, T
<1> QED
  BY <1>3, <1>4

LEMMA NumZero ==
  ASSUME NEW f, NEW kinds
  PROVE  Num(f, 0, kinds) = 0
<1>1. {i \in 1..0 : f[i] \in kinds} = {}
  OBVIOUS
<1> QED
  BY <1>1, FS_EmptySet DEF Num

\* AffectedTo adds up what the rows affect.
LEMMA AffectedToIs ==
  ASSUME list \in Seq(Row)
  PROVE  /\ AffectedTo[0] = 0
         /\ \A n \in 1..Len(list) : AffectedTo[n] = AffectedTo[n - 1] + Affected(n)
         /\ \A n \in 1..Len(list) : Affected(n) \in 0..2
         /\ \A n \in 0..Len(list) : AffectedTo[n] \in Nat
<1> DEFINE N == Len(list)
           F == [x \in Nat \X (1..N) |-> x[1] + Affected(x[2])]
<1>1. N \in Nat
  OBVIOUS
<1>2. \A i \in 1..N : Affected(i) \in 0..2
  BY DEF Affected
<1>3. ASSUME NEW a \in Nat, NEW i \in 1..N
      PROVE  F[<<a, i>>] = a + Affected(i) /\ F[<<a, i>>] \in Nat
  <2>1. <<a, i>> \in Nat \X (1..N)
    OBVIOUS
  <2>2. F[<<a, i>>] = a + Affected(i)
    BY <2>1
  <2>3. Affected(i) \in Nat
    BY <1>2
  <2> HIDE DEF F
  <2> QED
    BY <2>2, <2>3
<1>4. PICK g : Iteration(g, N, Nat, 0, F)
  <2>1. N \in Nat /\ 0 \in Nat
    BY <1>1
  <2>2. \A a \in Nat : \A i \in 1..N : F[<<a, i>>] \in Nat
    BY <1>3
  <2> HIDE DEF N, F
  <2> QED
    BY <2>1, <2>2, Iterates
<1>5. ASSUME NEW i \in 1..N PROVE g[i] = g[i - 1] + Affected(i)
  <2>1. i - 1 \in 0..N
    BY <1>1
  <2>2. g[i - 1] \in Nat
    BY <2>1, <1>4 DEF Iteration
  <2> HIDE DEF N, F
  <2> QED
    BY <2>2, <1>3, <1>4 DEF Iteration
<1>6. g = [n \in 0..N |-> IF n = 0 THEN 0 ELSE g[n - 1] + Affected(n)]
  <2>1. \A n \in 0..N : n # 0 => n \in 1..N
    BY <1>1
  <2> HIDE DEF N, F
  <2> QED
    BY <2>1, <1>4, <1>5 DEF Iteration
<1>7. AffectedTo = [n \in 0..N |-> IF n = 0 THEN 0 ELSE AffectedTo[n - 1] + Affected(n)]
  BY <1>6 DEF AffectedTo
<1>8. AffectedTo[0] = 0
  BY <1>7, <1>1
<1>9. \A n \in 1..N : AffectedTo[n] = AffectedTo[n - 1] + Affected(n)
  BY <1>7, <1>1
<1>10. \A n \in 0..N : AffectedTo[n] \in Nat
  <2> DEFINE T == {n \in 0..N : AffectedTo[n] \in Nat}
  <2>1. 0 \in T
    BY <1>8, <1>1
  <2>2. ASSUME NEW i \in 1..N, i - 1 \in T PROVE i \in T
    <3>1. AffectedTo[i - 1] \in Nat /\ Affected(i) \in Nat
      BY <2>2, <1>2
    <3>2. i \in 0..N
      OBVIOUS
    <3> QED
      BY <3>1, <3>2, <1>9
  <2>3. 0..N \subseteq T
    <3> HIDE DEF T, N
    <3> QED
      BY <2>1, <2>2, <1>1, UpTo
  <2> QED
    BY <2>3
<1> QED
  BY <1>2, <1>8, <1>9, <1>10

\* When every row affects b, or one more if it is of some kinds, they affect together
\* b for each and as many more as are of these kinds.
LEMMA AffectedSum ==
  ASSUME list \in Seq(Row), NEW b \in {0, 1}, NEW f, NEW kinds,
         \A i \in 1..Len(list) : Affected(i) = b + (IF f[i] \in kinds THEN 1 ELSE 0)
  PROVE  AffectedTo[Len(list)] = (IF b = 0 THEN 0 ELSE Len(list)) + Num(f, Len(list), kinds)
<1> DEFINE N == Len(list)
           some(n) == IF b = 0 THEN 0 ELSE n
           T == {n \in 0..N : AffectedTo[n] = some(n) + Num(f, n, kinds)}
<1>1. N \in Nat
  OBVIOUS
<1>2. 0 \in T
  BY <1>1, NumZero, AffectedToIs
<1>3. ASSUME NEW i \in 1..N, i - 1 \in T PROVE i \in T
  <2>1. i \in Nat /\ i > 0 /\ i - 1 \in Nat
    OBVIOUS
  <2>2. AffectedTo[i] = AffectedTo[i - 1] + Affected(i)
    BY AffectedToIs
  <2>3. Num(f, i, kinds) = Num(f, i - 1, kinds) + (IF f[i] \in kinds THEN 1 ELSE 0)
    BY <2>1, NumStep
  <2>4. Num(f, i - 1, kinds) \in Nat
    BY <2>1, NumRange
  <2>5. Affected(i) = b + (IF f[i] \in kinds THEN 1 ELSE 0)
    OBVIOUS
  <2>6. AffectedTo[i - 1] = some(i - 1) + Num(f, i - 1, kinds)
    BY <1>3
  <2>7. some(i) = some(i - 1) + b
    BY <2>1
  <2>8. some(i - 1) \in Nat
    BY <2>1
  <2> HIDE DEF some
  <2>9. AffectedTo[i] = some(i) + Num(f, i, kinds)
    <3>1. CASE f[i] \in kinds
      BY <3>1, <2>2, <2>3, <2>4, <2>5, <2>6, <2>7, <2>8
    <3>2. CASE f[i] \notin kinds
      BY <3>2, <2>2, <2>3, <2>4, <2>5, <2>6, <2>7, <2>8
    <3> QED
      BY <3>1, <3>2
  <2> QED
    BY <2>9
<1>4. 0..N \subseteq T
  <2> HIDE DEF T, N
  <2> QED
    BY <1>1, <1>2, <1>3, UpTo
<1> QED
  BY <1>1, <1>4

\* which rows find their key
Again == [i \in 1..Len(list) |-> list[i].k \in DOMAIN After[i - 1]]

\* When no two rows have one key, a row meets what was there at first, and what it makes of
\* that is there at the end.
LEMMA Once ==
  ASSUME list \in Seq(Row), IsTable(before), NEW i \in 1..Len(list),
         \A j \in 1..Len(list) : list[j].k = list[i].k => j = i
  PROVE  /\ list[i].k \in DOMAIN After[i - 1] <=> list[i].k \in DOMAIN before
         /\ list[i].k \in DOMAIN before =>
              /\ After[i - 1][list[i].k] = before[list[i].k]
              /\ After[Len(list)][list[i].k] = Made(before[list[i].k], list[i])
         /\ list[i].k \notin DOMAIN before => After[Len(list)][list[i].k] = ItemOf(list[i])
<1> DEFINE N == Len(list)
           k == list[i].k
<1>1. N \in Nat /\ i - 1 \in 0..N /\ i \in 0..N /\ N \in i..N /\ 0 \in 0..N /\ i - 1 \in 0..(i - 1)
  OBVIOUS
<1>2. After[0] = before
  BY AfterIs
<1>3. /\ k \in DOMAIN After[i - 1] <=> k \in DOMAIN before
      /\ k \in DOMAIN before => After[i - 1][k] = before[k]
  <2>1. \A j \in (0 + 1)..(i - 1) : list[j].k # k
    BY <1>1
  <2> HIDE DEF k, N
  <2> QED
    BY <2>1, <1>1, <1>2, AfterSkips DEF N
<1>4. /\ k \in DOMAIN After[i]
      /\ k \notin DOMAIN After[i - 1] => After[i][k] = ItemOf(list[i])
      /\ k \in DOMAIN After[i - 1] => After[i][k] = Made(After[i - 1][k], list[i])
  BY AfterStep
<1>5. After[N][k] = After[i][k]
  <2>1. \A j \in (i + 1)..N : list[j].k # k
    BY <1>1
  <2> HIDE DEF k
  <2> QED
    BY <2>1, <1>1, <1>4, AfterSkips
<1> QED
  BY <1>3, <1>4, <1>5

\* What no row names stays.
LEMMA Unnamed ==
  ASSUME list \in Seq(Row), IsTable(before), NEW k \in DOMAIN before,
         \A j \in 1..Len(list) : list[j].k # k
  PROVE  After[Len(list)][k] = before[k]
<1>1. 0 \in 0..Len(list) /\ Len(list) \in 0..Len(list)
      /\ \A j \in (0 + 1)..Len(list) : list[j].k # k
  OBVIOUS
<1>2. After[0] = before
  BY AfterIs
<1> QED
  BY <1>1, <1>2, AfterSkips

-----------------------------------------------------------------------------
(* The invariant of a statement that nobody disturbs: what the table, the  *)
(* rows read and the counts are, on each path, by After                    *)

\* the counts of an ON DUPLICATE KEY UPDATE after n rows
Counted(n) ==
  /\ count.affected = AffectedTo[n]
  /\ count.changed = Num(Again, n, {TRUE})

Finished ==
  /\ db = After[Len(list)]
  /\ mode \in Update => Counted(Len(list))
  /\ mode \in {"insert", "ignore"} => count.affected = AffectedTo[Len(list)]

AtFirst ==
  /\ at = "start" => DOMAIN found = {}
  /\ at \in {"start", "transaction", "reads", "compute", "write"} => db = before
  /\ at = "transaction" /\ mode = "replace" => left = Kept

AloneA ==
  at = "items" =>
    \E i \in 1..(Len(list) + 1) :
      left = i..Len(list) /\ db = After[i - 1] /\ Counted(i - 1)

Inserts == {list[i].k : i \in {i \in Rows : out[i] = "new"}}

AloneB ==
  Path = "B" /\ at \in {"updates", "inserts"} =>
    /\ DOMAIN db = DOMAIN before \cup Inserts
    /\ \A i \in Rows :
         /\ out[i] \in {"nothing", "hit", "new"}
         /\ out[i] = "nothing" /\ list[i].k \in DOMAIN before => db[list[i].k] = before[list[i].k]
         /\ out[i] = "hit" => list[i].k \in DOMAIN before
         /\ out[i] = "new" => list[i].k \notin DOMAIN before
         /\ out[i] # "nothing" => db[list[i].k] = After[Len(list)][list[i].k]
    /\ \A k \in DOMAIN before : (\A i \in Rows : list[i].k # k) => db[k] = before[k]
    /\ at = "updates" =>
         \A f \in failed : f[2] = "cond_fail" => list[f[1]].k \notin DOMAIN before
    /\ at = "inserts" => \A i \in left : list[i].k \notin DOMAIN before

AloneIgnore ==
  Path = "ignore" /\ at = "inserts" =>
    /\ DOMAIN db = DOMAIN before \cup Inserts
    /\ \A k \in DOMAIN before : db[k] = before[k]
    /\ \A i \in Rows :
         /\ out[i] = "new" =>
              list[i].k \notin DOMAIN before /\ db[list[i].k] = ItemOf(list[i])
         /\ out[i] = "kept" => list[i].k \in DOMAIN before

AloneC ==
  /\ at = "reads" =>
       left \subseteq Wanted /\ found = [k \in (Wanted \ left) \cap DOMAIN before |-> before[k]]
  /\ at \in {"compute", "write", "write new"} =>
       found = [k \in Wanted \cap DOMAIN before |-> before[k]]
  /\ at \in {"write", "write new"} => Counted(Len(list))
  /\ at = "write new" => db = [k \in DOMAIN before |-> After[Len(list)][k]]

Parts == AtFirst /\ AloneA /\ AloneB /\ AloneIgnore /\ AloneC /\ (at = "ok" => Finished)

\* path C needs that the texts tell the keys of the rows apart
Told == Path = "C" => TextsDiffer

AloneInv == mode # "modify" /\ others = 0 /\ Complete /\ Told => Parts

-----------------------------------------------------------------------------
(* The steps of a statement that nobody disturbs *)

LEMMA SameTable ==
  ASSUME NEW t, NEW u, IsTable(t), IsTable(u), DOMAIN t = DOMAIN u, \A k \in DOMAIN t : t[k] = u[k]
  PROVE  t = u
BY DEF IsTable

\* The reference depends on the statement and on the table at first only.
LEMMA AloneSame ==
  ASSUME list' = list, before' = before, mode' = mode
  PROVE  /\ After' = After /\ AffectedTo' = AffectedTo /\ Again' = Again
         /\ Complete' = Complete /\ Wanted' = Wanted /\ Kept' = Kept
         /\ Rows' = Rows /\ Path' = Path /\ Len(list)' = Len(list) /\ Told' = Told
<1>1. After' = After
  BY DEF After, Reference, NewC
<1>2. Path' = Path /\ Rows' = Rows /\ Kept' = Kept
  BY PathSame
<1>3. AffectedTo' = AffectedTo
  BY <1>1, <1>2 DEF AffectedTo, Affected, NewC
<1>4. Told' = Told
  BY <1>2 DEF Told, TextsDiffer
<1> QED
  BY <1>1, <1>2, <1>3, <1>4 DEF Again, Complete, Wanted, Rows

LEMMA CountedSame ==
  ASSUME list' = list, before' = before, mode' = mode, count' = count
  PROVE  \A n : Counted(n)' <=> Counted(n)
<1>1. AffectedTo' = AffectedTo /\ Again' = Again
  BY AloneSame
<1> QED
  BY <1>1 DEF Counted, Num

\* It is enough to look at a statement that nobody has disturbed yet.
LEMMA Quiet ==
  ASSUME AloneInv, UNCHANGED <<before, mode, list, others>>,
         mode # "modify" /\ others = 0 /\ Complete /\ Told /\ Parts => Parts'
  PROVE  AloneInv'
<1>1. Complete' = Complete /\ Told' = Told
  BY AloneSame
<1> QED
  BY <1>1 DEF AloneInv

LEMMA StartAlone ==
  ASSUME IInv, mode # "modify", Parts, Start
  PROVE  Parts'
<1>1. /\ Base /\ IsTable(before) /\ list \in Seq(Row) /\ at = "start" /\ db = before
      /\ found = [k \in {} |-> before[k]] /\ failed = {} /\ \A i \in Rows : out[i] = "nothing"
  <2>1. IsTable(found) /\ DOMAIN found = {}
    BY DEF IInv, Base, Parts, AtFirst, Start
  <2>2. found = [k \in {} |-> before[k]]
    BY <2>1 DEF IsTable
  <2> QED
    BY <2>2 DEF IInv, Base, Parts, AtFirst, Start, Counts, Untouched
<1>2. /\ db' = db /\ before' = before /\ mode' = mode /\ list' = list /\ failed' = failed
      /\ found' = found /\ out' = out
  BY DEF Start
<1>3. /\ After' = After /\ AffectedTo' = AffectedTo /\ Again' = Again /\ Wanted' = Wanted
      /\ Kept' = Kept /\ Rows' = Rows /\ Path' = Path /\ Len(list)' = Len(list)
  BY <1>2, AloneSame
<1>4. /\ Len(list) \in Nat /\ Rows = 1..Len(list)
      /\ Path \in {"A", "B", "C", "insert", "ignore", "replace"}
      /\ Path \in {"A", "B", "C"} <=> mode \in Update
      /\ Path \notin {"A", "B", "C"} => Path = mode
  BY <1>1, <1>2, Same0
<1>5. /\ Path = "A" => at' = "items" /\ left' = Rows
      /\ Path = "B" => at' = "updates" /\ left' = Rows
      /\ Path = "C" => at' = "reads" /\ left' = Wanted
      /\ Path = "ignore" => at' = "inserts" /\ left' = Kept
      /\ Path = "replace" => at' = "transaction" /\ left' = Kept
      /\ Path = "insert" => at' = "transaction" /\ left' = Rows
  BY DEF Start
<1>6. AtFirst'
  BY <1>1, <1>2, <1>3, <1>4, <1>5 DEF AtFirst
<1>7. AloneA'
  <2>1. CASE Path = "A"
    <3>1. count' = [affected |-> 0, changed |-> 0]
      BY <1>4, <2>1 DEF Start, Zero, Update
    <3>2. After[0] = before /\ AffectedTo[0] = 0 /\ Num(Again, 0, {TRUE}) = 0
      BY <1>1, AfterIs, AffectedToIs, NumZero
    <3>3. Counted(0)'
      BY <1>3, <3>1, <3>2 DEF Counted, Num
    <3>4. left' = 1..Len(list) /\ db' = After[0]
      BY <1>1, <1>2, <1>4, <1>5, <2>1, <3>2
    <3>5. 1 \in 1..(Len(list) + 1) /\ 1 - 1 = 0
      BY <1>4
    <3> QED
      BY <1>3, <3>3, <3>4, <3>5 DEF AloneA
  <2> QED
    BY <1>4, <1>5, <2>1 DEF AloneA
<1>8. Inserts' = {}
  BY <1>1, <1>2, <1>3 DEF Inserts
<1>9. AloneB' /\ AloneIgnore'
  BY <1>1, <1>2, <1>3, <1>4, <1>5, <1>8 DEF AloneB, AloneIgnore
<1>10. AloneC'
  BY <1>1, <1>2, <1>3, <1>4, <1>5 DEF AloneC
<1>11. at' # "ok"
  BY <1>4, <1>5
<1> QED
  BY <1>6, <1>7, <1>9, <1>10, <1>11 DEF Parts

\* On path A the sum that DynamoDB adds is the value that MySQL sets.
LEMMA PlannedValue ==
  ASSUME Path = "A", mode \in Mode, list \in Seq(Row), NEW i \in Rows, NEW old \in Cell,
         old # Missing, ~(Increment /\ old = Null)
  PROVE  (IF ~Increment THEN NewC(old, list[i])
          ELSE list[i].c + (IF old = Missing THEN 0 ELSE old)) = NewC(old, list[i])
<1> DEFINE row == list[i]
<1>1. mode \in Update /\ Planned(row) /\ row \in Row
  BY PathIs, ListType
<1>2. CASE ~Increment
  BY <1>2
<1>3. CASE Increment
  <2>1. row.c \in RowC
    BY <1>1, ItemType
  <2> HIDE DEF row
  <2>2. \/ mode = "c = c + VALUES(c)" /\ row.c # Null
        \/ mode = "c = c + 1" /\ row.c = 1
    BY <1>1, <1>3 DEF Planned, Increment
  <2>3. row.c \in Nat
    <3>1. row.c # Null \/ row.c = 1
      BY <2>2
    <3>2. row.c # Null
      BY <3>1 DEF Null
    <3> QED
      BY <2>1, <3>2, ConstantsAssumption
  <2>4. old \in Nat
    BY <1>3 DEF Cell
  <2>5. NewC(old, row) = Plus(old, row.c)
    BY <2>2 DEF NewC
  <2>6. Plus(old, row.c) = row.c + old
    BY <2>3, <2>4 DEF Plus
  <2>7. old # Missing
    OBVIOUS
  <2> QED
    BY <1>3, <2>5, <2>6, <2>7 DEF row
<1> QED
  BY <1>2, <1>3

\* The item that the i-th row leaves makes the next table.
LEMMA AfterWith ==
  ASSUME list \in Seq(Row), IsTable(before), NEW i \in 1..Len(list), NEW item,
         list[i].k \in DOMAIN After[i - 1] => item = Made(After[i - 1][list[i].k], list[i]),
         list[i].k \notin DOMAIN After[i - 1] => item = ItemOf(list[i])
  PROVE  With(After[i - 1], list[i].k, item) = After[i]
<1> DEFINE t == After[i - 1]
           u == After[i]
           k == list[i].k
           w == With(t, k, item)
<1>1. /\ IsTable(t) /\ IsTable(u)
      /\ DOMAIN u = DOMAIN t \cup {k}
      /\ \A j \in DOMAIN t : j # k => u[j] = t[j]
      /\ u[k] = item
  BY AfterStep
<1>2. /\ DOMAIN w = DOMAIN t \cup {k}
      /\ w = [j \in DOMAIN w |-> w[j]]
      /\ \A j \in DOMAIN w : w[j] = IF j = k THEN item ELSE t[j]
  BY DEF With
<1> HIDE DEF t, u, k, w
<1>3. \A j \in DOMAIN u : w[j] = u[j]
  BY <1>1, <1>2
<1>4. u = [j \in DOMAIN u |-> u[j]]
  BY <1>1 DEF IsTable
<1>5. w = u
  BY <1>1, <1>2, <1>3, <1>4
<1> QED
  BY <1>5 DEF t, u, k, w

\* One row more is counted.
LEMMA CountedStep ==
  ASSUME list \in Seq(Row), NEW i \in 1..Len(list), Counted(i - 1),
         list' = list, before' = before, mode' = mode,
         count' = [affected |-> count.affected + Affected(i),
                   changed |-> count.changed + (IF Again[i] THEN 1 ELSE 0)]
  PROVE  Counted(i)'
<1>1. AffectedTo' = AffectedTo /\ Again' = Again
  BY AloneSame
<1>2. AffectedTo[i] = AffectedTo[i - 1] + Affected(i)
  BY AffectedToIs
<1>3. Num(Again, i, {TRUE}) = Num(Again, i - 1, {TRUE}) + (IF Again[i] \in {TRUE} THEN 1 ELSE 0)
  <2>1. i \in Nat /\ i > 0
    OBVIOUS
  <2> QED
    BY <2>1, NumStep
<1>4. Again[i] \in {TRUE} <=> Again[i]
  BY DEF Again
<1>5. count'.affected = AffectedTo[i]
  BY <1>2 DEF Counted
<1>6. count'.changed = Num(Again, i, {TRUE})
  BY <1>3, <1>4 DEF Counted
<1> QED
  BY <1>1, <1>5, <1>6 DEF Counted, Num

\* On path A a row affects 2 when it changes the value that it finds, else 1.
LEMMA AffectedByA ==
  ASSUME Path = "A", mode \in Update, NEW i \in Rows
  PROVE  Affected(i) =
           IF /\ list[i].k \in DOMAIN After[i - 1]
              /\ ~Same(After[i - 1][list[i].k].c, NewC(After[i - 1][list[i].k].c, list[i]))
           THEN 2 ELSE 1
BY DEF Affected

LEMMA UpdateItemAlone ==
  ASSUME IInv, Complete, Parts, NEW i \in Rows, UpdateItem(i)
  PROVE  Parts'
<1> DEFINE row == list[i]
           n == Len(list)
           t == After[i - 1]
           old == t[row.k]
<1>1. /\ at = "items" /\ i \in left /\ left' = left \ {i}
      /\ before' = before /\ mode' = mode /\ list' = list /\ found' = found
  BY UpdateItemCases
<1>2. Base /\ Path = "A" /\ mode \in Mode /\ IsTable(before) /\ list \in Seq(Row)
  BY <1>1 DEF IInv, Control, Base
<1>3. /\ After' = After /\ AffectedTo' = AffectedTo /\ Path' = Path /\ Len(list)' = n
      /\ n \in Nat /\ Rows = 1..n /\ i \in 1..n /\ mode \in Update /\ mode # "replace"
  <2>1. mode \in Update => mode # "replace"
    BY DEF Update
  <2> QED
    BY <1>1, <1>2, <2>1, AloneSame, Same0
<1>4. left = i..n /\ db = t /\ Counted(i - 1)
  <2>1. PICK j \in 1..(n + 1) : left = j..n /\ db = After[j - 1] /\ Counted(j - 1)
    BY <1>1 DEF Parts, AloneA
  <2>2. \A x \in left : i <= x
    BY DEF UpdateItem
  <2>3. j = i
    BY <1>1, <1>3, <2>1, <2>2
  <2> QED
    BY <2>1, <2>3
<1>5. left' = (i + 1)..n /\ (left' = {} <=> i = n)
  BY <1>1, <1>3, <1>4
<1>6. IsTable(t) /\ row \in Row
  BY <1>2, <1>3, AfterStep
<1>7. \/ at' = "error"
      \/ db' = After[i] /\ Counted(i)' /\ at' = IF left' = {} THEN "ok" ELSE "items"
  <2>1. CASE row.k \notin DOMAIN db /\ db' = With(db, row.k, ItemOf(row)) /\ Add(1, 0)
             /\ at' = IF left' = {} THEN "ok" ELSE at
    <3>1. db' = After[i]
      BY <2>1, <1>2, <1>3, <1>4, AfterWith
    <3>2. Affected(i) = 1 /\ ~Again[i]
      BY <2>1, <1>2, <1>3, <1>4, AffectedByA DEF Again
    <3>3. count' = [affected |-> count.affected + Affected(i),
                    changed |-> count.changed + (IF Again[i] THEN 1 ELSE 0)]
      BY <2>1, <3>2 DEF Add
    <3>4. Counted(i)'
      BY <1>1, <1>2, <1>3, <1>4, <3>3, CountedStep
    <3> QED
      BY <2>1, <1>1, <3>1, <3>4
  <2>2. CASE at' = "error"
    BY <2>2
  <2> DEFINE new == IF ~Increment THEN NewC(old.c, row)
                    ELSE row.c + (IF old.c = Missing THEN 0 ELSE old.c)
  <2>3. CASE /\ row.k \in DOMAIN db
             /\ ~(Increment /\ old.c = Null)
             /\ db' = With(db, row.k, [c |-> new, d |-> KeptD(old.d)])
             /\ CountA(row, old.c, new)
             /\ at' = IF left' = {} THEN "ok" ELSE at
    <3>1. old \in AnyItem /\ old.c \in Cell /\ old.c # Missing /\ old.d # Missing
      <4>1. i - 1 \in 0..n
        BY <1>3
      <4>2. row.k \in DOMAIN t
        BY <1>4, <2>3
      <4>3. old.c # Missing /\ old.d # Missing
        BY <4>1, <4>2, <1>2, <1>3, AfterComplete
      <4>4. old \in AnyItem
        BY <4>2, <1>6 DEF IsTable
      <4> QED
        BY <4>3, <4>4 DEF AnyItem
    <3>2. new = NewC(old.c, row)
      <4> HIDE DEF old, t
      <4> QED
        BY <1>2, <2>3, <3>1, PlannedValue
    <3>3. new \in Cell
      <4>1. new = NewC(old.c, row)
        BY <3>2
      <4> HIDE DEF old, new
      <4> QED
        BY <4>1, <1>3, <1>6, <3>1, NewCType
    <3>4. [c |-> new, d |-> KeptD(old.d)] = Made(old, row)
      <4>1. Made(old, row) = [old EXCEPT !.c = new]
        BY <1>3, <3>2 DEF Made
      <4>2. KeptD(old.d) = old.d
        BY <3>1 DEF KeptD
      <4>3. [old EXCEPT !.c = new] = [c |-> new, d |-> old.d]
        <5> HIDE DEF old, new
        <5> QED
          BY <3>1 DEF AnyItem
      <4> QED
        BY <4>1, <4>2, <4>3
    <3>5. db' = After[i]
      <4> DEFINE item == [c |-> new, d |-> KeptD(old.d)]
      <4>1. db' = With(t, row.k, item) /\ item = Made(old, row) /\ row.k \in DOMAIN t
        BY <2>3, <1>4, <3>4
      <4> HIDE DEF item
      <4> QED
        BY <4>1, <1>2, <1>3, AfterWith
    <3>6. (IF Increment THEN row.c # 0 ELSE ~Same(old.c, new)) <=> ~Same(old.c, new)
      <4> HIDE DEF old, t
      <4> QED
        BY <1>2, <2>3, <3>1, Incremented
    <3>7. Affected(i) = (IF ~Same(old.c, new) THEN 2 ELSE 1) /\ Again[i]
      BY <2>3, <1>2, <1>3, <1>4, <3>2, AffectedByA DEF Again
    <3>8. count' = [affected |-> count.affected + Affected(i),
                    changed |-> count.changed + (IF Again[i] THEN 1 ELSE 0)]
      BY <2>3, <3>6, <3>7 DEF CountA, Add
    <3>9. Counted(i)'
      BY <1>1, <1>2, <1>3, <1>4, <3>8, CountedStep
    <3> QED
      BY <2>3, <1>1, <3>5, <3>9
  <2> QED
    BY <2>1, <2>2, <2>3, <1>4, UpdateItemCases
<1>8. at' = "ok" => Finished'
  <2>1. at' = "ok" => db' = After[i] /\ Counted(i)' /\ i = n
    BY <1>5, <1>7
  <2>2. mode \notin {"insert", "ignore"}
    BY <1>3 DEF Update
  <2> QED
    BY <1>1, <1>3, <2>1, <2>2 DEF Finished
<1>9. AloneA'
  <2>1. at' = "items" => left' = (i + 1)..n /\ db' = After[(i + 1) - 1] /\ Counted((i + 1) - 1)'
    <3>1. (i + 1) - 1 = i
      BY <1>3
    <3> QED
      BY <1>5, <1>7, <3>1
  <2>2. i + 1 \in 1..(n + 1)
    BY <1>3
  <2> QED
    BY <1>3, <2>1, <2>2 DEF AloneA
<1>10. at' \in {"error", "ok", "items"}
  BY <1>7
<1>11. AtFirst' /\ AloneB' /\ AloneIgnore' /\ AloneC'
  BY <1>3, <1>2, <1>10 DEF AtFirst, AloneB, AloneIgnore, AloneC
<1> QED
  BY <1>8, <1>9, <1>11 DEF Parts

-----------------------------------------------------------------------------
(* Path B: the batches *)

\* The rows have different keys.
Apart == \A i, j \in Rows : list[i].k = list[j].k => i = j

LEMMA ApartOnB ==
  ASSUME Base, Path = "B"
  PROVE  Apart /\ mode = "c = 1" /\ mode \in Update
BY PathIs DEF Base, Apart, Update

\* Every row has been updated or inserted, as MySQL would, and counted.
DoneB ==
  /\ DOMAIN db = DOMAIN before \cup Inserts
  /\ \A i \in Rows :
       /\ out[i] \in {"hit", "new"}
       /\ out[i] = "hit" => list[i].k \in DOMAIN before
       /\ out[i] = "new" => list[i].k \notin DOMAIN before
       /\ db[list[i].k] = After[Len(list)][list[i].k]
  /\ \A k \in DOMAIN before : (\A i \in Rows : list[i].k # k) => db[k] = before[k]
  /\ count.changed = Num(out, Len(list), {"hit"})
  /\ count.affected = Num(out, Len(list), {"hit"}) + Len(list)

LEMMA FinishB == Base /\ Path = "B" /\ DoneB => Finished
<1> SUFFICES ASSUME Base, Path = "B", DoneB PROVE Finished
  OBVIOUS
<1> DEFINE n == Len(list)
           u == After[n]
<1>1. /\ IsTable(db) /\ IsTable(before) /\ list \in Seq(Row) /\ mode \in Update /\ Apart
      /\ n \in Nat /\ Rows = 1..n /\ n \in 0..n /\ mode \notin {"insert", "ignore"}
  <2>1. mode \in Update => mode \notin {"insert", "ignore"}
    BY DEF Update
  <2>2. IsTable(db) /\ IsTable(before) /\ list \in Seq(Row)
    BY DEF Base
  <2>3. mode \in Update /\ Apart
    BY ApartOnB
  <2>4. n \in Nat /\ Rows = 1..n
    BY <2>2, ListType
  <2>5. n \in 0..n
    BY <2>4
  <2> QED
    BY <2>1, <2>2, <2>3, <2>4, <2>5
<1>2. IsTable(u) /\ DOMAIN u = DOMAIN before \cup {list[i].k : i \in 1..n}
  BY <1>1, AfterIs, AfterKeys
<1>3. DOMAIN db = DOMAIN u
  <2>1. \A i \in Rows : list[i].k \in DOMAIN db
    BY DEF DoneB, Inserts
  <2>2. Inserts \subseteq {list[i].k : i \in 1..n}
    BY <1>1 DEF Inserts
  <2> QED
    BY <2>1, <2>2, <1>1, <1>2 DEF DoneB
<1>4. ASSUME NEW k \in DOMAIN db PROVE db[k] = u[k]
  <2>1. CASE \E i \in Rows : list[i].k = k
    BY <2>1 DEF DoneB
  <2>2. CASE \A i \in Rows : list[i].k # k
    <3>1. k \in DOMAIN before
      BY <2>2 DEF DoneB, Inserts
    <3>2. db[k] = before[k]
      BY <2>2, <3>1 DEF DoneB
    <3>3. u[k] = before[k]
      BY <2>2, <3>1, <1>1, Unnamed
    <3> QED
      BY <3>2, <3>3
  <2> QED
    BY <2>1, <2>2
<1>5. db = u
  <2> HIDE DEF u
  <2> QED
    BY <1>1, <1>2, <1>3, <1>4, SameTable
<1>6. ASSUME NEW i \in 1..n
      PROVE  /\ out[i] = "hit" <=> Again[i]
             /\ Affected(i) = 1 + (IF out[i] \in {"hit"} THEN 1 ELSE 0)
  <2>1. \A j \in 1..n : list[j].k = list[i].k => j = i
    BY <1>1 DEF Apart
  <2>2. list[i].k \in DOMAIN After[i - 1] <=> list[i].k \in DOMAIN before
    BY <2>1, <1>1, Once
  <2>3. out[i] = "hit" <=> list[i].k \in DOMAIN before
    BY <1>1 DEF DoneB
  <2>4. Affected(i) = IF list[i].k \notin DOMAIN After[i - 1] THEN 1 ELSE 2
    BY <1>1 DEF Affected
  <2>5. out[i] = "hit" <=> Again[i]
    BY <2>2, <2>3 DEF Again
  <2>6. Affected(i) = 1 + (IF out[i] = "hit" THEN 1 ELSE 0)
    BY <2>2, <2>3, <2>4
  <2> QED
    BY <2>5, <2>6
<1>7. count.changed = Num(Again, n, {TRUE})
  <2>1. \A i \in 1..n : out[i] \in {"hit"} <=> Again[i] \in {TRUE}
    BY <1>6 DEF Again
  <2>2. Num(out, n, {"hit"}) = Num(Again, n, {TRUE})
    BY <2>1 DEF Num
  <2> QED
    BY <2>2 DEF DoneB
<1>8. count.affected = AffectedTo[n]
  <2>1. AffectedTo[n] = n + Num(out, n, {"hit"})
    <3>1. 1 \in {0, 1} /\ 1 # 0
      OBVIOUS
    <3>2. \A i \in 1..n : Affected(i) = 1 + (IF out[i] \in {"hit"} THEN 1 ELSE 0)
      BY <1>6
    <3> QED
      BY <1>1, <3>1, <3>2, AffectedSum
  <2>2. Num(out, n, {"hit"}) \in Nat
    BY <1>1, NumRange
  <2> QED
    BY <1>1, <2>1, <2>2 DEF DoneB
<1> QED
  BY <1>1, <1>5, <1>7, <1>8 DEF Finished, Counted

LEMMA BatchUpdateAlone ==
  ASSUME IInv, Parts, NEW i \in Rows, BatchUpdate(i)
  PROVE  Parts'
<1> DEFINE row == list[i]
           k == row.k
           n == Len(list)
<1>1. /\ at = "updates" /\ at' = at /\ i \in left /\ left' = left \ {i}
      /\ before' = before /\ mode' = mode /\ list' = list
      /\ \/ /\ k \in DOMAIN db /\ db' = [db EXCEPT ![k].c = NewC(db[k].c, row)]
            /\ out' = [out EXCEPT ![i] = "hit"] /\ failed' = failed
         \/ /\ db' = db /\ out' = out
            /\ failed' = failed \cup {<<i, "cond_fail">>} /\ k \notin DOMAIN db
  BY DEF BatchUpdate
<1>2. /\ Base /\ Path = "B" /\ IsTable(db) /\ IsTable(before) /\ list \in Seq(Row)
      /\ out \in [1..n -> Outcome] /\ Apart /\ mode \in Update
  BY <1>1, ApartOnB DEF IInv, Control, Base
<1>3. /\ After' = After /\ Path' = Path /\ Rows' = Rows /\ Len(list)' = n
      /\ n \in Nat /\ Rows = 1..n /\ i \in 1..n
  BY <1>1, <1>2, AloneSame, Same0
<1>4. \A j \in Rows : out[j] \in {"nothing", "hit"}
  BY <1>1, <1>2 DEF IInv, Counts, CountsB
<1>5. out[i] = "nothing"
  BY <1>1, <1>2 DEF IInv, Counts, CountsB
<1>6. /\ Inserts = {} /\ Inserts' = {} /\ DOMAIN db = DOMAIN before /\ DOMAIN db' = DOMAIN db
  <2>1. \A j \in Rows : out[j] # "new" /\ out'[j] # "new"
    BY <1>1, <1>2, <1>3, <1>4
  <2>2. Inserts = {} /\ Inserts' = {}
    BY <1>1, <1>3, <2>1 DEF Inserts
  <2> QED
    BY <2>2, <1>1, <1>2 DEF Parts, AloneB
<1>7. /\ DOMAIN db' = DOMAIN before' \cup Inserts'
      /\ \A j \in Rows :
           /\ out'[j] \in {"nothing", "hit"}
           /\ out'[j] = "nothing" /\ list[j].k \in DOMAIN before => db'[list[j].k] = before[list[j].k]
           /\ out'[j] = "hit" => list[j].k \in DOMAIN before
           /\ out'[j] # "new"
           /\ out'[j] # "nothing" => db'[list[j].k] = After[n][list[j].k]
      /\ \A x \in DOMAIN before : (\A j \in Rows : list[j].k # x) => db'[x] = before[x]
      /\ \A f \in failed' : f[2] = "cond_fail" => list[f[1]].k \notin DOMAIN before
  <2>1. CASE /\ k \in DOMAIN db /\ db' = [db EXCEPT ![k].c = NewC(db[k].c, row)]
             /\ out' = [out EXCEPT ![i] = "hit"] /\ failed' = failed
    <3> DEFINE new == Made(before[k], row)
    <3>1. db[k] = before[k] /\ k \in DOMAIN before
      BY <1>1, <1>2, <1>5, <1>6, <2>1 DEF Parts, AloneB
    <3>2. new = [db[k] EXCEPT !.c = NewC(db[k].c, row)]
      BY <1>2, <3>1 DEF Made, Update
    <3>3. db' = [db EXCEPT ![k] = new]
      <4> DEFINE c == NewC(db[k].c, row)
      <4>1. db' = [db EXCEPT ![k].c = c] /\ new = [db[k] EXCEPT !.c = c]
        BY <2>1, <3>2
      <4> HIDE DEF c, new, k
      <4> QED
        BY <4>1
    <3>4. new = After[n][k]
      <4>1. \A j \in 1..n : list[j].k = list[i].k => j = i
        BY <1>2, <1>3 DEF Apart
      <4> QED
        BY <1>2, <1>3, <3>1, <4>1, Once
    <3> HIDE DEF new
    <3>5. \A x \in DOMAIN db : db'[x] = IF x = k THEN new ELSE db[x]
      BY <3>3
    <3>6. \A j \in Rows : out'[j] = IF j = i THEN "hit" ELSE out[j]
      BY <2>1, <1>2, <1>3
    <3>7. \A j \in Rows : list[j].k = k <=> j = i
      BY <1>2 DEF Apart
    <3>8. /\ \A j \in Rows :
               /\ out[j] = "nothing" /\ list[j].k \in DOMAIN before =>
                    db[list[j].k] = before[list[j].k]
               /\ out[j] = "hit" => list[j].k \in DOMAIN before
               /\ out[j] # "nothing" => db[list[j].k] = After[n][list[j].k]
          /\ \A x \in DOMAIN before : (\A j \in Rows : list[j].k # x) => db[x] = before[x]
          /\ \A f \in failed : f[2] = "cond_fail" => list[f[1]].k \notin DOMAIN before
      BY <1>1, <1>2 DEF Parts, AloneB
    <3>9. failed' = failed
      BY <2>1
    <3> HIDE DEF n
    <3>10. \A j \in Rows :
             /\ out'[j] \in {"nothing", "hit"}
             /\ out'[j] = "nothing" /\ list[j].k \in DOMAIN before => db'[list[j].k] = before[list[j].k]
             /\ out'[j] = "hit" => list[j].k \in DOMAIN before
             /\ out'[j] # "new"
             /\ out'[j] # "nothing" => db'[list[j].k] = After[n][list[j].k]
      <4> TAKE j \in Rows
      <4>1. CASE j = i
        BY <4>1, <3>1, <3>4, <3>5, <3>6, <1>6
      <4>2. CASE j # i
        <5>1. list[j].k # k /\ out'[j] = out[j]
          BY <4>2, <3>6, <3>7
        <5> HIDE DEF k
        <5> QED
          BY <5>1, <3>5, <3>8, <1>4, <1>6
      <4> QED
        BY <4>1, <4>2
    <3>11. \A x \in DOMAIN before : (\A j \in Rows : list[j].k # x) => db'[x] = before[x]
      BY <3>5, <3>8, <1>6
    <3> QED
      BY <3>8, <3>9, <3>10, <3>11, <1>1, <1>6
  <2>2. CASE /\ db' = db /\ out' = out
             /\ failed' = failed \cup {<<i, "cond_fail">>} /\ k \notin DOMAIN db
    <3>1. \A f \in failed' : f[2] = "cond_fail" => list[f[1]].k \notin DOMAIN before
      <4>1. \A f \in failed : f[2] = "cond_fail" => list[f[1]].k \notin DOMAIN before
        BY <1>1, <1>2 DEF Parts, AloneB
      <4> QED
        BY <2>2, <4>1, <1>6
    <3> QED
      BY <2>2, <3>1, <1>1, <1>2, <1>4, <1>6 DEF Parts, AloneB
  <2> QED
    BY <2>1, <2>2, <1>1
<1>8. AloneB'
  BY <1>1, <1>3, <1>7 DEF AloneB
<1>9. AtFirst' /\ AloneA' /\ AloneIgnore' /\ AloneC' /\ at' # "ok"
  BY <1>1 DEF AtFirst, AloneA, AloneIgnore, AloneC
<1> QED
  BY <1>8, <1>9 DEF Parts

\* A statement of a batch that is refused changes nothing, and no answer will be good.
LEMMA RefuseAlone ==
  ASSUME IInv, Parts, NEW i \in Rows, Refuse(i)
  PROVE  Parts'
<1>1. /\ at \in {"updates", "inserts"} /\ at' = at /\ left' \subseteq left
      /\ failed' = failed \cup {<<i, "refused">>} /\ db' = db /\ out' = out
      /\ before' = before /\ mode' = mode /\ list' = list
  BY DEF Refuse
<1>2. /\ After' = After /\ Path' = Path /\ Rows' = Rows /\ Len(list)' = Len(list)
  BY <1>1, AloneSame
<1>3. Inserts' = Inserts
  BY <1>1, <1>2 DEF Inserts
<1>4. "refused" # "cond_fail"
  OBVIOUS
<1>5. AloneB'
  <2>1. AloneB
    BY DEF Parts
  <2>2. Path = "B" /\ at = "updates" =>
          \A f \in failed' : f[2] = "cond_fail" => list[f[1]].k \notin DOMAIN before
    BY <2>1, <1>1, <1>4 DEF AloneB
  <2>3. Path = "B" /\ at = "inserts" => \A j \in left' : list[j].k \notin DOMAIN before
    BY <2>1, <1>1 DEF AloneB
  <2> QED
    BY <2>1, <2>2, <2>3, <1>1, <1>2, <1>3 DEF AloneB
<1>6. AloneIgnore'
  BY <1>1, <1>2, <1>3 DEF Parts, AloneIgnore, ItemOf
<1>7. AtFirst' /\ AloneA' /\ AloneC' /\ at' # "ok"
  BY <1>1 DEF AtFirst, AloneA, AloneC
<1> QED
  BY <1>5, <1>6, <1>7 DEF Parts

LEMMA UpdatedAlone ==
  ASSUME IInv, IInv', Parts, Updated
  PROVE  Parts'
<1> DEFINE n == Len(list)
           missing == {f[1] : f \in failed}
<1>1. /\ at = "updates" /\ left = {} /\ db' = db /\ out' = out
      /\ before' = before /\ mode' = mode /\ list' = list /\ failed' = {}
      /\ \/ at' = "error"
         \/ /\ \A f \in failed : f[2] = "cond_fail"
            /\ left' = missing /\ at' = IF missing = {} THEN "ok" ELSE "inserts"
  BY DEF Updated, End
<1>2. Base /\ Path = "B" /\ list \in Seq(Row)
  BY <1>1 DEF IInv, Control, Base
<1>3. /\ After' = After /\ Path' = Path /\ Rows' = Rows /\ Len(list)' = n
      /\ n \in Nat /\ Rows = 1..n
  BY <1>1, <1>2, AloneSame, Same0
<1>4. /\ \A j \in Rows : out[j] \in {"nothing", "hit"}
      /\ \A j \in Rows : out[j] = "nothing" => j \in missing
  <2>1. \A j \in Rows \ left : out[j] = "nothing" => \E f \in failed : f[1] = j
    BY <1>1, <1>2 DEF IInv, Counts, CountsB
  <2> QED
    BY <1>1, <1>2, <2>1 DEF IInv, Counts, CountsB
<1>5. /\ DOMAIN db = DOMAIN before \cup Inserts
      /\ \A i \in Rows :
           /\ out[i] \in {"nothing", "hit", "new"}
           /\ out[i] = "nothing" /\ list[i].k \in DOMAIN before => db[list[i].k] = before[list[i].k]
           /\ out[i] = "hit" => list[i].k \in DOMAIN before
           /\ out[i] = "new" => list[i].k \notin DOMAIN before
           /\ out[i] # "nothing" => db[list[i].k] = After[n][list[i].k]
      /\ \A k \in DOMAIN before : (\A i \in Rows : list[i].k # k) => db[k] = before[k]
      /\ \A f \in failed : f[2] = "cond_fail" => list[f[1]].k \notin DOMAIN before
  BY <1>1, <1>2 DEF Parts, AloneB
<1>6. Inserts' = Inserts
  BY <1>1, <1>3 DEF Inserts
<1>7. ASSUME at' = "ok" PROVE Finished'
  <2>1. \A j \in Rows : out[j] = "hit"
    BY <1>1, <1>4, <1>7
  <2>2. count'.changed = Num(out, n, {"hit"}) /\ count'.affected = Num(out, n, {"hit"}) + n
    <3>1. CountsB'
      BY DEF IInv, Counts
    <3> QED
      BY <3>1, <1>1, <1>2, <1>3, <1>7 DEF CountsB
  <2>3. DoneB'
    <3>1. count'.changed = Num(out', n, {"hit"}) /\ count'.affected = Num(out', n, {"hit"}) + n
      BY <1>1, <2>2
    <3>2. \A i \in Rows : /\ out'[i] \in {"hit", "new"} /\ list[i].k \in DOMAIN before
                          /\ out'[i] # "new" /\ db'[list[i].k] = After[n][list[i].k]
      BY <1>1, <1>5, <2>1
    <3>3. \A k \in DOMAIN before : (\A i \in Rows : list[i].k # k) => db'[k] = before[k]
      BY <1>1, <1>5
    <3>4. DOMAIN db' = DOMAIN before \cup Inserts'
      BY <1>1, <1>5, <1>6
    <3> QED
      BY <3>1, <3>2, <3>3, <3>4, <1>1, <1>3 DEF DoneB, Num
  <2>4. Base' /\ (Path = "B")'
    BY <1>2, <1>3 DEF IInv
  <2>5. (Base /\ Path = "B" /\ DoneB => Finished)'
    BY FinishB, PTL
  <2> QED
    BY <2>3, <2>4, <2>5
<1>8. AloneB'
  <2>1. at' = "inserts" => \A i \in left' : list[i].k \notin DOMAIN before
    BY <1>1, <1>5
  <2>2. at' # "updates"
    BY <1>1
  <2> QED
    BY <1>1, <1>3, <1>5, <1>6, <2>1, <2>2 DEF AloneB
<1>9. AtFirst' /\ AloneA' /\ AloneIgnore' /\ AloneC'
  BY <1>1, <1>2, <1>3 DEF AtFirst, AloneA, AloneIgnore, AloneC
<1> QED
  BY <1>7, <1>8, <1>9 DEF Parts

\* The rows that trackFirstSeen keeps for INSERT IGNORE are of different keys.
LEMMA KeptApart ==
  ASSUME mode = "ignore", list \in Seq(Row), NEW i \in Kept, NEW j \in Kept, list[i].k = list[j].k
  PROVE  i = j
<1>1. i \in 1..Len(list) /\ j \in 1..Len(list) /\ i <= j /\ j <= i
  BY ListType DEF Kept
<1> QED
  BY <1>1

LEMMA BatchInsertAlone ==
  ASSUME IInv, Parts, NEW i \in Rows, BatchInsert(i)
  PROVE  Parts'
<1> DEFINE row == list[i]
           k == row.k
           n == Len(list)
<1>1. /\ at = "inserts" /\ at' = at /\ i \in left /\ left' = left \ {i}
      /\ before' = before /\ mode' = mode /\ list' = list
      /\ \/ k \in DOMAIN db /\ out' = [out EXCEPT ![i] = "kept"] /\ db' = db
         \/ /\ k \notin DOMAIN db /\ db' = With(db, k, ItemOf(row))
            /\ out' = [out EXCEPT ![i] = "new"]
  BY DEF BatchInsert
<1>2. /\ Base /\ Path \in {"B", "ignore"} /\ IsTable(before) /\ list \in Seq(Row)
      /\ out \in [1..n -> Outcome] /\ (Path = "ignore" => mode = "ignore")
  <2>1. Base /\ Path \in {"B", "ignore"}
    BY <1>1 DEF IInv, Control
  <2> QED
    BY <2>1, PathIs DEF Base
<1>3. /\ After' = After /\ Path' = Path /\ Rows' = Rows /\ Len(list)' = n
      /\ n \in Nat /\ Rows = 1..n /\ i \in 1..n
  BY <1>1, <1>2, AloneSame, Same0
<1>4. DOMAIN db = DOMAIN before \cup Inserts
  BY <1>1, <1>2 DEF Parts, AloneB, AloneIgnore
<1>5. out[i] = "nothing"
  BY <1>1, <1>2 DEF IInv, Counts, CountsB, CountsIgnore, Known
<1>6. k \in DOMAIN db => k \in DOMAIN before
  <2> SUFFICES ASSUME k \in Inserts PROVE FALSE
    BY <1>4
  <2>1. PICK j \in Rows : out[j] = "new" /\ list[j].k = k
    BY DEF Inserts
  <2>2. j = i
    <3>1. CASE Path = "B"
      BY <3>1, <2>1, <1>2, ApartOnB DEF Apart
    <3>2. CASE Path = "ignore"
      <4>1. i \in Kept /\ j \in Kept
        BY <3>2, <1>1, <2>1 DEF IInv, Counts, CountsIgnore, Known
      <4> QED
        BY <4>1, <3>2, <2>1, <1>2, KeptApart
    <3> QED
      BY <3>1, <3>2, <1>2
  <2> QED
    BY <2>1, <2>2, <1>5
<1>7. CASE k \in DOMAIN db
  <2>1. k \in DOMAIN before /\ Path = "ignore" /\ out' = [out EXCEPT ![i] = "kept"] /\ db' = db
    BY <1>1, <1>2, <1>6, <1>7 DEF Parts, AloneB
  <2>2. \A j \in Rows : out'[j] = IF j = i THEN "kept" ELSE out[j]
    BY <2>1, <1>2, <1>3
  <2>3. Inserts' = Inserts
    BY <2>2, <1>1, <1>3, <1>5 DEF Inserts
  <2>4. AloneIgnore'
    <3>1. /\ \A x \in DOMAIN before : db[x] = before[x]
          /\ \A j \in Rows :
               /\ out[j] = "new" => list[j].k \notin DOMAIN before /\ db[list[j].k] = ItemOf(list[j])
               /\ out[j] = "kept" => list[j].k \in DOMAIN before
      BY <1>1, <2>1 DEF Parts, AloneIgnore
    <3>2. \A j \in Rows :
            /\ out'[j] = "new" => list[j].k \notin DOMAIN before /\ db'[list[j].k] = ItemOf(list[j])
            /\ out'[j] = "kept" => list[j].k \in DOMAIN before
      BY <3>1, <2>1, <2>2
    <3> QED
      BY <3>1, <3>2, <2>1, <2>3, <1>1, <1>3, <1>4 DEF AloneIgnore, ItemOf
  <2>5. AtFirst' /\ AloneA' /\ AloneB' /\ AloneC' /\ at' # "ok"
    BY <1>1, <1>3, <2>1 DEF AtFirst, AloneA, AloneB, AloneC
  <2> QED
    BY <2>4, <2>5 DEF Parts
<1>8. CASE k \notin DOMAIN db
  <2>1. db' = With(db, k, ItemOf(row)) /\ out' = [out EXCEPT ![i] = "new"]
    BY <1>1, <1>8
  <2>2. \A j \in Rows : out'[j] = IF j = i THEN "new" ELSE out[j]
    BY <2>1, <1>2, <1>3
  <2>3. Inserts' = Inserts \cup {k}
    <3>1. {j \in Rows : out'[j] = "new"} = {j \in Rows : out[j] = "new"} \cup {i}
      BY <2>2, <1>3
    <3> QED
      BY <3>1, <1>1, <1>3 DEF Inserts
  <2>4. /\ DOMAIN db' = DOMAIN before \cup Inserts'
        /\ \A x \in DOMAIN db : db'[x] = db[x]
        /\ db'[k] = ItemOf(row) /\ k \notin DOMAIN before
    BY <2>1, <2>3, <1>4, <1>8 DEF With
  <2>5. \A j \in Rows : j # i /\ out[j] # "nothing" => list[j].k \in DOMAIN db
    <3> TAKE j \in Rows
    <3> HAVE j # i /\ out[j] # "nothing"
    <3>1. out[j] = "new" => list[j].k \in Inserts
      BY DEF Inserts
    <3>2. CASE Path = "B"
      <4>1. out[j] \in {"nothing", "hit", "new"} /\ (out[j] = "hit" => list[j].k \in DOMAIN before)
        BY <3>2, <1>1 DEF Parts, AloneB
      <4> QED
        BY <3>1, <4>1, <1>4
    <3>3. CASE Path = "ignore"
      <4>1. out[j] \in {"nothing", "new", "kept"}
        BY <3>3 DEF IInv, Counts, CountsIgnore, Known
      <4>2. out[j] = "kept" => list[j].k \in DOMAIN before
        BY <3>3, <1>1 DEF Parts, AloneIgnore
      <4> QED
        BY <3>1, <4>1, <4>2, <1>4
    <3> QED
      BY <3>2, <3>3, <1>2
  <2>6. AloneIgnore'
    <3> SUFFICES ASSUME Path = "ignore" PROVE AloneIgnore'
      BY <1>3 DEF AloneIgnore
    <3>1. /\ \A x \in DOMAIN before : db[x] = before[x]
          /\ \A j \in Rows :
               /\ out[j] = "new" => list[j].k \notin DOMAIN before /\ db[list[j].k] = ItemOf(list[j])
               /\ out[j] = "kept" => list[j].k \in DOMAIN before
      BY <1>1 DEF Parts, AloneIgnore
    <3>2. \A j \in Rows :
            /\ out'[j] = "new" => list[j].k \notin DOMAIN before /\ db'[list[j].k] = ItemOf(list[j])
            /\ out'[j] = "kept" => list[j].k \in DOMAIN before
      BY <3>1, <2>2, <2>4, <2>5
    <3>3. \A x \in DOMAIN before : db'[x] = before[x]
      BY <3>1, <2>4, <1>4
    <3> QED
      BY <3>2, <3>3, <2>4, <1>1, <1>3 DEF AloneIgnore, ItemOf
  <2>7. AloneB'
    <3> SUFFICES ASSUME Path = "B" PROVE AloneB'
      BY <1>3 DEF AloneB
    <3>1. /\ \A j \in Rows :
               /\ out[j] \in {"nothing", "hit", "new"}
               /\ out[j] = "nothing" /\ list[j].k \in DOMAIN before =>
                    db[list[j].k] = before[list[j].k]
               /\ out[j] = "hit" => list[j].k \in DOMAIN before
               /\ out[j] = "new" => list[j].k \notin DOMAIN before
               /\ out[j] # "nothing" => db[list[j].k] = After[n][list[j].k]
          /\ \A x \in DOMAIN before : (\A j \in Rows : list[j].k # x) => db[x] = before[x]
          /\ \A j \in left : list[j].k \notin DOMAIN before
      BY <1>1 DEF Parts, AloneB
    <3>2. After[n][k] = ItemOf(row)
      <4>1. \A j \in 1..n : list[j].k = list[i].k => j = i
        BY <1>2, <1>3, ApartOnB DEF Apart
      <4> QED
        BY <4>1, <1>2, <1>3, <2>4, Once
    <3> HIDE DEF n
    <3>3. \A j \in Rows :
            /\ out'[j] \in {"nothing", "hit", "new"}
            /\ out'[j] = "nothing" /\ list[j].k \in DOMAIN before => db'[list[j].k] = before[list[j].k]
            /\ out'[j] = "hit" => list[j].k \in DOMAIN before
            /\ out'[j] = "new" => list[j].k \notin DOMAIN before
            /\ out'[j] # "nothing" => db'[list[j].k] = After[n][list[j].k]
      <4> TAKE j \in Rows
      <4>1. CASE j = i
        BY <4>1, <2>2, <2>4, <3>2
      <4>2. CASE j # i
        <5>1. list[j].k \in DOMAIN before => list[j].k \in DOMAIN db
          BY <1>4
        <5>2. out'[j] = out[j]
          BY <4>2, <2>2
        <5>3. out[j] # "nothing" => list[j].k \in DOMAIN db
          BY <4>2, <2>5
        <5> QED
          BY <5>1, <5>2, <5>3, <3>1, <2>4
      <4> QED
        BY <4>1, <4>2
    <3>4. \A x \in DOMAIN before : (\A j \in Rows : list[j].k # x) => db'[x] = before[x]
      BY <3>1, <2>4, <1>4
    <3> QED
      BY <3>1, <3>3, <3>4, <2>4, <1>1, <1>3 DEF AloneB
  <2>8. AtFirst' /\ AloneA' /\ AloneC' /\ at' # "ok"
    BY <1>1 DEF AtFirst, AloneA, AloneC
  <2> QED
    BY <2>6, <2>7, <2>8 DEF Parts
<1> QED
  BY <1>7, <1>8

-----------------------------------------------------------------------------
(* INSERT IGNORE *)

\* The first row and the last row of a key.
LEMMA FirstRow ==
  ASSUME list \in Seq(Row), NEW i \in 1..Len(list)
  PROVE  \E j \in 1..i : list[j].k = list[i].k
                         /\ \A x \in 1..Len(list) : list[x].k = list[i].k => j <= x
<1> DEFINE T == {j \in 1..Len(list) : list[j].k = list[i].k}
<1>1. T \in SUBSET Nat /\ i \in T
  OBVIOUS
<1>2. PICK j \in T : \A x \in T : j <= x
  <2> HIDE DEF T
  <2> QED
    BY <1>1, Least
<1>3. j \in 1..i
  BY <1>1, <1>2
<1> QED
  BY <1>2, <1>3

LEMMA LastRow ==
  ASSUME list \in Seq(Row), NEW i \in 1..Len(list)
  PROVE  \E j \in i..Len(list) : list[j].k = list[i].k
                                 /\ \A x \in 1..Len(list) : list[x].k = list[i].k => x <= j
<1> DEFINE n == Len(list)
           T == {y \in 0..n : n - y \in 1..n /\ list[n - y].k = list[i].k}
<1>1. n \in Nat /\ T \in SUBSET Nat
  OBVIOUS
<1>2. n - i \in T
  <2>1. n - i \in 0..n /\ n - (n - i) = i
    BY <1>1
  <2> QED
    BY <2>1
<1>3. PICK y \in T : \A x \in T : y <= x
  <2> HIDE DEF T
  <2> QED
    BY <1>1, <1>2, Least
<1>4. n - y \in 1..n /\ list[n - y].k = list[i].k
  BY <1>3
<1>5. ASSUME NEW x \in 1..n, list[x].k = list[i].k PROVE x <= n - y
  <2>1. n - x \in 0..n /\ n - (n - x) = x
    BY <1>1
  <2>2. n - x \in T
    BY <2>1, <1>5
  <2>3. y <= n - x /\ y \in Nat
    BY <2>2, <1>3, <1>1
  <2> QED
    BY <2>3, <1>1
<1>6. n - y \in i..n
  <2>1. i <= n - y
    BY <1>5
  <2> QED
    BY <2>1, <1>4, <1>1
<1> QED
  BY <1>4, <1>5, <1>6

\* Every kept row has been inserted or found its key there.
DoneIgnore ==
  /\ DOMAIN db = DOMAIN before \cup Inserts
  /\ \A k \in DOMAIN before : db[k] = before[k]
  /\ \A i \in Rows :
       /\ out[i] \in {"nothing", "new", "kept"}
       /\ out[i] # "nothing" <=> i \in Kept
       /\ out[i] = "new" => list[i].k \notin DOMAIN before /\ db[list[i].k] = ItemOf(list[i])
       /\ out[i] = "kept" => list[i].k \in DOMAIN before
  /\ count.affected = Num(out, Len(list), {"new"})

LEMMA FinishIgnore == Base /\ Path = "ignore" /\ DoneIgnore => Finished
<1> SUFFICES ASSUME Base, Path = "ignore", DoneIgnore PROVE Finished
  OBVIOUS
<1> DEFINE n == Len(list)
           u == After[n]
<1>1. /\ IsTable(db) /\ IsTable(before) /\ list \in Seq(Row) /\ mode = "ignore"
      /\ n \in Nat /\ Rows = 1..n /\ n \in 0..n /\ 0 \in 0..n /\ n \in 0..n
  <2>1. IsTable(db) /\ IsTable(before) /\ list \in Seq(Row) /\ mode = "ignore"
    BY PathIs DEF Base
  <2>2. n \in Nat /\ Rows = 1..n
    BY <2>1, ListType
  <2> QED
    BY <2>1, <2>2
<1>2. /\ IsTable(u) /\ DOMAIN u = DOMAIN before \cup {list[i].k : i \in 1..n}
      /\ After[0] = before
      /\ \A i \in 1..n : DOMAIN After[i - 1] = DOMAIN before \cup {list[j].k : j \in 1..(i - 1)}
  <2>1. \A i \in 1..n : i - 1 \in 0..n
    BY <1>1
  <2> QED
    BY <2>1, <1>1, AfterIs, AfterKeys
<1>3. ASSUME NEW i \in 1..n
      PROVE  list[i].k \in DOMAIN db /\ (i \in Kept \/ \E j \in 1..(i - 1) : list[j].k = list[i].k)
  <2>1. PICK j \in 1..i : /\ list[j].k = list[i].k
                          /\ \A x \in 1..n : list[x].k = list[i].k => j <= x
    BY <1>1, FirstRow
  <2>2. j \in Kept
    BY <2>1, <1>1 DEF Kept
  <2>3. list[j].k \in DOMAIN db
    BY <2>2, <1>1 DEF DoneIgnore, Inserts, Kept
  <2>4. j = i \/ j \in 1..(i - 1)
    OBVIOUS
  <2> QED
    BY <2>1, <2>2, <2>3, <2>4
<1>4. DOMAIN db = DOMAIN u
  <2>1. Inserts \subseteq {list[i].k : i \in 1..n}
    BY <1>1 DEF Inserts
  <2> QED
    BY <2>1, <1>2, <1>3 DEF DoneIgnore
<1>5. ASSUME NEW i \in 1..n, out[i] = "new" PROVE list[i].k \notin DOMAIN After[i - 1]
  <2>1. i \in Kept /\ list[i].k \notin DOMAIN before
    BY <1>1, <1>5 DEF DoneIgnore
  <2>2. \A j \in 1..(i - 1) : list[j].k # list[i].k
    BY <2>1, <1>1 DEF Kept
  <2> QED
    BY <2>1, <2>2, <1>2
<1>6. ASSUME NEW k \in DOMAIN db PROVE db[k] = u[k]
  <2>1. CASE k \in DOMAIN before
    <3>1. n \in 0..n /\ k \in DOMAIN After[0]
      BY <2>1, <1>1, <1>2
    <3>2. u[k] = After[0][k]
      BY <3>1, <1>1, AfterKeeps
    <3> QED
      BY <3>2, <2>1, <1>2 DEF DoneIgnore
  <2>2. CASE k \notin DOMAIN before
    <3>1. PICK j \in 1..n : out[j] = "new" /\ list[j].k = k
      BY <2>2, <1>1 DEF DoneIgnore, Inserts
    <3>2. db[k] = ItemOf(list[j])
      BY <3>1, <1>1 DEF DoneIgnore
    <3>3. k \in DOMAIN After[j] /\ After[j][k] = ItemOf(list[j])
      BY <3>1, <1>1, <1>5, AfterStep
    <3>4. j \in 0..n /\ n \in j..n
      BY <1>1
    <3>5. u[k] = After[j][k]
      BY <3>3, <3>4, <1>1, AfterKeeps
    <3> QED
      BY <3>2, <3>3, <3>5
  <2> QED
    BY <2>1, <2>2
<1>7. db = u
  <2> HIDE DEF u
  <2> QED
    BY <1>1, <1>2, <1>4, <1>6, SameTable
<1>8. ASSUME NEW i \in 1..n PROVE Affected(i) = 0 + (IF out[i] \in {"new"} THEN 1 ELSE 0)
  <2>1. mode \notin Update
    BY <1>1 DEF Update
  <2>2. Affected(i) = IF list[i].k \notin DOMAIN After[i - 1] THEN 1 ELSE 0
    BY <2>1 DEF Affected
  <2>3. list[i].k \notin DOMAIN After[i - 1] => out[i] = "new"
    <3> HAVE list[i].k \notin DOMAIN After[i - 1]
    <3>1. list[i].k \notin DOMAIN before /\ \A j \in 1..(i - 1) : list[j].k # list[i].k
      BY <1>2
    <3>2. i \in Kept
      BY <3>1, <1>3
    <3> QED
      BY <3>1, <3>2, <1>1 DEF DoneIgnore
  <2>4. Affected(i) = IF out[i] = "new" THEN 1 ELSE 0
    BY <2>2, <2>3, <1>5
  <2> QED
    BY <2>4
<1>9. count.affected = AffectedTo[n]
  <2>1. AffectedTo[n] = 0 + Num(out, n, {"new"})
    <3>1. 0 \in {0, 1}
      OBVIOUS
    <3> QED
      BY <1>1, <1>8, <3>1, AffectedSum
  <2>2. Num(out, n, {"new"}) \in Nat
    BY <1>1, NumRange
  <2> QED
    BY <2>1, <2>2 DEF DoneIgnore
<1>10. mode \notin Update
  BY <1>1 DEF Update
<1> QED
  BY <1>7, <1>9, <1>10 DEF Finished

LEMMA InsertedAlone ==
  ASSUME IInv, IInv', Parts, Inserted
  PROVE  Parts'
<1> DEFINE n == Len(list)
<1>1. /\ at = "inserts" /\ left = {} /\ db' = db /\ out' = out /\ failed' = failed
      /\ before' = before /\ mode' = mode /\ list' = list
      /\ at' \in {"ok", "error"}
      /\ at' = "ok" => failed = {} \/ (mode = "ignore" /\ Duplicates)
  BY DEF Inserted, End, Duplicates
<1>2. Base /\ Path \in {"B", "ignore"} /\ list \in Seq(Row)
  BY <1>1 DEF IInv, Control, Base
<1>3. /\ After' = After /\ Path' = Path /\ Rows' = Rows /\ Len(list)' = n /\ Kept' = Kept
      /\ n \in Nat /\ Rows = 1..n
  BY <1>1, <1>2, AloneSame, Same0
<1>4. Inserts' = Inserts
  BY <1>1, <1>3 DEF Inserts
<1>5. ASSUME at' = "ok" PROVE Finished'
  <2>1. CASE Path = "B"
    <3>1. mode # "ignore"
      BY <2>1, <1>2, ApartOnB
    <3>2. \A j \in Rows : out[j] \in {"hit", "new"}
      <4>1. failed = {}
        BY <3>1, <1>1, <1>5
      <4> QED
        BY <4>1, <2>1, <1>1 DEF IInv, Counts, CountsB
    <3>3. count'.changed = Num(out', n, {"hit"}) /\ count'.affected = Num(out', n, {"hit"}) + n
      <4>1. CountsB'
        BY DEF IInv, Counts
      <4> QED
        BY <4>1, <2>1, <1>1, <1>3, <1>5 DEF CountsB
    <3>4. /\ DOMAIN db = DOMAIN before \cup Inserts
          /\ \A i \in Rows :
               /\ out[i] = "hit" => list[i].k \in DOMAIN before
               /\ out[i] = "new" => list[i].k \notin DOMAIN before
               /\ out[i] # "nothing" => db[list[i].k] = After[n][list[i].k]
          /\ \A k \in DOMAIN before : (\A i \in Rows : list[i].k # k) => db[k] = before[k]
      BY <1>1, <2>1 DEF Parts, AloneB
    <3>5. DoneB'
      BY <3>2, <3>3, <3>4, <1>1, <1>3, <1>4 DEF DoneB, Num
    <3>6. Base' /\ (Path = "B")'
      BY <2>1, <1>3 DEF IInv
    <3>7. (Base /\ Path = "B" /\ DoneB => Finished)'
      BY FinishB, PTL
    <3> QED
      BY <3>5, <3>6, <3>7
  <2>2. CASE Path = "ignore"
    <3>1. \A i \in Rows :
            /\ out[i] \in {"nothing", "new", "kept"}
            /\ out[i] # "nothing" <=> i \in Kept
      <4>1. Duplicates
        BY <1>1, <1>5 DEF Duplicates
      <4>2. \A i \in Rows : /\ out[i] \in {"nothing", "new", "kept"}
                            /\ out[i] # "nothing" => i \in Kept
        BY <2>2, <1>1 DEF IInv, Counts, CountsIgnore, Known
      <4>3. \A i \in Kept : out[i] # "nothing"
        BY <4>1, <2>2, <1>1 DEF IInv, Counts, CountsIgnore, Known
      <4> QED
        BY <4>2, <4>3
    <3>2. count'.affected = Num(out', n, {"new"})
      <4>1. CountsIgnore'
        BY DEF IInv, Counts
      <4> QED
        BY <4>1, <2>2, <1>3, <1>5 DEF CountsIgnore, Known
    <3>3. /\ DOMAIN db = DOMAIN before \cup Inserts
          /\ \A k \in DOMAIN before : db[k] = before[k]
          /\ \A i \in Rows :
               /\ out[i] = "new" =>
                    list[i].k \notin DOMAIN before /\ db[list[i].k] = ItemOf(list[i])
               /\ out[i] = "kept" => list[i].k \in DOMAIN before
      BY <2>2, <1>1 DEF Parts, AloneIgnore
    <3>4. DoneIgnore'
      BY <3>1, <3>2, <3>3, <1>1, <1>3, <1>4 DEF DoneIgnore, Num, ItemOf
    <3>5. Base' /\ (Path = "ignore")'
      BY <2>2, <1>3 DEF IInv
    <3>6. (Base /\ Path = "ignore" /\ DoneIgnore => Finished)'
      BY FinishIgnore, PTL
    <3> QED
      BY <3>4, <3>5, <3>6
  <2> QED
    BY <2>1, <2>2, <1>2
<1>6. AtFirst' /\ AloneA' /\ AloneB' /\ AloneIgnore' /\ AloneC'
  BY <1>1 DEF AtFirst, AloneA, AloneB, AloneIgnore, AloneC
<1> QED
  BY <1>5, <1>6 DEF Parts

-----------------------------------------------------------------------------
(* The transactions of INSERT and REPLACE *)

LEMMA InsertTransactionAlone ==
  ASSUME IInv, Parts, InsertTransaction
  PROVE  Parts'
<1> DEFINE n == Len(list)
           u == After[n]
<1>1. /\ at = "transaction" /\ mode = "insert" /\ at' \in {"ok", "error"}
      /\ before' = before /\ mode' = mode /\ list' = list
  BY DEF InsertTransaction, End
<1>2. Base /\ IsTable(before) /\ list \in Seq(Row) /\ db = before
  BY <1>1 DEF IInv, Base, Parts, AtFirst
<1>3. /\ After' = After /\ AffectedTo' = AffectedTo /\ Len(list)' = n
      /\ n \in Nat /\ Rows = 1..n /\ n \in 0..n
  <2>1. n \in Nat => n \in 0..n
    OBVIOUS
  <2> QED
    BY <1>1, <1>2, <2>1, AloneSame, Same0
<1>4. mode \notin Update
  BY <1>1 DEF Update
<1>5. ASSUME at' = "ok" PROVE Finished'
  <2>1. /\ \A i \in Rows : list[i].k \notin DOMAIN db
        /\ Apart
        /\ db' = [k \in DOMAIN db \cup {list[i].k : i \in Rows} |->
                    IF k \in DOMAIN db THEN db[k]
                    ELSE ItemOf(list[CHOOSE i \in Rows : list[i].k = k])]
        /\ Add(n, 0)
    BY <1>5 DEF InsertTransaction, End, Apart
  <2>2. IsTable(u) /\ DOMAIN u = DOMAIN before \cup {list[i].k : i \in 1..n}
    BY <1>2, <1>3, AfterIs, AfterKeys
  <2>3. DOMAIN db' = DOMAIN u
    BY <2>1, <2>2, <1>2, <1>3
  <2>4. ASSUME NEW k \in DOMAIN u PROVE db'[k] = u[k]
    <3>1. CASE k \in DOMAIN before
      <4>1. \A i \in 1..n : list[i].k # k
        BY <3>1, <2>1, <1>2, <1>3
      <4>2. u[k] = before[k]
        BY <3>1, <4>1, <1>2, Unnamed
      <4> QED
        BY <3>1, <4>2, <2>1, <1>2
    <3>2. CASE k \notin DOMAIN before
      <4> DEFINE i == CHOOSE i \in Rows : list[i].k = k
      <4>1. i \in 1..n /\ list[i].k = k
        BY <3>2, <2>2, <1>3
      <4>2. db'[k] = ItemOf(list[i])
        BY <3>2, <2>1, <2>3, <1>2
      <4> HIDE DEF i
      <4>3. \A j \in 1..n : list[j].k = list[i].k => j = i
        BY <4>1, <2>1, <1>3 DEF Apart
      <4>4. u[k] = ItemOf(list[i])
        BY <4>1, <4>3, <3>2, <1>2, Once
      <4> QED
        BY <4>2, <4>4
    <3> QED
      BY <3>1, <3>2
  <2>5. db' = u
    <3>1. db' = [k \in DOMAIN db' |-> db'[k]]
      BY <2>1
    <3>2. u = [k \in DOMAIN u |-> u[k]]
      BY <2>2 DEF IsTable
    <3> HIDE DEF u
    <3> QED
      BY <3>1, <3>2, <2>3, <2>4
  <2>6. count'.affected = AffectedTo[n]
    <3>1. ASSUME NEW i \in 1..n PROVE Affected(i) = 1 + (IF out[i] \in {} THEN 1 ELSE 0)
      <4>1. \A j \in 1..n : list[j].k = list[i].k => j = i
        BY <2>1, <1>3 DEF Apart
      <4>2. list[i].k \notin DOMAIN before
        BY <2>1, <1>2, <1>3
      <4>3. list[i].k \notin DOMAIN After[i - 1]
        BY <4>1, <4>2, <1>2, Once
      <4> QED
        BY <4>3 DEF Affected
    <3>2. AffectedTo[n] = n + Num(out, n, {})
      <4>1. 1 \in {0, 1} /\ 1 # 0
        OBVIOUS
      <4> QED
        BY <1>2, <3>1, <4>1, AffectedSum
    <3>3. Num(out, n, {}) = 0
      <4>1. \A i \in 1..n : out[i] \notin {}
        OBVIOUS
      <4> QED
        BY <4>1, <1>3, NumNone
    <3>4. count = [affected |-> 0, changed |-> 0]
      <4>1. Path = "insert"
        BY <1>1, <1>4 DEF Path
      <4> QED
        BY <4>1, <1>1 DEF IInv, Counts, CountsInsert, Zero
    <3> QED
      BY <3>2, <3>3, <3>4, <2>1, <1>3 DEF Add
  <2> QED
    BY <1>1, <1>3, <1>4, <2>5, <2>6 DEF Finished
<1>6. AtFirst' /\ AloneA' /\ AloneB' /\ AloneIgnore' /\ AloneC'
  BY <1>1 DEF AtFirst, AloneA, AloneB, AloneIgnore, AloneC
<1> QED
  BY <1>5, <1>6 DEF Parts

LEMMA ReplaceTransactionAlone ==
  ASSUME IInv, Parts, ReplaceTransaction
  PROVE  Parts'
<1> DEFINE n == Len(list)
           u == After[n]
<1>1. /\ at = "transaction" /\ mode = "replace" /\ at' = "ok"
      /\ before' = before /\ mode' = mode /\ list' = list
      /\ db' = [k \in DOMAIN db \cup {list[i].k : i \in left} |->
                  IF \E i \in left : list[i].k = k
                  THEN ItemOf(list[CHOOSE i \in left : list[i].k = k]) ELSE db[k]]
  BY DEF ReplaceTransaction, End
<1>2. Base /\ IsTable(before) /\ list \in Seq(Row) /\ db = before /\ left = Kept
  BY <1>1 DEF IInv, Base, Parts, AtFirst
<1>3. /\ After' = After /\ AffectedTo' = AffectedTo /\ Len(list)' = n
      /\ n \in Nat /\ Rows = 1..n /\ n \in 0..n
  <2>1. n \in Nat => n \in 0..n
    OBVIOUS
  <2> QED
    BY <1>1, <1>2, <2>1, AloneSame, Same0
<1>4. mode \notin Update /\ mode \notin {"insert", "ignore"}
  BY <1>1 DEF Update
<1>5. IsTable(u) /\ DOMAIN u = DOMAIN before \cup {list[i].k : i \in 1..n}
  BY <1>2, <1>3, AfterIs, AfterKeys
<1>6. ASSUME NEW i \in 1..n PROVE \E j \in Kept : list[j].k = list[i].k
  <2>1. PICK j \in i..n : /\ list[j].k = list[i].k
                          /\ \A x \in 1..n : list[x].k = list[i].k => x <= j
    BY <1>2, LastRow
  <2>2. j \in Kept
    <3>1. j \in Rows
      BY <1>3
    <3>2. \A x \in Rows : list[x].k = list[j].k => j >= x
      BY <2>1, <1>3
    <3> QED
      BY <3>1, <3>2, <1>1 DEF Kept
  <2> QED
    BY <2>1, <2>2
<1>7. ASSUME NEW i \in Kept PROVE i \in 1..n /\ u[list[i].k] = ItemOf(list[i])
  <2>1. i \in 1..n /\ i \in 0..n /\ n \in i..n
    BY <1>3 DEF Kept
  <2>2. \A j \in (i + 1)..n : list[j].k # list[i].k
    <3>1. \A j \in 1..n : list[j].k = list[i].k => i >= j
      BY <1>1, <1>3 DEF Kept
    <3>2. \A j \in (i + 1)..n : j \in 1..n /\ ~(i >= j)
      BY <2>1
    <3> QED
      BY <3>1, <3>2
  <2>3. list[i].k \in DOMAIN After[i] /\ After[i][list[i].k] = ItemOf(list[i])
    <3>1. \A item : Made(item, list[i]) = ItemOf(list[i])
      BY <1>1, <1>4 DEF Made
    <3> QED
      BY <3>1, <2>1, <1>2, AfterStep
  <2>4. u[list[i].k] = After[i][list[i].k]
    BY <2>1, <2>2, <2>3, <1>2, AfterSkips
  <2> QED
    BY <2>1, <2>3, <2>4
<1>8. DOMAIN db' = DOMAIN u
  <2>1. DOMAIN db' = DOMAIN before \cup {list[i].k : i \in Kept}
    BY <1>1, <1>2
  <2>2. {list[i].k : i \in Kept} = {list[i].k : i \in 1..n}
    BY <1>6, <1>7
  <2> QED
    BY <2>1, <2>2, <1>5
<1>9. ASSUME NEW k \in DOMAIN u PROVE db'[k] = u[k]
  <2>1. CASE \E i \in Kept : list[i].k = k
    <3> DEFINE i == CHOOSE i \in Kept : list[i].k = k
    <3>1. i \in Kept /\ list[i].k = k
      BY <2>1
    <3>2. db'[k] = ItemOf(list[i])
      BY <2>1, <1>1, <1>2, <1>8
    <3> HIDE DEF i
    <3> QED
      BY <3>1, <3>2, <1>7
  <2>2. CASE \A i \in Kept : list[i].k # k
    <3>1. \A i \in 1..n : list[i].k # k
      BY <2>2, <1>6
    <3>2. k \in DOMAIN before /\ db'[k] = before[k]
      BY <2>2, <3>1, <1>1, <1>2, <1>5, <1>8
    <3>3. u[k] = before[k]
      BY <3>1, <3>2, <1>2, Unnamed
    <3> QED
      BY <3>2, <3>3
  <2> QED
    BY <2>1, <2>2
<1>10. db' = u
  <2>1. db' = [k \in DOMAIN db' |-> db'[k]]
    BY <1>1
  <2>2. u = [k \in DOMAIN u |-> u[k]]
    BY <1>5 DEF IsTable
  <2> HIDE DEF u
  <2> QED
    BY <2>1, <2>2, <1>8, <1>9
<1>11. Finished'
  BY <1>1, <1>3, <1>4, <1>10 DEF Finished
<1>12. AtFirst' /\ AloneA' /\ AloneB' /\ AloneIgnore' /\ AloneC'
  BY <1>1 DEF AtFirst, AloneA, AloneB, AloneIgnore, AloneC
<1> QED
  BY <1>11, <1>12 DEF Parts

-----------------------------------------------------------------------------
(* Path C: what the loop over the rows knows is what MySQL would have made *)

LEMMA WantedAll ==
  ASSUME TextsDiffer, list \in Seq(Row)
  PROVE  /\ Wanted = {list[i].k : i \in 1..Len(list)} /\ Wanted \subseteq Key
         /\ \A j, k \in Wanted : KeyText[j] = KeyText[k] => j = k
<1>1. Rows = 1..Len(list) /\ \A i \in Rows : list[i].k \in Key
  BY ListType, ItemType
<1>2. \A i, j \in Rows : KeyText[list[j].k] = KeyText[list[i].k] <=> list[j].k = list[i].k
  BY <1>1 DEF TextsDiffer
<1>3. ASSUME NEW i \in 1..Len(list) PROVE list[i].k \in Wanted
  <2>1. PICK j \in i..Len(list) : /\ list[j].k = list[i].k
                                  /\ \A x \in 1..Len(list) : list[x].k = list[i].k => x <= j
    BY LastRow
  <2>2. j \in Rows
    BY <1>1
  <2>3. \A x \in Rows : KeyText[list[x].k] = KeyText[list[j].k] => x <= j
    BY <2>1, <2>2, <1>1, <1>2
  <2> QED
    BY <2>1, <2>2, <2>3 DEF Wanted
<1>4. \A k \in Wanted : \E i \in 1..Len(list) : k = list[i].k
  BY <1>1 DEF Wanted
<1>5. \A j, k \in Wanted : KeyText[j] = KeyText[k] => j = k
  <2> TAKE j, k \in Wanted
  <2>1. PICK x, y \in Rows : j = list[x].k /\ k = list[y].k
    BY <1>1, <1>4
  <2> QED
    BY <2>1, <1>2
<1> QED
  BY <1>1, <1>3, <1>4, <1>5

\* The entry of a key says what is under it: whether it was there, and whether it changed.
EntryIs(e, k, item) ==
  /\ e.k = k /\ e.cur = item
  /\ e.new <=> k \notin DOMAIN before
  /\ ~e.new => item.d = before[k].d /\ (e.changed \/ item = before[k])

StateIs(n) ==
  /\ DOMAIN StateAfter[n] = {KeyText[k] : k \in Wanted \cap DOMAIN After[n]}
  /\ \A k \in Wanted \cap DOMAIN After[n] : EntryIs(StateAfter[n][KeyText[k]], k, After[n][k])

HasRead == found = [k \in Wanted \cap DOMAIN before |-> before[k]]

LEMMA StateAtFirst ==
  ASSUME TextsDiffer, list \in Seq(Row), IsTable(before), IsTable(found), mode \in Update, HasRead
  PROVE  StateIs(0)
<1>1. StateAfter[0] = ReadState /\ After[0] = before
  BY StateAfterIs, AfterIs
<1>2. DOMAIN found = Wanted \cap DOMAIN before /\ \A k \in DOMAIN found : found[k] = before[k]
  BY DEF HasRead
<1>3. DOMAIN found \subseteq Key
  BY DEF IsTable
<1> DEFINE last(t) == CHOOSE k \in DOMAIN found : KeyText[k] = t
<1>4. ReadState = [t \in {KeyText[k] : k \in DOMAIN found} |->
                     Entry(last(t), found[last(t)], FALSE)]
  BY DEF ReadState
<1>5. ASSUME NEW k \in DOMAIN found PROVE last(KeyText[k]) = k
  <2>1. KeyText[last(KeyText[k])] = KeyText[k] /\ last(KeyText[k]) \in DOMAIN found
    OBVIOUS
  <2>2. \A j \in Wanted : KeyText[j] = KeyText[k] => j = k
    BY <1>2, WantedAll
  <2> HIDE DEF last
  <2> QED
    BY <2>1, <2>2, <1>2
<1> HIDE DEF last
<1>6. ASSUME NEW k \in DOMAIN found PROVE ReadState[KeyText[k]] = Entry(k, before[k], FALSE)
  BY <1>2, <1>4, <1>5
<1>7. ASSUME NEW k \in DOMAIN found PROVE EntryIs(ReadState[KeyText[k]], k, before[k])
  <2> DEFINE e == Entry(k, before[k], FALSE)
  <2>1. e.k = k /\ e.cur = before[k] /\ e.new = FALSE /\ k \in DOMAIN before
    BY <1>2 DEF Entry
  <2> HIDE DEF e
  <2>2. EntryIs(e, k, before[k])
    <3>1. k \in DOMAIN before /\ (e.new <=> k \notin DOMAIN before)
      BY <2>1
    <3>2. ~e.new => before[k].d = before[k].d /\ (e.changed \/ before[k] = before[k])
      OBVIOUS
    <3> QED
      BY <2>1, <3>1, <3>2 DEF EntryIs
  <2> QED
    BY <2>2, <1>6 DEF e
<1>8. DOMAIN ReadState = {KeyText[k] : k \in DOMAIN found}
  BY <1>4
<1> QED
  BY <1>1, <1>2, <1>7, <1>8 DEF StateIs

\* A row that finds the entry of its key.
LEMMA EntryHit ==
  ASSUME mode \in Update, NEW row \in Row, NEW e \in EntryOf, NEW k, NEW item \in AnyItem,
         EntryIs(e, k, item), item.c # Missing
  PROVE  EntryIs([e EXCEPT !.cur.c = NewC(e.cur.c, row),
                           !.changed = @ \/ ~Same(e.cur.c, NewC(e.cur.c, row))],
                 k, Made(item, row))
<1> DEFINE c == NewC(item.c, row)
           b == e.changed \/ ~Same(item.c, c)
           made == [item EXCEPT !.c = c]
           f == [e EXCEPT !.cur = made, !.changed = b]
<1>1. e.cur = item /\ item.c \in Cell
  BY DEF EntryIs, AnyItem
<1>2. c \in Cell /\ c # Missing
  BY <1>1, NewCType
<1>3. Made(item, row) = made
  BY DEF Made, Update
<1>4. made \in AnyItem /\ made.c = c /\ made.d = item.d
  <2> HIDE DEF c
  <2> QED
    BY <1>2, SetColumn
<1>5. b \in BOOLEAN
  BY DEF EntryOf
<1>6. [e EXCEPT !.cur.c = NewC(e.cur.c, row),
                !.changed = @ \/ ~Same(e.cur.c, NewC(e.cur.c, row))] = f
  BY <1>1 DEF EntryOf
<1>7. ~b => made = item
  <2> HAVE ~b
  <2>1. Same(item.c, c)
    OBVIOUS
  <2>2. item.c = c
    BY <2>1, <1>2 DEF Same
  <2> HIDE DEF c
  <2> QED
    BY <2>2 DEF AnyItem
<1> HIDE DEF c, b, made
<1>8. f.k = e.k /\ f.cur = made /\ f.new = e.new /\ f.changed = b
  BY <1>4, <1>5 DEF EntryOf
<1> HIDE DEF f
<1>9. ~b => ~e.changed
  BY DEF b
<1>10. EntryIs(f, k, made)
  BY <1>4, <1>7, <1>8, <1>9 DEF EntryIs
<1> QED
  BY <1>3, <1>6, <1>10

LEMMA StateNext ==
  ASSUME TextsDiffer, list \in Seq(Row), IsTable(before), IsTable(found), mode \in Update, Complete,
         NEW i \in 1..Len(list), StateIs(i - 1)
  PROVE  StateIs(i)
<1> DEFINE s == StateAfter[i - 1]
           r == StateAfter[i]
           t == After[i - 1]
           u == After[i]
           row == list[i]
           k == row.k
           text == KeyText[k]
<1>1. i - 1 \in 0..Len(list) /\ i \in 0..Len(list)
  OBVIOUS
<1>2. /\ row \in Row /\ k \in Key /\ IsTable(t) /\ IsTable(u)
      /\ DOMAIN u = DOMAIN t \cup {k}
      /\ \A j \in DOMAIN t : j # k => u[j] = t[j]
      /\ k \notin DOMAIN t => u[k] = ItemOf(row)
      /\ k \in DOMAIN t => u[k] = Made(t[k], row)
  BY AfterStep, ItemType
<1>3. r = Apply(s, row) /\ s \in EntryMap
  BY <1>1, StateAfterIs
<1>4. k \in Wanted /\ Wanted \subseteq Key
  BY WantedAll
<1>5. DOMAIN before \subseteq DOMAIN t
  BY <1>1, AfterKeys
<1>6. /\ DOMAIN s = {KeyText[j] : j \in Wanted \cap DOMAIN t}
      /\ \A j \in Wanted \cap DOMAIN t : EntryIs(s[KeyText[j]], j, t[j])
  BY DEF StateIs
<1>7. \A j \in Wanted : KeyText[j] = text <=> j = k
  <2>1. \A j \in Wanted : KeyText[j] = KeyText[k] => j = k
    BY <1>4, WantedAll
  <2> HIDE DEF k
  <2> QED
    BY <2>1
<1>8. text \in DOMAIN s <=> k \in DOMAIN t
  BY <1>4, <1>6, <1>7
<1>9. k \in DOMAIN t => t[k].c # Missing /\ t[k] \in AnyItem
  BY <1>1, <1>2, AfterComplete DEF IsTable
<1>10. CASE k \notin DOMAIN t
  <2> DEFINE e == Entry(k, ItemOf(row), TRUE)
  <2>1. r = With(s, text, e)
    BY <1>3, <1>8, <1>10 DEF Apply
  <2>2. EntryIs(e, k, u[k])
    BY <1>2, <1>5, <1>10 DEF Entry, EntryIs
  <2> HIDE DEF e, r, s, t, u, k, text, row
  <2>3. /\ DOMAIN r = DOMAIN s \cup {text} /\ r[text] = e
        /\ \A x \in DOMAIN s : x # text => r[x] = s[x]
    BY <2>1 DEF With
  <2>4. DOMAIN r = {KeyText[j] : j \in Wanted \cap DOMAIN u}
    <3>1. Wanted \cap DOMAIN u = (Wanted \cap DOMAIN t) \cup {k}
      BY <1>2, <1>4
    <3>2. text = KeyText[k]
      BY DEF text
    <3> QED
      BY <3>1, <3>2, <2>3, <1>6
  <2>5. ASSUME NEW j \in Wanted \cap DOMAIN u PROVE EntryIs(r[KeyText[j]], j, u[j])
    <3>1. CASE j = k
      BY <3>1, <2>2, <2>3, <1>7
    <3>2. CASE j # k
      <4>1. j \in Wanted \cap DOMAIN t /\ u[j] = t[j] /\ KeyText[j] # text /\ KeyText[j] \in DOMAIN s
        BY <3>2, <1>2, <1>6, <1>7
      <4> QED
        BY <4>1, <2>3, <1>6
    <3> QED
      BY <3>1, <3>2
  <2> QED
    BY <2>4, <2>5 DEF StateIs, r, u
<1>11. CASE k \in DOMAIN t
  <2> DEFINE e == s[text]
             f == [e EXCEPT !.cur.c = NewC(e.cur.c, row),
                            !.changed = @ \/ ~Same(e.cur.c, NewC(e.cur.c, row))]
  <2>1. text \in DOMAIN s /\ e \in EntryOf
    BY <1>3, <1>8, <1>11, EntryMapIs
  <2>2. r = [s EXCEPT ![text] = f]
    <3>1. r = [s EXCEPT ![text].cur.c = NewC(s[text].cur.c, row),
                        ![text].changed = @ \/ ~Same(s[text].cur.c, NewC(s[text].cur.c, row))]
      BY <1>3, <2>1 DEF Apply
    <3> DEFINE c == NewC(s[text].cur.c, row)
               b == ~Same(s[text].cur.c, c)
    <3>2. r = [s EXCEPT ![text].cur.c = c, ![text].changed = @ \/ b]
      BY <3>1
    <3>3. f = [s[text] EXCEPT !.cur.c = c, !.changed = @ \/ b]
      OBVIOUS
    <3>4. s = [x \in DOMAIN s |-> s[x]]
      BY <1>3, EntryMapIs
    <3> HIDE DEF c, b, s, text, r, f
    <3> QED
      BY <3>2, <3>3, <3>4, <2>1
  <2>3. EntryIs(f, k, u[k])
    <3>1. EntryIs(e, k, t[k])
      BY <1>4, <1>6, <1>11
    <3>2. t[k] \in AnyItem /\ t[k].c # Missing
      BY <1>9, <1>11
    <3>3. EntryIs(f, k, Made(t[k], row))
      <4> DEFINE item == t[k]
      <4> HIDE DEF item, e, k, row, t
      <4> QED
        BY <1>2, <2>1, <3>1, <3>2, EntryHit DEF item
    <3> QED
      BY <3>3, <1>2, <1>11
  <2> HIDE DEF e, f, r, s, t, u, k, text, row
  <2>4. DOMAIN r = DOMAIN s /\ r[text] = f /\ \A x \in DOMAIN s : x # text => r[x] = s[x]
    BY <2>1, <2>2
  <2>5. DOMAIN u = DOMAIN t
    BY <1>2, <1>11
  <2>6. ASSUME NEW j \in Wanted \cap DOMAIN u PROVE EntryIs(r[KeyText[j]], j, u[j])
    <3>1. CASE j = k
      BY <3>1, <2>3, <2>4, <1>7
    <3>2. CASE j # k
      <4>1. j \in Wanted \cap DOMAIN t /\ u[j] = t[j] /\ KeyText[j] # text /\ KeyText[j] \in DOMAIN s
        BY <3>2, <2>5, <1>2, <1>6, <1>7
      <4> QED
        BY <4>1, <2>4, <1>6
    <3> QED
      BY <3>1, <3>2
  <2>7. DOMAIN r = {KeyText[j] : j \in Wanted \cap DOMAIN u}
    BY <2>4, <2>5, <1>6
  <2> QED
    BY <2>6, <2>7 DEF StateIs, r, u
<1> QED
  BY <1>10, <1>11

LEMMA StateAlways ==
  ASSUME TextsDiffer, list \in Seq(Row), IsTable(before), IsTable(found), mode \in Update, Complete,
         HasRead
  PROVE  \A n \in 0..Len(list) : StateIs(n)
<1> DEFINE N == Len(list)
           T == {n \in 0..N : StateIs(n)}
<1>1. N \in Nat
  OBVIOUS
<1>2. 0 \in T
  BY <1>1, StateAtFirst
<1>3. \A i \in 1..N : i - 1 \in T => i \in T
  <2> TAKE i \in 1..N
  <2> HAVE i - 1 \in T
  <2>1. StateIs(i)
    BY StateNext
  <2> QED
    BY <2>1
<1>4. 0..N \subseteq T
  <2> HIDE DEF T, N
  <2> QED
    BY <1>1, <1>2, <1>3, UpTo
<1> QED
  BY <1>4

LEMMA ReadAlone ==
  ASSUME IInv, Parts, NEW k \in Key, Read(k)
  PROVE  Parts'
<1>1. /\ at = "reads" /\ k \in left /\ left' = left \ {k}
      /\ found' = IF k \in DOMAIN db THEN With(found, k, db[k]) ELSE found
      /\ at' = IF left' = {} THEN "compute" ELSE at
      /\ db' = db /\ before' = before /\ mode' = mode /\ list' = list
  BY DEF Read
<1>2. db = before /\ left \subseteq Wanted
      /\ found = [x \in (Wanted \ left) \cap DOMAIN before |-> before[x]]
  BY <1>1 DEF Parts, AtFirst, AloneC
<1>3. Wanted' = Wanted
  BY <1>1, AloneSame
<1>4. found' = [x \in (Wanted \ left') \cap DOMAIN before |-> before[x]]
  <2>1. CASE k \in DOMAIN before
    <3>1. (Wanted \ left') \cap DOMAIN before = ((Wanted \ left) \cap DOMAIN before) \cup {k}
      BY <2>1, <1>1, <1>2
    <3>2. found' = [j \in DOMAIN found \cup {k} |-> IF j = k THEN before[k] ELSE found[j]]
      BY <2>1, <1>1, <1>2 DEF With
    <3> QED
      BY <3>1, <3>2, <1>2
  <2>2. CASE k \notin DOMAIN before
    <3>1. (Wanted \ left') \cap DOMAIN before = (Wanted \ left) \cap DOMAIN before
      BY <2>2, <1>1, <1>2
    <3>2. found' = found
      BY <2>2, <1>1, <1>2
    <3> QED
      BY <3>1, <3>2, <1>2
  <2> QED
    BY <2>1, <2>2
<1>5. left' \subseteq Wanted /\ (at' = "compute" => Wanted \ left' = Wanted)
  BY <1>1, <1>2
<1>6. AloneC'
  BY <1>1, <1>3, <1>4, <1>5 DEF AloneC
<1>7. AtFirst' /\ AloneA' /\ AloneB' /\ AloneIgnore' /\ at' # "ok"
  BY <1>1, <1>2 DEF AtFirst, AloneA, AloneB, AloneIgnore
<1> QED
  BY <1>6, <1>7 DEF Parts

LEMMA ToItself == \A n \in Nat : n \in 0..n
OBVIOUS

\* What holds on path C once everything is read.
LEMMA OnC ==
  ASSUME IInv, Parts, at \in {"compute", "write", "write new"}
  PROVE  /\ Base /\ Path = "C" /\ mode \in Update /\ list \in Seq(Row)
         /\ IsTable(before) /\ IsTable(found) /\ HasRead
         /\ Len(list) \in Nat /\ Rows = 1..Len(list) /\ Len(list) \in 0..Len(list)
<1>1. Base /\ Path = "C"
  BY DEF IInv, Control, Reading
<1>2. mode \in Update /\ list \in Seq(Row) /\ IsTable(before) /\ IsTable(found)
  BY <1>1, PathIs DEF Base
<1>3. HasRead
  BY DEF Parts, AloneC, HasRead
<1>4. Len(list) \in Nat /\ Rows = 1..Len(list)
  BY <1>2, ListType
<1>5. Len(list) \in 0..Len(list)
  BY <1>4, ToItself
<1> QED
  BY <1>1, <1>2, <1>3, <1>4, <1>5

LEMMA ComputeAlone ==
  ASSUME TextsDiffer, IInv, Complete, Parts, Compute
  PROVE  Parts'
<1> DEFINE n == Len(list)
           item(i) == After[i - 1][list[i].k]
           f == [i \in 1..n |-> Again[i] /\ ~Same(item(i).c, NewC(item(i).c, list[i]))]
<1>1. /\ at = "compute" /\ at' = "write" /\ found' = found
      /\ db' = db /\ before' = before /\ mode' = mode /\ list' = list
      /\ count' = [affected |-> Cardinality(Rows)
                                  + Cardinality({i \in {j \in Rows : Hit(j)} : HitChanges(i)}),
                   changed |-> Cardinality({i \in Rows : Hit(i)})]
  BY DEF Compute
<1>2. /\ Base /\ Path = "C" /\ mode \in Update /\ list \in Seq(Row)
      /\ IsTable(before) /\ IsTable(found) /\ HasRead /\ n \in Nat /\ Rows = 1..n
  BY <1>1, OnC
<1>3. /\ After' = After /\ AffectedTo' = AffectedTo /\ Again' = Again /\ Wanted' = Wanted
      /\ Len(list)' = n
  BY <1>1, AloneSame
<1>4. ASSUME NEW i \in 1..n
      PROVE  /\ Hit(i) <=> Again[i]
             /\ Hit(i) /\ HitChanges(i) <=> f[i] \in {TRUE}
             /\ Affected(i) = 1 + (IF f[i] \in {TRUE} THEN 1 ELSE 0)
  <2> DEFINE s == StateAfter[i - 1]
             t == After[i - 1]
             k == list[i].k
  <2>1. i - 1 \in 0..n /\ StateIs(i - 1) /\ IsTable(t)
    <3>1. i - 1 \in 0..n
      BY <1>2
    <3> QED
      BY <3>1, <1>2, StateAlways, AfterIs
  <2>2. k \in Wanted /\ Wanted \subseteq Key
    BY <1>2, WantedAll
  <2>3. KeyText[k] \in DOMAIN s <=> k \in DOMAIN t
    <3>1. \A j \in Wanted : KeyText[j] = KeyText[k] => j = k
      BY <1>2, <2>2, WantedAll
    <3>2. DOMAIN s = {KeyText[j] : j \in Wanted \cap DOMAIN t}
      BY <2>1 DEF StateIs
    <3> HIDE DEF s, t, k
    <3> QED
      BY <3>1, <3>2, <2>2
  <2>4. k \in DOMAIN t => s[KeyText[k]].cur = t[k]
    BY <2>1, <2>2 DEF StateIs, EntryIs
  <2>5. Hit(i) <=> k \in DOMAIN t
    BY <2>3 DEF Hit
  <2>6. Again[i] <=> k \in DOMAIN t
    BY DEF Again
  <2>7. k \in DOMAIN t => (HitChanges(i) <=> ~Same(t[k].c, NewC(t[k].c, list[i])))
    BY <2>4 DEF HitChanges
  <2>8. f[i] \in {TRUE} <=> (k \in DOMAIN t /\ ~Same(t[k].c, NewC(t[k].c, list[i])))
    BY <2>6
  <2>9. Affected(i) = IF k \in DOMAIN t /\ ~Same(t[k].c, NewC(t[k].c, list[i])) THEN 2 ELSE 1
    BY <1>2 DEF Affected
  <2>10. Affected(i) = 1 + (IF f[i] \in {TRUE} THEN 1 ELSE 0)
    <3> HIDE DEF f, t, k
    <3>1. CASE f[i] \in {TRUE}
      <4>1. Affected(i) = 2
        BY <3>1, <2>8, <2>9
      <4> QED
        BY <3>1, <4>1
    <3>2. CASE f[i] \notin {TRUE}
      <4>1. Affected(i) = 1
        BY <3>2, <2>8, <2>9
      <4> QED
        BY <3>2, <4>1
    <3> QED
      BY <3>1, <3>2
  <2> QED
    BY <2>5, <2>6, <2>7, <2>8, <2>10
<1> HIDE DEF f
<1>5. count'.changed = Num(Again, n, {TRUE})
  <2>1. {i \in Rows : Hit(i)} = {i \in 1..n : Again[i] \in {TRUE}}
    <3>1. \A i \in 1..n : Again[i] \in {TRUE} <=> Again[i]
      BY DEF Again
    <3> QED
      BY <3>1, <1>2, <1>4
  <2> QED
    BY <2>1, <1>1 DEF Num
<1>6. count'.affected = AffectedTo[n]
  <2>1. {i \in {j \in Rows : Hit(j)} : HitChanges(i)} = {i \in 1..n : f[i] \in {TRUE}}
    BY <1>2, <1>4
  <2>2. Cardinality(Rows) = n
    BY <1>2, Interval
  <2>3. AffectedTo[n] = n + Num(f, n, {TRUE})
    <3>1. 1 \in {0, 1} /\ 1 # 0
      OBVIOUS
    <3> QED
      BY <1>2, <1>4, <3>1, AffectedSum
  <2> QED
    BY <2>1, <2>2, <2>3, <1>1 DEF Num
<1>7. Counted(n)'
  BY <1>3, <1>5, <1>6 DEF Counted, Num
<1>8. AloneC'
  BY <1>1, <1>2, <1>3, <1>7 DEF AloneC, HasRead
<1>9. AtFirst' /\ AloneA' /\ AloneB' /\ AloneIgnore' /\ at' # "ok"
  BY <1>1 DEF AtFirst, AloneA, AloneB, AloneIgnore, Parts
<1> QED
  BY <1>8, <1>9 DEF Parts

\* The entries are those of the keys of the rows, and say what MySQL leaves under each.
LEMMA EntriesAre ==
  ASSUME TextsDiffer, IInv, Complete, Parts, at \in {"write", "write new"}
  PROVE  /\ \A e \in Entries : /\ e.k \in Wanted \cap DOMAIN After[Len(list)]
                               /\ EntryIs(e, e.k, After[Len(list)][e.k])
         /\ \A k \in Wanted \cap DOMAIN After[Len(list)] : \E e \in Entries : e.k = k
<1> DEFINE n == Len(list)
           s == StateAfter[n]
           u == After[n]
<1>1. StateIs(n)
  BY OnC, StateAlways
<1>2. /\ DOMAIN s = {KeyText[k] : k \in Wanted \cap DOMAIN u}
      /\ \A k \in Wanted \cap DOMAIN u : EntryIs(s[KeyText[k]], k, u[k])
  BY <1>1 DEF StateIs
<1>3. Entries = {s[t] : t \in DOMAIN s}
  BY DEF Entries
<1> HIDE DEF s, u
<1>4. ASSUME NEW e \in Entries PROVE e.k \in Wanted \cap DOMAIN u /\ EntryIs(e, e.k, u[e.k])
  <2>1. PICK k \in Wanted \cap DOMAIN u : e = s[KeyText[k]]
    BY <1>2, <1>3
  <2>2. EntryIs(e, k, u[k])
    BY <2>1, <1>2
  <2>3. e.k = k
    BY <2>2 DEF EntryIs
  <2> QED
    BY <2>2, <2>3
<1>5. ASSUME NEW k \in Wanted \cap DOMAIN u PROVE \E e \in Entries : e.k = k
  <2>1. s[KeyText[k]] \in Entries /\ s[KeyText[k]].k = k
    BY <1>2, <1>3 DEF EntryIs
  <2> QED
    BY <2>1
<1> QED
  BY <1>4, <1>5 DEF u

LEMMA WriteChangedAlone ==
  ASSUME TextsDiffer, IInv, Complete, Parts, WriteChanged
  PROVE  Parts'
<1> DEFINE n == Len(list)
           u == After[n]
<1>1. /\ at = "write" /\ db = before /\ Counted(n)
      /\ found' = found /\ before' = before /\ mode' = mode /\ list' = list /\ count' = count
  BY DEF WriteChanged, Parts, AtFirst, AloneC
<1>2. /\ Base /\ mode \in Update /\ list \in Seq(Row)
      /\ IsTable(before) /\ HasRead /\ n \in Nat /\ Rows = 1..n /\ n \in 0..n
  BY <1>1, OnC
<1>3. After' = After /\ Wanted' = Wanted /\ Len(list)' = n /\ \A x : Counted(x)' <=> Counted(x)
  BY <1>1, AloneSame, CountedSame
<1>4. IsTable(u) /\ DOMAIN u = DOMAIN before \cup Wanted
  <2>1. DOMAIN u = DOMAIN before \cup {list[i].k : i \in 1..n}
    BY <1>2, AfterKeys
  <2> QED
    BY <2>1, <1>2, AfterIs, WantedAll
<1>5. /\ \A e \in Entries : e.k \in Wanted \cap DOMAIN u /\ EntryIs(e, e.k, u[e.k])
      /\ \A k \in Wanted \cap DOMAIN u : \E e \in Entries : e.k = k
  BY <1>1, EntriesAre
<1>6. \A e \in Changed : e \in Entries /\ e.k \in DOMAIN db /\ u[e.k].d = before[e.k].d
                         /\ e.cur = u[e.k]
  BY <1>1, <1>5 DEF Changed, EntryIs
<1>7. /\ db' = [k \in DOMAIN db |-> IF \E e \in Changed : e.k = k
                                   THEN [db[k] EXCEPT !.c = (CHOOSE e \in Changed : e.k = k).cur.c]
                                   ELSE db[k]]
      /\ at' = IF New = {} THEN "ok" ELSE "write new"
  BY <1>6 DEF WriteChanged
<1>8. ASSUME NEW k \in DOMAIN before PROVE db'[k] = u[k]
  <2>1. u[k] \in AnyItem /\ before[k] \in AnyItem
    BY <1>2, <1>4 DEF IsTable
  <2>2. CASE \E e \in Changed : e.k = k
    <3> DEFINE e == CHOOSE e \in Changed : e.k = k
    <3>1. e \in Changed /\ e.k = k
      BY <2>2
    <3>2. db'[k] = [before[k] EXCEPT !.c = e.cur.c]
      BY <2>2, <1>1, <1>7
    <3> HIDE DEF e, u
    <3>3. e.cur = u[k] /\ u[k].d = before[k].d
      BY <3>1, <1>6
    <3>4. [before[k] EXCEPT !.c = u[k].c] = u[k]
      BY <2>1, <3>3 DEF AnyItem
    <3> QED
      BY <3>2, <3>3, <3>4
  <2>3. CASE \A e \in Changed : e.k # k
    <3>1. db'[k] = before[k]
      BY <2>3, <1>1, <1>7
    <3>2. CASE k \in Wanted
      <4>1. PICK e \in Entries : e.k = k
        BY <3>2, <1>4, <1>5
      <4>2. EntryIs(e, k, u[k]) /\ e \notin Changed
        BY <4>1, <2>3, <1>5
      <4>3. ~e.new
        BY <4>2 DEF EntryIs
      <4>4. ~e.changed
        BY <4>2, <4>3, <4>1 DEF Changed
      <4>5. u[k] = before[k]
        BY <4>2, <4>3, <4>4 DEF EntryIs
      <4> QED
        BY <3>1, <4>5
    <3>3. CASE k \notin Wanted
      <4>1. \A i \in 1..n : list[i].k # k
        BY <3>3, <1>2, WantedAll
      <4> QED
        BY <4>1, <3>1, <1>2, Unnamed
    <3> QED
      BY <3>2, <3>3
  <2> QED
    BY <2>2, <2>3
<1>9. DOMAIN db' = DOMAIN before /\ db' = [k \in DOMAIN before |-> db'[k]]
  BY <1>1, <1>7
<1>10. db' = [k \in DOMAIN before |-> u[k]]
  <2> HIDE DEF u
  <2> QED
    BY <1>8, <1>9
<1>11. ASSUME at' = "ok" PROVE Finished'
  <2>1. New = {}
    BY <1>7, <1>11
  <2>2. Wanted \subseteq DOMAIN before
    <3> SUFFICES ASSUME NEW k \in Wanted, k \notin DOMAIN before PROVE FALSE
      OBVIOUS
    <3>1. PICK e \in Entries : e.k = k
      BY <1>4, <1>5
    <3>2. e.new
      BY <3>1, <1>5 DEF EntryIs
    <3> QED
      BY <3>1, <3>2, <2>1 DEF New
  <2>3. db' = u
    <3>1. DOMAIN u = DOMAIN before
      BY <2>2, <1>4
    <3>2. u = [k \in DOMAIN u |-> u[k]]
      BY <1>4 DEF IsTable
    <3> HIDE DEF u
    <3> QED
      BY <3>1, <3>2, <1>10
  <2>4. mode \notin {"insert", "ignore"}
    BY <1>2 DEF Update
  <2> QED
    BY <2>3, <2>4, <1>1, <1>3 DEF Finished
<1>12. AloneC'
  BY <1>1, <1>2, <1>3, <1>7, <1>10 DEF AloneC, HasRead
<1>13. AtFirst' /\ AloneA' /\ AloneB' /\ AloneIgnore'
  BY <1>7 DEF AtFirst, AloneA, AloneB, AloneIgnore
<1> QED
  BY <1>11, <1>12, <1>13 DEF Parts

LEMMA WriteNewAlone ==
  ASSUME TextsDiffer, IInv, Complete, Parts, WriteNew
  PROVE  Parts'
<1> DEFINE n == Len(list)
           u == After[n]
<1>1. /\ at = "write new" /\ db = [k \in DOMAIN before |-> u[k]] /\ Counted(n)
      /\ before' = before /\ mode' = mode /\ list' = list /\ count' = count
  BY DEF WriteNew, Parts, AloneC
<1>2. Base /\ mode \in Update /\ list \in Seq(Row) /\ IsTable(before) /\ n \in 0..n
  BY <1>1, OnC
<1>3. After' = After /\ Len(list)' = n /\ \A x : Counted(x)' <=> Counted(x)
  BY <1>1, AloneSame, CountedSame
<1>4. IsTable(u) /\ DOMAIN u = DOMAIN before \cup Wanted
  <2>1. DOMAIN u = DOMAIN before \cup {list[i].k : i \in 1..n}
    BY <1>2, AfterKeys
  <2> QED
    BY <2>1, <1>2, AfterIs, WantedAll
<1>5. /\ \A e \in Entries : e.k \in Wanted \cap DOMAIN u /\ EntryIs(e, e.k, u[e.k])
      /\ \A k \in Wanted \cap DOMAIN u : \E e \in Entries : e.k = k
  BY <1>1, EntriesAre
<1>6. \A e \in New : e.k \in Wanted /\ e.k \notin DOMAIN before /\ e.cur = u[e.k]
  BY <1>5 DEF New, EntryIs
<1>7. \A k \in Wanted : k \in DOMAIN before \/ \E e \in New : e.k = k
  BY <1>4, <1>5 DEF New, EntryIs
<1>8. DOMAIN db = DOMAIN before /\ \A k \in DOMAIN before : db[k] = u[k]
  BY <1>1
<1>9. /\ db' = [k \in DOMAIN db \cup {e.k : e \in New} |->
                  IF k \in DOMAIN db THEN db[k] ELSE (CHOOSE e \in New : e.k = k).cur]
      /\ at' = "ok"
  BY <1>6, <1>8 DEF WriteNew, End
<1>10. DOMAIN db' = DOMAIN u
  BY <1>4, <1>6, <1>7, <1>8, <1>9
<1>11. ASSUME NEW k \in DOMAIN u PROVE db'[k] = u[k]
  <2>1. CASE k \in DOMAIN before
    BY <2>1, <1>8, <1>9
  <2>2. CASE k \notin DOMAIN before
    <3> DEFINE e == CHOOSE e \in New : e.k = k
    <3>1. e \in New /\ e.k = k
      BY <2>2, <1>4, <1>7
    <3>2. db'[k] = e.cur
      BY <2>2, <1>8, <1>9, <1>10
    <3> HIDE DEF e, u
    <3> QED
      BY <3>1, <3>2, <1>6
  <2> QED
    BY <2>1, <2>2
<1>12. db' = u
  <2>1. db' = [k \in DOMAIN db' |-> db'[k]]
    BY <1>9
  <2>2. u = [k \in DOMAIN u |-> u[k]]
    BY <1>4 DEF IsTable
  <2> HIDE DEF u
  <2> QED
    BY <2>1, <2>2, <1>10, <1>11
<1>13. Finished'
  <2>1. mode \notin {"insert", "ignore"}
    BY <1>2 DEF Update
  <2> QED
    BY <2>1, <1>1, <1>3, <1>12 DEF Finished
<1>14. AtFirst' /\ AloneA' /\ AloneB' /\ AloneIgnore' /\ AloneC'
  BY <1>9 DEF AtFirst, AloneA, AloneB, AloneIgnore, AloneC
<1> QED
  BY <1>13, <1>14 DEF Parts

-----------------------------------------------------------------------------
(* Every step keeps AloneInv *)

LEMMA AloneInit == AnyInit => AloneInv
<1>1. CASE Init /\ m = NoStatement
  <2> SUFFICES ASSUME TRUE PROVE Parts
    BY DEF AloneInv
  <2>1. at = "start" /\ db = before /\ DOMAIN found = {}
    BY <1>1 DEF Init
  <2> QED
    BY <2>1 DEF Parts, AtFirst, AloneA, AloneB, AloneIgnore, AloneC
<1>2. CASE ModifyInit
  BY <1>2 DEF ModifyInit, AloneInv
<1> QED
  BY <1>1, <1>2 DEF AnyInit

\* A statement leaves the table at first and its text alone, and the others do not write.
LEMMA StatementKeeps ==
  ASSUME Statement
  PROVE  UNCHANGED <<before, mode, list, others>>
BY DEF Statement, Start, UpdateItem, BatchUpdate, BatchInsert, Refuse, Updated, Inserted,
       Compute, WriteChanged, WriteNew, InsertTransaction, ReplaceTransaction, Read

LEMMA StatementAlone ==
  ASSUME Told, IInv, IInv', mode # "modify", Complete, Parts, Statement
  PROVE  Parts'
<1>1. CASE Start
  BY <1>1, StartAlone
<1>2. ASSUME NEW i \in Rows, UpdateItem(i) PROVE Parts'
  BY <1>2, UpdateItemAlone
<1>3. ASSUME NEW i \in Rows, BatchUpdate(i) PROVE Parts'
  BY <1>3, BatchUpdateAlone
<1>4. ASSUME NEW i \in Rows, BatchInsert(i) PROVE Parts'
  BY <1>4, BatchInsertAlone
<1>5. CASE Updated
  BY <1>5, UpdatedAlone
<1>6. CASE Inserted
  BY <1>6, InsertedAlone
<1>7. CASE Compute
  <2>1. TextsDiffer
    BY <1>7, OnC DEF Told, Compute
  <2> QED
    BY <2>1, <1>7, ComputeAlone
<1>8. CASE WriteChanged
  <2>1. TextsDiffer
    BY <1>8, OnC DEF Told, WriteChanged
  <2> QED
    BY <2>1, <1>8, WriteChangedAlone
<1>9. CASE WriteNew
  <2>1. TextsDiffer
    BY <1>9, OnC DEF Told, WriteNew
  <2> QED
    BY <2>1, <1>9, WriteNewAlone
<1>10. CASE InsertTransaction
  BY <1>10, InsertTransactionAlone
<1>11. CASE ReplaceTransaction
  BY <1>11, ReplaceTransactionAlone
<1>12. ASSUME NEW k \in Key, Read(k) PROVE Parts'
  BY <1>12, ReadAlone
<1>13. ASSUME NEW i \in Rows, Refuse(i) PROVE Parts'
  BY <1>13, RefuseAlone
<1> QED
  BY <1>1, <1>2, <1>3, <1>4, <1>5, <1>6, <1>7, <1>8, <1>9, <1>10, <1>11, <1>12, <1>13
  DEF Statement

LEMMA StutterAlone ==
  ASSUME AloneInv, UNCHANGED <<vars, m>>
  PROVE  AloneInv'
<1>1. /\ db' = db /\ before' = before /\ mode' = mode /\ list' = list /\ at' = at
      /\ left' = left /\ failed' = failed /\ found' = found /\ out' = out
      /\ count' = count /\ others' = others
  BY DEF vars
<1>2. /\ After' = After /\ AffectedTo' = AffectedTo /\ Wanted' = Wanted /\ Kept' = Kept
      /\ Rows' = Rows /\ Path' = Path /\ Len(list)' = Len(list)
      /\ \A n : Counted(n)' <=> Counted(n)
  BY <1>1, AloneSame, CountedSame
<1>3. Inserts' = Inserts
  BY <1>1, <1>2 DEF Inserts
<1>4. AtFirst => AtFirst'
  BY <1>1, <1>2 DEF AtFirst
<1>5. AloneA => AloneA'
  BY <1>1, <1>2 DEF AloneA
<1>6. AloneB => AloneB'
  BY <1>1, <1>2, <1>3 DEF AloneB
<1>7. AloneIgnore => AloneIgnore'
  BY <1>1, <1>2, <1>3 DEF AloneIgnore, ItemOf
<1>8. AloneC => AloneC'
  BY <1>1, <1>2 DEF AloneC
<1>9. Finished => Finished'
  BY <1>1, <1>2 DEF Finished
<1>10. Parts => Parts'
  BY <1>1, <1>4, <1>5, <1>6, <1>7, <1>8, <1>9 DEF Parts
<1> QED
  BY <1>1, <1>10, Quiet

LEMMA AloneStep ==
  ASSUME IInv, IInv', AloneInv, [AnyNext]_<<vars, m>>
  PROVE  AloneInv'
<1>1. ASSUME mode # "modify", Statement PROVE AloneInv'
  <2>1. UNCHANGED <<before, mode, list, others>>
    BY <1>1, StatementKeeps
  <2>2. Complete /\ Told /\ Parts => Parts'
    BY <1>1, StatementAlone
  <2> QED
    BY <2>1, <2>2, Quiet
<1>2. ASSUME NEW k \in client.keys, Other(k) PROVE AloneInv'
  <2>1. others' = others + 1 /\ others \in Nat
    BY <1>2 DEF Other, IInv, Base
  <2>2. others' # 0
    BY <2>1
  <2> QED
    BY <2>2 DEF AloneInv
<1>3. CASE Modify
  <2>1. mode' = "modify"
    BY <1>3 DEF Modify, Single, ReadEnd, Drop, ReadRow, OtherWrites, Other, WriteBatch
  <2> QED
    BY <2>1 DEF AloneInv
<1>4. CASE UNCHANGED <<vars, m>>
  BY <1>4, StutterAlone
<1> QED
  BY <1>1, <1>2, <1>3, <1>4 DEF AnyNext, Next

\* A statement that succeeds while nobody else writes leaves the table as MySQL would, on
\* every path, for every table, number of rows and value, and with rows of one key too; and
\* its counts are those of RAW_ENGINE.md.  Path C needs that the joined texts tell the keys
\* of the rows apart, which AloneExact says.
THEOREM AlwaysAloneExact == AnySpec => []AloneExact
<1>1. AnyInit => AloneInv
  BY AloneInit
<1>2. IInv /\ IInv' /\ AloneInv /\ [AnyNext]_<<vars, m>> => AloneInv'
  BY AloneStep
<1>3. IInv /\ AloneInv => AloneExact
  <2> SUFFICES ASSUME IInv, AloneInv, at = "ok", others = 0, Complete, Told
               PROVE  AloneExact
    BY DEF AloneExact, Told
  <2>1. mode # "modify"
    BY DEF IInv, Control
  <2>2. Finished
    BY <2>1 DEF AloneInv, Parts
  <2>3. {i \in Rows : list[i].k \in DOMAIN After[i - 1]} = {i \in 1..Len(list) : Again[i] \in {TRUE}}
    <3>1. Rows = 1..Len(list)
      BY ListType DEF IInv, Base
    <3>2. \A i \in 1..Len(list) : Again[i] \in {TRUE} <=> list[i].k \in DOMAIN After[i - 1]
      BY DEF Again
    <3> QED
      BY <3>1, <3>2
  <2> QED
    BY <2>2, <2>3 DEF AloneExact, Finished, Counted, Num
<1>4. AnySpec => []IInv
  BY AlwaysInv, PTL
<1> QED
  BY <1>1, <1>2, <1>3, <1>4, PTL DEF AnySpec
=============================================================================
