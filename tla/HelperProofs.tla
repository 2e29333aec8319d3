---------------------------- MODULE HelperProofs ----------------------------
(***************************************************************************)
(* Theorems about the two helpers whose promises hold for every input:     *)
(* timesLimit (ParallelLimit), for every number of batches and every       *)
(* limit, and resolveReferences (ColumnRefs), for every set of statements  *)
(* and tables.  The two parts do not use one another.                      *)
(***************************************************************************)
EXTENDS ParallelLimit, ColumnRefs, FiniteSetTheorems, WellFoundedInduction, TLAPS

-----------------------------------------------------------------------------
(* timesLimit: the counter running is compared with the number of batches  *)
(* that are really on their way.                                           *)

\* launched, and _done or _catch has not run
Active == flying \cup good \cup bad

\* where a batch can be
Apart ==
  /\ flying \cap (good \cup bad) = {}
  /\ good \subseteq applied
  /\ (flying \cup bad) \cap applied = {}

\* until the first failure the counter is right and no batch is forgotten
Counted ==
  ~stop => running = Cardinality(Active) /\ Active \cup applied = 0..(i - 1)

\* what the promise says about the locals
Reported ==
  /\ stop <=> promise = "rejected"
  /\ stop => Cardinality(flying) <= Limit - 1
  /\ promise = "resolved" => i = Length /\ running = 0

IInv == TypeOK /\ Apart /\ Counted /\ Reported

-----------------------------------------------------------------------------
LEMMA ActiveFinite ==
  ASSUME TypeOK
  PROVE  /\ IsFiniteSet(Active) /\ Cardinality(Active) \in Nat
         /\ IsFiniteSet(flying) /\ Cardinality(flying) \in Nat
         /\ Cardinality(flying) <= Cardinality(Active)
<1>1. i \in Nat /\ IsFiniteSet(0..(i - 1))
  BY ConstantsAssumption, FS_Interval DEF TypeOK
<1>2. Active \subseteq 0..(i - 1) /\ flying \subseteq Active
  BY DEF TypeOK, Active
<1>3. IsFiniteSet(Active)
  BY <1>1, <1>2, FS_Subset
<1>4. IsFiniteSet(flying) /\ Cardinality(flying) <= Cardinality(Active)
  BY <1>2, <1>3, FS_Subset
<1> QED
  BY <1>3, <1>4, FS_CardinalityType

\* a batch that is active is counted
LEMMA ActiveCounted ==
  ASSUME IInv, ~stop, NEW k \in Active
  PROVE  /\ running >= 1
         /\ IsFiniteSet(Active \ {k})
         /\ Cardinality(Active \ {k}) = running - 1
         /\ promise = "pending"
<1>1. IsFiniteSet(Active) /\ Cardinality(Active) = running /\ running \in 0..Limit
  BY ActiveFinite DEF IInv, Counted, TypeOK
<1>2. Cardinality(Active) # 0
  BY <1>1, FS_EmptySet
<1>3. running >= 1
  BY <1>1, <1>2, ConstantsAssumption
<1>4. IsFiniteSet(Active \ {k}) /\ Cardinality(Active \ {k}) = running - 1
  BY <1>1, FS_RemoveElement
<1>5. promise = "pending"
  BY <1>3 DEF IInv, Reported, TypeOK
<1> QED
  BY <1>3, <1>4, <1>5

\* _loopLaunch stays below the limit and takes the next indices
LEMMA RoomType ==
  ASSUME NEW r \in Nat, r <= Limit, i \in 0..Length
  PROVE  /\ Room(r) \in Nat
         /\ r + Room(r) <= Limit
         /\ i + Room(r) \in 0..Length
BY ConstantsAssumption DEF Room

LEMMA LaunchCounts ==
  ASSUME i \in Nat, NEW n \in Nat, NEW S \in SUBSET (0..(i - 1)), IsFiniteSet(S)
  PROVE  /\ IsFiniteSet(S \cup (i..(i + n - 1)))
         /\ Cardinality(S \cup (i..(i + n - 1))) = Cardinality(S) + n
<1> DEFINE new == i..(i + n - 1)
<1>1. IsFiniteSet(new) /\ Cardinality(new) = n
  <2>1. /\ IsFiniteSet(new)
        /\ Cardinality(new) = IF i > i + n - 1 THEN 0 ELSE (i + n - 1) - i + 1
    <3>1. i \in Int /\ i + n - 1 \in Int
      OBVIOUS
    <3> QED
      BY <3>1, FS_Interval
  <2> QED
    BY <2>1
<1>2. S \cap new = {}
  OBVIOUS
<1>3. /\ IsFiniteSet(S \cup new)
      /\ Cardinality(S \cup new) = Cardinality(S) + Cardinality(new) - Cardinality(S \cap new)
  BY <1>1, FS_Union
<1>4. Cardinality(S) \in Nat /\ Cardinality({}) = 0
  BY FS_CardinalityType, FS_EmptySet
<1>5. Cardinality(S) + Cardinality(new) - Cardinality(S \cap new) = Cardinality(S) + n
  <2>1. Cardinality(S \cap new) = 0
    BY <1>2, <1>4, Zenon
  <2> HIDE DEF new
  <2> QED
    BY <1>1, <1>4, <2>1
<1> QED
  BY <1>3, <1>5, Zenon

-----------------------------------------------------------------------------
LEMMA InitHolds == Init => IInv
<1> SUFFICES ASSUME Init PROVE IInv
  OBVIOUS
<1>1. i \in Nat /\ i <= Length /\ i <= Limit
  BY ConstantsAssumption DEF Init
<1>2. TypeOK
  <2>1. flying \cup good \cup bad \cup applied = 0..(i - 1)
    BY DEF Init
  <2>2. running = i /\ stop = FALSE /\ promise \in {"resolved", "pending"}
    BY DEF Init
  <2>3. i \in 0..Length /\ running \in 0..Limit
    BY <1>1, <2>2, ConstantsAssumption
  <2> QED
    BY <2>1, <2>2, <2>3 DEF TypeOK
<1>3. Apart
  BY DEF Init, Apart
<1>4. Cardinality(0..(i - 1)) = i
  <2>1. i - 1 \in Int /\ 0 \in Int
    BY <1>1
  <2>2. Cardinality(0..(i - 1)) = IF 0 > i - 1 THEN 0 ELSE (i - 1) - 0 + 1
    BY <2>1, FS_Interval
  <2> QED
    BY <1>1, <2>2
<1>5. Active = 0..(i - 1)
  BY DEF Init, Active
<1>6. Counted
  BY <1>4, <1>5 DEF Init, Counted
<1>7. Reported
  BY <1>1, ConstantsAssumption DEF Init, Reported
<1> QED
  BY <1>2, <1>3, <1>6, <1>7 DEF IInv

LEMMA AnswerStep ==
  ASSUME IInv, NEW k \in Index, NEW ok \in BOOLEAN, Answer(k, ok)
  PROVE  IInv'
<1> USE DEF IInv, Answer
<1>1. TypeOK'
  BY DEF TypeOK
<1>2. Apart'
  BY DEF Apart
<1>3. Active' = Active
  BY DEF Active
<1>4. (Active \cup applied)' = Active \cup applied
  BY <1>3 DEF Active
<1>5. Counted'
  BY <1>3, <1>4 DEF Counted
<1>6. Cardinality(flying') <= Cardinality(flying)
  <2>1. IsFiniteSet(flying) /\ flying' \in SUBSET flying
    BY ActiveFinite
  <2> QED
    BY <2>1, FS_Subset
<1>7. Cardinality(flying) \in Nat /\ Cardinality(flying') \in Nat
  BY <1>1, ActiveFinite, FS_RemoveElement, FS_CardinalityType
<1>8. Reported'
  BY <1>6, <1>7, ConstantsAssumption DEF Reported
<1> QED
  BY <1>1, <1>2, <1>5, <1>8

LEMMA DoneStep ==
  ASSUME IInv, NEW k \in Index, Done(k)
  PROVE  IInv'
<1> USE DEF IInv
<1>1. k \in good /\ k \in Active /\ k \in applied /\ good' = good \ {k}
      /\ UNCHANGED <<stop, bad, applied>>
  BY DEF Done, Active, Apart
<1>2. k \notin flying /\ k \notin bad
  BY <1>1 DEF Apart
<1>3. CASE stop
  <2>1. UNCHANGED <<i, running, promise, flying>>
    BY <1>3 DEF Done
  <2> QED
    BY <1>1, <1>3, <2>1 DEF TypeOK, Apart, Counted, Reported
<1>4. CASE ~stop /\ i >= Length /\ running = 1
  <2>1. running' = 0 /\ promise' = "resolved" /\ UNCHANGED <<i, flying>>
    BY <1>4 DEF Done
  <2>2. Active' = Active \ {k} /\ (Active \cup applied)' = Active \cup applied
    BY <1>1, <1>2, <2>1 DEF Active
  <2>3. Cardinality(Active') = 0 /\ promise = "pending"
    BY <1>1, <1>4, <2>2, ActiveCounted
  <2>4. TypeOK'
    BY <1>1, <2>1, ConstantsAssumption DEF TypeOK
  <2>5. Apart'
    BY <1>1, <2>1 DEF Apart
  <2>6. Counted'
    BY <1>1, <1>4, <2>1, <2>2, <2>3 DEF Counted
  <2>7. Reported'
    BY <1>1, <1>4, <2>1, ConstantsAssumption DEF Reported, TypeOK
  <2> QED
    BY <2>4, <2>5, <2>6, <2>7
<1>5. CASE ~stop /\ ~(i >= Length /\ running = 1)
  <2> DEFINE n == Room(running - 1)
             new == i..(i + n - 1)
  <2>1. Launch(running - 1) /\ UNCHANGED promise
    BY <1>5 DEF Done
  <2>2. /\ running - 1 \in Nat /\ running - 1 <= Limit
        /\ i \in 0..Length /\ i \in Nat /\ promise = "pending"
    <3>1. running >= 1 /\ promise = "pending"
      BY <1>1, <1>5, ActiveCounted
    <3>2. i \in 0..Length /\ running \in 0..Limit
      BY DEF TypeOK
    <3> QED
      BY <3>1, <3>2, ConstantsAssumption
  <2>3. n \in Nat /\ running - 1 + n <= Limit /\ i + n \in 0..Length
    BY <2>2, RoomType
  <2>4. i' = i + n /\ running' = running - 1 + n /\ flying' = flying \cup new
    BY <2>1 DEF Launch
  <2>5. flying \cup good \cup bad \cup applied \subseteq 0..(i - 1)
    BY DEF TypeOK
  <2> HIDE DEF n
  <2>6. 0..(i - 1) \cap new = {}
    BY <2>2, <2>3
  <2>7. 0..(i' - 1) = 0..(i - 1) \cup new
    BY <2>2, <2>3, <2>4
  <2> HIDE DEF new
  <2>8. TypeOK'
    <3>1. (flying \cup good \cup bad \cup applied)' \subseteq 0..(i' - 1)
      BY <1>1, <2>4, <2>5, <2>7, Zenon
    <3>2. i' \in 0..Length /\ running' \in 0..Limit
      BY <2>2, <2>3, <2>4, ConstantsAssumption
    <3>3. stop' \in BOOLEAN /\ promise' \in {"pending", "resolved", "rejected"}
      BY <1>1, <2>1 DEF TypeOK
    <3> QED
      BY <3>1, <3>2, <3>3 DEF TypeOK
  <2>9. Apart'
    BY <1>1, <2>4, <2>5, <2>6 DEF Apart
  <2>10. Active' = (Active \ {k}) \cup new
    <3>1. new \cap {k} = {}
      BY <1>1, <2>5, <2>6
    <3> QED
      BY <1>1, <1>2, <2>4, <3>1 DEF Active
  <2>11. Cardinality(Active') = running - 1 + n
    <3>1. /\ IsFiniteSet(Active \ {k}) /\ Cardinality(Active \ {k}) = running - 1
      BY <1>1, <1>5, ActiveCounted
    <3>2. Active \ {k} \in SUBSET (0..(i - 1))
      BY <2>5 DEF Active
    <3> QED
      BY <2>2, <2>3, <2>10, <3>1, <3>2, LaunchCounts DEF new
  <2>12. (Active \cup applied)' = 0..(i' - 1)
    <3>1. Active \cup applied = 0..(i - 1)
      BY <1>5 DEF Counted
    <3>2. (Active \cup applied)' = (Active \cup applied) \cup new
      BY <1>1, <2>10
    <3> QED
      BY <2>7, <3>1, <3>2, Zenon
  <2>13. Counted'
    BY <2>4, <2>11, <2>12 DEF Counted
  <2>14. Reported'
    BY <1>1, <1>5, <2>1, <2>2 DEF Reported
  <2> QED
    BY <2>8, <2>9, <2>13, <2>14
<1> QED
  BY <1>3, <1>4, <1>5

LEMMA CatchStep ==
  ASSUME IInv, NEW k \in Index, Catch(k)
  PROVE  IInv'
<1> USE DEF IInv, Catch
<1>1. TypeOK'
  BY DEF TypeOK
<1>2. Apart'
  BY DEF Apart
<1>3. Counted'
  BY DEF Counted
<1>4. Cardinality(flying) <= Limit - 1
  <2>1. CASE stop
    BY <2>1 DEF Reported
  <2>2. CASE ~stop
    <3>1. k \in Active /\ k \notin flying
      BY DEF Active, Apart
    <3>2. IsFiniteSet(Active \ {k}) /\ Cardinality(Active \ {k}) = running - 1
      BY <2>2, <3>1, ActiveCounted
    <3>3. flying \in SUBSET (Active \ {k})
      BY <3>1 DEF Active
    <3>4. Cardinality(flying) <= running - 1
      BY <3>2, <3>3, FS_Subset
    <3>5. Cardinality(flying) \in Nat /\ running \in 0..Limit
      BY ActiveFinite DEF TypeOK
    <3> QED
      BY <3>4, <3>5, ConstantsAssumption
  <2> QED
    BY <2>1, <2>2
<1>5. promise' = "rejected"
  <2>1. CASE stop
    BY <2>1 DEF Reported
  <2>2. CASE ~stop
    <3>1. k \in Active
      BY DEF Active
    <3> QED
      BY <2>2, <3>1, ActiveCounted
  <2> QED
    BY <2>1, <2>2
<1>6. Reported'
  BY <1>4, <1>5 DEF Reported
<1> QED
  BY <1>1, <1>2, <1>3, <1>6

LEMMA NextStep == IInv /\ [Next]_vars => IInv'
<1> SUFFICES ASSUME IInv, [Next]_vars PROVE IInv'
  OBVIOUS
<1>1. ASSUME NEW k \in Index, NEW ok \in BOOLEAN, Answer(k, ok) PROVE IInv'
  BY <1>1, AnswerStep
<1>2. ASSUME NEW k \in Index, Done(k) PROVE IInv'
  BY <1>2, DoneStep
<1>3. ASSUME NEW k \in Index, Catch(k) PROVE IInv'
  BY <1>3, CatchStep
<1>4. CASE UNCHANGED vars
  BY <1>4 DEF vars, IInv, TypeOK, Apart, Counted, Reported, Active
<1> QED
  BY <1>1, <1>2, <1>3, <1>4 DEF Next

LEMMA Invariance == Spec => []IInv
BY InitHolds, NextStep, PTL DEF Spec

-----------------------------------------------------------------------------
(* The locals of timesLimit keep their types, the counter never exceeds    *)
(* the limit, and no batch is seen before its index was reached.           *)
THEOREM TypeCorrect == Spec => []TypeOK
<1>1. IInv => TypeOK
  BY DEF IInv
<1> QED
  BY <1>1, Invariance, PTL

(* However many batches there are, the number of them on their way never   *)
(* exceeds the limit, and after the error has been reported what may still *)
(* be applied is what was on its way besides the batch that failed.        *)
THEOREM AlwaysBounded == Spec => []Bounded
<1>1. IInv => Bounded
  <2> SUFFICES ASSUME IInv PROVE Bounded
    OBVIOUS
  <2>1. CASE promise = "rejected"
    BY <2>1 DEF IInv, Reported, Bounded
  <2>2. CASE promise # "rejected"
    <3>1. ~stop /\ running = Cardinality(Active) /\ running <= Limit
      BY <2>2, ConstantsAssumption DEF IInv, Reported, Counted, TypeOK
    <3>2. /\ Cardinality(flying) \in Nat /\ Cardinality(Active) \in Nat
          /\ Cardinality(flying) <= Cardinality(Active)
      BY ActiveFinite DEF IInv
    <3> QED
      BY <2>2, <3>1, <3>2, ConstantsAssumption DEF Bounded
  <2> QED
    BY <2>1, <2>2
<1> QED
  BY <1>1, Invariance, PTL

(* When timesLimit resolves, every batch of the statement has been applied *)
(* by DynamoDB: the affected rows that UPDATE and DELETE report are true.  *)
THEOREM SuccessAlwaysWhole == Spec => []SuccessIsWhole
<1>1. IInv => SuccessIsWhole
  <2> SUFFICES ASSUME IInv, promise = "resolved" PROVE applied = Index /\ flying = {}
    BY DEF SuccessIsWhole
  <2>1. ~stop /\ i = Length /\ Cardinality(Active) = 0
    BY DEF IInv, Reported, Counted
  <2>2. Active = {}
    BY <2>1, ActiveFinite, FS_EmptySet DEF IInv
  <2>3. flying = {} /\ applied = 0..(Length - 1)
    BY <2>1, <2>2 DEF IInv, Counted, Active
  <2> QED
    BY <2>3 DEF Index
<1> QED
  BY <1>1, Invariance, PTL

(* Once the caller has been told of a failure, no step sends another batch. *)
THEOREM NeverSentAfterError == Spec => NothingSentAfterError
<1>1. IInv /\ [Next]_vars => [promise = "rejected" => flying' \subseteq flying]_vars
  <2> SUFFICES ASSUME IInv, Next, promise = "rejected" PROVE flying' \subseteq flying
    OBVIOUS
  <2>1. stop
    BY DEF IInv, Reported
  <2> QED
    BY <2>1 DEF Next, Answer, Done, Catch
<1> QED
  BY <1>1, Invariance, PTL DEF Spec, NothingSentAfterError

-----------------------------------------------------------------------------
(* resolveReferences.  First what the operators of ColumnRefs return:      *)
(* least and greatest elements, flattened sequences, the maps of FROM and  *)
(* the walk.                                                               *)

\* A set of numbers that is not empty has a least element.
LEMMA Least ==
  ASSUME NEW T \in SUBSET Nat, T # {}
  PROVE  \E x \in T : \A y \in T : x <= y
<1> DEFINE R == {ss \in Nat \X Nat : ss[1] < ss[2]}
<1>1. IsWellFoundedOn(R, Nat)
  BY NatLessThanWellFounded, Zenon DEF OpToRel
<1>2. PICK x \in T : \A y \in T : ~ (<<y, x>> \in R)
  <2> HIDE DEF R
  <2> QED
    BY <1>1, WFMin
<1>3. ASSUME NEW y \in T PROVE x <= y
  <2>1. <<y, x>> \notin R
    BY <1>2
  <2>2. <<y, x>> \in Nat \X Nat
    OBVIOUS
  <2> QED
    BY <2>1, <2>2
<1> QED
  BY <1>3

\* What holds of 0 and passes from k - 1 to k holds of every number to n.
LEMMA UpTo ==
  ASSUME NEW n \in Nat, NEW T, 0 \in T, \A k \in 1..n : k - 1 \in T => k \in T
  PROVE  0..n \subseteq T
<1> SUFFICES ASSUME (0..n) \ T # {} PROVE FALSE
  OBVIOUS
<1>1. PICK x \in (0..n) \ T : \A y \in (0..n) \ T : x <= y
  <2>1. (0..n) \ T \in SUBSET Nat
    OBVIOUS
  <2> QED
    BY <2>1, Least
<1>2. x # 0 /\ x \in 1..n /\ x - 1 \in 0..n
  OBVIOUS
<1>3. x - 1 \notin T
  BY <1>2
<1>4. ~(x <= x - 1)
  BY <1>2
<1> QED
  BY <1>1, <1>2, <1>3, <1>4

\* The least element of a set of numbers belongs to it.
LEMMA MinIn ==
  ASSUME NEW S \in SUBSET Nat, S # {}
  PROVE  Min(S) \in S
BY Least DEF Min

\* The greatest element of a bounded set of numbers belongs to it.
LEMMA MaxIn ==
  ASSUME NEW n \in Nat, NEW S \in SUBSET (0..n), S # {}
  PROVE  Max(S) \in S
<1> DEFINE T == {n - x : x \in S}
<1>1. PICK y \in T : \A z \in T : y <= z
  <2>1. T \in SUBSET Nat /\ T # {}
    <3>1. ASSUME NEW x \in S PROVE n - x \in Nat
      <4>1. x \in 0..n
        OBVIOUS
      <4> QED
        BY <4>1
    <3> QED
      BY <3>1
  <2> HIDE DEF T
  <2> QED
    BY <2>1, Least
<1>2. PICK x \in S : y = n - x
  OBVIOUS
<1>3. \A z \in S : n - x <= n - z
  BY <1>1, <1>2
<1>4. \A z \in S : x >= z
  BY <1>3
<1> QED
  BY <1>4 DEF Max

\* f has the first sequence at 1, and at each place the sequences up to there.
Flattens(f, seqs) ==
  /\ f[1] = seqs[1]
  /\ \A k \in 2..Len(seqs) : f[k] = f[k - 1] \o seqs[k]

\* The sequences up to a place can be put together.
LEMMA FlattenExists ==
  ASSUME NEW S, NEW seqs \in Seq(Seq(S)), seqs # <<>>
  PROVE  \E f \in [1..Len(seqs) -> Seq(S)] : Flattens(f, seqs)
<1> DEFINE P(k) == k = 0 \/ \E f \in [1..k -> Seq(S)] :
                     f[1] = seqs[1] /\ \A m \in 2..k : f[m] = f[m - 1] \o seqs[m]
           T == {k \in 0..Len(seqs) : P(k)}
<1>1. Len(seqs) \in Nat /\ Len(seqs) # 0 /\ \A k \in 1..Len(seqs) : seqs[k] \in Seq(S)
  OBVIOUS
<1>2. 0 \in T
  BY <1>1
<1>3. ASSUME NEW k \in 1..Len(seqs), k - 1 \in T PROVE k \in T
  <2>1. CASE k = 1
    <3> DEFINE f == [m \in 1..1 |-> seqs[1]]
    <3>1. f \in [1..1 -> Seq(S)] /\ f[1] = seqs[1] /\ \A m \in 2..1 : f[m] = f[m - 1] \o seqs[m]
      BY <1>1
    <3> HIDE DEF f
    <3>2. P(1)
      BY <3>1
    <3> HIDE DEF P
    <3> QED
      BY <2>1, <3>2
  <2>2. CASE k # 1
    <3>1. PICK f \in [1..(k - 1) -> Seq(S)] :
            f[1] = seqs[1] /\ \A m \in 2..(k - 1) : f[m] = f[m - 1] \o seqs[m]
      <4>1. P(k - 1)
        <5> HIDE DEF P
        <5> QED
          BY <1>3
      <4>2. k - 1 # 0
        BY <2>2
      <4> QED
        BY <4>1, <4>2
    <3> DEFINE g == [m \in 1..k |-> IF m = k THEN f[k - 1] \o seqs[k] ELSE f[m]]
    <3>2. k - 1 \in 1..(k - 1) /\ f[k - 1] \in Seq(S) /\ seqs[k] \in Seq(S)
      BY <2>2, <1>1
    <3>3. f[k - 1] \o seqs[k] \in Seq(S)
      BY <3>2
    <3>4. g \in [1..k -> Seq(S)] /\ g[1] = seqs[1]
      BY <3>1, <3>3, <2>2
    <3>5. ASSUME NEW m \in 2..k PROVE g[m] = g[m - 1] \o seqs[m]
      <4>1. m - 1 \in 1..k /\ m - 1 # k /\ g[m - 1] = f[m - 1]
        OBVIOUS
      <4>2. CASE m = k
        <5>1. g[k] = f[k - 1] \o seqs[k]
          <6>1. k \in 1..k
            OBVIOUS
          <6>2. \A n \in 1..k : n = k => g[n] = f[k - 1] \o seqs[k]
            OBVIOUS
          <6> HIDE DEF g
          <6> QED
            BY <6>1, <6>2
        <5> QED
          BY <4>1, <4>2, <5>1
      <4>3. CASE m # k
        <5>1. m \in 2..(k - 1) /\ g[m] = f[m]
          BY <4>3
        <5> HIDE DEF g
        <5> QED
          BY <4>1, <5>1, <3>1
      <4> QED
        BY <4>2, <4>3
    <3> HIDE DEF g
    <3>6. P(k)
      BY <3>4, <3>5
    <3> HIDE DEF P
    <3> QED
      BY <3>6
  <2> QED
    BY <2>1, <2>2
<1>4. 0..Len(seqs) \subseteq T
  <2> HIDE DEF T
  <2> QED
    BY <1>1, <1>2, <1>3, UpTo
<1>5. Len(seqs) \in T
  <2>1. Len(seqs) \in 0..Len(seqs)
    BY <1>1
  <2> HIDE DEF T
  <2> QED
    BY <2>1, <1>4
<1> QED
  BY <1>1, <1>5 DEF Flattens

\* FlattenSeq puts the sequences together.
LEMMA FlattenDef ==
  ASSUME NEW S, NEW seqs \in Seq(Seq(S)), seqs # <<>>
  PROVE  \E f \in [1..Len(seqs) -> Seq(S)] : Flattens(f, seqs) /\ FlattenSeq(seqs) = f[Len(seqs)]
<1> DEFINE D == 1..Len(seqs)
           Def(f) == f = [m \in D |-> IF m = 1 THEN seqs[m] ELSE f[m - 1] \o seqs[m]]
<1>1. PICK f \in [1..Len(seqs) -> Seq(S)] : Flattens(f, seqs)
  BY FlattenExists
<1>2. Def(f)
  <2>1. ASSUME NEW m \in D PROVE f[m] = IF m = 1 THEN seqs[m] ELSE f[m - 1] \o seqs[m]
    <3>1. CASE m = 1
      BY <3>1, <1>1 DEF Flattens
    <3>2. CASE m # 1
      <4>1. m \in 2..Len(seqs)
        BY <3>2
      <4> QED
        BY <3>2, <4>1, <1>1 DEF Flattens
    <3> QED
      BY <3>1, <3>2
  <2> QED
    BY <2>1
<1> DEFINE g == CHOOSE h : Def(h)
<1>3. Def(g)
  BY <1>2
<1>4. FlattenSeq(seqs) = g[Len(seqs)]
  BY DEF FlattenSeq
<1>5. DOMAIN g = D /\ \A m \in D : g[m] = IF m = 1 THEN seqs[m] ELSE g[m - 1] \o seqs[m]
  <2> HIDE DEF g
  <2> QED
    BY <1>3
<1>6. g = f
  <2> HIDE DEF g
  <2> DEFINE T == {k \in 0..Len(seqs) : k = 0 \/ g[k] = f[k]}
  <2>1. Len(seqs) \in Nat /\ 0 \in T
    OBVIOUS
  <2>2. ASSUME NEW k \in 1..Len(seqs), k - 1 \in T PROVE k \in T
    <3>1. k \in D /\ g[k] = IF k = 1 THEN seqs[k] ELSE g[k - 1] \o seqs[k]
      BY <1>5
    <3>2. CASE k = 1
      <4>1. g[k] = f[k]
        BY <3>1, <3>2, <1>1 DEF Flattens
      <4> QED
        BY <4>1
    <3>3. CASE k # 1
      <4>1. k \in 2..Len(seqs) /\ g[k - 1] = f[k - 1]
        BY <2>2, <3>3
      <4>2. f[k] = f[k - 1] \o seqs[k]
        BY <4>1, <1>1 DEF Flattens
      <4>3. g[k] = f[k]
        BY <3>1, <3>3, <4>1, <4>2
      <4> QED
        BY <4>3
    <3> QED
      BY <3>2, <3>3
  <2>3. 0..Len(seqs) \subseteq T
    <3> HIDE DEF T
    <3> QED
      BY <2>1, <2>2, UpTo
  <2>4. ASSUME NEW m \in D PROVE g[m] = f[m]
    <3>1. m \in 0..Len(seqs) /\ m # 0
      BY <2>1
    <3>2. m \in T
      <4> HIDE DEF T
      <4> QED
        BY <3>1, <2>3
    <3> QED
      BY <3>1, <3>2
  <2>5. g = [m \in D |-> g[m]] /\ f = [m \in D |-> f[m]]
    <3>1. g = [m \in D |-> g[m]]
      BY <1>3
    <3> QED
      BY <3>1
  <2> QED
    BY <2>4, <2>5
<1> QED
  BY <1>1, <1>4, <1>6

\* Two sequences one after the other.
LEMMA ConcatIs ==
  ASSUME NEW S, NEW a \in Seq(S), NEW b \in Seq(S)
  PROVE  /\ a \o b \in Seq(S) /\ Len(a \o b) = Len(a) + Len(b)
         /\ Range(a) \subseteq Range(a \o b) /\ Range(b) \subseteq Range(a \o b)
<1>1. a \o b \in Seq(S) /\ Len(a \o b) = Len(a) + Len(b) /\ Len(a) \in Nat /\ Len(b) \in Nat
  OBVIOUS
<1>2. ASSUME NEW k \in DOMAIN a PROVE k \in DOMAIN (a \o b) /\ (a \o b)[k] = a[k]
  BY <1>1
<1>3. ASSUME NEW k \in DOMAIN b PROVE Len(a) + k \in DOMAIN (a \o b) /\ (a \o b)[Len(a) + k] = b[k]
  BY <1>1
<1> QED
  BY <1>1, <1>2, <1>3, Zenon DEF Range

\* What is known of the sequences put together.
Built(f, seqs, S) ==
  /\ Len(seqs) \in Nat /\ Len(seqs) \in 1..Len(seqs) /\ f[1] = seqs[1]
  /\ \A n \in 1..Len(seqs) : f[n] \in Seq(S) /\ seqs[n] \in Seq(S)
  /\ \A n \in 1..Len(seqs) : n # 1 =>
       n - 1 \in 1..Len(seqs) /\ f[n] = f[n - 1] \o seqs[n]

\* The parts of a flattening are sequences, each the one before and one sequence more.
LEMMA FlattenSteps ==
  ASSUME NEW S, NEW seqs \in Seq(Seq(S)), seqs # <<>>,
         NEW f \in [1..Len(seqs) -> Seq(S)], Flattens(f, seqs)
  PROVE  Built(f, seqs, S)
<1>1. Len(seqs) \in Nat /\ Len(seqs) # 0 /\ Len(seqs) \in 1..Len(seqs)
  OBVIOUS
<1>2. f[1] = seqs[1] /\ \A n \in 2..Len(seqs) : f[n] = f[n - 1] \o seqs[n]
  BY DEF Flattens
<1>3. ASSUME NEW n \in 1..Len(seqs), n # 1 PROVE n - 1 \in 1..Len(seqs) /\ n \in 2..Len(seqs)
  BY <1>3
<1>4. \A n \in 1..Len(seqs) : f[n] \in Seq(S)
  OBVIOUS
<1>5. \A n \in 1..Len(seqs) : seqs[n] \in Seq(S)
  OBVIOUS
<1> QED
  BY <1>1, <1>2, <1>3, <1>4, <1>5 DEF Built

\* What one of the sequences contains is in the flattening.
LEMMA FlattenHas ==
  ASSUME NEW S, NEW seqs \in Seq(Seq(S)),
         NEW k \in DOMAIN seqs, NEW e \in Range(seqs[k])
  PROVE  e \in Range(FlattenSeq(seqs))
<1>1. seqs # <<>> /\ k \in 1..Len(seqs)
  OBVIOUS
<1>2. PICK f \in [1..Len(seqs) -> Seq(S)] : Flattens(f, seqs) /\ FlattenSeq(seqs) = f[Len(seqs)]
  BY <1>1, FlattenDef
<1>8. Built(f, seqs, S)
  BY <1>1, <1>2, FlattenSteps
<1>3. /\ Len(seqs) \in Nat /\ Len(seqs) \in 1..Len(seqs) /\ f[1] = seqs[1]
      /\ \A n \in 1..Len(seqs) : f[n] \in Seq(S) /\ seqs[n] \in Seq(S)
      /\ \A n \in 1..Len(seqs) : n # 1 => n - 1 \in 1..Len(seqs) /\ f[n] = f[n - 1] \o seqs[n]
  BY <1>8 DEF Built
<1> DEFINE T == {n \in 0..Len(seqs) : n >= k => e \in Range(f[n])}
<1>4. 0 \in T
  BY <1>1, <1>3
<1>5. ASSUME NEW n \in 1..Len(seqs), n - 1 \in T PROVE n \in T
  <2>1. ASSUME n >= k PROVE e \in Range(f[n])
    <3>1. CASE n = 1
      <4>1. n = k
        BY <2>1, <3>1, <1>1
      <4> QED
        BY <4>1, <3>1, <1>3
    <3>2. CASE n # 1
      <4>1. f[n - 1] \in Seq(S) /\ seqs[n] \in Seq(S) /\ f[n] = f[n - 1] \o seqs[n]
        BY <3>2, <1>3
      <4>2. Range(f[n - 1]) \subseteq Range(f[n]) /\ Range(seqs[n]) \subseteq Range(f[n])
        BY <4>1, ConcatIs
      <4>3. CASE n = k
        BY <4>3, <4>2
      <4>4. CASE n # k
        <5>1. n - 1 >= k
          BY <4>4, <2>1, <1>1
        <5> QED
          BY <5>1, <1>5, <4>2
      <4> QED
        BY <4>3, <4>4
    <3> QED
      BY <3>1, <3>2
  <2> QED
    BY <2>1
<1>6. Len(seqs) \in T
  <2>1. 0..Len(seqs) \subseteq T
    <3> HIDE DEF T
    <3> QED
      BY <1>3, <1>4, <1>5, UpTo
  <2>2. Len(seqs) \in 0..Len(seqs)
    BY <1>3
  <2> HIDE DEF T
  <2> QED
    BY <2>1, <2>2
<1>7. Len(seqs) >= k
  BY <1>1, <1>3
<1> QED
  BY <1>2, <1>6, <1>7

\* The flattening of sequences is one.
LEMMA FlattenType ==
  ASSUME NEW S, NEW seqs \in Seq(Seq(S))
  PROVE  FlattenSeq(seqs) \in Seq(S)
<1>1. CASE seqs = <<>>
  <2>1. FlattenSeq(seqs) = <<>>
    BY <1>1 DEF FlattenSeq
  <2> QED
    BY <2>1
<1>2. CASE seqs # <<>>
  <2>1. PICK f \in [1..Len(seqs) -> Seq(S)] : Flattens(f, seqs) /\ FlattenSeq(seqs) = f[Len(seqs)]
    BY <1>2, FlattenDef
  <2>3. Built(f, seqs, S)
    BY <1>2, <2>1, FlattenSteps
  <2>2. Len(seqs) \in 1..Len(seqs)
    BY <2>3 DEF Built
  <2> QED
    BY <2>1, <2>2
<1> QED
  BY <1>1, <1>2

\* Sequences of one element each are flattened to as many elements.
LEMMA FlattenLen ==
  ASSUME NEW S, NEW seqs \in Seq(Seq(S)), \A k \in DOMAIN seqs : Len(seqs[k]) = 1
  PROVE  Len(FlattenSeq(seqs)) = Len(seqs)
<1>1. CASE seqs = <<>>
  BY <1>1 DEF FlattenSeq
<1>2. CASE seqs # <<>>
  <2>1. PICK f \in [1..Len(seqs) -> Seq(S)] : Flattens(f, seqs) /\ FlattenSeq(seqs) = f[Len(seqs)]
    BY <1>2, FlattenDef
  <2>8. Built(f, seqs, S)
    BY <1>2, <2>1, FlattenSteps
  <2>2. /\ Len(seqs) \in Nat /\ Len(seqs) \in 1..Len(seqs) /\ f[1] = seqs[1]
        /\ \A n \in 1..Len(seqs) : f[n] \in Seq(S) /\ seqs[n] \in Seq(S)
        /\ \A n \in 1..Len(seqs) : n # 1 => n - 1 \in 1..Len(seqs) /\ f[n] = f[n - 1] \o seqs[n]
    BY <2>8 DEF Built
  <2>3. \A n \in 1..Len(seqs) : Len(seqs[n]) = 1
    OBVIOUS
  <2> DEFINE T == {n \in 0..Len(seqs) : n # 0 => Len(f[n]) = n}
  <2>4. 0 \in T
    BY <2>2
  <2>5. ASSUME NEW n \in 1..Len(seqs), n - 1 \in T PROVE n \in T
    <3>1. Len(f[n]) = n
      <4>1. CASE n = 1
        BY <4>1, <2>2, <2>3
      <4>2. CASE n # 1
        <5>1. f[n - 1] \in Seq(S) /\ seqs[n] \in Seq(S) /\ f[n] = f[n - 1] \o seqs[n]
          BY <4>2, <2>2
        <5>2. Len(f[n - 1]) = n - 1 /\ Len(seqs[n]) = 1
          BY <4>2, <2>5, <2>3
        <5>3. Len(f[n]) = Len(f[n - 1]) + Len(seqs[n])
          BY <5>1, ConcatIs
        <5> QED
          BY <5>2, <5>3
      <4> QED
        BY <4>1, <4>2
    <3> QED
      BY <3>1
  <2>6. Len(seqs) \in T
    <3>1. 0..Len(seqs) \subseteq T
      <4> HIDE DEF T
      <4> QED
        BY <2>2, <2>4, <2>5, UpTo
    <3>2. Len(seqs) \in 0..Len(seqs)
      BY <2>2
    <3> HIDE DEF T
    <3> QED
      BY <3>1, <3>2
  <2>7. Len(seqs) # 0
    BY <2>2
  <2> QED
    BY <2>1, <2>6, <2>7
<1> QED
  BY <1>1, <1>2

-----------------------------------------------------------------------------
(* The maps and the walk of a statement *)

MapOf(K) == UNION {[D -> Nat] : D \in SUBSET K}

\* The tables of a FROM clause and their names.
LEMMA FromIs ==
  ASSUME NEW from \in Seq(FromEntry)
  PROVE  /\ Len(from) \in Nat /\ DOMAIN from = 1..Len(from)
         /\ \A m \in DOMAIN from :
              /\ from[m] \in FromEntry /\ m \in Nat /\ m \in 0..Len(from)
              /\ from[m].db \in Optional /\ from[m].table \in STRING /\ from[m].as \in Optional
              /\ from[m].on \in Seq(Reference) /\ from[m].using \in Seq(STRING)
              /\ NameOf(from[m]) \in STRING
<1>1. Len(from) \in Nat /\ DOMAIN from = 1..Len(from)
  OBVIOUS
<1>2. ASSUME NEW m \in DOMAIN from
      PROVE  /\ from[m] \in FromEntry /\ m \in Nat /\ m \in 0..Len(from)
  BY <1>1
<1>3. ASSUME NEW m \in DOMAIN from
      PROVE  /\ from[m].db \in Optional /\ from[m].table \in STRING /\ from[m].as \in Optional
             /\ from[m].on \in Seq(Reference) /\ from[m].using \in Seq(STRING)
  BY <1>2 DEF FromEntry
<1>4. ASSUME NEW m \in DOMAIN from PROVE NameOf(from[m]) \in STRING
  BY <1>3 DEF NameOf, Optional
<1> QED
  BY <1>1, <1>2, <1>3, <1>4

\* A name that is in table_map leads to a table that has it.
LEMMA TableIs ==
  ASSUME NEW from \in Seq(FromEntry)
  PROVE  /\ TableMap(from) \in MapOf(STRING)
         /\ DOMAIN TableMap(from) = {NameOf(from[m]) : m \in DOMAIN from}
         /\ \A name \in DOMAIN TableMap(from) :
              /\ TableMap(from)[name] \in DOMAIN from
              /\ NameOf(from[TableMap(from)[name]]) = name
<1> DEFINE D == {NameOf(from[m]) : m \in DOMAIN from}
           A(name) == {m \in DOMAIN from : from[m].as # "" /\ from[m].as = name}
           B(name) == {m \in DOMAIN from : from[m].as = "" /\ from[m].table = name}
           val(name) == IF A(name) # {} THEN Max(A(name)) ELSE Min(B(name))
<1>1. TableMap(from) = [name \in D |-> val(name)]
  BY DEF TableMap
<1>2. ASSUME NEW name \in D PROVE val(name) \in DOMAIN from /\ NameOf(from[val(name)]) = name
  <2>1. CASE A(name) # {}
    <3>1. A(name) \in SUBSET (0..Len(from)) /\ Len(from) \in Nat
      <4>1. \A m \in A(name) : m \in 0..Len(from)
        BY FromIs
      <4> QED
        BY <4>1, FromIs
    <3>2. Max(A(name)) \in A(name)
      <4> HIDE DEF A
      <4> QED
        BY <3>1, <2>1, MaxIn
    <3> QED
      BY <2>1, <3>2 DEF NameOf
  <2>2. CASE A(name) = {}
    <3>1. PICK m \in DOMAIN from : name = NameOf(from[m])
      OBVIOUS
    <3>2. m \in B(name)
      BY <2>2, <3>1 DEF NameOf
    <3>3. B(name) \in SUBSET Nat
      <4>1. ASSUME NEW n \in B(name) PROVE n \in Nat
        <5>1. n \in DOMAIN from
          OBVIOUS
        <5> HIDE DEF B
        <5> QED
          BY <5>1
      <4> QED
        BY <4>1
    <3>4. Min(B(name)) \in B(name)
      <4> HIDE DEF B
      <4> QED
        BY <3>2, <3>3, MinIn
    <3> QED
      BY <2>2, <3>4 DEF NameOf
  <2> QED
    BY <2>1, <2>2
<1>3. D \in SUBSET STRING
  <2>1. \A m \in DOMAIN from : NameOf(from[m]) \in STRING
    BY FromIs
  <2> QED
    BY <2>1
<1> HIDE DEF D, val
<1>4. TableMap(from) \in [D -> Nat]
  <2>1. \A name \in D : val(name) \in Nat
    BY <1>2, FromIs
  <2> QED
    BY <1>1, <2>1
<1> QED
  BY <1>1, <1>2, <1>3, <1>4 DEF MapOf, D

\* A table of a database that is in db_map leads to that table without an alias.
LEMMA DbIs ==
  ASSUME NEW from \in Seq(FromEntry)
  PROVE  /\ DbMap(from) \in MapOf(Optional \X STRING)
         /\ DOMAIN DbMap(from) = {<<from[m].db, from[m].table>> : m \in {n \in DOMAIN from : from[n].as = ""}}
         /\ \A key \in DOMAIN DbMap(from) :
              LET m == DbMap(from)[key]
              IN  m \in DOMAIN from /\ from[m].as = "" /\ <<from[m].db, from[m].table>> = key
<1> DEFINE plain == {m \in DOMAIN from : from[m].as = ""}
           D == {<<from[m].db, from[m].table>> : m \in plain}
           S(key) == {m \in plain : <<from[m].db, from[m].table>> = key}
<1>1. DbMap(from) = [key \in D |-> Max(S(key))]
  BY DEF DbMap
<1>2. ASSUME NEW key \in D PROVE Max(S(key)) \in S(key)
  <2>1. S(key) \in SUBSET (0..Len(from)) /\ Len(from) \in Nat
    <3>1. \A m \in S(key) : m \in 0..Len(from)
      BY FromIs
    <3> QED
      BY <3>1, FromIs
  <2>2. S(key) # {}
    <3>1. PICK m \in plain : key = <<from[m].db, from[m].table>>
      OBVIOUS
    <3> QED
      BY <3>1
  <2> HIDE DEF S
  <2> QED
    BY <2>1, <2>2, MaxIn
<1>3. D \in SUBSET (Optional \X STRING)
  <2>1. \A m \in plain : <<from[m].db, from[m].table>> \in Optional \X STRING
    BY FromIs
  <2> QED
    BY <2>1
<1>4. ASSUME NEW key \in D
      PROVE  /\ Max(S(key)) \in DOMAIN from /\ from[Max(S(key))].as = ""
             /\ <<from[Max(S(key))].db, from[Max(S(key))].table>> = key /\ Max(S(key)) \in Nat
  <2>1. Max(S(key)) \in plain /\ <<from[Max(S(key))].db, from[Max(S(key))].table>> = key
    BY <1>2
  <2>2. Max(S(key)) \in DOMAIN from /\ from[Max(S(key))].as = ""
    BY <2>1
  <2>3. Max(S(key)) \in Nat
    <3>2. \A m \in DOMAIN from : m \in Nat
      BY FromIs, Zenon
    <3> HIDE DEF S
    <3> QED
      BY <2>2, <3>2
  <2> HIDE DEF S
  <2> QED
    BY <2>1, <2>2, <2>3
<1>5. DbMap(from) \in [D -> Nat]
  <2> HIDE DEF D, S
  <2> QED
    BY <1>1, <1>4
<1> HIDE DEF S
<1> QED
  BY <1>1, <1>3, <1>4, <1>5 DEF MapOf

\* The steps of the walk.  An alias may be meant in ORDER BY, where there is no star.
Step == {s \in [ref : Reference, aliases : BOOLEAN] : s.aliases => s.ref[3] # "*"}

Plainly(refs) == [k \in DOMAIN refs |-> [ref |-> refs[k], aliases |-> FALSE]]

\* References that cannot mean a result, as steps of the walk.
LEMMA PlainIs ==
  ASSUME NEW refs \in Seq(Reference)
  PROVE  /\ Plainly(refs) \in Seq(Step) /\ Len(Plainly(refs)) = Len(refs)
         /\ \A k \in DOMAIN refs : Plainly(refs)[k] = [ref |-> refs[k], aliases |-> FALSE]
<1>1. DOMAIN refs = 1..Len(refs) /\ Len(refs) \in Nat
  OBVIOUS
<1>2. \A k \in 1..Len(refs) : refs[k] \in Reference
  OBVIOUS
<1>3. \A k \in 1..Len(refs) : [ref |-> refs[k], aliases |-> FALSE] \in Step
  BY <1>2 DEF Step
<1>4. Plainly(refs) = [k \in 1..Len(refs) |-> [ref |-> refs[k], aliases |-> FALSE]]
  BY <1>1 DEF Plainly
<1> HIDE DEF Plainly
<1> QED
  BY <1>1, <1>3, <1>4

\* The part b of a concatenation.
LEMMA Within ==
  ASSUME NEW S, NEW a \in Seq(S), NEW b \in Seq(S), NEW c \in Seq(S), NEW k \in 1..Len(b)
  PROVE  /\ Len(a) + k \in 1..Len((a \o b) \o c)
         /\ ((a \o b) \o c)[Len(a) + k] = b[k]
<1>1. Len(a) \in Nat /\ Len(b) \in Nat /\ Len(c) \in Nat
  OBVIOUS
<1>2. a \o b \in Seq(S) /\ Len(a \o b) = Len(a) + Len(b) /\ (a \o b)[Len(a) + k] = b[k]
  BY <1>1
<1>3. Len((a \o b) \o c) = Len(a \o b) + Len(c)
  BY <1>2
<1>4. Len(a) + k \in 1..Len(a \o b)
  BY <1>1, <1>2
<1>5. ((a \o b) \o c)[Len(a) + k] = (a \o b)[Len(a) + k]
  BY <1>2, <1>4
<1> QED
  BY <1>1, <1>2, <1>3, <1>4, <1>5

\* Sequences with the same elements are the same.
LEMMA SameElements ==
  ASSUME NEW S, NEW q \in Seq(S), NEW t \in Seq(S), Len(q) = Len(t), \A k \in 1..Len(q) : q[k] = t[k]
  PROVE  q = t
OBVIOUS

\* Concatenation is associative.
LEMMA ConcatAssoc ==
  ASSUME NEW S, NEW a \in Seq(S), NEW b \in Seq(S), NEW c \in Seq(S)
  PROVE  (a \o b) \o c = a \o (b \o c)
<1>1. Len(a) \in Nat /\ Len(b) \in Nat /\ Len(c) \in Nat
  OBVIOUS
<1>2. a \o b \in Seq(S) /\ b \o c \in Seq(S) /\ Len(a \o b) = Len(a) + Len(b)
      /\ Len(b \o c) = Len(b) + Len(c)
  BY <1>1
<1>3. (a \o b) \o c \in Seq(S) /\ a \o (b \o c) \in Seq(S)
  BY <1>2
<1>4. Len((a \o b) \o c) = Len(a) + Len(b) + Len(c) /\ Len(a \o (b \o c)) = Len(a) + Len(b) + Len(c)
  BY <1>1, <1>2
<1>5. ASSUME NEW k \in 1..(Len(a) + Len(b) + Len(c))
      PROVE  ((a \o b) \o c)[k] = (a \o (b \o c))[k]
  <2>1. CASE k <= Len(a)
    BY <1>1, <1>2, <2>1
  <2>2. CASE k > Len(a) /\ k <= Len(a) + Len(b)
    BY <1>1, <1>2, <2>2
  <2>3. CASE k > Len(a) + Len(b)
    BY <1>1, <1>2, <2>3
  <2> QED
    BY <1>1, <2>1, <2>2, <2>3
<1> QED
  BY ONLY <1>3, <1>4, <1>5, SameElements

\* The walk consists of steps; the columns follow the conditions of the joins.
LEMMA WalkIs ==
  ASSUME NEW st \in Statement, \A k \in DOMAIN st.order : st.order[k][3] # "*"
  PROVE  /\ Walk(st) \in Seq(Step) /\ OnRefs(st) \in Nat
         /\ \A k \in DOMAIN st.columns :
              /\ OnRefs(st) + k \in 1..Len(Walk(st))
              /\ Walk(st)[OnRefs(st) + k] = [ref |-> st.columns[k].ref, aliases |-> FALSE]
<1> DEFINE ons == FlattenSeq([m \in DOMAIN st.from |-> st.from[m].on])
           refs == [k \in DOMAIN st.columns |-> st.columns[k].ref]
           reads == FlattenSeq([k \in DOMAIN st.set |-> Append(st.set[k].reads, st.set[k].ref)])
           sorts == [k \in DOMAIN st.order |-> [ref |-> st.order[k], aliases |-> TRUE]]
<1>1. /\ st.from \in Seq(FromEntry) /\ st.columns \in Seq([ref : Reference, as : Optional])
      /\ st.set \in Seq([ref : Reference, reads : Seq(Reference)])
      /\ st.where \in Seq(Reference) /\ st.group \in Seq(Reference) /\ st.order \in Seq(Reference)
  BY DEF Statement
<1>2. ons \in Seq(Reference)
  <2>1. [m \in DOMAIN st.from |-> st.from[m].on] \in Seq(Seq(Reference))
    <3>1. Len(st.from) \in Nat /\ DOMAIN st.from = 1..Len(st.from)
          /\ \A m \in DOMAIN st.from : st.from[m].on \in Seq(Reference)
      BY <1>1, FromIs
    <3> QED
      BY <3>1
  <2> QED
    BY <2>1, FlattenType
<1>3. refs \in Seq(Reference) /\ DOMAIN refs = DOMAIN st.columns /\ Len(refs) = Len(st.columns)
  <2>1. Len(st.columns) \in Nat /\ DOMAIN st.columns = 1..Len(st.columns)
    BY <1>1
  <2> HIDE DEF refs, ons, reads, sorts
  <2>2. \A k \in 1..Len(st.columns) : st.columns[k] \in [ref : Reference, as : Optional]
    <3>1. \A S : \A q \in Seq(S) : \A m \in 1..Len(q) : q[m] \in S
      OBVIOUS
    <3> QED
      BY ONLY <1>1, <3>1
  <2>3. \A k \in 1..Len(st.columns) : st.columns[k].ref \in Reference
    BY <2>2
  <2>4. refs = [k \in 1..Len(st.columns) |-> st.columns[k].ref]
    BY <2>1 DEF refs
  <2> QED
    BY <2>1, <2>3, <2>4
<1>4. reads \in Seq(Reference)
  <2>1. ASSUME NEW k \in DOMAIN st.set PROVE Append(st.set[k].reads, st.set[k].ref) \in Seq(Reference)
    <3>1. \A S : \A q \in Seq(S) : \A m \in DOMAIN q : q[m] \in S
      OBVIOUS
    <3>2. st.set[k] \in [ref : Reference, reads : Seq(Reference)]
      BY ONLY <1>1, <3>1, k \in DOMAIN st.set
    <3> QED
      BY <3>2
  <2>2. DOMAIN st.set = 1..Len(st.set) /\ Len(st.set) \in Nat
    BY <1>1
  <2>3. [k \in DOMAIN st.set |-> Append(st.set[k].reads, st.set[k].ref)] \in Seq(Seq(Reference))
    BY <2>1, <2>2
  <2> QED
    BY <2>3, FlattenType
<1>5. sorts \in Seq(Step)
  <2>1. ASSUME NEW k \in DOMAIN st.order PROVE [ref |-> st.order[k], aliases |-> TRUE] \in Step
    <3>1. st.order[k] \in Reference
      BY <1>1
    <3> QED
      BY <3>1 DEF Step
  <2>2. DOMAIN st.order = 1..Len(st.order) /\ Len(st.order) \in Nat
    BY <1>1
  <2> QED
    BY <2>1, <2>2
<1> DEFINE a == Plainly(ons)
           b == Plainly(refs)
           w == Plainly(st.where)
           r == Plainly(reads)
           g == Plainly(st.group)
           c == ((w \o r) \o g) \o sorts
<1>6. Walk(st) = ((((a \o b) \o w) \o r) \o g) \o sorts
  BY DEF Walk, Plainly
<1>7. OnRefs(st) = Len(ons)
  BY DEF OnRefs
<1> HIDE DEF ons, refs, reads, sorts
<1>8. /\ a \in Seq(Step) /\ b \in Seq(Step) /\ w \in Seq(Step) /\ r \in Seq(Step) /\ g \in Seq(Step)
      /\ Len(a) = Len(ons) /\ Len(b) = Len(st.columns)
  BY <1>1, <1>2, <1>3, <1>4, PlainIs
<1>9. ASSUME NEW k \in DOMAIN st.columns
      PROVE  k \in 1..Len(b) /\ b[k] = [ref |-> st.columns[k].ref, aliases |-> FALSE]
  <2>1. refs[k] = st.columns[k].ref
    BY DEF refs
  <2>2. b[k] = [ref |-> refs[k], aliases |-> FALSE]
    BY <1>3, PlainIs
  <2>3. k \in 1..Len(b)
    BY <1>1, <1>8
  <2> QED
    BY <2>1, <2>2, <2>3
<1> HIDE DEF a, b, w, r, g
<1>10. c \in Seq(Step) /\ Walk(st) = (a \o b) \o c
  <2>0. \A q, t, u \in Seq(Step) : (q \o t) \o u = q \o (t \o u)
    <3> TAKE q, t, u \in Seq(Step)
    <3> QED
      BY ONLY ConcatAssoc, q \in Seq(Step), t \in Seq(Step), u \in Seq(Step)
  <2>1. w \o r \in Seq(Step)
    BY <1>8, ConcatIs
  <2>6. (w \o r) \o g \in Seq(Step)
    BY <1>8, <2>1, ConcatIs
  <2>7. c \in Seq(Step)
    BY <1>5, <2>6, ConcatIs
  <2>2. a \o b \in Seq(Step)
    BY <1>8, ConcatIs
  <2>3. ((a \o b) \o w) \o r = (a \o b) \o (w \o r)
    BY <2>2, <1>8, <2>0
  <2>4. ((a \o b) \o (w \o r)) \o g = (a \o b) \o ((w \o r) \o g)
    <3>1. g \in Seq(Step)
      BY <1>8
    <3>2. \A q, t \in Seq(Step) : (q \o t) \o g = q \o (t \o g)
      BY ONLY <2>0, <3>1
    <3> QED
      BY ONLY <2>1, <2>2, <3>2
  <2>5. ((a \o b) \o ((w \o r) \o g)) \o sorts = (a \o b) \o c
    BY <2>6, <2>2, <1>5, <2>0
  <2> QED
    BY <2>7, <2>3, <2>4, <2>5, <1>6
<1>11. (a \o b) \o c \in Seq(Step)
  BY <1>8, <1>10, ConcatIs
<1> HIDE DEF c
<1>12. \A k \in DOMAIN st.columns : /\ Len(a) + k \in 1..Len((a \o b) \o c)
                                   /\ ((a \o b) \o c)[Len(a) + k] = b[k]
  BY <1>8, <1>9, <1>10, Within
<1>13. Len(a) \in Nat
  BY <1>8
<1> QED
  BY <1>7, <1>8, <1>9, <1>10, <1>11, <1>12, <1>13

\* FROM with its databases and its conditions.
LEMMA FilledIs ==
  ASSUME NEW st \in Statement
  PROVE  LET from == Joined(Filled(st))
         IN  /\ from \in Seq(FromEntry) /\ Len(from) = Len(st.from)
             /\ \A m \in DOMAIN st.from :
                  /\ from[m].db = DbOf(st, m) /\ from[m].table = st.from[m].table
                  /\ from[m].as = st.from[m].as /\ from[m].using = st.from[m].using
                  /\ from[m].join = st.from[m].join
<1>1. st.from \in Seq(FromEntry) /\ st.database \in Optional
  BY DEF Statement
<1>2. /\ Len(st.from) \in Nat /\ DOMAIN st.from = 1..Len(st.from)
      /\ \A m \in DOMAIN st.from : st.from[m] \in FromEntry
  BY <1>1, FromIs
<1> DEFINE from == Filled(st)
<1>3. ASSUME NEW m \in DOMAIN st.from
      PROVE  /\ from[m] \in FromEntry /\ from[m].db = DbOf(st, m) /\ from[m].table = st.from[m].table
             /\ from[m].as = st.from[m].as /\ from[m].using = st.from[m].using
             /\ from[m].join = st.from[m].join
  <2>1. st.from[m] \in FromEntry /\ DbOf(st, m) \in Optional
    BY <1>1, <1>2 DEF DbOf, FromEntry
  <2>2. from[m] = [st.from[m] EXCEPT !.db = DbOf(st, m)]
    BY DEF Filled
  <2> QED
    BY <2>1, <2>2 DEF FromEntry
<1>4. DOMAIN from = 1..Len(st.from)
  BY <1>2 DEF Filled
<1>5. from \in Seq(FromEntry) /\ Len(from) = Len(st.from)
  <2>1. from = [m \in 1..Len(st.from) |-> from[m]]
    BY <1>2 DEF Filled
  <2> HIDE DEF from
  <2>2. \A m \in 1..Len(st.from) : from[m] \in FromEntry
    BY <1>2, <1>3
  <2>3. from \in [1..Len(st.from) -> FromEntry]
    BY <2>1, <2>2
  <2> QED
    BY <1>2, <2>3
<1> HIDE DEF from
<1>6. ASSUME NEW m \in DOMAIN st.from PROVE buildUsingCondition(from, m, from[m].using) \in Seq(Reference)
  <2>1. from[m].using \in Seq(STRING) /\ \A l \in 1..Len(from) : NameOf(from[l]) \in STRING
    BY <1>2, <1>4, <1>5, FromIs
  <2> DEFINE columns == from[m].using
             list(k) == [l \in 1..m |-> Ref(NameOf(from[l]), columns[k])]
  <2>2. Len(columns) \in Nat /\ DOMAIN columns = 1..Len(columns) /\ \A k \in DOMAIN columns : columns[k] \in STRING
    BY <2>1
  <2>3. m \in Nat /\ \A l \in 1..m : NameOf(from[l]) \in STRING
    BY <1>2, <1>5, <2>1
  <2>4. ASSUME NEW k \in DOMAIN columns PROVE list(k) \in Seq(Reference)
    <3>1. ASSUME NEW l \in 1..m PROVE Ref(NameOf(from[l]), columns[k]) \in Reference
      <4>1. NameOf(from[l]) \in STRING /\ columns[k] \in STRING
        BY <2>2, <2>3
      <4> HIDE DEF columns
      <4>2. Ref(NameOf(from[l]), columns[k]) \in Optional \X Optional \X STRING
        <5> HIDE DEF from
        <5>1. \A e, f \in Optional : \A x \in STRING : <<e, f, x>> \in Optional \X Optional \X STRING
          OBVIOUS
        <5>2. "" \in Optional /\ STRING \subseteq Optional
          BY DEF Optional
        <5> QED
          BY <4>1, <5>1, <5>2, Zenon DEF Ref
      <4>3. Ref(NameOf(from[l]), columns[k])[1] = ""
        BY DEF Ref
      <4> QED
        BY <4>2, <4>3 DEF Reference
    <3> QED
      BY <2>3, <3>1
  <2>5. buildUsingCondition(from, m, columns) = FlattenSeq([k \in 1..Len(columns) |-> list(k)])
    BY <2>2 DEF buildUsingCondition
  <2>6. [k \in 1..Len(columns) |-> list(k)] \in Seq(Seq(Reference))
    <3> HIDE DEF list, columns
    <3> QED
      BY <2>2, <2>4
  <2> QED
    BY <2>5, <2>6, FlattenType
<1> DEFINE joined == Joined(from)
<1>7. ASSUME NEW m \in DOMAIN st.from
      PROVE  /\ joined[m] \in FromEntry /\ joined[m].db = from[m].db /\ joined[m].table = from[m].table
             /\ joined[m].as = from[m].as /\ joined[m].using = from[m].using
             /\ joined[m].join = from[m].join
  <2>1. joined[m] = [from[m] EXCEPT !.on = buildUsingCondition(from, m, from[m].using)]
        \/ joined[m] = from[m]
    BY <1>2, <1>4 DEF Joined
  <2> HIDE DEF joined
  <2> QED
    BY <2>1, <1>3, <1>6 DEF FromEntry
<1>8. joined = [m \in 1..Len(st.from) |-> joined[m]]
  BY <1>4 DEF Joined
<1> HIDE DEF joined
<1>9. joined \in Seq(FromEntry) /\ Len(joined) = Len(st.from)
  BY <1>2, <1>7, <1>8
<1> QED
  BY <1>3, <1>7, <1>9 DEF joined, from

-----------------------------------------------------------------------------
(* The inductive invariant.                                                *)

Found == {<<"star">>} \cup ({"table", "result"} \X Nat)

NamesType ==
  names \in [pc : {"tables", "walk", "done", "failed"}, st : Statement,
             err : {"", "no_current_database", "db_not_found", "table_not_found"},
             tables : MapOf(STRING), dbs : MapOf(Optional \X STRING), using : MapOf(STRING),
             cache : MapOf(STRING), sets : Seq(SUBSET STRING), all : SUBSET Nat,
             found : Seq(Found), targets : Seq(Nat), result : Seq(Nat \X STRING)]

\* The tables of the statement are known, and the maps are theirs.
StatementKnown ==
  LET from == names.st.from
  IN  /\ from # <<>> /\ Len(names.sets) = Len(from)
      /\ \A k \in DOMAIN names.st.order : names.st.order[k][3] # "*"
      /\ \A m \in DOMAIN from : ColumnsAt(m) \in Seq(STRING)
      /\ \A m \in DOMAIN from : \A c \in Range(from[m].using) : \E j \in 1..(m - 1) : HasColumn(j, c)
      /\ names.tables = TableMap(from) /\ names.dbs = DbMap(from)
      /\ \A c \in STRING : c \in DOMAIN names.using <=> SharedBy(c) # {}
      /\ \A c \in DOMAIN names.using : names.using[c] = 1

\* The reference m names a table for a column.
Says(m, column) == Walk(names.st)[m].ref[2] # "" /\ Walk(names.st)[m].ref[3] = column

\* What an unqualified name that no USING has is taken for.
Told(n, column, table) ==
  \/ \E m \in 1..(n - 1) : Says(m, column) /\ names.found[m] = <<"table", table>>
  \/ table = 1 /\ \A m \in 1..(n - 1) : ~Says(m, column)

FoundTable(ref, n) ==
  \E table \in DOMAIN names.st.from :
    /\ names.found[n] = <<"table", table>> /\ ref[3] \in names.sets[table]
    /\ IF ref[2] # "" THEN table \in Named(ref)
       ELSE IF SharedBy(ref[3]) # {} THEN table = 1 ELSE Told(n, ref[3], table)

FoundRight(n) ==
  LET step == Walk(names.st)[n]
  IN  /\ step.ref[2] # "" => Named(step.ref) # {}
      /\ IF step.ref[3] = "*" THEN names.found[n] = <<"star">>
         ELSE IF Aliased(step) THEN names.found[n] = <<"result", ResultIndex(names.st, step.ref[3])>>
         ELSE FoundTable(step.ref, n)

\* name_cache holds what the qualified references said.
CacheRight ==
  /\ \A c \in DOMAIN names.cache :
       /\ names.cache[c] \in DOMAIN names.st.from
       /\ \E m \in 1..Len(names.found) : Says(m, c) /\ names.found[m] = <<"table", names.cache[c]>>
  /\ \A m \in 1..Len(names.found) : \A c \in STRING : Says(m, c) /\ c # "*" => c \in DOMAIN names.cache

Walking ==
  /\ StatementKnown
  /\ Len(names.found) <= Len(Walk(names.st))
  /\ \A n \in 1..Len(names.found) : FoundRight(n)
  /\ CacheRight

Finished ==
  /\ Len(names.found) = Len(Walk(names.st))
  /\ names.result = FlattenSeq([k \in DOMAIN names.st.columns |-> Shown(k)])

NInv ==
  /\ NamesType
  /\ names.pc = "tables" =>
       names.st \in Statements /\ Len(names.sets) = Len(names.st.from) /\ names.found = <<>>
         /\ names.cache = <<>>
  /\ names.pc \in {"walk", "done"} => Walking
  /\ names.pc = "done" => Finished
  /\ RefusedRightly

-----------------------------------------------------------------------------
(* Names and maps.                                                         *)

\* The maps lead to what a qualified reference names.
LEMMA NamedIs ==
  ASSUME names.st.from \in Seq(FromEntry),
         names.tables = TableMap(names.st.from), names.dbs = DbMap(names.st.from),
         NEW ref \in Reference, ref[2] # ""
  PROVE  /\ Named(ref) \subseteq DOMAIN names.st.from
         /\ ref[1] # "" =>
              /\ <<ref[1], ref[2]>> \in DOMAIN names.dbs => names.dbs[<<ref[1], ref[2]>>] \in Named(ref)
              /\ Named(ref) # {} => <<ref[1], ref[2]>> \in DOMAIN names.dbs
         /\ ref[1] = "" =>
              /\ ref[2] \in DOMAIN names.tables => names.tables[ref[2]] \in Named(ref)
              /\ Named(ref) # {} => ref[2] \in DOMAIN names.tables
<1> DEFINE from == names.st.from
<1>1. CASE ref[1] # ""
  <2> DEFINE key == <<ref[1], ref[2]>>
  <2>1. Named(ref) = {m \in DOMAIN from : from[m].as = "" /\ key = <<from[m].db, from[m].table>>}
    BY <1>1 DEF Named
  <2>2. /\ DOMAIN names.dbs = {<<from[m].db, from[m].table>> : m \in {n \in DOMAIN from : from[n].as = ""}}
        /\ key \in DOMAIN names.dbs => /\ names.dbs[key] \in DOMAIN from /\ from[names.dbs[key]].as = ""
                                       /\ <<from[names.dbs[key]].db, from[names.dbs[key]].table>> = key
    <3>1. from \in Seq(FromEntry) /\ names.dbs = DbMap(from)
      OBVIOUS
    <3> HIDE DEF key, from
    <3> QED
      BY ONLY <3>1, DbIs
  <2> HIDE DEF key, from
  <2>3. key \in DOMAIN names.dbs => names.dbs[key] \in Named(ref)
    BY <2>1, <2>2
  <2>4. Named(ref) # {} => key \in DOMAIN names.dbs
    BY <2>1, <2>2
  <2>5. Named(ref) \subseteq DOMAIN from
    BY <2>1
  <2> QED
    BY <1>1, <2>3, <2>4, <2>5 DEF key, from
<1>2. CASE ref[1] = ""
  <2>1. Named(ref) = {m \in DOMAIN from : NameOf(from[m]) = ref[2]}
    BY <1>2 DEF Named
  <2>2. /\ DOMAIN names.tables = {NameOf(from[m]) : m \in DOMAIN from}
        /\ ref[2] \in DOMAIN names.tables => /\ names.tables[ref[2]] \in DOMAIN from
                                             /\ NameOf(from[names.tables[ref[2]]]) = ref[2]
    <3>1. from \in Seq(FromEntry) /\ names.tables = TableMap(from)
      OBVIOUS
    <3> HIDE DEF from
    <3>2. /\ DOMAIN TableMap(from) = {NameOf(from[m]) : m \in DOMAIN from}
          /\ \A name \in DOMAIN TableMap(from) :
               TableMap(from)[name] \in DOMAIN from /\ NameOf(from[TableMap(from)[name]]) = name
      BY ONLY <3>1, TableIs
    <3> QED
      BY ONLY <3>1, <3>2
  <2> HIDE DEF from
  <2> QED
    BY <1>2, <2>1, <2>2 DEF from
<1> QED
  BY <1>1, <1>2

\* A name among the results is a place in the select list.
LEMMA ResultIs ==
  ASSUME NEW st \in Statement, NEW column
  PROVE  ResultIndex(st, column) \in 0..Len(st.columns) /\ Len(st.columns) \in Nat
         /\ DOMAIN st.columns = 1..Len(st.columns)
<1> DEFINE A == {k \in DOMAIN st.columns :
                   column = IF st.columns[k].as # "" THEN st.columns[k].as ELSE st.columns[k].ref[3]}
<1>1. st.columns \in Seq([ref : Reference, as : Optional])
  BY DEF Statement
<1>2. Len(st.columns) \in Nat /\ DOMAIN st.columns = 1..Len(st.columns)
  BY <1>1
<1>3. ResultIndex(st, column) = Max({0} \cup A)
  BY DEF ResultIndex
<1>4. A \subseteq 1..Len(st.columns)
  BY <1>2
<1> HIDE DEF A
<1>5. {0} \cup A \in SUBSET (0..Len(st.columns)) /\ {0} \cup A # {}
  BY <1>2, <1>4
<1>6. Max({0} \cup A) \in {0} \cup A
  BY <1>2, <1>5, MaxIn
<1> QED
  BY <1>2, <1>3, <1>5, <1>6

\* What a statement of the run or the program is.
LEMMA StatementIs ==
  ASSUME NEW st \in Statements
  PROVE  /\ st \in Statement /\ st.from \in Seq(FromEntry) /\ st.from # <<>>
         /\ st.from[1].using = <<>>
         /\ \A k \in DOMAIN st.order : st.order[k][3] # "*"
         /\ \A m \in DOMAIN st.from :
              DbOf(st, m) # "" => ColumnsOf[<<DbOf(st, m), st.from[m].table>>] \in Seq(STRING)
         /\ \A m \in DOMAIN st.from : \A c \in Range(st.from[m].using) :
              \E j \in 1..(m - 1) : DbOf(st, j) # "" =>
                c \in Range(ColumnsOf[<<DbOf(st, j), st.from[j].table>>])
  BY StatementsAssumption, UsingAssumption DEF Statement

-----------------------------------------------------------------------------
(* The steps.                                                              *)

\* The empty sequence is also the empty map.
LEMMA EmptyIs ==
  /\ \A S : <<>> \in MapOf(S)
  /\ <<>> \in Seq(Found) /\ <<>> \in Seq(Nat) /\ <<>> \in Seq(Nat \X STRING)
<1>1. ASSUME NEW S PROVE <<>> \in MapOf(S)
  <2>1. <<>> \in [{} -> Nat]
    OBVIOUS
  <2> QED
    BY <2>1 DEF MapOf
<1> QED
  BY <1>1

\* NInv holds before anything is resolved.
LEMMA NamesStart ==
  NamesInit => NInv
<1> SUFFICES ASSUME NamesInit PROVE NInv
  OBVIOUS
<1>1. PICK st \in Statements :
        names = [pc |-> "tables", st |-> st, err |-> "", tables |-> <<>>, dbs |-> <<>>,
                 using |-> <<>>, cache |-> <<>>, sets |-> [m \in DOMAIN st.from |-> {}],
                 all |-> {}, found |-> <<>>, targets |-> <<>>, result |-> <<>>]
  BY DEF NamesInit
<1>2. st \in Statement /\ st.from \in Seq(FromEntry)
  BY StatementIs
<1>3. [m \in DOMAIN st.from |-> {}] \in Seq(SUBSET STRING) /\ Len([m \in DOMAIN st.from |-> {}]) = Len(st.from)
  <2>1. Len(st.from) \in Nat /\ DOMAIN st.from = 1..Len(st.from)
    BY <1>2
  <2>2. [m \in DOMAIN st.from |-> {}] = [m \in 1..Len(st.from) |-> {}]
    BY <2>1
  <2> QED
    BY <2>1, <2>2
<1>4. NamesType
  BY <1>1, <1>2, <1>3, EmptyIs DEF NamesType
<1> QED
  BY <1>1, <1>3, <1>4 DEF NInv, RefusedRightly

\* A step that refuses a statement has a reason to.
LEMMA Refused ==
  ASSUME NInv, NEW err \in {"no_current_database", "db_not_found", "table_not_found"}, Fail(err),
         \/ \E n \in DOMAIN Walk(names.st) :
              Walk(names.st)[n].ref[2] # "" /\ Named(Walk(names.st)[n].ref) = {}
         \/ \E t \in Range(names.st.targets) : Named(<<t[1], t[2], "">>) = {}
         \/ names.st.database = "" /\ \E entry \in Range(names.st.from) : entry.db = ""
  PROVE  NInv'
<1>1. NamesType
  BY DEF NInv
<1>2. NamesType' /\ names'.pc = "failed" /\ names'.st = names.st
  BY <1>1 DEF Fail, NamesType
<1>3. \A ref : Named(ref)' = Named(ref)
  BY <1>2 DEF Named
<1>4. RefusedRightly'
  BY <1>2, <1>3 DEF RefusedRightly
<1> QED
  BY <1>2, <1>4 DEF NInv

\* A pair is made of its two parts.
LEMMA PairIs ==
  ASSUME NEW X, NEW Y, NEW t \in X \X Y
  PROVE  t = <<t[1], t[2]>>
OBVIOUS

\* A sequence that is not empty has a first element.
LEMMA FirstIs ==
  ASSUME NEW S, NEW q \in Seq(S), q # <<>>
  PROVE  1 \in DOMAIN q
OBVIOUS

\* A table that DELETE names and the maps do not have is not in FROM.
LEMMA TargetIs ==
  ASSUME NEW st \in Statement, st = names.st, NEW from, from = Joined(Filled(st)),
         NEW t \in Optional \X STRING,
         IF t[1] # "" THEN t \notin DOMAIN DbMap(from) ELSE t[2] \notin DOMAIN TableMap(from)
  PROVE  Named(<<t[1], t[2], "">>) = {}
<1> DEFINE ref == <<t[1], t[2], "">>
<1>1. /\ from \in Seq(FromEntry) /\ Len(from) = Len(st.from) /\ st.from \in Seq(FromEntry)
      /\ \A m \in DOMAIN st.from :
           /\ from[m].db = DbOf(st, m) /\ from[m].table = st.from[m].table
           /\ from[m].as = st.from[m].as
  <2>1. st.from \in Seq(FromEntry)
    BY DEF Statement
  <2> QED
    BY ONLY st \in Statement, from = Joined(Filled(st)), <2>1, FilledIs
<1>2. DOMAIN st.from = 1..Len(st.from) /\ DOMAIN from = DOMAIN st.from
  BY <1>1, FromIs
<1>3. ASSUME NEW m \in Named(ref) PROVE FALSE
  <2>1. m \in DOMAIN from /\ m \in DOMAIN st.from
    BY <1>2 DEF Named
  <2>2. CASE t[1] # ""
    <3>1. st.from[m].as = "" /\ t[1] = st.from[m].db /\ t[2] = st.from[m].table
      BY <2>2 DEF Named
    <3>2. from[m].as = "" /\ t[1] = from[m].db /\ t[2] = from[m].table
      BY <1>1, <2>1, <2>2, <3>1 DEF DbOf
    <3>3. t = <<from[m].db, from[m].table>>
      <4>1. t = <<t[1], t[2]>>
        BY PairIs
      <4> QED
        BY <3>2, <4>1, Zenon
    <3>4. t \in {<<from[n].db, from[n].table>> : n \in {l \in DOMAIN from : from[l].as = ""}}
      BY <2>1, <3>2, <3>3
    <3> QED
      BY <1>1, <2>2, <3>4, DbIs
  <2>3. CASE t[1] = ""
    <3>1. NameOf(st.from[m]) = t[2]
      BY <2>3 DEF Named
    <3>2. NameOf(from[m]) = t[2]
      BY <1>1, <2>1, <3>1 DEF NameOf
    <3>3. t[2] \in {NameOf(from[n]) : n \in DOMAIN from}
      BY <2>1, <3>2
    <3> QED
      BY <1>1, <2>3, <3>3, TableIs
  <2> QED
    BY <2>2, <2>3
<1> QED
  BY <1>3

\* The maps of FROM keep NInv: what they refuse, FROM does not have.
LEMMA TablesStep ==
  ASSUME NInv, Tables
  PROVE  NInv'
<1> DEFINE st == names.st
           from == Joined(Filled(st))
           tables == TableMap(from)
           dbs == DbMap(from)
           joinedBy == UNION {Range(from[m].using) : m \in 2..Len(from)}
           Entry(t) == IF t[1] # "" THEN IF t \in DOMAIN dbs THEN dbs[t] ELSE 0
                       ELSE IF t[2] \in DOMAIN tables THEN tables[t[2]] ELSE 0
           entries == [k \in DOMAIN st.targets |-> Entry(st.targets[k])]
           naturals == IF \E m \in DOMAIN from : Natural(from[m]) THEN DOMAIN from ELSE {}
<1>1. /\ names.pc = "tables" /\ NamesType /\ st \in Statements /\ Len(names.sets) = Len(st.from)
      /\ names.found = <<>> /\ names.cache = <<>>
  BY DEF NInv, Tables
<1>2. /\ st \in Statement /\ st.from \in Seq(FromEntry) /\ st.from # <<>> /\ st.from[1].using = <<>>
      /\ \A k \in DOMAIN st.order : st.order[k][3] # "*"
      /\ \A m \in DOMAIN st.from :
           DbOf(st, m) # "" => ColumnsOf[<<DbOf(st, m), st.from[m].table>>] \in Seq(STRING)
      /\ \A m \in DOMAIN st.from : \A c \in Range(st.from[m].using) :
           \E j \in 1..(m - 1) : DbOf(st, j) # "" =>
             c \in Range(ColumnsOf[<<DbOf(st, j), st.from[j].table>>])
  BY <1>1, StatementIs
<1>3. /\ from \in Seq(FromEntry) /\ Len(from) = Len(st.from)
      /\ \A m \in DOMAIN st.from :
           /\ from[m].db = DbOf(st, m) /\ from[m].table = st.from[m].table
           /\ from[m].as = st.from[m].as /\ from[m].using = st.from[m].using
           /\ from[m].join = st.from[m].join
  BY <1>2, FilledIs
<1>4. Len(from) \in Nat /\ DOMAIN from = 1..Len(from) /\ DOMAIN st.from = DOMAIN from
      /\ 1 \in DOMAIN from
  <2>1. Len(from) \in Nat /\ DOMAIN from = 1..Len(from) /\ DOMAIN st.from = 1..Len(st.from)
    BY <1>2, <1>3, FromIs
  <2>2. 1 \in DOMAIN st.from
    BY <1>2, FirstIs
  <2> QED
    BY <1>3, <2>1, <2>2
<1>5. IF \E m \in DOMAIN from : from[m].db = "" THEN Fail("no_current_database")
      ELSE IF 0 \in Range(entries) THEN Fail("table_not_found")
      ELSE names' = [names EXCEPT
                    !.pc = "walk", !.st.from = from, !.tables = tables, !.dbs = dbs,
                    !.using = [c \in joinedBy |-> 1], !.targets = entries, !.all = naturals]
  BY DEF Tables
<1> HIDE DEF from
<1>6. /\ tables \in MapOf(STRING) /\ dbs \in MapOf(Optional \X STRING)
      /\ \A name \in DOMAIN tables : tables[name] \in DOMAIN from
      /\ \A key \in DOMAIN dbs : dbs[key] \in DOMAIN from
  BY <1>3, TableIs, DbIs
<1>7. \A t : /\ Entry(t) \in Nat
             /\ Entry(t) = 0 => IF t[1] # "" THEN t \notin DOMAIN dbs ELSE t[2] \notin DOMAIN tables
  <2>1. \A m \in DOMAIN from : m \in Nat /\ m # 0
    BY <1>4
  <2>2. /\ \A name \in DOMAIN tables : tables[name] \in Nat /\ tables[name] # 0
        /\ \A key \in DOMAIN dbs : dbs[key] \in Nat /\ dbs[key] # 0
    BY <1>6, <2>1
  <2> HIDE DEF tables, dbs
  <2> QED
    BY <2>2
<1>8. st.targets \in Seq(Optional \X STRING)
  BY <1>2 DEF Statement
<1>9. entries \in Seq(Nat) /\ DOMAIN entries = DOMAIN st.targets
  <2>1. Len(st.targets) \in Nat /\ DOMAIN st.targets = 1..Len(st.targets)
    BY <1>8
  <2> HIDE DEF Entry
  <2>2. \A k \in 1..Len(st.targets) : Entry(st.targets[k]) \in Nat
    BY <1>7
  <2>3. entries = [k \in 1..Len(st.targets) |-> Entry(st.targets[k])]
    BY <2>1
  <2> HIDE DEF entries
  <2> QED
    BY <2>1, <2>2, <2>3
<1>10. CASE \E m \in DOMAIN from : from[m].db = ""
  <2>1. PICK m \in DOMAIN from : from[m].db = ""
    BY <1>10
  <2>2. DbOf(st, m) = "" /\ m \in DOMAIN st.from
    BY <1>3, <1>4, <2>1
  <2>3. st.database = "" /\ st.from[m].db = "" /\ st.from[m] \in Range(st.from)
    BY <2>2, Zenon DEF DbOf, Range
  <2> QED
    BY <1>5, <1>10, <2>3, Refused
<1>11. CASE (~\E m \in DOMAIN from : from[m].db = "") /\ 0 \in Range(entries)
  <2>1. PICK k \in DOMAIN st.targets : Entry(st.targets[k]) = 0
    BY <1>9, <1>11 DEF Range
  <2> DEFINE t == st.targets[k]
  <2>2. t \in Optional \X STRING /\ t \in Range(st.targets)
    BY <1>8 DEF Range
  <2>3. IF t[1] # "" THEN t \notin DOMAIN dbs ELSE t[2] \notin DOMAIN tables
    <3> HIDE DEF Entry, tables, dbs
    <3> QED
      BY <1>7, <2>1
  <2> HIDE DEF t
  <2>4. Named(<<t[1], t[2], "">>) = {}
    BY <1>2, <2>2, <2>3, TargetIs DEF from
  <2> QED
    BY <1>5, <1>11, <2>2, <2>4, Refused
<1>12. CASE (~\E m \in DOMAIN from : from[m].db = "") /\ 0 \notin Range(entries)
  <2>1. names' = [names EXCEPT
                    !.pc = "walk", !.st.from = from, !.tables = tables, !.dbs = dbs,
                    !.using = [c \in joinedBy |-> 1], !.targets = entries, !.all = naturals]
    BY <1>5, <1>12
  <2>2. joinedBy \subseteq STRING
    <3>1. \A m \in 2..Len(from) : from[m].using \in Seq(STRING)
      BY <1>3, <1>4, FromIs
    <3>2. \A q \in Seq(STRING) : Range(q) \subseteq STRING
      BY DEF Range
    <3> QED
      BY <3>1, <3>2
  <2>3. [c \in joinedBy |-> 1] \in MapOf(STRING)
    <3>1. [c \in joinedBy |-> 1] \in [joinedBy -> Nat]
      OBVIOUS
    <3> HIDE DEF joinedBy
    <3> QED
      BY <2>2, <3>1 DEF MapOf
  <2>4. naturals \in SUBSET Nat
    BY <1>4
  <2>5. [st EXCEPT !.from = from] \in Statement
    BY <1>2, <1>3 DEF Statement
  <2> HIDE DEF tables, dbs, entries, naturals
  <2>6. NamesType'
    BY <1>1, <1>6, <1>9, <2>1, <2>3, <2>4, <2>5 DEF NamesType
  <2>7. /\ names'.pc = "walk" /\ names'.st = [st EXCEPT !.from = from] /\ names'.tables = tables
        /\ names'.dbs = dbs /\ names'.using = [c \in joinedBy |-> 1] /\ names'.sets = names.sets
        /\ names'.found = <<>> /\ names'.cache = <<>>
    BY <1>1, <2>1 DEF NamesType
  <2>8. names'.st.from = from /\ names'.st.order = st.order
    BY <1>2, <2>7 DEF Statement
  <2>9. \A m \in DOMAIN from : from[m].db # "" /\ ColumnsAt(m)' = ColumnsOf[<<DbOf(st, m), st.from[m].table>>]
    BY <1>3, <1>4, <1>12, <2>8 DEF ColumnsAt
  <2>10. StatementKnown'
    <3>1. from # <<>> /\ Len(names'.sets) = Len(from)
      <4>1. from # <<>>
        BY ONLY <1>4
      <4> QED
        BY <1>1, <1>3, <2>7, <4>1
    <3>2. \A m \in DOMAIN from : ColumnsAt(m)' \in Seq(STRING)
      <4> TAKE m \in DOMAIN from
      <4>1. DbOf(st, m) # "" /\ m \in DOMAIN st.from
        BY <1>3, <1>4, <2>9
      <4>2. ColumnsAt(m)' = ColumnsOf[<<DbOf(st, m), st.from[m].table>>]
        BY <2>9
      <4>3. ColumnsOf[<<DbOf(st, m), st.from[m].table>>] \in Seq(STRING)
        BY <1>2, <4>1
      <4> QED
        BY <4>2, <4>3
    <3>3. ASSUME NEW m \in DOMAIN from, NEW c \in Range(from[m].using)
          PROVE  \E j \in 1..(m - 1) : HasColumn(j, c)'
      <4>1. PICK j \in 1..(m - 1) : DbOf(st, j) # "" =>
              c \in Range(ColumnsOf[<<DbOf(st, j), st.from[j].table>>])
        BY <1>2, <1>3, <1>4
      <4>2. j \in DOMAIN from
        BY <1>4
      <4>3. DbOf(st, j) # ""
        BY <1>3, <1>4, <2>9, <4>2
      <4> QED
        BY <2>9, <4>1, <4>2, <4>3 DEF HasColumn
    <3>4. ASSUME NEW c \in STRING PROVE c \in joinedBy <=> SharedBy(c)' # {}
      <4>1. SharedBy(c)' = {m \in DOMAIN from : c \in Range(from[m].using)}
        BY <2>8 DEF SharedBy
      <4>2. Range(from[1].using) = {}
        <5>1. 1 \in DOMAIN st.from
          BY <1>4
        <5>2. from[1].using = <<>>
          BY <1>2, <1>3, <5>1
        <5> QED
          BY <5>2 DEF Range
      <4>3. \A m \in DOMAIN from : m # 1 => m \in 2..Len(from)
        BY <1>4
      <4>4. \A m \in 2..Len(from) : m \in DOMAIN from
        BY <1>4
      <4> QED
        BY <4>1, <4>2, <4>3, <4>4
    <3>5. \A c \in STRING : c \in DOMAIN names'.using <=> SharedBy(c)' # {}
      BY <2>7, <3>4
    <3>6. \A c \in DOMAIN names'.using : names'.using[c] = 1
      BY <2>7
    <3>7. names'.tables = TableMap(from) /\ names'.dbs = DbMap(from)
      BY <2>7 DEF tables, dbs
    <3> QED
      BY <1>2, <2>8, <3>1, <3>2, <3>3, <3>5, <3>6, <3>7 DEF StatementKnown
  <2>11. Len(names'.found) <= Len(Walk(names'.st))
    <3>1. names'.st \in Statement /\ \A k \in DOMAIN names'.st.order : names'.st.order[k][3] # "*"
      BY <1>2, <2>5, <2>7, <2>8
    <3>2. Walk(names'.st) \in Seq(Step)
      BY <3>1, WalkIs
    <3>3. Len(Walk(names'.st)) \in Nat
      BY <3>2
    <3> QED
      BY <2>7, <3>3
  <2>12. CacheRight'
    BY <2>7 DEF CacheRight
  <2>13. Walking'
    BY <2>7, <2>10, <2>11, <2>12 DEF Walking
  <2> QED
    BY <2>6, <2>7, <2>13 DEF NInv, RefusedRightly
<1> QED
  BY <1>10, <1>11, <1>12

\* The reference that is resolved next.
LEMMA NextIs ==
  ASSUME NInv, names.pc = "walk", Len(names.found) < Len(Walk(names.st))
  PROVE  LET n == Len(names.found) + 1
         IN  /\ NamesType /\ Walking /\ StatementKnown /\ CacheRight
             /\ names.st \in Statement /\ names.st.from \in Seq(FromEntry)
             /\ Len(names.found) \in Nat /\ n \in DOMAIN Walk(names.st) /\ n \in 1..Len(Walk(names.st))
             /\ Walk(names.st)[n] \in Step /\ Walk(names.st)[n].ref \in Reference
             /\ Len(Walk(names.st)) \in Nat
<1>1. NamesType /\ Walking /\ StatementKnown /\ CacheRight
  BY DEF NInv, Walking
<1>2. names.st \in Statement /\ names.found \in Seq(Found)
  BY <1>1 DEF NamesType
<1>3. names.st.from \in Seq(FromEntry)
  BY <1>2 DEF Statement
<1>4. \A k \in DOMAIN names.st.order : names.st.order[k][3] # "*"
  BY <1>1 DEF StatementKnown
<1>5. Walk(names.st) \in Seq(Step)
  BY <1>2, <1>4, WalkIs
<1>6. Len(names.found) \in Nat /\ Len(Walk(names.st)) \in Nat
      /\ DOMAIN Walk(names.st) = 1..Len(Walk(names.st))
  BY <1>2, <1>5
<1>7. Len(names.found) + 1 \in 1..Len(Walk(names.st))
  BY <1>6
<1>8. Walk(names.st)[Len(names.found) + 1] \in Step
  BY <1>5, <1>6, <1>7
<1> QED
  BY <1>1, <1>2, <1>3, <1>6, <1>7, <1>8 DEF Step

\* A step that resolves one more reference keeps what is known of those before.
LEMMA Appended ==
  ASSUME names.found \in Seq(Found), NEW f \in Found, names'.found = Append(names.found, f),
         names'.st = names.st
  PROVE  /\ Len(names'.found) = Len(names.found) + 1 /\ Len(names.found) \in Nat
         /\ names'.found[Len(names.found) + 1] = f
         /\ \A m \in 1..Len(names.found) : names'.found[m] = names.found[m]
         /\ \A m, c : Says(m, c)' = Says(m, c)
         /\ \A ref : Named(ref)' = Named(ref)
         /\ \A step : Aliased(step)' = Aliased(step)
         /\ \A c : SharedBy(c)' = SharedBy(c)
<1>1. /\ Len(names'.found) = Len(names.found) + 1 /\ Len(names.found) \in Nat
      /\ names'.found[Len(names.found) + 1] = f
      /\ \A m \in 1..Len(names.found) : names'.found[m] = names.found[m]
  OBVIOUS
<1> QED
  BY <1>1 DEF Says, Named, Aliased, SharedBy

\* It is enough to look at the reference itself and at the cache.
LEMMA AppendKeeps ==
  ASSUME NInv, names.pc = "walk", Len(names.found) < Len(Walk(names.st)), NEW f \in Found,
         NamesType', names'.pc = "walk", names'.st = names.st, names'.tables = names.tables,
         names'.dbs = names.dbs, names'.using = names.using, Len(names'.sets) = Len(names.sets),
         \A m \in DOMAIN names.st.from : names.sets[m] \subseteq names'.sets[m],
         names'.found = Append(names.found, f),
         NEW next, next = Len(names.found) + 1, FoundRight(next)', CacheRight'
  PROVE  NInv'
<1> DEFINE len == Len(names.found)
<1>1. /\ NamesType /\ Walking /\ StatementKnown /\ names.st \in Statement
      /\ len \in Nat /\ Len(Walk(names.st)) \in Nat
  BY NextIs
<1>2. names.found \in Seq(Found)
  BY <1>1 DEF NamesType
<1>3. /\ Len(names'.found) = len + 1
      /\ \A m \in 1..len : names'.found[m] = names.found[m]
      /\ \A m, c : Says(m, c)' = Says(m, c)
      /\ \A ref : Named(ref)' = Named(ref)
      /\ \A step : Aliased(step)' = Aliased(step)
      /\ \A c : SharedBy(c)' = SharedBy(c)
  BY <1>2, Appended
<1>4. ASSUME NEW n \in 1..len PROVE FoundRight(n)'
  <2>1. FoundRight(n)
    BY <1>1 DEF Walking
  <2>2. names'.found[n] = names.found[n]
    BY <1>3
  <2>3. ASSUME NEW column, NEW table, Told(n, column, table) PROVE Told(n, column, table)'
    <3>1. \A m \in 1..(n - 1) : m \in 1..len
      BY <1>1
    <3>2. \A m \in 1..(n - 1) : names'.found[m] = names.found[m]
      BY <1>3, <3>1
    <3> QED
      BY <1>3, <2>3, <3>2 DEF Told
  <2>4. ASSUME NEW ref, FoundTable(ref, n) PROVE FoundTable(ref, n)'
    <3>1. PICK table \in DOMAIN names.st.from :
            /\ names.found[n] = <<"table", table>> /\ ref[3] \in names.sets[table]
            /\ IF ref[2] # "" THEN table \in Named(ref)
               ELSE IF SharedBy(ref[3]) # {} THEN table = 1 ELSE Told(n, ref[3], table)
      BY <2>4 DEF FoundTable
    <3>2. names'.found[n] = <<"table", table>> /\ ref[3] \in names'.sets[table]
      BY <2>2, <3>1
    <3>3. IF ref[2] # "" THEN table \in Named(ref)'
          ELSE IF SharedBy(ref[3])' # {} THEN table = 1 ELSE Told(n, ref[3], table)'
      BY <1>3, <2>3, <3>1
    <3> QED
      BY <3>2, <3>3 DEF FoundTable
  <2> QED
    BY <1>3, <2>1, <2>2, <2>4 DEF FoundRight
<1>5. \A n \in 1..Len(names'.found) : FoundRight(n)'
  <2>1. \A n \in 1..(len + 1) : n \in 1..len \/ n = next
    BY <1>1
  <2> QED
    BY <1>3, <1>4, <2>1
<1>6. Len(names'.found) <= Len(Walk(names'.st))
  BY <1>1, <1>3
<1>7. StatementKnown'
  <2>1. \A m : ColumnsAt(m)' = ColumnsAt(m)
    BY DEF ColumnsAt
  <2>2. \A m, c : HasColumn(m, c)' = HasColumn(m, c)
    BY <2>1 DEF HasColumn
  <2> QED
    BY <1>1, <1>3, <2>1, <2>2 DEF StatementKnown
<1> QED
  BY <1>5, <1>6, <1>7 DEF NInv, Walking, RefusedRightly

\* A star keeps NInv.
LEMMA StarStep ==
  ASSUME NInv, names.pc = "walk", Len(names.found) < Len(Walk(names.st)),
         NEW n, n = Len(names.found) + 1, NEW ref, ref = Walk(names.st)[n].ref,
         ref[3] = "*", ResolveStar(ref)
  PROVE  NInv'
<1> DEFINE from == names.st.from
           named == {m \in DOMAIN from : NameOf(from[m]) = ref[2]}
           found == IF ref[1] # ""
                    THEN IF <<ref[1], ref[2]>> \in DOMAIN names.dbs
                         THEN {names.dbs[<<ref[1], ref[2]>>]} ELSE {}
                    ELSE IF ref[2] # "" THEN IF named = {} THEN {} ELSE {Min(named)}
                    ELSE DOMAIN from
           f == <<"star">>
<1>1. /\ NamesType /\ StatementKnown /\ CacheRight /\ names.st \in Statement /\ from \in Seq(FromEntry)
      /\ Len(names.found) \in Nat /\ n \in DOMAIN Walk(names.st) /\ ref \in Reference
  BY NextIs
<1>2. IF found = {} THEN Fail("table_not_found")
      ELSE names' = [names EXCEPT !.all = @ \cup found, !.found = Append(@, f)]
  BY DEF ResolveStar
<1>3. ref[1] # "" => ref[2] # ""
  BY <1>1 DEF Reference
<1>4. DOMAIN from = 1..Len(from) /\ Len(from) \in Nat /\ 1 \in DOMAIN from
  <2>1. from # <<>>
    BY <1>1 DEF StatementKnown
  <2> QED
    BY <1>1, <2>1, FromIs, FirstIs
<1>5. names.tables = TableMap(from) /\ names.dbs = DbMap(from)
  BY <1>1 DEF StatementKnown
<1>6. ref[2] # "" =>
        /\ Named(ref) \subseteq DOMAIN from
        /\ ref[1] # "" =>
             /\ <<ref[1], ref[2]>> \in DOMAIN names.dbs => names.dbs[<<ref[1], ref[2]>>] \in Named(ref)
             /\ Named(ref) # {} => <<ref[1], ref[2]>> \in DOMAIN names.dbs
  BY <1>1, <1>5, NamedIs
<1>7. ref[1] = "" => Named(ref) = named
  BY DEF Named
<1>8. named \in SUBSET Nat
  BY <1>4
<1>9. named # {} => Min(named) \in named
  <2> HIDE DEF named
  <2> QED
    BY <1>8, MinIn
<1>10. /\ found \in SUBSET Nat
       /\ found = {} <=> ref[2] # "" /\ Named(ref) = {}
  <2>1. CASE ref[1] # ""
    <3>1. found = IF <<ref[1], ref[2]>> \in DOMAIN names.dbs THEN {names.dbs[<<ref[1], ref[2]>>]} ELSE {}
      BY <2>1
    <3> HIDE DEF found
    <3>2. \A m \in DOMAIN from : m \in Nat
      BY <1>4
    <3> QED
      BY <1>3, <1>6, <2>1, <3>1, <3>2
  <2>2. CASE ref[1] = "" /\ ref[2] # ""
    <3>1. found = IF named = {} THEN {} ELSE {Min(named)}
      BY <2>2
    <3> HIDE DEF found, named
    <3> QED
      BY <1>7, <1>8, <1>9, <2>2, <3>1
  <2>3. CASE ref[1] = "" /\ ref[2] = ""
    <3>1. found = DOMAIN from
      BY <2>3
    <3>2. DOMAIN from \subseteq Nat /\ DOMAIN from # {}
      BY <1>4
    <3> HIDE DEF found, from
    <3> QED
      BY <2>3, <3>1, <3>2
  <2> QED
    BY <1>3, <2>1, <2>2, <2>3
<1> HIDE DEF found
<1>11. CASE found = {}
  BY <1>1, <1>2, <1>10, <1>11, Refused
<1>12. CASE found # {}
  <2>1. names' = [names EXCEPT !.all = @ \cup found, !.found = Append(@, f)]
    BY <1>2, <1>12
  <2>2. f \in Found
    BY DEF Found
  <2> HIDE DEF f
  <2>3. names.found \in Seq(Found) /\ names.all \in SUBSET Nat
    BY <1>1 DEF NamesType
  <2>4. Append(names.found, f) \in Seq(Found)
    BY <2>2, <2>3
  <2>5. /\ NamesType' /\ names'.pc = "walk" /\ names'.st = names.st /\ names'.tables = names.tables
        /\ names'.dbs = names.dbs /\ names'.using = names.using /\ names'.sets = names.sets
        /\ names'.cache = names.cache /\ names'.found = Append(names.found, f)
    BY <1>1, <1>10, <2>1, <2>3, <2>4 DEF NamesType
  <2>6. /\ Len(names'.found) = n /\ names'.found[n] = f
        /\ \A m \in 1..Len(names.found) : names'.found[m] = names.found[m]
        /\ \A m, c : Says(m, c)' = Says(m, c)
        /\ \A r : Named(r)' = Named(r)
    BY <2>2, <2>3, <2>5, Appended
  <2>7. FoundRight(n)'
    <3>1. names'.found[n] = <<"star">>
      BY <2>6 DEF f
    <3>2. Walk(names'.st)[n].ref = ref
      BY <2>5
    <3>3. ref[2] # "" => Named(ref)' # {}
      BY <1>10, <1>12, <2>6
    <3> QED
      BY <3>1, <3>2, <3>3 DEF FoundRight
  <2>8. CacheRight'
    <3>1. ASSUME NEW c \in DOMAIN names.cache
          PROVE  \E m \in 1..Len(names'.found) : Says(m, c)' /\ names'.found[m] = <<"table", names.cache[c]>>
      <4>1. PICK m \in 1..Len(names.found) : Says(m, c) /\ names.found[m] = <<"table", names.cache[c]>>
        BY <1>1 DEF CacheRight
      <4>2. m \in 1..Len(names'.found)
        BY <1>1, <2>6
      <4> QED
        BY <2>6, <4>1, <4>2
    <3>2. ASSUME NEW m \in 1..Len(names'.found), NEW c \in STRING, Says(m, c)', c # "*"
          PROVE  c \in DOMAIN names.cache
      <4>1. Says(m, c)
        BY <2>6, <3>2
      <4>2. m # n
        BY <3>2, <4>1 DEF Says
      <4>3. m \in 1..Len(names.found)
        BY <1>1, <2>6, <4>2
      <4> QED
        BY <1>1, <3>2, <4>1, <4>3 DEF CacheRight
    <3>3. \A c \in DOMAIN names.cache : names.cache[c] \in DOMAIN names'.st.from
      BY <1>1, <2>5 DEF CacheRight
    <3> QED
      BY <2>5, <3>1, <3>2, <3>3 DEF CacheRight
  <2> QED
    BY <2>2, <2>5, <2>7, <2>8, AppendKeeps
<1> QED
  BY <1>11, <1>12

\* A name in ORDER BY or HAVING that is one of the results.
LEMMA AliasStep ==
  ASSUME NInv, names.pc = "walk", Len(names.found) < Len(Walk(names.st)),
         NEW n, n = Len(names.found) + 1, NEW step, step = Walk(names.st)[n],
         step.ref[3] # "*", Aliased(step),
         names' = [names EXCEPT !.found = Append(@, <<"result", ResultIndex(names.st, step.ref[3])>>)]
  PROVE  NInv'
<1> DEFINE f == <<"result", ResultIndex(names.st, step.ref[3])>>
<1>1. /\ NamesType /\ StatementKnown /\ CacheRight /\ names.st \in Statement
      /\ Len(names.found) \in Nat /\ names.found \in Seq(Found) /\ names.cache \in MapOf(STRING)
  BY NextIs DEF NamesType
<1>2. f \in Found
  <2>1. ResultIndex(names.st, step.ref[3]) \in Nat
    BY <1>1, ResultIs
  <2> QED
    BY <2>1 DEF Found
<1>3. names' = [names EXCEPT !.found = Append(@, f)]
  OBVIOUS
<1> HIDE DEF f
<1>4. Append(names.found, f) \in Seq(Found)
  BY <1>1, <1>2
<1>5. /\ NamesType' /\ names'.pc = "walk" /\ names'.st = names.st /\ names'.tables = names.tables
      /\ names'.dbs = names.dbs /\ names'.using = names.using /\ names'.sets = names.sets
      /\ names'.cache = names.cache /\ names'.found = Append(names.found, f)
  BY <1>1, <1>3, <1>4 DEF NamesType
<1>6. /\ Len(names'.found) = n /\ names'.found[n] = f
      /\ \A m \in 1..Len(names.found) : names'.found[m] = names.found[m]
      /\ \A m, c : Says(m, c)' = Says(m, c)
      /\ \A s : Aliased(s)' = Aliased(s)
  BY <1>1, <1>2, <1>5, Appended
<1>7. step.ref[2] = ""
  BY DEF Aliased
<1>8. FoundRight(n)'
  <2>1. names'.found[n] = <<"result", ResultIndex(names'.st, step.ref[3])>>
    BY <1>5, <1>6 DEF f
  <2>2. Walk(names'.st)[n] = step /\ Aliased(step)'
    BY <1>5, <1>6
  <2> QED
    BY <1>7, <2>1, <2>2 DEF FoundRight
<1>9. CacheRight'
  <2>1. ASSUME NEW c \in DOMAIN names.cache
        PROVE  \E m \in 1..Len(names'.found) : Says(m, c)' /\ names'.found[m] = <<"table", names.cache[c]>>
    <3>1. PICK m \in 1..Len(names.found) : Says(m, c) /\ names.found[m] = <<"table", names.cache[c]>>
      BY <1>1 DEF CacheRight
    <3>2. m \in 1..Len(names'.found)
      BY <1>1, <1>6
    <3> QED
      BY <1>6, <3>1, <3>2
  <2>2. ASSUME NEW m \in 1..Len(names'.found), NEW c \in STRING, Says(m, c)', c # "*"
        PROVE  c \in DOMAIN names.cache
    <3>1. Says(m, c)
      BY <1>6, <2>2
    <3>2. m # n
      BY <1>7, <3>1 DEF Says
    <3>3. m \in 1..Len(names.found)
      BY <1>1, <1>6, <3>2
    <3> QED
      BY <1>1, <2>2, <3>1, <3>3 DEF CacheRight
  <2>3. \A c \in DOMAIN names.cache : names.cache[c] \in DOMAIN names'.st.from
    BY <1>1, <1>5 DEF CacheRight
  <2> QED
    BY <1>5, <2>1, <2>2, <2>3 DEF CacheRight
<1> QED
  BY <1>2, <1>5, <1>8, <1>9, AppendKeeps

\* The table of a name: the one the reference names, or else the owner of the column.
TableOf(ref) ==
  IF ref[1] # ""
  THEN IF <<ref[1], ref[2]>> \in DOMAIN names.dbs THEN names.dbs[<<ref[1], ref[2]>>] ELSE 0
  ELSE IF ref[2] # "" THEN IF ref[2] \in DOMAIN names.tables THEN names.tables[ref[2]] ELSE 0
  ELSE Owner(ref[3])

\* The table found for a reference is one that it names, and 0 only if there is none.
LEMMA TableOfIs ==
  ASSUME NInv, names.pc = "walk", Len(names.found) < Len(Walk(names.st)), NEW ref \in Reference
  PROVE  /\ TableOf(ref) = 0 => ref[2] # "" /\ Named(ref) = {}
         /\ TableOf(ref) # 0 => TableOf(ref) \in DOMAIN names.st.from
         /\ TableOf(ref) # 0 /\ ref[2] # "" => TableOf(ref) \in Named(ref)
         /\ ref[2] = "" => TableOf(ref) = Owner(ref[3])
<1> DEFINE from == names.st.from
<1>1. NamesType /\ StatementKnown /\ CacheRight /\ from \in Seq(FromEntry)
  BY NextIs
<1>2. 1 \in DOMAIN from /\ \A m \in DOMAIN from : m # 0
  <2>1. from # <<>>
    BY <1>1 DEF StatementKnown
  <2>2. DOMAIN from = 1..Len(from) /\ Len(from) \in Nat
    BY <1>1, FromIs
  <2>3. \A m \in DOMAIN from : m # 0
    BY <2>2
  <2> QED
    BY <1>1, <2>1, <2>3, FirstIs
<1>3. ref[1] # "" => ref[2] # ""
  BY DEF Reference
<1>4. names.tables = TableMap(from) /\ names.dbs = DbMap(from)
  BY <1>1 DEF StatementKnown
<1>5. ref[2] # "" =>
        /\ Named(ref) \subseteq DOMAIN from
        /\ ref[1] # "" =>
             /\ <<ref[1], ref[2]>> \in DOMAIN names.dbs => names.dbs[<<ref[1], ref[2]>>] \in Named(ref)
             /\ Named(ref) # {} => <<ref[1], ref[2]>> \in DOMAIN names.dbs
        /\ ref[1] = "" =>
             /\ ref[2] \in DOMAIN names.tables => names.tables[ref[2]] \in Named(ref)
             /\ Named(ref) # {} => ref[2] \in DOMAIN names.tables
  BY <1>1, <1>4, NamedIs
<1>6. Owner(ref[3]) \in DOMAIN from
  <2>1. \A c \in DOMAIN names.using : names.using[c] = 1
    BY <1>1 DEF StatementKnown
  <2>2. \A c \in DOMAIN names.cache : names.cache[c] \in DOMAIN from
    BY <1>1 DEF CacheRight
  <2> QED
    BY <1>2, <2>1, <2>2 DEF Owner
<1>7. CASE ref[1] # ""
  <2>1. TableOf(ref) = IF <<ref[1], ref[2]>> \in DOMAIN names.dbs THEN names.dbs[<<ref[1], ref[2]>>] ELSE 0
    BY <1>7 DEF TableOf
  <2> HIDE DEF from
  <2> QED
    BY <1>2, <1>3, <1>5, <1>7, <2>1 DEF from
<1>8. CASE ref[1] = "" /\ ref[2] # ""
  <2>1. TableOf(ref) = IF ref[2] \in DOMAIN names.tables THEN names.tables[ref[2]] ELSE 0
    BY <1>8 DEF TableOf
  <2> HIDE DEF from
  <2> QED
    BY <1>2, <1>5, <1>8, <2>1 DEF from
<1>9. CASE ref[1] = "" /\ ref[2] = ""
  <2>1. TableOf(ref) = Owner(ref[3])
    BY <1>9 DEF TableOf
  <2> QED
    BY <1>2, <1>6, <1>9, <2>1
<1> QED
  BY <1>3, <1>7, <1>8, <1>9

\* A map with one more key.
LEMMA UpdateIs ==
  ASSUME NEW f \in MapOf(STRING), NEW key \in STRING, NEW value \in Nat,
         NEW u, u = Update(f, key, value)
  PROVE  /\ u \in MapOf(STRING) /\ DOMAIN u = DOMAIN f \cup {key} /\ u[key] = value
         /\ \A x \in DOMAIN f : x # key => u[x] = f[x]
<1>6. u = [x \in DOMAIN f \cup {key} |-> IF x = key THEN value ELSE f[x]]
  BY DEF Update
<1>1. PICK D \in SUBSET STRING : f \in [D -> Nat]
  BY DEF MapOf
<1>2. DOMAIN f = D /\ \A x \in D : f[x] \in Nat
  BY <1>1
<1>3. u \in [D \cup {key} -> Nat]
  BY <1>2, <1>6
<1>4. D \cup {key} \in SUBSET STRING
  OBVIOUS
<1>5. u \in MapOf(STRING)
  BY <1>3, <1>4 DEF MapOf
<1> QED
  BY <1>5, <1>6

\* The place before the next one.
LEMMA Predecessor ==
  ASSUME NEW k \in Nat
  PROVE  (k + 1) - 1 = k
OBVIOUS

\* A sequence with one element replaced.
LEMMA ReplaceIs ==
  ASSUME NEW S, NEW q \in Seq(S), NEW k \in DOMAIN q, NEW x \in S
  PROVE  \A r : r = [q EXCEPT ![k] = x] => r \in Seq(S) /\ Len(r) = Len(q)
OBVIOUS

\* A name that is a column of a table: it is asked for there.
LEMMA ColumnStep ==
  ASSUME NInv, names.pc = "walk", Len(names.found) < Len(Walk(names.st)),
         NEW n, n = Len(names.found) + 1, NEW step, step = Walk(names.st)[n],
         NEW ref, ref = step.ref, ref[3] # "*", ~Aliased(step),
         NEW table, table = TableOf(ref), table # 0,
         names' = [names EXCEPT
                    !.found = Append(@, <<"table", table>>), !.sets = Request(table, ref),
                    !.cache = IF ref[2] = "" THEN @ ELSE Update(@, ref[3], table)]
  PROVE  NInv'
<1> DEFINE f == <<"table", table>>
           sets == Request(table, ref)
           cache == IF ref[2] = "" THEN names.cache ELSE Update(names.cache, ref[3], table)
           from == names.st.from
<1>1. /\ NamesType /\ StatementKnown /\ CacheRight /\ names.st \in Statement /\ from \in Seq(FromEntry)
      /\ Len(names.found) \in Nat /\ ref \in Reference
  BY NextIs
<1>2. /\ names.found \in Seq(Found) /\ names.cache \in MapOf(STRING)
      /\ names.sets \in Seq(SUBSET STRING) /\ ref[3] \in STRING
  BY <1>1 DEF NamesType, Reference
<1>3. table \in DOMAIN from /\ (ref[2] # "" => table \in Named(ref)) /\ (ref[2] = "" => table = Owner(ref[3]))
  BY <1>1, TableOfIs
<1>4. table \in Nat /\ DOMAIN names.sets = DOMAIN from
  <2>1. Len(names.sets) = Len(from)
    BY <1>1 DEF StatementKnown
  <2>2. DOMAIN names.sets = 1..Len(names.sets)
    BY <1>2
  <2> QED
    BY <1>1, <1>3, <2>1, <2>2, FromIs
<1>5. /\ sets \in Seq(SUBSET STRING) /\ Len(sets) = Len(names.sets) /\ ref[3] \in sets[table]
      /\ \A m \in DOMAIN from : names.sets[m] \subseteq sets[m]
  <2>1. sets = [names.sets EXCEPT ![table] = @ \cup {ref[3]}]
    BY DEF Request
  <2> HIDE DEF sets, from
  <2>2. table \in DOMAIN names.sets
    BY <1>3, <1>4
  <2>3. names.sets[table] \cup {ref[3]} \in SUBSET STRING
    <3>1. names.sets[table] \in SUBSET STRING
      BY ONLY <1>2, <2>2
    <3> QED
      BY ONLY <1>2, <3>1
  <2>4. sets \in Seq(SUBSET STRING) /\ Len(sets) = Len(names.sets)
    <3>1. sets = [names.sets EXCEPT ![table] = names.sets[table] \cup {ref[3]}]
      BY <2>1
    <3> QED
      BY ONLY <1>2, <2>2, <2>3, <3>1, ReplaceIs
  <2>5. sets[table] = names.sets[table] \cup {ref[3]}
    BY ONLY <2>1, <2>2
  <2>6. \A m \in DOMAIN names.sets : m # table => sets[m] = names.sets[m]
    BY ONLY <2>1
  <2>7. \A m \in DOMAIN names.sets : names.sets[m] \subseteq sets[m]
    BY ONLY <2>5, <2>6
  <2>8. ref[3] \in sets[table]
    BY ONLY <2>5
  <2> QED
    BY <1>4, <2>4, <2>7, <2>8
<1>6. cache \in MapOf(STRING)
  <2>1. Update(names.cache, ref[3], table) \in MapOf(STRING)
    BY <1>2, <1>4, UpdateIs
  <2> QED
    BY <1>2, <2>1
<1>7. f \in Found
  BY <1>4 DEF Found
<1>8. names' = [names EXCEPT !.found = Append(@, f), !.sets = sets, !.cache = cache]
  BY <1>1 DEF NamesType
<1> HIDE DEF f, sets, cache
<1>9. Append(names.found, f) \in Seq(Found)
  BY <1>2, <1>7
<1>10. /\ NamesType' /\ names'.pc = "walk" /\ names'.st = names.st /\ names'.tables = names.tables
       /\ names'.dbs = names.dbs /\ names'.using = names.using /\ names'.sets = sets
       /\ names'.cache = cache /\ names'.found = Append(names.found, f)
  BY ONLY <1>1, <1>5, <1>6, <1>8, <1>9, names.pc = "walk" DEF NamesType
<1>11. /\ Len(names'.found) = n /\ names'.found[n] = f
       /\ \A m \in 1..Len(names.found) : names'.found[m] = names.found[m]
       /\ \A m, c : Says(m, c)' = Says(m, c)
       /\ \A r : Named(r)' = Named(r)
       /\ \A s : Aliased(s)' = Aliased(s)
       /\ \A c : SharedBy(c)' = SharedBy(c)
  BY <1>2, <1>7, <1>10, Appended
<1>12. \A c : Says(n, c) <=> ref[2] # "" /\ ref[3] = c
  BY DEF Says
<1>13. FoundRight(n)'
  <2>1. ref[2] = "" /\ SharedBy(ref[3]) # {} => table = 1
    <3>1. SharedBy(ref[3]) # {} => ref[3] \in DOMAIN names.using /\ names.using[ref[3]] = 1
      BY <1>1, <1>2 DEF StatementKnown
    <3> QED
      BY <1>3, <3>1 DEF Owner
  <2>2. ref[2] = "" /\ SharedBy(ref[3]) = {} => Told(n, ref[3], table)'
    <3> SUFFICES ASSUME ref[2] = "", SharedBy(ref[3]) = {} PROVE Told(n, ref[3], table)'
      OBVIOUS
    <3>1. ref[3] \notin DOMAIN names.using
      BY <1>1, <1>2 DEF StatementKnown
    <3>2. 1..(n - 1) = 1..Len(names.found)
      <4>1. \A len \in Nat : (len + 1) - 1 = len
        BY Predecessor, Zenon
      <4> QED
        BY <1>1, <4>1
    <3>3. CASE ref[3] \in DOMAIN names.cache
      <4>1. table = names.cache[ref[3]]
        BY <1>3, <3>1, <3>3 DEF Owner
      <4>2. PICK m \in 1..Len(names.found) : Says(m, ref[3]) /\ names.found[m] = <<"table", table>>
        BY <1>1, <3>3, <4>1 DEF CacheRight
      <4>3. m \in 1..(n - 1)
        BY <3>2
      <4> QED
        BY <1>11, <4>2, <4>3 DEF Told
    <3>4. CASE ref[3] \notin DOMAIN names.cache
      <4>1. table = 1
        BY <1>3, <3>1, <3>4 DEF Owner
      <4>2. \A m \in 1..(n - 1) : ~Says(m, ref[3])
        BY <1>1, <1>2, <3>2, <3>4 DEF CacheRight
      <4> QED
        BY <1>11, <4>1, <4>2 DEF Told
    <3> QED
      BY <3>3, <3>4
  <2>3. FoundTable(ref, n)'
    <3>1. names'.found[n] = <<"table", table>> /\ ref[3] \in names'.sets[table]
      BY <1>5, <1>10, <1>11 DEF f
    <3>2. table \in DOMAIN names'.st.from
      BY <1>3, <1>10
    <3>3. IF ref[2] # "" THEN table \in Named(ref)'
          ELSE IF SharedBy(ref[3])' # {} THEN table = 1 ELSE Told(n, ref[3], table)'
      BY <1>3, <1>11, <2>1, <2>2
    <3> QED
      BY <3>1, <3>2, <3>3 DEF FoundTable
  <2>4. Walk(names'.st)[n] = step /\ ~Aliased(step)'
    BY <1>10, <1>11
  <2>5. ref[2] # "" => Named(ref)' # {}
    BY <1>3, <1>11
  <2> QED
    BY <2>3, <2>4, <2>5 DEF FoundRight
<1>14. CacheRight'
  <2>1. /\ cache[ref[3]] = table \/ ref[2] = ""
        /\ \A c \in DOMAIN cache : c \in DOMAIN names.cache \/ (ref[2] # "" /\ c = ref[3])
        /\ \A c \in DOMAIN cache : ref[2] = "" \/ c # ref[3] => cache[c] = names.cache[c]
        /\ \A c \in DOMAIN names.cache : c \in DOMAIN cache
        /\ ref[2] # "" => ref[3] \in DOMAIN cache
    <3>1. CASE ref[2] = ""
      BY <3>1 DEF cache
    <3>2. CASE ref[2] # ""
      <4>1. cache = Update(names.cache, ref[3], table)
        BY <3>2 DEF cache
      <4>2. /\ DOMAIN cache = DOMAIN names.cache \cup {ref[3]} /\ cache[ref[3]] = table
            /\ \A x \in DOMAIN names.cache : x # ref[3] => cache[x] = names.cache[x]
        BY ONLY <4>1 DEF Update
      <4> QED
        BY <3>2, <4>2
    <3> QED
      BY <3>1, <3>2
  <2>2. ASSUME NEW c \in DOMAIN cache
        PROVE  /\ cache[c] \in DOMAIN from
               /\ \E m \in 1..Len(names'.found) : Says(m, c)' /\ names'.found[m] = <<"table", cache[c]>>
    <3>1. CASE ref[2] # "" /\ c = ref[3]
      <4>1. cache[c] = table /\ Says(n, c)' /\ names'.found[n] = <<"table", cache[c]>>
        BY <1>11, <1>12, <2>1, <3>1 DEF f
      <4>2. n \in 1..Len(names'.found)
        BY <1>1, <1>11
      <4> QED
        BY <1>3, <4>1, <4>2
    <3>2. CASE ~(ref[2] # "" /\ c = ref[3])
      <4>1. c \in DOMAIN names.cache /\ cache[c] = names.cache[c]
        BY <2>1, <3>2
      <4>2. PICK m \in 1..Len(names.found) : Says(m, c) /\ names.found[m] = <<"table", names.cache[c]>>
        BY <1>1, <4>1 DEF CacheRight
      <4>3. m \in 1..Len(names'.found)
        BY <1>1, <1>11
      <4>4. names.cache[c] \in DOMAIN from
        BY <1>1, <4>1 DEF CacheRight
      <4> QED
        BY <1>11, <4>1, <4>2, <4>3, <4>4
    <3> QED
      BY <3>1, <3>2
  <2>3. ASSUME NEW m \in 1..Len(names'.found), NEW c \in STRING, Says(m, c)', c # "*"
        PROVE  c \in DOMAIN cache
    <3>1. Says(m, c)
      BY <1>11, <2>3
    <3>2. CASE m = n
      BY <1>12, <2>1, <3>1, <3>2
    <3>3. CASE m # n
      <4>1. m \in 1..Len(names.found)
        BY <1>1, <1>11, <3>3
      <4>2. c \in DOMAIN names.cache
        BY <1>1, <2>3, <3>1, <4>1 DEF CacheRight
      <4> QED
        BY <2>1, <4>2
    <3> QED
      BY <3>2, <3>3
  <2>4. names'.st.from = from /\ names'.cache = cache
    BY <1>10
  <2> HIDE DEF from
  <2> QED
    BY <2>2, <2>3, <2>4 DEF CacheRight
<1>15. Len(names'.sets) = Len(names.sets) /\ \A m \in DOMAIN names.st.from : names.sets[m] \subseteq names'.sets[m]
  BY <1>5, <1>10
<1> QED
  BY <1>7, <1>10, <1>13, <1>14, <1>15, AppendKeeps

\* Resolving one more reference keeps NInv.
LEMMA ResolveStep ==
  ASSUME NInv, Resolve
  PROVE  NInv'
<1>1. names.pc = "walk" /\ Len(names.found) < Len(Walk(names.st))
  BY DEF Resolve
<1>2. PICK n, step, ref : n = Len(names.found) + 1 /\ step = Walk(names.st)[n] /\ ref = step.ref
  OBVIOUS
<1>3. IF ref[3] = "*" THEN ResolveStar(ref) ELSE ResolveColumn(ref, step.aliases)
  BY <1>2 DEF Resolve
<1>4. ref \in Reference /\ n \in DOMAIN Walk(names.st)
  BY <1>1, <1>2, NextIs
<1>5. CASE ref[3] = "*"
  BY <1>1, <1>2, <1>3, <1>5, StarStep
<1>6. CASE ref[3] # "*"
  <2> DEFINE index == ResultIndex(names.st, ref[3])
             table == TableOf(ref)
             err == IF ref[1] # "" /\ ~\E d \in DOMAIN names.dbs : d[1] = ref[1]
                    THEN "db_not_found" ELSE "table_not_found"
  <2>1. IF ref[2] = "" /\ step.aliases /\ index # 0
        THEN names' = [names EXCEPT !.found = Append(@, <<"result", index>>)]
        ELSE IF table = 0 THEN Fail(err)
        ELSE names' = [names EXCEPT
                 !.found = Append(@, <<"table", table>>), !.sets = Request(table, ref),
                 !.cache = IF ref[2] = "" THEN @ ELSE Update(@, ref[3], table)]
    BY <1>3, <1>6 DEF ResolveColumn, TableOf
  <2>2. Aliased(step) <=> ref[2] = "" /\ step.aliases /\ index # 0
    BY <1>2 DEF Aliased
  <2>3. CASE Aliased(step)
    <3>1. names' = [names EXCEPT !.found = Append(@, <<"result", ResultIndex(names.st, step.ref[3])>>)]
      BY <1>2, <2>1, <2>2, <2>3
    <3> QED
      BY <1>1, <1>2, <1>6, <2>3, <3>1, AliasStep
  <2>4. CASE ~Aliased(step) /\ table = 0
    <3>1. Fail(err)
      BY <2>1, <2>2, <2>4
    <3>2. ref[2] # "" /\ Named(ref) = {}
      BY <1>1, <1>4, <2>4, TableOfIs
    <3>3. err \in {"no_current_database", "db_not_found", "table_not_found"}
      OBVIOUS
    <3> HIDE DEF err
    <3> QED
      BY <1>2, <1>4, <3>1, <3>2, <3>3, Refused
  <2>5. CASE ~Aliased(step) /\ table # 0
    <3>1. names' = [names EXCEPT
                 !.found = Append(@, <<"table", table>>), !.sets = Request(table, ref),
                 !.cache = IF ref[2] = "" THEN @ ELSE Update(@, ref[3], table)]
      BY <2>1, <2>2, <2>5
    <3>2. PICK t : t = table
      OBVIOUS
    <3> HIDE DEF table
    <3>3. names' = [names EXCEPT
                 !.found = Append(@, <<"table", t>>), !.sets = Request(t, ref),
                 !.cache = IF ref[2] = "" THEN @ ELSE Update(@, ref[3], t)]
      BY <3>1, <3>2
    <3>4. t = TableOf(ref) /\ t # 0
      BY <2>5, <3>2 DEF table
    <3> QED
      BY <1>1, <1>2, <1>6, <2>5, <3>3, <3>4, ColumnStep
  <2> QED
    BY <2>3, <2>4, <2>5
<1> QED
  BY <1>5, <1>6

\* What a reference of the select list shows.
LEMMA StarIs ==
  ASSUME NamesType, StatementKnown, NEW ref
  PROVE  /\ \A m \in DOMAIN names.st.from : \A q : StarColumns(m, q) \in Seq(Nat \X STRING)
         /\ ExpandStar(ref) \in Seq(Nat \X STRING)
<1> DEFINE from == names.st.from
<1>1. from \in Seq(FromEntry)
  BY DEF NamesType, Statement
<1>2. DOMAIN from = 1..Len(from) /\ Len(from) \in Nat
  BY <1>1, FromIs
<1>3. ASSUME NEW m \in DOMAIN from, NEW q PROVE StarColumns(m, q) \in Seq(Nat \X STRING)
  <2> DEFINE columns == ColumnsAt(m)
             one(k) == IF q \/ columns[k] \notin JoinedBy(m) THEN <<<<m, columns[k]>>>> ELSE <<>>
  <2>1. columns \in Seq(STRING)
    BY DEF StatementKnown
  <2>2. Len(columns) \in Nat /\ DOMAIN columns = 1..Len(columns) /\ \A k \in DOMAIN columns : columns[k] \in STRING
    BY <2>1
  <2>3. m \in Nat
    BY <1>2
  <2>4. StarColumns(m, q) = FlattenSeq([k \in 1..Len(columns) |-> one(k)])
    BY <2>2 DEF StarColumns
  <2> HIDE DEF columns, from
  <2>5. \A k \in 1..Len(columns) : one(k) \in Seq(Nat \X STRING)
    <3>1. ASSUME NEW k \in 1..Len(columns) PROVE one(k) \in Seq(Nat \X STRING)
      <4>1. one(k) = <<<<m, columns[k]>>>> \/ one(k) = <<>>
        BY Zenon
      <4>2. <<>> \in Seq(Nat \X STRING) /\ <<<<m, columns[k]>>>> \in Seq(Nat \X STRING)
        BY <2>2, <2>3
      <4> HIDE DEF one
      <4> QED
        BY <4>1, <4>2
    <3> QED
      BY <3>1
  <2> HIDE DEF one
  <2>6. [k \in 1..Len(columns) |-> one(k)] \in Seq(Seq(Nat \X STRING))
    BY <2>2, <2>5
  <2> QED
    BY <2>4, <2>6, FlattenType
<1>4. ExpandStar(ref) \in Seq(Nat \X STRING)
  <2> DEFINE one(m) == IF ref[2] = "" \/ NameOf(from[m]) = ref[2] THEN StarColumns(m, ref[2] # "") ELSE <<>>
  <2>1. ExpandStar(ref) = FlattenSeq([m \in 1..Len(from) |-> one(m)])
    BY <1>2 DEF ExpandStar
  <2>2. \A m \in 1..Len(from) : one(m) \in Seq(Nat \X STRING)
    <3>1. <<>> \in Seq(Nat \X STRING)
      OBVIOUS
    <3>2. \A m \in 1..Len(from) : StarColumns(m, ref[2] # "") \in Seq(Nat \X STRING)
      BY <1>2, <1>3
    <3> QED
      BY <3>1, <3>2
  <2> HIDE DEF one, from
  <2>3. [m \in 1..Len(from) |-> one(m)] \in Seq(Seq(Nat \X STRING))
    BY <1>2, <2>2
  <2> QED
    BY <2>1, <2>3, FlattenType
<1> QED
  BY <1>3, <1>4

\* One entry of the select list shows one column, or those of its star.
LEMMA ShownIs ==
  ASSUME NamesType, Walking, Len(names.found) = Len(Walk(names.st)), NEW k \in DOMAIN names.st.columns
  PROVE  LET ref == names.st.columns[k].ref
         IN  /\ Shown(k) \in Seq(Nat \X STRING)
             /\ ref[3] = "*" => Shown(k) = ExpandStar(ref)
             /\ ref[3] # "*" => Len(Shown(k)) = 1
<1> DEFINE n == OnRefs(names.st) + k
           ref == names.st.columns[k].ref
<1>1. StatementKnown /\ names.st \in Statement /\ names.st.from \in Seq(FromEntry)
      /\ \A j \in DOMAIN names.st.order : names.st.order[j][3] # "*"
  BY DEF NamesType, Walking, StatementKnown, Statement
<1>2. n \in 1..Len(Walk(names.st)) /\ Walk(names.st)[n] = [ref |-> ref, aliases |-> FALSE]
  BY <1>1, WalkIs
<1>3. FoundRight(n)
  BY <1>2 DEF Walking
<1>4. ref \in Reference /\ ref[3] \in STRING
  <2>1. names.st.columns \in Seq([ref : Reference, as : Optional])
    BY <1>1 DEF Statement
  <2>2. names.st.columns[k] \in [ref : Reference, as : Optional]
    <3>1. \A S : \A q \in Seq(S) : \A m \in DOMAIN q : q[m] \in S
      OBVIOUS
    <3> QED
      BY ONLY <2>1, <3>1, k \in DOMAIN names.st.columns
  <2> QED
    BY <2>2 DEF Reference
<1>5. Shown(k) = IF names.found[n] = <<"star">> THEN ExpandStar(ref) ELSE <<<<names.found[n][2], ref[3]>>>>
  BY DEF Shown
<1>6. ~Aliased(Walk(names.st)[n]) /\ Walk(names.st)[n].ref = ref
  BY <1>2 DEF Aliased
<1> HIDE DEF n, ref
<1>7. CASE ref[3] = "*"
  <2>1. names.found[n] = <<"star">>
    BY <1>3, <1>6, <1>7 DEF FoundRight
  <2> QED
    BY <1>1, <1>5, <1>7, <2>1, StarIs DEF ref
<1>8. CASE ref[3] # "*"
  <2>1. FoundTable(ref, n)
    BY <1>3, <1>6, <1>8 DEF FoundRight
  <2>2. PICK table \in DOMAIN names.st.from : names.found[n] = <<"table", table>>
    BY <2>1 DEF FoundTable
  <2>3. table \in Nat
    BY <1>1, FromIs
  <2>4. <<"table", table>> # <<"star">> /\ <<"table", table>>[2] = table
    OBVIOUS
  <2>5. Shown(k) = <<<<table, ref[3]>>>>
    BY <1>5, <2>2, <2>4
  <2>6. Shown(k) \in Seq(Nat \X STRING) /\ Len(Shown(k)) = 1
    BY <1>4, <2>3, <2>5
  <2> QED
    BY <1>8, <2>6 DEF ref
<1> QED
  BY <1>7, <1>8

\* What was found does not change if the names are shown.
LEMMA SameViews ==
  ASSUME names'.st = names.st, names'.tables = names.tables, names'.dbs = names.dbs,
         names'.using = names.using, names'.sets = names.sets, names'.cache = names.cache,
         names'.found = names.found
  PROVE  Walking' = Walking /\ \A k : Shown(k)' = Shown(k)
<1>4. /\ \A ref : Named(ref)' = Named(ref)
      /\ \A step : Aliased(step)' = Aliased(step)
      /\ \A c : SharedBy(c)' = SharedBy(c)
      /\ \A m, c : Says(m, c)' = Says(m, c)
      /\ \A m : ColumnsAt(m)' = ColumnsAt(m)
  BY DEF Named, Aliased, SharedBy, Says, ColumnsAt
<1>5. /\ \A m, c : HasColumn(m, c)' = HasColumn(m, c)
      /\ \A n, c, table : Told(n, c, table)' = Told(n, c, table)
  BY <1>4 DEF HasColumn, Told
<1>6. /\ \A ref, n : FoundTable(ref, n)' = FoundTable(ref, n)
      /\ \A m : JoinedBy(m)' = JoinedBy(m)
  BY <1>4, <1>5 DEF FoundTable, JoinedBy
<1>7. /\ \A n : FoundRight(n)' = FoundRight(n)
      /\ CacheRight' = CacheRight
      /\ StatementKnown' = StatementKnown
      /\ \A m, q : StarColumns(m, q)' = StarColumns(m, q)
  BY <1>4, <1>5, <1>6 DEF FoundRight, CacheRight, StatementKnown, StarColumns
<1>8. Walking' = Walking
  BY <1>7 DEF Walking
<1>9. \A ref : ExpandStar(ref)' = ExpandStar(ref)
  BY <1>7 DEF ExpandStar
<1>10. \A k : Shown(k)' = Shown(k)
  BY <1>9 DEF Shown
<1> QED
  BY <1>8, <1>10

\* Listing the columns shown keeps NInv.
LEMMA ColumnsStep ==
  ASSUME NInv, Columns
  PROVE  NInv'
<1> DEFINE columns == names.st.columns
           result == FlattenSeq([k \in DOMAIN columns |-> Shown(k)])
<1>1. /\ NamesType /\ Walking /\ Len(names.found) = Len(Walk(names.st)) /\ names.pc = "walk"
      /\ names' = [names EXCEPT !.pc = "done", !.result = result]
  BY DEF NInv, Columns
<1>2. result \in Seq(Nat \X STRING)
  <2>1. columns \in Seq([ref : Reference, as : Optional])
    BY <1>1 DEF NamesType, Statement
  <2>2. DOMAIN columns = 1..Len(columns) /\ Len(columns) \in Nat
    BY <2>1
  <2>3. \A k \in DOMAIN columns : Shown(k) \in Seq(Nat \X STRING)
    BY <1>1, ShownIs
  <2>4. result = FlattenSeq([k \in 1..Len(columns) |-> Shown(k)])
    BY <2>2
  <2>5. [k \in 1..Len(columns) |-> Shown(k)] \in Seq(Seq(Nat \X STRING))
    <3> HIDE DEF columns
    <3> QED
      BY <2>2, <2>3
  <2> QED
    BY <2>4, <2>5, FlattenType
<1> HIDE DEF result
<1>3. /\ NamesType' /\ names'.pc = "done" /\ names'.st = names.st /\ names'.tables = names.tables
      /\ names'.dbs = names.dbs /\ names'.using = names.using /\ names'.sets = names.sets
      /\ names'.cache = names.cache /\ names'.found = names.found /\ names'.result = result
  BY <1>1, <1>2 DEF NamesType
<1>4. Walking' = Walking /\ \A k : Shown(k)' = Shown(k)
  BY <1>3, SameViews
<1>8. Walking'
  BY <1>1, <1>4
<1>11. Finished'
  BY <1>1, <1>3, <1>4 DEF Finished, result
<1> QED
  BY <1>3, <1>8, <1>11 DEF NInv, RefusedRightly

\* NInv is an invariant of the resolution.
LEMMA NamesInvariance ==
  NamesSpec => []NInv
<1>1. NamesInit => NInv
  BY NamesStart
<1>2. ASSUME NInv, [NamesNext]_names PROVE NInv'
  <2>1. CASE Tables
    BY <1>2, <2>1, TablesStep
  <2>2. CASE Resolve
    BY <1>2, <2>2, ResolveStep
  <2>3. CASE Columns
    BY <1>2, <2>3, ColumnsStep
  <2>4. CASE UNCHANGED names
    <3>1. names' = names
      BY <2>4
    <3> QED
      <4>1. Walking' = Walking /\ \A k : Shown(k)' = Shown(k)
        BY <3>1, SameViews
      <4>2. Finished' = Finished
        BY <3>1, <4>1 DEF Finished
      <4>3. \A ref : Named(ref)' = Named(ref)
        BY <3>1 DEF Named
      <4>4. RefusedRightly' = RefusedRightly
        BY <3>1, <4>3 DEF RefusedRightly
      <4>5. NamesType' = NamesType
        BY <3>1 DEF NamesType
      <4> QED
        BY <1>2, <3>1, <4>1, <4>2, <4>4, <4>5 DEF NInv
  <2> QED
    BY <1>2, <2>1, <2>2, <2>3, <2>4 DEF NamesNext
<1> QED
  BY <1>1, <1>2, PTL DEF NamesSpec

-----------------------------------------------------------------------------
(* What follows from it.                                                   *)

\* The only element of a set of places.
LEMMA OnlyOne ==
  ASSUME NEW n \in Nat, NEW S \in SUBSET (1..n), Cardinality(S) = 1, NEW x \in S
  PROVE  (CHOOSE y \in S : TRUE) = x /\ \A y \in S : y = x
<1>1. IsFiniteSet(1..n)
  BY FS_Interval
<1>2. IsFiniteSet(S)
  BY <1>1, FS_Subset
<1>3. \E y : S = {y}
  BY <1>2, FS_Singleton
<1> QED
  BY <1>3

\* The places that a name may mean.
LEMMA MeantIs ==
  ASSUME NamesType, StatementKnown, NEW ref \in Reference, ref[3] # "*", Legal(ref), NEW table
  PROVE  /\ ref[2] # "" /\ table \in Named(ref) => Meant(ref) = table /\ HasColumn(table, ref[3])
         /\ ref[2] = "" /\ SharedBy(ref[3]) # {} => Meant(ref) = 1
         /\ ref[2] = "" /\ SharedBy(ref[3]) = {} /\ table \in DOMAIN names.st.from
              /\ HasColumn(table, ref[3]) => Meant(ref) = table
<1> DEFINE from == names.st.from
           having == {m \in DOMAIN from : HasColumn(m, ref[3])}
<1>1. from \in Seq(FromEntry)
  BY DEF NamesType, Statement
<1>2. DOMAIN from = 1..Len(from) /\ Len(from) \in Nat
  BY <1>1, FromIs
<1>3. ASSUME ref[2] # "", table \in Named(ref) PROVE Meant(ref) = table /\ HasColumn(table, ref[3])
  <2>1. Cardinality(Named(ref)) = 1 /\ HasColumn(CHOOSE m \in Named(ref) : TRUE, ref[3])
    BY <1>3 DEF Legal
  <2>2. Named(ref) \in SUBSET (1..Len(from))
    BY <1>2 DEF Named
  <2>3. (CHOOSE m \in Named(ref) : TRUE) = table
    BY <1>2, <1>3, <2>1, <2>2, OnlyOne
  <2> QED
    BY <1>3, <2>1, <2>3 DEF Meant
<1>4. ASSUME ref[2] = "", SharedBy(ref[3]) = {}, table \in DOMAIN from, HasColumn(table, ref[3])
      PROVE  Meant(ref) = table
  <2>1. Cardinality(having) = 1
    BY <1>4 DEF Legal
  <2>2. having \in SUBSET (1..Len(from)) /\ table \in having
    BY <1>2, <1>4
  <2> HIDE DEF having
  <2>3. \A m \in having : m = table
    BY <1>2, <2>1, <2>2, OnlyOne
  <2>4. Meant(ref) = CHOOSE m \in DOMAIN from : HasColumn(m, ref[3])
    BY <1>4 DEF Meant
  <2>5. \A m \in DOMAIN from : HasColumn(m, ref[3]) => m = table
    BY <2>3 DEF having
  <2> QED
    BY <1>4, <2>4, <2>5
<1> QED
  BY <1>3, <1>4 DEF Meant

\* Places of the walk and those before them.
LEMMA WalkedIs ==
  ASSUME NamesType, Walking, NEW n \in DOMAIN Walk(names.st)
  PROVE  /\ Walk(names.st)[n] \in Step /\ Walk(names.st)[n].ref \in Reference
         /\ n \in Nat /\ n \in 1..Len(Walk(names.st))
         /\ \A m \in 1..(n - 1) : m \in DOMAIN Walk(names.st) /\ m \in 1..Len(Walk(names.st))
<1>1. names.st \in Statement /\ \A k \in DOMAIN names.st.order : names.st.order[k][3] # "*"
  BY DEF NamesType, Walking, StatementKnown
<1>2. Walk(names.st) \in Seq(Step)
  BY <1>1, WalkIs
<1>3. Walk(names.st)[n] \in Step /\ n \in Nat /\ n \in 1..Len(Walk(names.st))
      /\ DOMAIN Walk(names.st) = 1..Len(Walk(names.st)) /\ Len(Walk(names.st)) \in Nat
  BY <1>2
<1>4. \A m \in 1..(n - 1) : m \in 1..Len(Walk(names.st))
  BY ONLY <1>3
<1> QED
  BY <1>3, <1>4 DEF Step

\* A column of a legal statement is that of the table it is found in.
LEMMA TableMeant ==
  ASSUME NInv, names.pc = "done", NEW n \in DOMAIN Walk(names.st), NEW ref, ref = Walk(names.st)[n].ref,
         ref[3] # "*", NEW table \in DOMAIN names.st.from, names.found[n] = <<"table", table>>,
         IF ref[2] # "" THEN table \in Named(ref)
         ELSE IF SharedBy(ref[3]) # {} THEN table = 1 ELSE Told(n, ref[3], table),
         Legal(ref), ref[2] # "" \/ Evident(Walk(names.st), n),
         \A m \in 1..(n - 1) : Legal(Walk(names.st)[m].ref)
  PROVE  table = Meant(ref)
<1> DEFINE walk == Walk(names.st)
<1>1. /\ NamesType /\ Walking /\ StatementKnown /\ Len(names.found) = Len(walk)
      /\ \A m \in 1..Len(names.found) : FoundRight(m)
  BY DEF NInv, Walking, Finished
<1>2. ref \in Reference /\ n \in Nat /\ n \in 1..Len(walk)
  BY <1>1, WalkedIs
<1>3. CASE ref[2] # ""
  BY <1>1, <1>2, <1>3, MeantIs
<1>4. CASE ref[2] = "" /\ SharedBy(ref[3]) # {}
  BY <1>1, <1>2, <1>4, MeantIs
<1>5. CASE ref[2] = "" /\ SharedBy(ref[3]) = {}
  <2>1. HasColumn(table, ref[3])
    <3>1. Told(n, ref[3], table)
      BY <1>5
    <3>2. CASE \E m \in 1..(n - 1) : Says(m, ref[3]) /\ names.found[m] = <<"table", table>>
      <4>1. PICK m \in 1..(n - 1) : Says(m, ref[3]) /\ names.found[m] = <<"table", table>>
        BY <3>2
      <4>2. PICK earlier : earlier = walk[m].ref
        OBVIOUS
      <4>3. earlier[2] # "" /\ earlier[3] = ref[3]
        BY <4>1, <4>2 DEF Says
      <4>4. m \in 1..Len(walk) /\ m \in DOMAIN walk
        BY <1>1, WalkedIs
      <4>5. FoundRight(m) /\ Legal(earlier) /\ earlier \in Reference
        BY <1>1, <4>2, <4>4, WalkedIs
      <4>6. ~Aliased(walk[m])
        BY <4>2, <4>3 DEF Aliased
      <4>7. FoundTable(earlier, m)
        BY <4>2, <4>3, <4>5, <4>6 DEF FoundRight
      <4>8. PICK t \in DOMAIN names.st.from : names.found[m] = <<"table", t>> /\ t \in Named(earlier)
        BY <4>3, <4>7 DEF FoundTable
      <4>9. t = table
        <5>1. <<"table", t>> = <<"table", table>>
          BY <4>1, <4>8
        <5> QED
          BY ONLY <5>1
      <4> QED
        BY <1>1, <4>3, <4>5, <4>8, <4>9, MeantIs
    <3>3. CASE table = 1 /\ \A m \in 1..(n - 1) : ~Says(m, ref[3])
      BY <1>5, <3>3 DEF Evident, Says
    <3> QED
      BY <3>1, <3>2, <3>3 DEF Told
  <2> QED
    BY <1>1, <1>2, <1>5, <2>1, MeantIs
<1> QED
  BY <1>3, <1>4, <1>5

\* Names are read from the tables they belong to.
LEMMA AllTables ==
  NInv => NamesAreTables
<1> SUFFICES ASSUME NInv, names.pc = "done", NEW n \in DOMAIN Walk(names.st)
             PROVE  LET walk == Walk(names.st)
                        ref == walk[n].ref
                        found == names.found[n]
                    IN  /\ ref[2] # "" => Named(ref) # {}
                        /\ found[1] = "table" =>
                             /\ names.sets[found[2]] = {} \/ found[2] \in names.all
                                  \/ ref[3] \in names.sets[found[2]]
                             /\ (Legal(ref) /\ (ref[2] # "" \/ Evident(walk, n))
                                  /\ \A m \in 1..(n - 1) : Legal(walk[m].ref))
                                => found[2] = Meant(ref)
                        /\ (Aliased(walk[n])
                             /\ \A k \in DOMAIN names.st.columns : names.st.columns[k].ref[3] # "*")
                             => found[1] = "result" /\ found[2] \in DOMAIN names.result
  BY DEF NamesAreTables
<1>1. PICK ref : ref = Walk(names.st)[n].ref
  OBVIOUS
<1>2. PICK found : found = names.found[n]
  OBVIOUS
<1>3. NamesType /\ Walking /\ Finished /\ names.st \in Statement
  BY DEF NInv, NamesType
<1>4. ref \in Reference /\ n \in 1..Len(Walk(names.st)) /\ Walk(names.st)[n] \in Step
  BY <1>1, <1>3, WalkedIs
<1>5. FoundRight(n)
  BY <1>3, <1>4 DEF Walking, Finished
<1>6. Aliased(Walk(names.st)[n]) => ref[3] # "*"
  BY <1>1, <1>4 DEF Aliased, Step
<1>7. ref[2] # "" => Named(ref) # {}
  BY <1>1, <1>5 DEF FoundRight
<1>8. CASE ref[3] = "*"
  <2>1. found = <<"star">>
    BY <1>1, <1>2, <1>5, <1>8 DEF FoundRight
  <2>2. found[1] # "table"
    BY <2>1
  <2> QED
    BY <1>1, <1>2, <1>6, <1>7, <1>8, <2>2
<1>9. CASE ref[3] # "*" /\ ~Aliased(Walk(names.st)[n])
  <2>1. FoundTable(ref, n)
    BY <1>1, <1>5, <1>9 DEF FoundRight
  <2>2. PICK table \in DOMAIN names.st.from :
          /\ names.found[n] = <<"table", table>> /\ ref[3] \in names.sets[table]
          /\ IF ref[2] # "" THEN table \in Named(ref)
             ELSE IF SharedBy(ref[3]) # {} THEN table = 1 ELSE Told(n, ref[3], table)
    BY <2>1 DEF FoundTable
  <2>3. found[2] = table
    <3>1. found = <<"table", table>>
      BY <1>2, <2>2
    <3> QED
      BY ONLY <3>1
  <2>4. (Legal(ref) /\ (ref[2] # "" \/ Evident(Walk(names.st), n))
          /\ \A m \in 1..(n - 1) : Legal(Walk(names.st)[m].ref)) => table = Meant(ref)
    BY <1>1, <1>9, <2>2, TableMeant
  <2> QED
    BY <1>1, <1>2, <1>7, <1>9, <2>2, <2>3, <2>4
<1>10. CASE ref[3] # "*" /\ Aliased(Walk(names.st)[n])
  <2>1. found = <<"result", ResultIndex(names.st, ref[3])>>
    BY <1>1, <1>2, <1>5, <1>10 DEF FoundRight
  <2>2. found[1] = "result" /\ found[1] # "table" /\ found[2] = ResultIndex(names.st, ref[3])
    BY <2>1
  <2>3. ASSUME \A k \in DOMAIN names.st.columns : names.st.columns[k].ref[3] # "*"
        PROVE  found[2] \in DOMAIN names.result
    <3> DEFINE columns == names.st.columns
    <3>1. ResultIndex(names.st, ref[3]) \in 0..Len(columns) /\ Len(columns) \in Nat
          /\ DOMAIN columns = 1..Len(columns) /\ ResultIndex(names.st, ref[3]) # 0
      BY <1>1, <1>3, <1>10, ResultIs DEF Aliased
    <3>2. names.result = FlattenSeq([k \in 1..Len(columns) |-> Shown(k)])
      BY <1>3, <3>1 DEF Finished
    <3>3. \A k \in 1..Len(columns) : Shown(k) \in Seq(Nat \X STRING) /\ Len(Shown(k)) = 1
      BY <1>3, <2>3, <3>1, ShownIs DEF Finished
    <3> DEFINE seqs == [k \in 1..Len(columns) |-> Shown(k)]
    <3> HIDE DEF columns
    <3>4. seqs \in Seq(Seq(Nat \X STRING)) /\ Len(seqs) = Len(columns)
          /\ \A k \in DOMAIN seqs : Len(seqs[k]) = 1
      BY <3>1, <3>3
    <3> HIDE DEF seqs
    <3>5. Len(FlattenSeq(seqs)) = Len(columns) /\ FlattenSeq(seqs) \in Seq(Nat \X STRING)
      BY <3>4, FlattenLen, FlattenType
    <3>6. DOMAIN names.result = 1..Len(columns)
      BY <3>2, <3>5 DEF seqs
    <3> QED
      BY <2>2, <3>1, <3>6
  <2> QED
    BY <1>1, <1>2, <1>7, <2>2, <2>3
<1> QED
  BY <1>8, <1>9, <1>10

\* A column that a table is not joined by is listed by SELECT *.
LEMMA Listed ==
  ASSUME NamesType, StatementKnown, NEW m \in DOMAIN names.st.from, NEW c \in Range(ColumnsAt(m)),
         c \notin JoinedBy(m)
  PROVE  <<m, c>> \in Range(ExpandStar(Ref("", "*")))
<1> DEFINE from == names.st.from
           columns == ColumnsAt(m)
           star == Ref("", "*")
           one(k) == IF columns[k] \notin JoinedBy(m) THEN <<<<m, columns[k]>>>> ELSE <<>>
           shown(l) == StarColumns(l, FALSE)
<1>1. /\ Len(from) \in Nat /\ DOMAIN from = 1..Len(from) /\ \A l \in DOMAIN from : l \in Nat
  <2>1. from \in Seq(FromEntry)
    BY DEF NamesType, Statement
  <2> QED
    BY <2>1, FromIs
<1>2. Len(columns) \in Nat /\ DOMAIN columns = 1..Len(columns) /\ \A k \in DOMAIN columns : columns[k] \in STRING
  <2>1. columns \in Seq(STRING)
    BY DEF StatementKnown
  <2> HIDE DEF columns
  <2> QED
    BY <2>1
<1>3. <<m, c>> \in Range(shown(m))
  <2>1. PICK k \in DOMAIN columns : c = columns[k]
    BY DEF Range
  <2> DEFINE seqs == [l \in 1..Len(columns) |-> one(l)]
  <2>2. shown(m) = FlattenSeq(seqs)
    BY <1>2 DEF StarColumns
  <2>3. \A l \in 1..Len(columns) : one(l) \in Seq(Nat \X STRING)
    <3>1. m \in Nat
      BY <1>1
    <3>2. ASSUME NEW l \in 1..Len(columns) PROVE one(l) \in Seq(Nat \X STRING)
      <4>1. one(l) = <<<<m, columns[l]>>>> \/ one(l) = <<>>
        BY Zenon
      <4>2. columns[l] \in STRING
        BY <1>2
      <4> HIDE DEF one, columns, from
      <4>3. <<>> \in Seq(Nat \X STRING) /\ <<<<m, columns[l]>>>> \in Seq(Nat \X STRING)
        BY ONLY <3>1, <4>2
      <4> QED
        BY <4>1, <4>3
    <3> QED
      BY <3>2
  <2>4. one(k) = <<<<m, c>>>>
    BY <2>1
  <2> HIDE DEF columns, one
  <2>5. seqs \in Seq(Seq(Nat \X STRING)) /\ k \in DOMAIN seqs /\ seqs[k] = <<<<m, c>>>>
    BY <1>2, <2>1, <2>3, <2>4
  <2>6. <<m, c>> \in Range(seqs[k])
    <3>1. <<m, c>> \in Range(<<<<m, c>>>>)
      BY DEF Range
    <3> QED
      BY <2>5, <3>1
  <2> HIDE DEF seqs
  <2> QED
    BY <2>2, <2>5, <2>6, FlattenHas DEF seqs
<1> DEFINE seqs == [l \in 1..Len(from) |-> shown(l)]
<1>4. ExpandStar(star) = FlattenSeq(seqs)
  <2>1. star[2] = ""
    BY DEF Ref
  <2>2. [l \in DOMAIN from |-> IF star[2] = "" \/ NameOf(from[l]) = star[2]
                               THEN StarColumns(l, star[2] # "") ELSE <<>>] = seqs
    BY <1>1, <2>1
  <2> HIDE DEF star, seqs
  <2> QED
    BY <2>2 DEF ExpandStar
<1>5. \A l \in 1..Len(from) : shown(l) \in Seq(Nat \X STRING)
  BY <1>1, StarIs
<1> HIDE DEF shown, from
<1>6. seqs \in Seq(Seq(Nat \X STRING)) /\ m \in DOMAIN seqs /\ seqs[m] = shown(m)
  BY <1>1, <1>5 DEF from
<1> HIDE DEF seqs
<1> QED
  BY <1>3, <1>4, <1>6, FlattenHas

\* SELECT * shows every column: the leftmost table that has it is not joined by it.
LEMMA AllColumns ==
  NInv => StarIsWhole
<1> DEFINE from == names.st.from
           columns == names.st.columns
<1> SUFFICES ASSUME NInv, names.pc = "done",
                    Ref("", "*") \in {column.ref : column \in Range(columns)},
                    NEW m \in DOMAIN from, NEW c \in Range(ColumnsAt(m))
             PROVE  \/ <<m, c>> \in Range(names.result)
                    \/ /\ \/ c \in Range(from[m].using)
                          \/ Natural(from[m]) /\ \E j \in 1..(m - 1) : HasColumn(j, c)
                       /\ \E j \in 1..(m - 1) : <<j, c>> \in Range(names.result)
  BY DEF StarIsWhole
<1>1. NamesType /\ Walking /\ Finished /\ StatementKnown /\ names.st \in Statement
  BY DEF NInv, NamesType, Walking
<1>2. from \in Seq(FromEntry) /\ columns \in Seq([ref : Reference, as : Optional])
  BY <1>1 DEF Statement
<1>3. Len(from) \in Nat /\ DOMAIN from = 1..Len(from) /\ m \in Nat
  BY <1>2, FromIs
<1>4. Range(ExpandStar(Ref("", "*"))) \subseteq Range(names.result)
  <2>1. PICK k \in DOMAIN columns : columns[k].ref = Ref("", "*")
    BY DEF Range
  <2>2. Len(columns) \in Nat /\ DOMAIN columns = 1..Len(columns)
    BY ONLY <1>2
  <2>3. Shown(k) = ExpandStar(Ref("", "*"))
    <3>1. columns[k].ref[3] = "*"
      <4>1. Ref("", "*")[3] = "*"
        BY ONLY DEF Ref
      <4> QED
        BY <2>1, <4>1
    <3> QED
      BY <1>1, <2>1, <3>1, ShownIs DEF Finished
  <2> DEFINE seqs == [l \in 1..Len(columns) |-> Shown(l)]
  <2>4. names.result = FlattenSeq(seqs)
    BY <1>1, <2>2 DEF Finished
  <2>5. \A l \in 1..Len(columns) : Shown(l) \in Seq(Nat \X STRING)
    BY <1>1, <2>2, ShownIs DEF Finished
  <2> HIDE DEF columns
  <2>6. seqs \in Seq(Seq(Nat \X STRING)) /\ k \in DOMAIN seqs /\ seqs[k] = Shown(k)
    <3>1. k \in 1..Len(columns)
      BY <2>2
    <3> QED
      BY ONLY <2>2, <2>5, <3>1
  <2> HIDE DEF seqs
  <2>7. ASSUME NEW e \in Range(seqs[k]) PROVE e \in Range(FlattenSeq(seqs))
    BY <2>6, <2>7, FlattenHas
  <2> QED
    BY <2>3, <2>4, <2>6, <2>7
<1>5. ASSUME NEW j \in DOMAIN from, c \in Range(ColumnsAt(j)), c \notin JoinedBy(j)
      PROVE  <<j, c>> \in Range(names.result)
  BY <1>1, <1>4, <1>5, Listed
<1>6. ASSUME NEW j \in DOMAIN from, c \in JoinedBy(j)
      PROVE  /\ \E l \in 1..(j - 1) : HasColumn(l, c)
             /\ c \in Range(from[j].using) \/ Natural(from[j])
  <2>1. CASE j > 1 /\ Natural(from[j])
    BY <1>6, <2>1 DEF JoinedBy
  <2>2. CASE ~(j > 1 /\ Natural(from[j]))
    <3>1. c \in Range(from[j].using)
      BY <1>6, <2>2 DEF JoinedBy
    <3> QED
      BY <1>1, <3>1 DEF StatementKnown
  <2> QED
    BY <2>1, <2>2
<1>7. CASE c \notin JoinedBy(m)
  BY <1>5, <1>7
<1>8. CASE c \in JoinedBy(m)
  <2> DEFINE H == {j \in 1..(m - 1) : HasColumn(j, c)}
  <2>1. H # {} /\ (c \in Range(from[m].using) \/ Natural(from[m]))
    BY <1>6, <1>8
  <2>2. H \in SUBSET Nat
    BY ONLY <1>3
  <2>3. PICK j \in H : \A l \in H : j <= l
    <3> HIDE DEF H
    <3> QED
      BY <2>1, <2>2, Least
  <2>4. j \in 1..(m - 1) /\ HasColumn(j, c) /\ j \in DOMAIN from
    <3>1. j \in 1..(m - 1) /\ HasColumn(j, c)
      OBVIOUS
    <3>2. m \in 1..Len(from)
      BY <1>3
    <3>3. j \in 1..Len(from)
      BY ONLY <1>3, <3>1, <3>2
    <3> QED
      BY <1>3, <3>1, <3>3
  <2>5. c \notin JoinedBy(j)
    <3> SUFFICES ASSUME c \in JoinedBy(j) PROVE FALSE
      OBVIOUS
    <3>1. PICK l \in 1..(j - 1) : HasColumn(l, c)
      BY <1>6, <2>4
    <3>2. l \in 1..(m - 1) /\ ~(j <= l)
      BY ONLY <1>3, <2>4, l \in 1..(j - 1)
    <3> QED
      BY <2>3, <3>1, <3>2
  <2>6. <<j, c>> \in Range(names.result)
    BY <1>5, <2>4, <2>5 DEF HasColumn
  <2> QED
    BY <2>1, <2>4, <2>6
<1> QED
  BY <1>7, <1>8

(* A column name is read from the table SQL gives it to and asked for      *)
(* there, only statements that name what FROM does not have are refused,   *)
(* and SELECT * is whole (column_ref_helper.ts:91-361 and                  *)
(* query_columns.ts:52-107): for all statements and all tables.            *)
THEOREM NamesRight ==
  NamesSpec => []NamesResolved
<1>1. NInv => NamesResolved
  BY AllTables, AllColumns DEF NInv, NamesResolved
<1> QED
  BY <1>1, NamesInvariance, PTL
=============================================================================
