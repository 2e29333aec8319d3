----------------------------- MODULE RawInsert -----------------------------
(***************************************************************************)
(* INSERT, INSERT IGNORE, REPLACE and INSERT ... ON DUPLICATE KEY UPDATE   *)
(* of the raw engine: one statement with several rows against a DynamoDB   *)
(* table that other clients write at the same time.                        *)
(*                                                                         *)
(* A row sets the key, the column c and the column d; ON DUPLICATE KEY     *)
(* UPDATE sets c.  The statement chooses one of three paths (RAW_ENGINE.md *)
(* calls them A, B and C).  The requests of one item are atomic, as are    *)
(* transactions; the statements of a batch are independent of each other.  *)
(***************************************************************************)
EXTENDS Integers, Sequences, FiniteSets

CONSTANTS
  Key,        \* primary keys
  KeyText,    \* what _keyOf makes of them: the values of the columns, joined by '|', so
              \* that different keys of two columns may have one text
  RowC,       \* values of c in the rows of the statement
  Mode,       \* kinds of statement that are considered
  Client      \* bounds of a behaviour: keys, values of c and of d in the table, rows of
              \* the statement, writes of other clients during it

Null == -1      \* the attribute NULL
Missing == -2   \* an item without the attribute
NewD == 7       \* d in the rows of the statement
Const == 1      \* n in ON DUPLICATE KEY UPDATE c = n

Update == {"c = VALUES(c)", "c = c + VALUES(c)", "c = 1", "c = c + 1", "c = f(c)"}

Bounds(x) ==
  /\ x.keys \subseteq Key
  /\ x.c \cup x.d \subseteq Nat \cup {Null, Missing}
  /\ x.rows \in Nat /\ x.others \in Nat

ASSUME ConstantsAssumption ==
  /\ IsFiniteSet(Key)
  /\ DOMAIN KeyText = Key
  /\ RowC \subseteq Nat \cup {Null}
  /\ Mode \subseteq Update \cup {"insert", "ignore", "replace"}
  /\ \A x \in Client : Bounds(x)

Row == [k : Key, c : RowC]

VARIABLES
  client,    \* the bounds of this behaviour
  db,        \* the table: a function of the keys that are there
  before,    \* the table when the statement began
  mode, list,
  at,        \* where the statement is
  left,      \* rows (or keys to read) that the request under way has not reached yet
  failed,    \* rows whose statement in a batch failed, with the reason
  found,     \* path C: the items read
  out,       \* history: what became of each row at DynamoDB
  count,     \* affectedRows and changedRows
  others     \* writes of other clients

vars == <<client, db, before, mode, list, at, left, failed, found, out, count, others>>

Rows == DOMAIN list
Item == [c : client.c, d : client.d]
Zero == [affected |-> 0, changed |-> 0]

Init ==
  /\ client \in Client
  /\ db \in UNION {[K -> Item] : K \in SUBSET client.keys}
  /\ before = db
  /\ mode \in Mode
  /\ list \in UNION {[1..n -> {row \in Row : row.k \in client.keys}] : n \in 1..client.rows}
  /\ at = "start"
  /\ left = {} /\ failed = {} /\ found = [k \in {} |-> 0]
  /\ out = [i \in Rows |-> "nothing"]
  /\ count = Zero
  /\ others = 0

-----------------------------------------------------------------------------
(* Values and rows *)

Plus(a, b) == IF a < 0 \/ b < 0 THEN Null ELSE a + b

\* the value that ON DUPLICATE KEY UPDATE gives c, in MySQL
NewC(c, row) ==
  CASE mode = "c = VALUES(c)" -> row.c
    [] mode = "c = c + VALUES(c)" -> Plus(c, row.c)
    [] mode = "c = 1" -> Const
    [] mode = "c = c + 1" -> Plus(c, 1)
    [] mode = "c = f(c)" -> Plus(c, c)

Same(a, b) == a = b \/ {a, b} = {Null, Missing}   \* isSameCell

With(t, k, item) == [j \in DOMAIN t \cup {k} |-> IF j = k THEN item ELSE t[j]]
ItemOf(row) == [c |-> row.c, d |-> NewD]

\* every set value is the inserted value, or an increment by it
Planned(row) ==
  \/ mode = "c = VALUES(c)"
  \/ mode = "c = c + VALUES(c)" /\ row.c # Null
  \/ mode = "c = 1" /\ row.c = Const
  \/ mode = "c = c + 1" /\ row.c = 1

Path ==
  IF mode \notin Update THEN mode
  ELSE IF \A i \in Rows : Planned(list[i]) THEN "A"
  ELSE IF /\ mode = "c = 1"        \* convertWhere translates no sum and no function
          /\ \A i, j \in Rows : KeyText[list[i].k] = KeyText[list[j].k] => i = j
       THEN "B" ELSE "C"

\* trackFirstSeen: the rows that INSERT IGNORE and REPLACE go on with
Kept ==
  {i \in Rows : \A j \in Rows : list[j].k = list[i].k =>
     IF mode = "ignore" THEN i <= j ELSE i >= j}

\* path C: for each key text the last row, and so the keys that are read
Wanted == {list[i].k : i \in {i \in Rows : \A j \in Rows :
             KeyText[list[j].k] = KeyText[list[i].k] => j <= i}}

Add(a, c) == count' = [affected |-> count.affected + a, changed |-> count.changed + c]
End(how) == at' = how

-----------------------------------------------------------------------------
Start ==
  /\ at = "start"
  /\ at' = CASE Path = "A" -> "items" [] Path = "B" -> "updates" [] Path = "C" -> "reads"
             [] Path = "ignore" -> "inserts" [] OTHER -> "transaction"
  /\ left' = CASE Path = "C" -> Wanted
               [] Path \in {"ignore", "replace"} -> Kept [] OTHER -> Rows
  /\ count' = IF mode \in {"ignore", "replace"} THEN [Zero EXCEPT !.affected = Cardinality(Kept)]
              ELSE Zero
  /\ UNCHANGED <<db, before, mode, list, failed, found, out, others>>

\* the update expression adds to c instead of setting it
Increment == mode \in {"c = c + VALUES(c)", "c = c + 1"}

\* if_not_exists(d, :v)
KeptD(d) == IF d = Missing THEN NewD ELSE d

\* path A: what the attributes before the update say, an increment being a change unless
\* it is by 0
CountA(row, old, new) ==
  IF IF Increment THEN row.c # 0 ELSE ~Same(old, new) THEN Add(2, 1) ELSE Add(1, 1)

\* path A: one UpdateItem, in the order of the rows
UpdateItem(i) == \E row \in {list[i]} :
  /\ at = "items" /\ i \in left /\ \A j \in left : i <= j
  /\ left' = left \ {i}
  /\ IF row.k \notin DOMAIN db
     THEN /\ db' = With(db, row.k, ItemOf(row))
          /\ out' = [out EXCEPT ![i] = "new"]
          /\ Add(1, 0)
          /\ at' = IF left' = {} THEN "ok" ELSE at
     ELSE \E old \in {db[row.k]} :
       IF Increment /\ old.c = Null
       THEN End("error") /\ UNCHANGED <<db, out, count>>
       ELSE \E new \in {IF ~Increment THEN NewC(old.c, row)
                        ELSE row.c + (IF old.c = Missing THEN 0 ELSE old.c)} :
         /\ db' = With(db, row.k, [c |-> new, d |-> KeptD(old.d)])
         /\ out' = [out EXCEPT ![i] = IF Same(old.c, new) THEN "same" ELSE "changed"]
         /\ CountA(row, old.c, new)
         /\ at' = IF left' = {} THEN "ok" ELSE at
  /\ UNCHANGED <<before, mode, list, failed, found, others>>

-----------------------------------------------------------------------------
(* Path B *)

\* a statement of a batch that is refused for another reason than its condition: the load on
\* the table, a transaction on the item
Refuse(i) ==
  /\ at \in {"updates", "inserts"} /\ i \in left
  /\ left' = left \ {i}
  /\ failed' = failed \cup {<<i, "refused">>}
  /\ UNCHANGED <<db, before, mode, list, at, found, out, count, others>>

\* one statement of the batch UPDATE, which its condition on the key makes fail with
\* ConditionalCheckFailed when there is no item
BatchUpdate(i) == \E k \in {list[i].k} :
  /\ at = "updates" /\ i \in left
  /\ left' = left \ {i}
  /\ IF k \in DOMAIN db
     THEN /\ db' = [db EXCEPT ![k].c = NewC(db[k].c, list[i])]
          /\ out' = [out EXCEPT ![i] = "hit"]
          /\ UNCHANGED failed
     ELSE /\ failed' = failed \cup {<<i, "cond_fail">>}
          /\ UNCHANGED <<db, out>>
  /\ UNCHANGED <<before, mode, list, at, found, count, others>>

\* its answer: an error that is not cond_fail is thrown, the missing rows are inserted
Updated ==
  /\ at = "updates" /\ left = {}
  /\ LET missing == {f[1] : f \in failed}
         hits == Cardinality(Rows) - Cardinality(missing)
     IN IF \E f \in failed : f[2] # "cond_fail"
        THEN End("error") /\ UNCHANGED <<left, count>>
        ELSE /\ count' = [affected |-> 2 * hits + Cardinality(missing), changed |-> hits]
             /\ left' = missing
             /\ at' = IF missing = {} THEN "ok" ELSE "inserts"
  /\ failed' = {}
  /\ UNCHANGED <<db, before, mode, list, found, out, others>>

\* one statement of a batch INSERT, of path B or of INSERT IGNORE
BatchInsert(i) == \E row \in {list[i]} :
  /\ at = "inserts" /\ i \in left
  /\ left' = left \ {i}
  /\ IF row.k \in DOMAIN db
     THEN /\ failed' = failed \cup {<<i, "DuplicateItem">>}
          /\ out' = [out EXCEPT ![i] = "kept"]
          /\ UNCHANGED db
     ELSE /\ db' = With(db, row.k, ItemOf(row))
          /\ out' = [out EXCEPT ![i] = "new"]
          /\ UNCHANGED failed
  /\ UNCHANGED <<before, mode, list, at, found, count, others>>

\* mutant: the rows that were there count as inserted
InsertedAll ==
  /\ at = "inserts" /\ left = {}
  /\ End("ok")
  /\ UNCHANGED <<db, before, mode, list, left, failed, found, out, count, others>>

\* its answer: any failure is an error in path B; for INSERT IGNORE a duplicate is one row
\* less and another reason an error
Inserted ==
  /\ at = "inserts" /\ left = {}
  /\ IF mode = "ignore" /\ \A f \in failed : f[2] = "DuplicateItem"
     THEN Add(-Cardinality(failed), 0) /\ End("ok")
     ELSE End(IF failed = {} THEN "ok" ELSE "error") /\ UNCHANGED count
  /\ UNCHANGED <<db, before, mode, list, left, failed, found, out, others>>

-----------------------------------------------------------------------------
(* Path C, and the transactions of INSERT and REPLACE *)

Read(k) ==
  /\ at = "reads" /\ k \in left
  /\ left' = left \ {k}
  /\ found' = IF k \in DOMAIN db THEN With(found, k, db[k]) ELSE found
  /\ at' = IF left' = {} THEN "compute" ELSE at
  /\ UNCHANGED <<db, before, mode, list, failed, out, count, others>>

\* what the loop over the rows keeps for each key text
Entry(k, cur, new) == [k |-> k, cur |-> cur, new |-> new, changed |-> FALSE]

\* mutant: the row of the table is used again for a second row of the key
ApplyFirst(state, row) ==
  LET t == KeyText[row.k] IN
  IF t \notin DOMAIN state THEN With(state, t, Entry(row.k, ItemOf(row), TRUE))
  ELSE LET old == IF row.k \in DOMAIN found THEN found[row.k].c ELSE row.c
           c == NewC(old, row)
       IN [state EXCEPT ![t].cur.c = c, ![t].changed = @ \/ ~Same(state[t].cur.c, c)]

\* one row: evaluateDuplicateUpdate on what earlier rows of the statement left
Apply(state, row) ==
  LET t == KeyText[row.k] IN
  IF t \notin DOMAIN state THEN With(state, t, Entry(row.k, ItemOf(row), TRUE))
  ELSE LET c == NewC(state[t].cur.c, row) IN
       [state EXCEPT ![t].cur.c = c, ![t].changed = @ \/ ~Same(state[t].cur.c, c)]

ReadState ==
  LET last(t) == CHOOSE k \in DOMAIN found : KeyText[k] = t
  IN [t \in {KeyText[k] : k \in DOMAIN found} |-> Entry(last(t), found[last(t)], FALSE)]

\* the map of entries after the first n rows
StateAfter[n \in 0..Len(list)] ==
  IF n = 0 THEN ReadState ELSE Apply(StateAfter[n - 1], list[n])
Hit(i) == KeyText[list[i].k] \in DOMAIN StateAfter[i - 1]
HitChanges(i) == \E c \in {StateAfter[i - 1][KeyText[list[i].k]].cur.c} : ~Same(c, NewC(c, list[i]))

Compute ==
  /\ at = "compute"
  /\ LET hits == {i \in Rows : Hit(i)} IN
       count' = [affected |-> Cardinality(Rows) + Cardinality({i \in hits : HitChanges(i)}),
                 changed |-> Cardinality(hits)]
  /\ at' = "write"
  /\ UNCHANGED <<db, before, mode, list, left, failed, found, out, others>>

Entries == LET state == StateAfter[Len(list)] IN {state[t] : t \in DOMAIN state}
Changed == {e \in Entries : ~e.new /\ e.changed}
New == {e \in Entries : e.new}

\* mutant: the columns are written as they were read
WriteChangedAll ==
  /\ at = "write"
  /\ IF \A e \in Changed : e.k \in DOMAIN db
     THEN /\ db' = [k \in DOMAIN db |->
                      IF \E e \in Changed : e.k = k
                      THEN (CHOOSE e \in Changed : e.k = k).cur ELSE db[k]]
          /\ at' = IF New = {} THEN "ok" ELSE "write new"
     ELSE End("error") /\ UNCHANGED db
  /\ UNCHANGED <<before, mode, list, left, failed, found, out, count, others>>

\* multipleUpdate: a transaction over the changed rows, which all have to be there still
WriteChanged ==
  /\ at = "write"
  /\ IF \A e \in Changed : e.k \in DOMAIN db
     THEN /\ db' = [k \in DOMAIN db |->
                      IF \E e \in Changed : e.k = k
                      THEN [db[k] EXCEPT !.c = (CHOOSE e \in Changed : e.k = k).cur.c]
                      ELSE db[k]]
          /\ at' = IF New = {} THEN "ok" ELSE "write new"
     ELSE End("error") /\ UNCHANGED db
  /\ UNCHANGED <<before, mode, list, left, failed, found, out, count, others>>

\* insertRowList without a duplicate mode for the new rows
WriteNew ==
  /\ at = "write new"
  /\ IF \A e \in New : e.k \notin DOMAIN db
     THEN /\ db' = [k \in DOMAIN db \cup {e.k : e \in New} |->
                      IF k \in DOMAIN db THEN db[k] ELSE (CHOOSE e \in New : e.k = k).cur]
          /\ End("ok")
     ELSE End("error") /\ UNCHANGED db
  /\ UNCHANGED <<before, mode, list, left, failed, found, out, count, others>>

\* INSERT: one transaction, which refuses keys that are there and keys named twice
InsertTransaction ==
  /\ at = "transaction" /\ mode = "insert"
  /\ IF /\ \A i \in Rows : list[i].k \notin DOMAIN db
        /\ \A i, j \in Rows : list[i].k = list[j].k => i = j
     THEN /\ db' = [k \in DOMAIN db \cup {list[i].k : i \in Rows} |->
                      IF k \in DOMAIN db THEN db[k]
                      ELSE ItemOf(list[CHOOSE i \in Rows : list[i].k = k])]
          /\ out' = [i \in Rows |-> "new"]
          /\ Add(Len(list), 0) /\ End("ok")
     ELSE End("error") /\ UNCHANGED <<db, out, count>>
  /\ UNCHANGED <<before, mode, list, left, failed, found, others>>

\* REPLACE: putItems, again a transaction
ReplaceTransaction ==
  /\ at = "transaction" /\ mode = "replace"
  /\ db' = [k \in DOMAIN db \cup {list[i].k : i \in left} |->
              IF \E i \in left : list[i].k = k
              THEN ItemOf(list[CHOOSE i \in left : list[i].k = k]) ELSE db[k]]
  /\ out' = [i \in Rows |-> IF i \in left THEN "new" ELSE "nothing"]
  /\ End("ok")
  /\ UNCHANGED <<before, mode, list, left, failed, found, count, others>>

-----------------------------------------------------------------------------
\* another client writes or deletes an item
Other(k) ==
  /\ at \notin {"start", "ok", "error"} /\ others < client.others
  /\ others' = others + 1
  /\ \/ \E item \in Item : db' = With(db, k, item)
     \/ k \in DOMAIN db /\ db' = [j \in DOMAIN db \ {k} |-> db[j]]
  /\ UNCHANGED <<before, mode, list, at, left, failed, found, out, count>>

Statement ==
  \/ Start
  \/ \E i \in Rows : UpdateItem(i) \/ BatchUpdate(i) \/ BatchInsert(i) \/ Refuse(i)
  \/ Updated \/ Inserted \/ Compute \/ WriteChanged \/ WriteNew
  \/ InsertTransaction \/ ReplaceTransaction
  \/ \E k \in Key : Read(k)

Next == UNCHANGED client /\ (Statement \/ \E k \in client.keys : Other(k))

Spec == Init /\ [][Next]_vars

-----------------------------------------------------------------------------
(* What the statement promises *)

\* The types, and that a statement has nothing under way when it has ended well.
TypeOK ==
  /\ DOMAIN db \subseteq Key /\ \A k \in DOMAIN db : db[k].c \in Int /\ db[k].d \in Int
  /\ at \in {"start", "items", "updates", "inserts", "reads", "compute", "write",
             "write new", "transaction", "ok", "error", "modify"}
  /\ left \subseteq Rows \/ left \subseteq Key
  /\ at = "ok" /\ mode \notin {"insert", "replace"} => left = {}
  /\ count.affected \in 0..(2 * Len(list)) /\ count.changed \in 0..Len(list)

\* MySQL: the rows in order, each inserted or updating the row that has its key
Reference(t, row) ==
  IF row.k \in DOMAIN t
  THEN CASE mode \in Update -> [t EXCEPT ![row.k].c = NewC(@, row)]
         [] mode = "replace" -> [t EXCEPT ![row.k] = ItemOf(row)]
         [] OTHER -> t
  ELSE With(t, row.k, ItemOf(row))

After[n \in 0..Len(list)] ==
  IF n = 0 THEN before ELSE Reference(After[n - 1], list[n])

\* RAW_ENGINE.md's table of affectedRows, for the i-th row
Affected(i) ==
  LET t == After[i - 1]
      k == list[i].k
  IN IF k \notin DOMAIN t THEN 1
     ELSE CASE mode \in Update ->
            IF Path = "B" \/ ~Same(t[k].c, NewC(t[k].c, list[i])) THEN 2 ELSE 1
            [] OTHER -> 0

AffectedTo[n \in 0..Len(list)] ==
  IF n = 0 THEN 0 ELSE AffectedTo[n - 1] + Affected(n)

\* no item lacks an attribute: path A adds to a missing c as to 0, where MySQL has NULL
Complete == \A k \in DOMAIN before : before[k].c # Missing /\ before[k].d # Missing

\* Path C keeps what it knows of an item under the text of its key, which it joins with '|'
\* (insert_handler.ts:378).  Of keys of two columns such as ('a|b', 'c') and ('a', 'b|c') the
\* second then hits the entry of the first, and the wrong item is updated.
TextsDiffer ==
  \A i, j \in Rows : KeyText[list[i].k] = KeyText[list[j].k] => list[i].k = list[j].k

\* A statement that succeeds while nobody else writes leaves the table as MySQL would, with
\* rows of one key in the statement as well, and its counts are those of RAW_ENGINE.md: on
\* every path, but on path C only if the different keys of its rows have different texts.
\* (Path B, which compares texts as well, then goes to path C.)
AloneExact ==
  at = "ok" /\ others = 0 /\ Complete /\ (Path = "C" => TextsDiffer) =>
    /\ db = After[Len(list)]
    /\ mode \in Update =>
         /\ count.affected = AffectedTo[Len(list)]
         /\ count.changed = Cardinality({i \in Rows : list[i].k \in DOMAIN After[i - 1]})
    /\ mode \in {"insert", "ignore"} => count.affected = AffectedTo[Len(list)]

\* Whatever others write meanwhile, the counts of paths A and B, of INSERT and of INSERT
\* IGNORE are those of what happened to the rows at DynamoDB.
CountsAreTrue ==
  /\ TypeOK
  /\ at = "ok" /\ Path \in {"A", "B", "insert", "ignore"} =>
       LET n(kinds) == Cardinality({i \in Rows : out[i] \in kinds}) IN
         /\ count.affected = n({"new", "same"}) + 2 * n({"hit", "changed"})
         /\ count.changed = n({"hit", "changed", "same"})

\* ON DUPLICATE KEY UPDATE c = ... changes no other column of a row that is there, and INSERT
\* and INSERT IGNORE change nothing of it, even if another client wrote it after the statement
\* had read it or had found it missing; but path A gives the row's value to a column that the
\* item lacks.
OnlySetColumns ==
  [][mode \notin {"replace", "modify"} /\ others' = others =>
       \A k \in DOMAIN db :
         /\ k \in DOMAIN db'
         /\ db'[k].d = db[k].d \/ (Path = "A" /\ db[k].d = Missing /\ db'[k].d = NewD)
         /\ mode \in {"insert", "ignore"} => db'[k] = db[k]]_vars
=============================================================================
