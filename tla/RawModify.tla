----------------------------- MODULE RawModify -----------------------------
(***************************************************************************)
(* UPDATE and DELETE of the raw engine, on the table and beside the other  *)
(* clients of RawInsert.                                                   *)
(*                                                                         *)
(* A statement whose WHERE and values can be translated is tried as one    *)
(* request; DynamoDB refuses it (ValidationException) when the WHERE does  *)
(* not name an item by its key or an operand is no number.  Then runSelect *)
(* reads the rows, page by page, and their changes are sent in             *)
(* transactions, several on their way at a time.                           *)
(***************************************************************************)
EXTENDS RawInsert

CONSTANTS
  ModifyClient,   \* the same bounds for UPDATE and DELETE, and the columns of the key
  BatchSize       \* rows that go into one transaction

ASSUME ModifyAssumption ==
  BatchSize \in Nat \ {0} /\ \A x \in ModifyClient : Bounds(x) /\ x.columns \in {1, 2}

VARIABLE m  \* the statement: its text, where it is, what it has read, its counts

AnyOne == -3
Letter == 8    \* a text, 'x'

\* f is a function that is evaluated here; convertWhere translates only constants
Text ==
  [kind : {"delete"}, key : Key \cup {AnyOne}, c : (RowC \cap Nat) \cup {AnyOne}, set : {"c = 1"}]
  \cup [kind : {"update"}, key : Key \cup {AnyOne}, c : (RowC \cap Nat) \cup {AnyOne},
         set : {"c = 1", "c = 'x'", "c = f(c)"}]

NoStatement == [kind |-> "none"]

ModifyInit ==
  /\ client \in ModifyClient
  /\ db \in UNION {[K -> Item] : K \in SUBSET client.keys}
  /\ before = db
  /\ mode = "modify" /\ list = <<>>
  /\ at = "modify"
  /\ left = {} /\ failed = {} /\ found = [k \in {} |-> 0] /\ out = <<>>
  /\ count = Zero /\ others = 0
  /\ \E text \in Text : m = [kind |-> text.kind, key |-> text.key, c |-> text.c,
       set |-> text.set, at |-> "start", flying |-> {}, stop |-> FALSE,
       affected |-> 0, changed |-> 0, written |-> {}]

-----------------------------------------------------------------------------
\* the value that SET gives c
SetC(c) ==
  CASE m.set = "c = 1" -> Const
    [] m.set = "c = 'x'" -> Letter
    [] m.set = "c = f(c)" -> Plus(c, c)

\* WHERE k = key AND c = value, of which either may be absent
Matches(k, item) == (m.key = AnyOne \/ k = m.key) /\ (m.c = AnyOne \/ item.c = m.c)

\* mutant: the row is also counted when the item has the value already
ChangedOneAlways(old) == 1
\* RETURNING MODIFIED OLD *: the text of the constant is compared with that of the old value;
\* a constant that is a number is compared itself, and equals no text
ChangedOne(old) == IF m.set = "c = 'x'" /\ old = Letter THEN 0 ELSE 1

\* singleUpdate and singleDelete go to the multiple path
NoSingle == m.key = AnyOne \/ (m.kind = "update" /\ m.set = "c = f(c)")

Single ==
  /\ m.at = "start"
  /\ IF NoSingle
     THEN /\ m' = [m EXCEPT !.at = "reads"]
          /\ left' = client.keys
          /\ UNCHANGED db
     ELSE IF m.key \in DOMAIN db /\ Matches(m.key, db[m.key])
     THEN /\ m' = [m EXCEPT !.at = "ok", !.affected = 1, !.written = {m.key},
                            !.changed = IF m.kind = "update" THEN ChangedOne(db[m.key].c) ELSE 0]
          /\ db' = IF m.kind = "delete" THEN [k \in DOMAIN db \ {m.key} |-> db[k]]
                   ELSE [db EXCEPT ![m.key].c = SetC(@)]
          /\ UNCHANGED left
     ELSE m' = [m EXCEPT !.at = "ok"] /\ UNCHANGED <<db, left>>
  /\ UNCHANGED <<before, mode, list, at, failed, found, out, count, others>>

\* runSelect: a row that satisfies the WHERE when its page is read.  The keys of a table with
\* two key columns are never put together, so its rows are read for nothing
Collected(k) == client.columns = 1 /\ Matches(k, db[k])

ReadRow(k) ==
  /\ m.at = "reads" /\ k \in left
  /\ left' = left \ {k}
  /\ found' = IF k \in DOMAIN db /\ Collected(k) THEN With(found, k, db[k]) ELSE found
  /\ UNCHANGED <<db, before, mode, list, at, failed, out, count, others, m>>

\* the changes are computed from the rows read; the batches are sent
ReadEnd ==
  /\ m.at = "reads" /\ left = {}
  /\ m' = [m EXCEPT !.at = IF DOMAIN found = {} THEN "ok" ELSE "writes",
                    !.flying = DOMAIN found]
  /\ UNCHANGED <<db, before, mode, list, at, left, failed, found, out, count, others>>

\* mutant: the item is put as it was read
NewItemWhole(k) == [found[k] EXCEPT !.c = SetC(@)]
\* UPDATE sets the column to what was computed from the row that was read
NewItem(k) == [db[k] EXCEPT !.c = SetC(found[k].c)]

\* mutant: the first transaction that is applied ends the statement
WholeEarly(rest) == ~m.stop
\* every transaction has been applied
Whole(rest) == ~m.stop /\ rest = {}

\* one transaction of updateItems or deleteItems: an UPDATE needs its items
WriteBatch(batch) ==
  /\ m.flying # {} /\ batch \subseteq m.flying
  /\ \/ Cardinality(batch) = BatchSize
     \/ batch = m.flying /\ Cardinality(batch) < BatchSize
  /\ \E whole \in {m.kind = "delete" \/ batch \subseteq DOMAIN db} :
     \E rest \in {m.flying \ batch} :
       /\ db' = IF ~whole THEN db
                ELSE IF m.kind = "delete" THEN [k \in DOMAIN db \ batch |-> db[k]]
                ELSE [k \in DOMAIN db |-> IF k \in batch THEN NewItem(k) ELSE db[k]]
       /\ m' = [m EXCEPT
            !.flying = rest, !.stop = @ \/ ~whole,
            !.written = IF whole THEN @ \cup batch ELSE @,
            !.at = IF ~whole THEN "error" ELSE IF Whole(rest) THEN "ok" ELSE @,
            !.affected = IF whole /\ Whole(rest) THEN Cardinality(DOMAIN found) ELSE 0,
            !.changed = IF whole /\ Whole(rest) /\ m.kind = "update"
                        THEN Cardinality(DOMAIN found) ELSE 0]
  /\ UNCHANGED <<before, mode, list, at, left, failed, found, out, count, others>>

\* a batch that has not been sent when another has failed is not sent any more
Drop ==
  /\ m.stop /\ m.flying # {}
  /\ m' = [m EXCEPT !.flying = {}]
  /\ UNCHANGED <<db, before, mode, list, at, left, failed, found, out, count, others>>

OtherWrites(k) ==
  /\ m.at \notin {"start", "ok", "error"}
  /\ Other(k)
  /\ UNCHANGED m

Modify ==
  /\ mode = "modify"
  /\ UNCHANGED client
  /\ \/ Single \/ ReadEnd \/ Drop
     \/ \E k \in client.keys : ReadRow(k) \/ OtherWrites(k)
     \/ \E batch \in (SUBSET Key) \ {{}} : WriteBatch(batch)

-----------------------------------------------------------------------------
(* An INSERT, or an UPDATE or DELETE *)

AnyInit == (Init /\ m = NoStatement) \/ ModifyInit
AnyNext == (mode # "modify" /\ Next /\ UNCHANGED m) \/ Modify
AnySpec == AnyInit /\ [][AnyNext]_<<vars, m>>

-----------------------------------------------------------------------------
\* An UPDATE or DELETE that succeeds while nobody else writes has changed the rows that its
\* WHERE describes, each once and no other, and counts them.  Of a table with two key columns
\* this holds when one request does it; the multiple path changes and counts no row of such a
\* table (select_modify.ts:81-86).  changedRows counts all rows found, but a single UPDATE
\* that sets a text does not count a row that has it already; one that sets a number does
\* (update.ts:61-62).  Whoever else writes, the statement has written every row it counts.
ModifyExact ==
  mode = "modify" /\ m.at = "ok" =>
  /\ m.flying = {} /\ m.affected = Cardinality(m.written)
  /\ others = 0 =>
    \E hits \in {{k \in DOMAIN before :
                  Matches(k, before[k]) /\ (client.columns = 1 \/ ~NoSingle)}} :
      /\ db = IF m.kind = "delete" THEN [k \in DOMAIN before \ hits |-> before[k]]
              ELSE [k \in DOMAIN before |->
                      IF k \in hits THEN [before[k] EXCEPT !.c = SetC(@)] ELSE before[k]]
      /\ m.affected = Cardinality(hits)
      /\ m.kind = "update" /\ m.key # AnyOne /\ m.set = "c = 'x'" =>
           m.changed = Cardinality({k \in hits : before[k].c # Letter})
      /\ m.kind = "update" /\ ~(m.key # AnyOne /\ m.set = "c = 'x'") => m.changed = m.affected

\* Whatever others do meanwhile, an UPDATE changes no column but c, makes no row and removes
\* none, and a DELETE changes none and removes only rows that it found by its WHERE.
ModifyTouches ==
  [][mode = "modify" /\ others' = others =>
       /\ m.kind = "update" => DOMAIN db' = DOMAIN db /\ \A k \in DOMAIN db : db'[k].d = db[k].d
       /\ m.kind = "delete" => \A k \in DOMAIN db' : k \in DOMAIN db /\ db'[k] = db[k]
       /\ \A k \in DOMAIN db : (k \in DOMAIN db' => db'[k] # db[k]) =>
            k \in m'.written /\ (k \in DOMAIN found \/ Matches(k, db[k]))]_<<vars, m>>
=============================================================================
