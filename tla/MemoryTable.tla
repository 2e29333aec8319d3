----------------------------- MODULE MemoryTable -----------------------------
(***************************************************************************)
(* One table of the memory engine as src/lib/engine/memory stores it: a    *)
(* dense list of rows and a map from the JSON text of the primary key to   *)
(* the position of the row in the list.  insertRowList, multipleUpdate and *)
(* multipleDelete copy both, modify the copies row by row and hand them to *)
(* Storage.txSaveData at the end; an exception on the way drops them.      *)
(*                                                                         *)
(* Each iteration of their loops is an action.  The loops contain no       *)
(* await, so nothing else runs between two iterations; what other queries  *)
(* do between two statements is modelled in MemoryTx.                      *)
(*                                                                         *)
(* Expressions are abstracted to what they can do: the SET list of an      *)
(* UPDATE or of ON DUPLICATE KEY UPDATE may turn a row into any other row, *)
(* with any key, or throw.  Positions count from 1 here, from 0 there.     *)
(***************************************************************************)
EXTENDS Naturals, Sequences, SequencesExt

CONSTANTS Key,       \* JSON texts of the primary key columns
          Val,       \* values of the other columns
          MaxList    \* bound: rows in the list of one INSERT

ASSUME MaxListAssumption == MaxList \in Nat \ {0}

VARIABLES
  table,         \* what Storage.getTable returns to this session
  mode,          \* which loop is running, or "idle"
  row_list,      \* the copies the loop modifies
  primary_map,
  pending,       \* keys in update_list or delete_list not reached yet
  iter,          \* rows of an INSERT list handled so far
  affectedRows,
  changedRows    \* duplicateRows in insertRowList

vars == <<table, mode, row_list, primary_map, pending, iter,
          affectedRows, changedRows>>

Row == [key : Key, val : Val]
InsertModes == {"insert", "ignore", "replace", "upsert"}
ListModes == {"update", "delete"}

NoMap == [k \in {} |-> 0]

\* The types of the table, of the copies and of the counters of a loop.
TypeOK ==
  /\ table.row_list \in Seq(Row)
  /\ DOMAIN table.primary_map \subseteq Key
  /\ mode \in InsertModes \cup ListModes \cup {"idle"}
  /\ row_list \in Seq(Row)
  /\ DOMAIN primary_map \subseteq Key
  /\ pending \subseteq Key
  /\ iter \in Nat
  /\ affectedRows \in Nat
  /\ changedRows \in Nat

\* createTable: an empty list and an empty map
Init ==
  /\ table = [row_list |-> <<>>, primary_map |-> NoMap]
  /\ mode = "idle"
  /\ row_list = <<>>
  /\ primary_map = NoMap
  /\ pending = {}
  /\ iter = 0
  /\ affectedRows = 0
  /\ changedRows = 0

-----------------------------------------------------------------------------
\* primary_map.delete(old) and primary_map.set(new, index)
Rekey(map, old, new, index) ==
  [k \in (DOMAIN map \ {old}) \cup {new} |-> IF k = new THEN index ELSE map[k]]

\* mutant: the positions behind the removed row are not adjusted
UnlinkNoShift(map, key) == [k \in DOMAIN map \ {key} |-> map[k]]

\* primary_map.delete(key), then the positions behind the removed row move up
Unlink(map, key) ==
  [k \in DOMAIN map \ {key} |->
     IF map[k] > map[key] THEN map[k] - 1 ELSE map[k]]

\* the copies every statement starts from
CopyTable ==
  /\ row_list' = table.row_list
  /\ primary_map' = table.primary_map
  /\ affectedRows' = 0
  /\ changedRows' = 0
  /\ iter' = 0

StartInsert(m) ==
  /\ mode = "idle"
  /\ mode' = m
  /\ pending' = {}
  /\ CopyTable
  /\ UNCHANGED table

\* keys: what the SELECT before the UPDATE or DELETE returned.  It may name
\* keys that are gone by now when another query of the session ran in between.
StartList(m, keys) ==
  /\ mode = "idle"
  /\ mode' = m
  /\ pending' = keys
  /\ CopyTable
  /\ UNCHANGED table

\* mutant: primary_map.set(key_values, ...), the list instead of its JSON text
InsertRowByList(row) ==
  /\ mode \in InsertModes
  /\ iter < MaxList
  /\ row.key \notin DOMAIN primary_map
  /\ row_list' = Append(row_list, row)
  /\ primary_map' = Rekey(primary_map, row.key, <<row.key>>, Len(row_list) + 1)
  /\ affectedRows' = affectedRows + 1
  /\ iter' = iter + 1
  /\ UNCHANGED <<table, mode, pending, changedRows>>

\* index === undefined: primary_map.set(key, row_list.push(cellRow) - 1)
InsertRow(row) ==
  /\ mode \in InsertModes
  /\ iter < MaxList
  /\ row.key \notin DOMAIN primary_map
  /\ row_list' = Append(row_list, row)
  /\ primary_map' = Rekey(primary_map, row.key, row.key, Len(row_list) + 1)
  /\ affectedRows' = affectedRows + 1
  /\ iter' = iter + 1
  /\ UNCHANGED <<table, mode, pending, changedRows>>

\* mutant: a duplicate is counted as changed although it kept its values
UpsertRowCounts(row, new) ==
  /\ mode = "upsert"
  /\ iter < MaxList
  /\ row.key \in DOMAIN primary_map
  /\ new.key = row.key \/ new.key \notin DOMAIN primary_map
  /\ LET index == primary_map[row.key] IN
       /\ row_list' = ReplaceAt(row_list, index, new)
       /\ primary_map' = IF new.key # row.key
                           THEN Rekey(primary_map, row.key, new.key, index)
                           ELSE primary_map
  /\ affectedRows' = affectedRows + 2
  /\ changedRows' = changedRows + 1
  /\ iter' = iter + 1
  /\ UNCHANGED <<table, mode, pending>>

\* ON DUPLICATE KEY UPDATE turns the existing row into new
UpsertRow(row, new) ==
  /\ mode = "upsert"
  /\ iter < MaxList
  /\ row.key \in DOMAIN primary_map
  /\ new.key = row.key \/ new.key \notin DOMAIN primary_map
  /\ LET index == primary_map[row.key] IN
       /\ row_list' = ReplaceAt(row_list, index, new)
       /\ primary_map' = IF new.key # row.key
                           THEN Rekey(primary_map, row.key, new.key, index)
                           ELSE primary_map
       /\ affectedRows' = affectedRows + (IF row_list[index] # new THEN 2 ELSE 1)
  /\ changedRows' = changedRows + 1
  /\ iter' = iter + 1
  /\ UNCHANGED <<table, mode, pending>>

ReplaceRow(row) ==
  /\ mode = "replace"
  /\ iter < MaxList
  /\ row.key \in DOMAIN primary_map
  /\ LET index == primary_map[row.key] IN
       /\ row_list' = ReplaceAt(row_list, index, row)
       /\ affectedRows' = affectedRows + (IF row_list[index] # row THEN 2 ELSE 1)
  /\ iter' = iter + 1
  /\ UNCHANGED <<table, mode, primary_map, pending, changedRows>>

\* INSERT IGNORE of a duplicate falls through every branch
IgnoreRow(row) ==
  /\ mode = "ignore"
  /\ iter < MaxList
  /\ row.key \in DOMAIN primary_map
  /\ iter' = iter + 1
  /\ UNCHANGED <<table, mode, row_list, primary_map, pending,
                 affectedRows, changedRows>>

\* mutant: primary_map.has(new_key) is not asked
UpdateRowUnchecked(key, new) ==
  /\ mode = "update"
  /\ key \in pending \cap DOMAIN primary_map
  /\ LET index == primary_map[key] IN
       /\ row_list' = ReplaceAt(row_list, index, new)
       /\ primary_map' = IF new.key # key
                           THEN Rekey(primary_map, key, new.key, index)
                           ELSE primary_map
       /\ changedRows' = changedRows + (IF row_list[index] # new THEN 1 ELSE 0)
  /\ affectedRows' = affectedRows + 1
  /\ pending' = pending \ {key}
  /\ UNCHANGED <<table, mode, iter>>

\* one entry of update_list, whose SET list makes the row new
UpdateRow(key, new) ==
  /\ mode = "update"
  /\ key \in pending \cap DOMAIN primary_map
  /\ new.key = key \/ new.key \notin DOMAIN primary_map
  /\ LET index == primary_map[key] IN
       /\ row_list' = ReplaceAt(row_list, index, new)
       /\ primary_map' = IF new.key # key
                           THEN Rekey(primary_map, key, new.key, index)
                           ELSE primary_map
       /\ changedRows' = changedRows + (IF row_list[index] # new THEN 1 ELSE 0)
  /\ affectedRows' = affectedRows + 1
  /\ pending' = pending \ {key}
  /\ UNCHANGED <<table, mode, iter>>

DeleteRow(key) ==
  /\ mode = "delete"
  /\ key \in pending \cap DOMAIN primary_map
  /\ row_list' = RemoveAt(row_list, primary_map[key])
  /\ primary_map' = Unlink(primary_map, key)
  /\ affectedRows' = affectedRows + 1
  /\ pending' = pending \ {key}
  /\ UNCHANGED <<table, mode, iter, changedRows>>

\* "failed to find key": logged and skipped
MissKey(key) ==
  /\ mode \in ListModes
  /\ key \in pending \ DOMAIN primary_map
  /\ pending' = pending \ {key}
  /\ UNCHANGED <<table, mode, row_list, primary_map, iter,
                 affectedRows, changedRows>>

\* the locals are gone when the function has returned or thrown
DropLocals ==
  /\ mode' = "idle"
  /\ row_list' = <<>>
  /\ primary_map' = NoMap
  /\ pending' = {}
  /\ iter' = 0

\* the end of the loop: Storage.txSaveData and the counts
SaveTable ==
  /\ mode # "idle"
  /\ IF mode \in ListModes THEN pending = {} ELSE iter > 0
  /\ table' = [row_list |-> row_list, primary_map |-> primary_map]
  /\ DropLocals
  /\ UNCHANGED <<affectedRows, changedRows>>

\* the loop throws: in insertRowList on a duplicate key, a column without a
\* default, invalid JSON text, an unknown column or an expression error; in
\* multipleUpdate on a key that another row has.  multipleDelete never throws.
Throw ==
  /\ \/ mode \in InsertModes /\ iter < MaxList
     \/ /\ mode = "update"
        /\ \E key \in pending \cap DOMAIN primary_map :
             DOMAIN primary_map \ {key} # {}
  /\ DropLocals
  /\ affectedRows' = 0
  /\ changedRows' = 0
  /\ UNCHANGED table

Next ==
  \/ \E m \in InsertModes : StartInsert(m)
  \/ \E m \in ListModes, keys \in (SUBSET Key) \ {{}} : StartList(m, keys)
  \/ \E row \in Row : InsertRow(row) \/ ReplaceRow(row) \/ IgnoreRow(row)
  \/ \E row, new \in Row : UpsertRow(row, new)
  \/ \E key \in Key, new \in Row : UpdateRow(key, new)
  \/ \E key \in Key : DeleteRow(key) \/ MissKey(key)
  \/ SaveTable
  \/ Throw

Spec == Init /\ [][Next]_vars

-----------------------------------------------------------------------------
\* the map finds every row of the list where it is, and nothing else
Indexed(list, map) ==
  /\ \A k \in DOMAIN map : map[k] \in 1..Len(list) /\ list[map[k]].key = k
  /\ \A i \in 1..Len(list) : list[i].key \in DOMAIN map /\ map[list[i].key] = i

\* The key index and the row list agree, in the table between statements and in
\* the copies at every iteration of insertRowList, multipleUpdate and
\* multipleDelete: every row is found under its own key, no two rows share a
\* key, no index entry is left behind by a key change or a removal.  A SELECT
\* scans row_list while the next write looks rows up in primary_map.
IndexOK ==
  /\ Indexed(table.row_list, table.primary_map)
  /\ Indexed(row_list, primary_map)

\* While multipleUpdate or multipleDelete runs, a row that its SELECT found and
\* that was still in the table when the loop started is there unmodified when its
\* turn comes: no earlier entry of the list moved, removed or overwrote it, by a
\* key change or by the shift of positions after a removal.
PendingIntact ==
  \A k \in pending \cap DOMAIN table.primary_map :
    /\ k \in DOMAIN primary_map
    /\ row_list[primary_map[k]] = table.row_list[table.primary_map[k]]

-----------------------------------------------------------------------------
\* the partial function a list of rows with distinct keys stands for
MapOf(list) ==
  [k \in {list[i].key : i \in 1..Len(list)} |->
     list[CHOOSE i \in 1..Len(list) : list[i].key = k].val]

KT == INSTANCE KeyedTable WITH
        content  <- MapOf(table.row_list),
        working  <- MapOf(row_list),
        affected <- affectedRows,
        changed  <- changedRows

\* The list and the index together implement the keyed table: every statement
\* changes the rows a SELECT would scan exactly as KeyedTable says, row for row,
\* and returns MySQL's affected and changed counts.
Refines == KT!Spec
=============================================================================
