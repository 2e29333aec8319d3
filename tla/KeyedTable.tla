----------------------------- MODULE KeyedTable -----------------------------
(***************************************************************************)
(* What one table of the memory engine promises its callers, without the   *)
(* row list and the key index it is built from: a partial function from    *)
(* primary keys to the remaining cells.  A statement works on a private    *)
(* copy; it saves the whole copy when it succeeds and nothing when it      *)
(* throws.  The counts are those of MySQL: one for a new row, two for a    *)
(* duplicate that changed and one for a duplicate that did not.            *)
(***************************************************************************)
EXTENDS Naturals

CONSTANTS Key,   \* values of the primary key (all its columns together)
          Val    \* values of the other columns

VARIABLES content,   \* the rows the session sees between statements
          working,   \* the copy the running statement modifies
          mode,      \* what the running statement does, or "idle"
          affected,  \* the two counts of the running statement, and
          changed    \*   of the last one once it has returned

vars == <<content, working, mode, affected, changed>>

InsertModes == {"insert", "ignore", "replace", "upsert"}
Modes == InsertModes \cup {"update", "delete"}

Maps == UNION {[K -> Val] : K \in SUBSET Key}
NoRows == [k \in {} |-> k]

\* m with the row of old replaced by the row (new, v); old = new is allowed
Move(m, old, new, v) ==
  [k \in (DOMAIN m \ {old}) \cup {new} |-> IF k = new THEN v ELSE m[k]]

\* The types of the abstract table.
TypeOK ==
  /\ content \in Maps
  /\ working \in Maps
  /\ mode \in Modes \cup {"idle"}
  /\ affected \in Nat
  /\ changed \in Nat

Init ==
  /\ content = NoRows
  /\ working = NoRows
  /\ mode = "idle"
  /\ affected = 0
  /\ changed = 0

Start(m) ==
  /\ mode = "idle"
  /\ mode' = m
  /\ working' = content
  /\ affected' = 0
  /\ changed' = 0
  /\ UNCHANGED content

\* a row whose key is new
Add(k, v) ==
  /\ mode \in InsertModes
  /\ k \notin DOMAIN working
  /\ working' = Move(working, k, k, v)
  /\ affected' = affected + 1
  /\ UNCHANGED <<content, mode, changed>>

\* REPLACE of an existing row
Replace(k, v) ==
  /\ mode = "replace"
  /\ k \in DOMAIN working
  /\ working' = Move(working, k, k, v)
  /\ affected' = affected + (IF working[k] = v THEN 1 ELSE 2)
  /\ UNCHANGED <<content, mode, changed>>

\* ON DUPLICATE KEY UPDATE of an existing row, which may change its key to a free one
Upsert(k, new, v) ==
  /\ mode = "upsert"
  /\ k \in DOMAIN working
  /\ new = k \/ new \notin DOMAIN working
  /\ working' = Move(working, k, new, v)
  /\ affected' = affected + (IF new = k /\ working[k] = v THEN 1 ELSE 2)
  /\ changed' = changed + 1
  /\ UNCHANGED <<content, mode>>

Update(k, new, v) ==
  /\ mode = "update"
  /\ k \in DOMAIN working
  /\ new = k \/ new \notin DOMAIN working
  /\ working' = Move(working, k, new, v)
  /\ affected' = affected + 1
  /\ changed' = changed + (IF new = k /\ working[k] = v THEN 0 ELSE 1)
  /\ UNCHANGED <<content, mode>>

Delete(k) ==
  /\ mode = "delete"
  /\ k \in DOMAIN working
  /\ working' = [j \in DOMAIN working \ {k} |-> working[j]]
  /\ affected' = affected + 1
  /\ UNCHANGED <<content, mode, changed>>

Return ==
  /\ mode # "idle"
  /\ mode' = "idle"
  /\ content' = working
  /\ working' = NoRows
  /\ UNCHANGED <<affected, changed>>

Throw ==
  /\ mode # "idle"
  /\ mode' = "idle"
  /\ working' = NoRows
  /\ affected' = 0
  /\ changed' = 0
  /\ UNCHANGED content

Next ==
  \/ \E m \in Modes : Start(m)
  \/ \E k \in Key, v \in Val : Add(k, v) \/ Replace(k, v)
  \/ \E k, new \in Key, v \in Val : Upsert(k, new, v) \/ Update(k, new, v)
  \/ \E k \in Key : Delete(k)
  \/ Return
  \/ Throw

Spec == Init /\ [][Next]_vars
=============================================================================
