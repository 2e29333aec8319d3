------------------------------- MODULE MCRaw -------------------------------
(* Constants of RawInsert and RawModify for TLC. *)
EXTENDS RawModify

\* the keys of two columns 2 and 3 read alike
JoinedText == [k \in Key |-> IF k = 1 THEN "a" ELSE "b|c"]
RowValues == {0, 1, Null}
AllModes == Update \cup {"insert", "ignore", "replace"}

InsertClients ==
  {\* nobody else
   [keys |-> {1, 2}, c |-> {0, 1, 2, Null}, d |-> {5}, rows |-> 3, others |-> 0],
   \* keys with one text
   [keys |-> {2, 3}, c |-> {0, 1}, d |-> {5}, rows |-> 2, others |-> 0],
   \* another client, up to twice
   [keys |-> {1, 2}, c |-> {0, 1}, d |-> {5, Missing}, rows |-> 2, others |-> 2]}

ModifyClients ==
  {[keys |-> {1, 2}, c |-> {0, 1, Letter}, d |-> {5, 6}, rows |-> 0, others |-> 2, columns |-> 1],
   [keys |-> {1, 2}, c |-> {1, Letter}, d |-> {5}, rows |-> 0, others |-> 1, columns |-> 2]}
=============================================================================
