------------------------------- MODULE MCJoin -------------------------------
(***************************************************************************)
(* JoinStream for TLC: two joins over three small tables.                  *)
(***************************************************************************)
EXTENDS JoinStream

Inner(t) == [left |-> FALSE, on |-> TRUE, ref |-> t]
Left(t)  == [left |-> TRUE, on |-> TRUE, ref |-> t]
Cross    == [left |-> FALSE, on |-> FALSE, ref |-> 0]
\* NATURAL LEFT JOIN of tables without a common column
LeftAll  == [left |-> TRUE, on |-> FALSE, ref |-> 0]

\* no LEFT JOIN behind a join without ON
SafePlans ==
  {<<a, b>> : a \in {Inner(0), Left(0)},
              b \in {Inner(0), Inner(1), Left(0), Left(1), Cross, LeftAll}}
  \cup {<<a, b>> : a \in {Cross, LeftAll}, b \in {Inner(0), Inner(1), Cross}}

CrossLeft == {<<Cross, Left(1)>>}

\* tables with no row, one, or two rows on one page or on two
Small == {<<>>, <<<<>>, <<2>>>>, <<<<1>>, <<2>>>>, <<<<1, 2>>>>, <<<<1>>, <<2, 1>>>>}
FewPages == [t \in 0..2 |-> Small]
=============================================================================
