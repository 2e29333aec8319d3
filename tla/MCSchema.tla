------------------------------ MODULE MCSchema ------------------------------
(* Constants of SchemaDDL for TLC. *)
EXTENDS SchemaDDL, TLC

CONSTANTS A, B

Databases == {"d", "_dynamodb"}
Internal == {"_dynamodb"}
\* two tables, one of them in two spellings
Spelled == {"t", "T", "u"}
LowerSpelled == [n \in Spelled |-> IF n = "T" THEN "t" ELSE n]

Clients ==
  {\* user and built-in databases
   [databases |-> Databases, names |-> {"t"}, drops |-> FALSE, begins |-> FALSE, stmts |-> 4],
   \* one table for a long time
   [databases |-> {"d"}, names |-> {"t"}, drops |-> FALSE, begins |-> FALSE, stmts |-> 6],
   \* two tables in a database that may go
   [databases |-> {"d"}, names |-> {"t", "u"}, drops |-> TRUE, begins |-> FALSE, stmts |-> 4],
   \* the same with a name in two spellings
   [databases |-> {"d"}, names |-> Spelled, drops |-> TRUE, begins |-> FALSE, stmts |-> 4],
   \* transactions
   [databases |-> {"d"}, names |-> {"t"}, drops |-> TRUE, begins |-> TRUE, stmts |-> 5]}

Symmetry == Permutations(Session)
=============================================================================
