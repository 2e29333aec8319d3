----------------------------- MODULE MCCatalog -----------------------------
(* Constants of TableCatalog for TLC. *)
EXTENDS TableCatalog

CONSTANTS q1, q2

OwnSession == [q \in Query |-> q]

Clients ==
  {\* two sessions that create, index and drop the table
   [queries |-> {q1, q2}, ops |-> {"create", "drop", "add", "remove"}, fails |-> FALSE,
    gens |-> 1],
   \* two sessions that index the table while it is dropped and created again
   [queries |-> {q1, q2}, ops |-> {"create", "drop", "add"}, fails |-> FALSE, gens |-> 2],
   \* two sessions that create, use and drop it again
   [queries |-> {q1, q2}, ops |-> {"create", "drop", "insert"}, fails |-> FALSE, gens |-> 2],
   \* two sessions, requests of which fail
   [queries |-> {q1, q2}, ops |-> {"create", "drop", "add"}, fails |-> TRUE, gens |-> 1],
   \* one session, requests of which fail
   [queries |-> {q1}, ops |-> {"create", "drop", "add", "remove", "insert"}, fails |-> TRUE,
    gens |-> 3]}
=============================================================================
