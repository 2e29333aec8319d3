------------------------------ MODULE MCQuery ------------------------------
(* Constants of QuerySession for TLC. *)
EXTENDS QuerySession, TLC

CONSTANTS p, q

Texts ==
  {<<>>, <<"setTime", "select">>, <<"unsetTime", "show">>, <<"select", "bad">>,
   <<"write", "select">>}

Symmetry == Permutations(Query)
=============================================================================
