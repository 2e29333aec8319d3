---------------------------- MODULE MCMemoryTable ----------------------------
(***************************************************************************)
(* MemoryTable with three keys and two values.                             *)
(***************************************************************************)
EXTENDS MemoryTable

CONSTANTS k1, k2, k3, v1, v2

MCKey == {k1, k2, k3}
MCVal == {v1, v2}
=============================================================================
