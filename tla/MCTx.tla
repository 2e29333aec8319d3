-------------------------------- MODULE MCTx --------------------------------
(***************************************************************************)
(* TxHistory for TLC: two sessions with one query slot each.               *)
(***************************************************************************)
EXTENDS TxHistory, TLC

CONSTANTS s1, s2, p1, p2, t1, t2, k1, k2

\* one slot for each of two sessions
TwoSessions == (p1 :> s1) @@ (p2 :> s2)

NoTemp == [s \in Session |-> {}]
\* s1 has a temporary t1, which hides the t1 that s2 uses
TempInS1 == [s \in Session |-> IF s = s1 THEN {t1} ELSE {}]

WritesAll == [s \in Session |-> Table]
\* s1 writes its temporary t1 and the shared t2, s2 the shared t1
WritesOwn == [s \in Session |-> IF s = s1 THEN {t1, t2} ELSE {t1}]
=============================================================================
