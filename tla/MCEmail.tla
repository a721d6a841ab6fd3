------------------------------- MODULE MCEmail ------------------------------
(* Two jobs of one key, of which one goes through Google, and an event. *)
EXTENDS Email

CONSTANTS j1, j2, q1, k

OneKey == [j \in {j1, j2} |-> k]
=============================================================================
