------------------------------ MODULE MCIntake ------------------------------
(* One page; a call, a correction, and two requests     *)
(* about two copies of a file.                                              *)
EXTENDS Intake, TLC

CONSTANTS c1, m1, r1, r2, i1, i2, sha, p

OneEntity == [c \in {c1} |-> <<p>>]
OneFile == [i \in {i1, i2} |-> sha]
OnePage == [i \in {i1, i2} |-> <<p>>]
Symmetry == Permutations({r1, r2}) \cup Permutations({i1, i2})
=============================================================================
