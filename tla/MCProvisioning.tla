--------------------------- MODULE MCProvisioning ---------------------------
(* Two signups with one address, their account's tokens and refreshes.      *)
EXTENDS Provisioning

CONSTANTS u1, s1, s2, t1, t2, t3, t4, r1, r2

OneAddress == [s \in {s1, s2} |-> u1]
=============================================================================
