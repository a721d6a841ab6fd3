--------------------------- MODULE MCCallWebhooks ---------------------------
(* Small instances of CallWebhooks for TLC. *)
EXTENDS CallWebhooks

CONSTANTS v1, v2, v3, e1, a

(* One call whose deliveries come in any order, all within a second. *)
OneCall    == [e \in Events |-> a]
AnyOrder   == [e \in Events |-> {}]
SameSecond == [e \in Events |-> 1]
=============================================================================
