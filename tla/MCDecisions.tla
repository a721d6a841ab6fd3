----------------------------- MODULE MCDecisions -----------------------------
(* Small instances of Decisions for TLC. *)
EXTENDS Decisions

AllTimed == [d \in Decisions |-> "inline"]
(* The options of a decision, and one reply that is none of them. *)
Offered == {"yes", "no"}
Sent    == Offered \cup {"maybe"}
==============================================================================
