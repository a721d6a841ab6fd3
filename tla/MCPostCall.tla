----------------------------- MODULE MCPostCall -----------------------------
(* Small instances of PostCall for TLC. *)
EXTENDS PostCall, TLC

CONSTANTS v1, v2, v3, e1, e2, e3, a, b

(* Two calls one after the other; a is reported as ended twice, and the    *)
(* end of b comes from an unknown number.                                  *)
TwoCalls   == v1 :> a @@ v2 :> a @@ e1 :> a @@ e2 :> a @@ v3 :> b @@ e3 :> b
InSequence == LET sent == <<v1, v2, e1, v3, e2, e3>>
              IN  [e \in Events |-> {sent[m] : m \in 1..((CHOOSE n \in 1..6 : sent[n] = e) - 1)}]

OwnSecond  == [e \in Events |-> CHOOSE n \in 1..6 :
                 e = <<v1, v2, e1, v3, e2, e3>>[n]]

(* The theorems about deliveries in order are about this instance, too. *)
ASSUME SentInOrderly == Orderly
=============================================================================
