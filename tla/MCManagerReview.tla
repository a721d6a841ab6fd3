--------------------------- MODULE MCManagerReview ---------------------------
(* Two runs for one date and one for the next, with the replies of a        *)
(* Manager and a Rep; three saved queries; a claim checked three times.     *)
(* These three share no variable, and each invariant speaks of one of them: *)
(* a behaviour takes the steps of one, chosen at the start, so that TLC     *)
(* explores their sum and not their product.                                *)
EXTENDS ManagerReview, TLC

CONSTANTS d1, r1, r2, r3, v1, v2, v3, w1, w2, p1, p2, p3, c

TwoDates == r1 :> 1 @@ r2 :> 1 @@ r3 :> 2
OneClaim == [v \in {v1, v2, v3} |-> c]
ToFirst == [w \in {w1, w2} |-> r1]
Senders == w1 :> "manager" @@ w2 :> "rep"

VARIABLE part

MCInit == ReviewInit /\ part \in {"briefs", "queries", "verifier"}

MCNext ==
  /\ \/ part = "briefs" /\ BriefsAndReplies
     \/ part = "queries" /\ Queries
     \/ part = "verifier" /\ Verifications
  /\ UNCHANGED part

MCSpec == MCInit /\ [][MCNext]_<<reviewVars, part>>
=============================================================================
