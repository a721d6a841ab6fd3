---------------------------- MODULE DecisionBoard ----------------------------
(***************************************************************************)
(* What the Manager, the Rep and the daily brief are promised about a      *)
(* decision request, with no responder, lock, job or frame in sight: it is *)
(* asked once, it is either answered once or times out, a timed-out one    *)
(* may still be answered late, and a recorded answer is never replaced.    *)
(* This is the lifecycle the status column of decision_requests documents  *)
(* ("First-responder-wins", services/decisions.py; "timed_out ->           *)
(* answered_late", api/workspaces/decisions.py).                           *)
(***************************************************************************)
CONSTANTS
  Decisions,   \* decision ids
  Options,     \* the options offered to the Manager
  None         \* no response recorded

VARIABLE board \* [Decisions -> [status, response]]

Unresolved(st) == [status |-> st, response |-> None]

Init == board = [d \in Decisions |-> Unresolved("absent")]

(* Decision d moves from a state in From to record r. *)
Move(d, From, r) ==
  /\ board[d] \in From
  /\ board' = [board EXCEPT ![d] = r]

Ask(d)    == Move(d, {Unresolved("absent")}, Unresolved("open"))
Expire(d) == Move(d, {Unresolved("open")}, Unresolved("timed_out"))

Answer(d, o) ==
  Move(d, {Unresolved("open")}, [status |-> "answered", response |-> o])

AnswerLate(d, o) ==
  Move(d, {Unresolved("timed_out")}, [status |-> "answered_late", response |-> o])

Next ==
  \E d \in Decisions :
    \/ Ask(d)
    \/ Expire(d)
    \/ \E o \in Options : Answer(d, o) \/ AnswerLate(d, o)

Spec == Init /\ [][Next]_board
==============================================================================
