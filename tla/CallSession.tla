----------------------------- MODULE CallSession -----------------------------
(***************************************************************************)
(* One call's conversation: the voice TurnLoop and the SMS orchestrator    *)
(* over the Redis session they share, the transcript table, the decisions  *)
(* opened by tool calls and the Manager's whispers.                        *)
(*                                                                         *)
(* AgentPhone starts a turn per utterance and does not wait for the last   *)
(* one to finish (a Rep may talk over the agent), so turns overlap.  Every *)
(* step below is one round trip to Postgres or Redis, or the LLM stream.   *)
(***************************************************************************)
EXTENDS Naturals, FiniteSets, Sequences, Functions, FiniteSetsExt

CONSTANTS
  VoiceTurns,  \* voice-turn webhooks of the call
  SmsTurns,    \* inbound SMS handled on the call's row
  Decisions,   \* decisions its tool calls may open
  Whispers,    \* whispers the Manager may post
  MaxInFlight, \* bound on turns in progress at once
  MaxFaults    \* bound on disconnects, LLM errors and Redis errors

Turns == VoiceTurns \cup SmsTurns

ASSUME ConstantsAssumption ==
  /\ VoiceTurns \cap SmsTurns = {}
  /\ IsFiniteSet(VoiceTurns) /\ IsFiniteSet(SmsTurns)
  /\ MaxInFlight \in Nat
  /\ MaxFaults \in Nat

VARIABLES
  live,      \* the call row is ringing or in_progress
  frags,     \* seq numbers in transcript_fragments, in commit order
  store,     \* the Redis value session:call:{id}
  inbox,     \* the Redis list whispers:{id}, as a set
  decision,  \* [Decisions -> committed status]
  whisper,   \* [Whispers -> progress of the endpoint and of its row]
  turn,      \* [Turns -> local state of the handler]
  told,      \* history: [Decisions -> times a reply wove its outcome in]
  heard,     \* history: [Whispers -> times a reply had it in its prompt]
  serial,    \* history: so far no turn began while another was in progress
  faults     \* faults so far

vars == <<live, frags, store, inbox, decision, whisper, turn, told, heard, serial, faults>>

----------------------------------------------------------------------------

Outcomes == {"answered", "timed_out", "answered_late"}
Statuses == {"absent", "open"} \cup Outcomes
Posted   == {"none", "recorded", "pushed", "unpushed", "stamped"}
Phases   == {"idle", "caller", "begun", "loaded", "drained", "ranged", "prompted",
             "spoken", "agent", "replied", "stamped", "done", "failed"}
Seqs     == 1..(2 * Cardinality(Turns))
Session  == [version : 0..Cardinality(Turns), pending : SUBSET Decisions,
             history : SUBSET Turns]
Local    == [pc : Phases, seq : 0..(2 * Cardinality(Turns)), sess : Session,
             updates : SUBSET Decisions, batch : SUBSET Whispers,
             opened : SUBSET Decisions, uuidBound : BOOLEAN]

NoSession == [version |-> 0, pending |-> {}, history |-> {}]
Fresh == [pc |-> "idle", seq |-> 0, sess |-> NoSession, updates |-> {}, batch |-> {},
          opened |-> {}, uuidBound |-> FALSE]

TypeOK ==
  /\ live \in BOOLEAN
  /\ frags \in Seq(Seqs)
  /\ store \in Session
  /\ inbox \subseteq Whispers
  /\ decision \in [Decisions -> Statuses]
  /\ whisper \in [Whispers -> Posted]
  /\ turn \in [Turns -> Local]
  /\ told \in [Decisions -> 0..Cardinality(Turns)]
  /\ heard \in [Whispers -> 0..Cardinality(Turns)]
  /\ serial \in BOOLEAN
  /\ faults \in 0..MaxFaults

Init ==
  /\ live = TRUE
  /\ frags = <<>>
  /\ store = NoSession
  /\ inbox = {}
  /\ decision = [d \in Decisions |-> "absent"]
  /\ whisper = [w \in Whispers |-> "none"]
  /\ turn = [t \in Turns |-> Fresh]
  /\ told = [d \in Decisions |-> 0]
  /\ heard = [w \in Whispers |-> 0]
  /\ serial = TRUE
  /\ faults = 0

At(t, p)   == turn[t].pc = p
Goto(t, p) == turn' = [turn EXCEPT ![t].pc = p]
InFlight   == {t \in Turns : turn[t].pc \notin {"idle", "done", "failed"}}
LastSeq    == Max({0} \cup Range(frags))
Once(f, S) == [x \in DOMAIN f |-> IF x \in S THEN f[x] + 1 ELSE f[x]]
Fault      == faults < MaxFaults /\ faults' = faults + 1

----------------------------------------------------------------------------
(* TranscriptsRepo.append: SELECT max(seq), INSERT max + 1, commit.  The   *)
(* unique (call_id, seq) index refuses the second of two equal inserts and *)
(* the exception ends the turn where it stands.                            *)

ReadSeq(t, p) == turn' = [turn EXCEPT ![t].pc = p, ![t].seq = LastSeq + 1]

(* Mutant: no unique index. *)
InsertDuplicate(t, p) == Goto(t, p) /\ frags' = Append(frags, turn[t].seq)

InsertFragment(t, p) ==
  IF turn[t].seq \in Range(frags)
    THEN Goto(t, "failed") /\ UNCHANGED frags
    ELSE Goto(t, p) /\ frags' = Append(frags, turn[t].seq)

CallerRead(t) ==
  /\ At(t, "idle")
  /\ Cardinality(InFlight) < MaxInFlight
  /\ ReadSeq(t, "caller")
  /\ serial' = (serial /\ InFlight = {})
  /\ UNCHANGED <<live, frags, store, inbox, decision, whisper, told, heard, faults>>

CallerCommit(t) ==
  /\ At(t, "caller")
  /\ InsertFragment(t, "begun")
  /\ UNCHANGED <<live, store, inbox, decision, whisper, told, heard, serial, faults>>

(* RedisSessionStore.load_or_create *)
LoadSession(t) ==
  /\ At(t, "begun")
  /\ turn' = [turn EXCEPT ![t].pc = "loaded", ![t].sess = store]
  /\ UNCHANGED <<live, frags, store, inbox, decision, whisper, told, heard, serial, faults>>

----------------------------------------------------------------------------
(* TurnLoop, steps 4b to 6 *)

Reportable == {"answered", "timed_out"}

(* Mutant: what was reported stays on the list. *)
DrainKeepsAll(t) ==
  /\ t \in VoiceTurns
  /\ At(t, "loaded")
  /\ LET P == turn[t].sess.pending
     IN turn' = [turn EXCEPT ![t].pc = "drained", ![t].uuidBound = (P # {}),
                             ![t].updates = {d \in P : decision[d] \in Reportable}]
  /\ UNCHANGED <<live, frags, store, inbox, decision, whisper, told, heard, serial, faults>>

(* Pending decisions that resolved go into the prompt and leave the list.  *)
(* The branch also imports UUID into the function's scope: later uses of   *)
(* the name work only in a turn that came through here.                    *)
DrainDecisions(t) ==
  /\ t \in VoiceTurns
  /\ At(t, "loaded")
  /\ LET P == turn[t].sess.pending
         R == {d \in P : decision[d] \in Reportable}
     IN turn' = [turn EXCEPT ![t].pc = "drained", ![t].updates = R,
                             ![t].sess.pending = P \ R, ![t].uuidBound = (P # {})]
  /\ UNCHANGED <<live, frags, store, inbox, decision, whisper, told, heard, serial, faults>>

(* LRANGE whispers:{id} 0 -1; a Redis error leaves the turn without any.   *)
RangeWhispers(t) ==
  /\ At(t, "drained")
  /\ \/ /\ turn' = [turn EXCEPT ![t].pc = IF inbox = {} THEN "prompted" ELSE "ranged",
                                ![t].batch = inbox]
        /\ UNCHANGED faults
     \/ Fault /\ Goto(t, "prompted")
  /\ UNCHANGED <<live, frags, store, inbox, decision, whisper, told, heard, serial>>

(* Mutants: the list is left in Redis; the rows are stamped as it is drained. *)
DeleteNothing(t) ==
  /\ At(t, "ranged")
  /\ Goto(t, "prompted")
  /\ UNCHANGED <<live, frags, store, inbox, decision, whisper, told, heard, serial, faults>>
DeleteAndStamp(t) ==
  /\ At(t, "ranged")
  /\ Goto(t, "prompted")
  /\ inbox' = {}
  /\ whisper' = [w \in Whispers |-> IF w \in turn[t].batch THEN "stamped" ELSE whisper[w]]
  /\ UNCHANGED <<live, frags, store, decision, told, heard, serial, faults>>

(* DEL whispers:{id}; if it raises, the turn goes on without whispers.     *)
DeleteWhispers(t) ==
  /\ At(t, "ranged")
  /\ \/ Goto(t, "prompted") /\ inbox' = {} /\ UNCHANGED faults
     \/ /\ Fault
        /\ turn' = [turn EXCEPT ![t].pc = "prompted", ![t].batch = {}]
        /\ UNCHANGED inbox
  /\ UNCHANGED <<live, frags, store, decision, whisper, told, heard, serial>>

(* The LLM streams the reply; request_manager_decision may run in it and   *)
(* commits its row in a session of its own.  An SMS turn goes straight     *)
(* from the loaded session to the LLM.                                     *)
Speak(t) ==
  /\ At(t, IF t \in VoiceTurns THEN "prompted" ELSE "loaded")
  /\ \E O \in {{}} \cup {{d} : d \in {x \in Decisions : decision[x] = "absent"}} :
       /\ turn' = [turn EXCEPT ![t].pc = "spoken", ![t].opened = O]
       /\ decision' = [d \in Decisions |-> IF d \in O THEN "open" ELSE decision[d]]
  /\ told' = Once(told, turn[t].updates)
  /\ heard' = Once(heard, turn[t].batch)
  /\ UNCHANGED <<live, frags, store, inbox, whisper, serial, faults>>

----------------------------------------------------------------------------
(* Steps 7 and 8: the agent's fragment, the whisper rows, the session *)

(* A voice reply with nothing spoken has no fragment; an SMS always has one. *)
AgentRead(t) ==
  /\ At(t, "spoken")
  /\ \/ ReadSeq(t, "agent")
     \/ t \in VoiceTurns /\ Goto(t, "replied")
  /\ UNCHANGED <<live, frags, store, inbox, decision, whisper, told, heard, serial, faults>>

AgentCommit(t) ==
  /\ At(t, "agent")
  /\ InsertFragment(t, "replied")
  /\ UNCHANGED <<live, store, inbox, decision, whisper, told, heard, serial, faults>>

(* ManagerInterventionsRepo.mark_consumed for the batch (an SMS turn has   *)
(* none: it never drains the list).  In a voice turn that                  *)
(* had no pending decision, evaluating UUID raises, the handler logs       *)
(* intervention_stamp_failed and no row is stamped.                        *)
Stamp(t) ==
  /\ At(t, "replied")
  /\ Goto(t, "stamped")
  /\ whisper' = [w \in Whispers |->
       IF w \in turn[t].batch /\ turn[t].uuidBound THEN "stamped" ELSE whisper[w]]
  /\ UNCHANGED <<live, frags, store, inbox, decision, told, heard, serial, faults>>

(* Mutants: the turn's new decisions are not recorded; no version check. *)
SaveForgetsOpened(t) ==
  LET mine == turn[t].sess IN
  /\ At(t, "stamped")
  /\ Goto(t, "done")
  /\ store' = [mine EXCEPT !.version = @ + 1, !.history = @ \cup {t}]
  /\ UNCHANGED <<live, frags, inbox, decision, whisper, told, heard, serial, faults>>
SaveUnchecked(t) ==
  LET mine == turn[t].sess IN
  /\ At(t, "stamped")
  /\ Goto(t, "done")
  /\ store' = [version |-> mine.version + 1,
               pending |-> mine.pending \cup turn[t].opened,
               history |-> mine.history \cup {t}]
  /\ UNCHANGED <<live, frags, inbox, decision, whisper, told, heard, serial, faults>>

(* RedisSessionStore.save under WATCH: a version mismatch, like any Redis  *)
(* error, is logged and the turn ends without its session.                 *)
Save(t) ==
  LET mine == turn[t].sess IN
  /\ At(t, "stamped")
  /\ Goto(t, "done")
  /\ \/ /\ store.version = mine.version
        /\ store' = [version |-> mine.version + 1,
                     pending |-> mine.pending \cup turn[t].opened,
                     history |-> mine.history \cup {t}]
        /\ UNCHANGED faults
     \/ store.version # mine.version /\ UNCHANGED <<store, faults>>
     \/ Fault /\ UNCHANGED store
  /\ UNCHANGED <<live, frags, inbox, decision, whisper, told, heard, serial>>

(* The LLM, Postgres or Redis raises, AgentPhone drops the stream, or the  *)
(* process dies: what the turn holds is gone with it.                      *)
Abort(t) ==
  /\ Fault
  /\ t \in InFlight
  /\ Goto(t, "failed")
  /\ UNCHANGED <<live, frags, store, inbox, decision, whisper, told, heard, serial>>

----------------------------------------------------------------------------
(* whisper_to_call: the row commits, then the guidance is pushed to Redis  *)

PostWhisper(w) ==
  /\ live
  /\ whisper[w] = "none"
  /\ whisper' = [whisper EXCEPT ![w] = "recorded"]
  /\ UNCHANGED <<live, frags, store, inbox, decision, turn, told, heard, serial, faults>>

PushWhisper(w) ==
  /\ whisper[w] = "recorded"
  /\ \/ /\ whisper' = [whisper EXCEPT ![w] = "pushed"]
        /\ inbox' = inbox \cup {w}
        /\ UNCHANGED faults
     \/ Fault /\ whisper' = [whisper EXCEPT ![w] = "unpushed"] /\ UNCHANGED inbox
  /\ UNCHANGED <<live, frags, store, decision, turn, told, heard, serial>>

(* The Manager and the timeout job move decisions on (see Decisions).      *)
Moves == {<<"open", "answered">>, <<"open", "timed_out">>, <<"timed_out", "answered_late">>}

DecisionMoves(d) ==
  /\ \E m \in Moves : decision[d] = m[1] /\ decision' = [decision EXCEPT ![d] = m[2]]
  /\ UNCHANGED <<live, frags, store, inbox, whisper, turn, told, heard, serial, faults>>

CallEnds ==
  /\ live
  /\ live' = FALSE
  /\ UNCHANGED <<frags, store, inbox, decision, whisper, turn, told, heard, serial, faults>>

TurnStep(t) ==
  \/ CallerRead(t) \/ CallerCommit(t) \/ LoadSession(t) \/ DrainDecisions(t)
  \/ RangeWhispers(t) \/ DeleteWhispers(t) \/ Speak(t) \/ AgentRead(t)
  \/ AgentCommit(t) \/ Stamp(t) \/ Save(t) \/ Abort(t)

Next ==
  \/ \E t \in Turns : TurnStep(t)
  \/ \E w \in Whispers : PostWhisper(w) \/ PushWhisper(w)
  \/ \E d \in Decisions : DecisionMoves(d)
  \/ CallEnds

Spec == Init /\ [][Next]_vars

----------------------------------------------------------------------------
(* Properties *)

(* However turns overlap or die, a call's fragments are numbered 1, 2, 3,  *)
(* ... in the order they were committed, with no gap and no duplicate: a   *)
(* replay shows every fragment once, in order.                             *)
SeqsAreGapFree == \A i \in 1..Len(frags) : frags[i] = i

(* The session is an append-only record of turns: a save never drops a     *)
(* turn that an earlier save recorded, and moves the version on by one.    *)
SavesExtendHistory ==
  [][ /\ store.history \subseteq store'.history
      /\ store'.version = store.version + 1 ]_store

(* Turns came one after another and nothing failed.  With an overlap, or a *)
(* save that was refused, the next three do not hold (README).             *)
Undisturbed == serial /\ faults = 0

(* "must reload" (session.py): a decision a finished turn opened stays     *)
(* known to the session until some reply has told the Rep its outcome.     *)
OpenedStaysTracked ==
  Undisturbed =>
    \A t \in Turns : At(t, "done") =>
      \A d \in turn[t].opened : d \in store.pending \/ told[d] > 0

(* "one update per resolution" (turn_loop.py): the Rep is not told the     *)
(* same outcome in two replies.                                            *)
ToldAtMostOnce == Undisturbed => \A d \in Decisions : told[d] <= 1

(* An outcome is neither forgotten before it is told nor told again.       *)
OutcomesReachOnePrompt == OpenedStaysTracked /\ ToldAtMostOnce

(* A whisper reaches the prompt of one turn, whatever fails: the next one  *)
(* does not repeat guidance the agent has already followed.                *)
HeardAtMostOnce == serial => \A w \in Whispers : heard[w] <= 1

(* A row is never stamped for a reply that did not have the whisper in its *)
(* prompt: the audit trail claims nothing the Rep could not have heard.    *)
StampedWasHeard == \A w \in Whispers : whisper[w] = "stamped" => heard[w] > 0

(* A whisper's way through Redis, the prompt and its row adds up.          *)
WhispersReachOnePrompt == TypeOK /\ HeardAtMostOnce /\ StampedWasHeard

----------------------------------------------------------------------------
(* What the code's documents say and the code does not keep.  No run checks *)
(* these; the README says at which bounds TLC refutes each.                *)

(* "After turn completes ... consumed_at_turn set" (LLD F7): the rows of   *)
(* the whispers a finished turn spoke from are stamped.                    *)
HeardIsStamped ==
  \A t \in Turns : turn[t].pc \in {"stamped", "done"} =>
    \A w \in turn[t].batch : whisper[w] = "stamped"

(* "all concatenated into next turn's prompt block" (LLD F7): a whisper    *)
(* that was pushed is waiting in Redis, in the hands of a turn that will   *)
(* speak, or was in a prompt.                                              *)
NoWhisperLost ==
  \A w \in Whispers : whisper[w] \in {"pushed", "stamped"} =>
    \/ w \in inbox
    \/ heard[w] > 0
    \/ \E t \in InFlight : w \in turn[t].batch

(* "pull any pending decisions that resolved since last turn so the prompt *)
(* can weave the answer ... in" (turn_loop.py): what a turn leaves pending *)
(* had no outcome when the turn looked.                                    *)
DrainTellsEveryOutcome ==
  [][ \A t \in VoiceTurns : At(t, "loaded") /\ turn'[t].pc = "drained" =>
        \A d \in turn'[t].sess.pending : decision[d] \notin Outcomes ]_vars
==============================================================================
