------------------------------ MODULE Decisions ------------------------------
(***************************************************************************)
(* The life of a decision request: DecisionService.open and .respond, the  *)
(* inbound-SMS matcher, the resolve_now endpoint, the arq timeout job and  *)
(* the gated action item resolve_now approves.                             *)
(*                                                                         *)
(* Every handler runs on a database session of its own.  A committed row   *)
(* is `row'; what a session has loaded is `sess[s].seen'.  SQLAlchemy keeps*)
(* a loaded row in the session's identity map, so the SELECT FOR UPDATE of *)
(* respond(), issued after the endpoint (or the SMS matcher) has already   *)
(* loaded the decision in the same session, takes the row lock but leaves  *)
(* the attributes as they were loaded: the status check reads `seen'.      *)
(* resolve_now and the timeout job load the row by that very statement, so *)
(* what they check is what is committed.                                   *)
(*                                                                         *)
(* A lock-check-write-commit run with no other read in between is one      *)
(* step: nobody sees it before its commit, and the row lock keeps every    *)
(* other locker out of it.  resolve_now reads action items while it holds  *)
(* the lock and is two steps.                                              *)
(***************************************************************************)
EXTENDS Naturals, Sequences

CONSTANTS
  Decisions,     \* decision ids; their 6-hex SMS prefixes are taken distinct
  ClassOf,       \* decision_class of each decision
  Options,       \* the options every decision offers
  Replies,       \* what a Manager may send: the options and other text
  WsResponders,  \* sessions of POST /decisions/{id}/respond
  SmsResponders, \* sessions of an inbound "[DR-xxxxxx] option" SMS
  DeskSessions,  \* sessions of POST /decisions/{id}/resolve_now
  Rejecters,     \* sessions of POST /action_items/{id}/reject
  None,          \* no response recorded, no target, no lock holder
  MaxCrashes     \* bound on process crashes

Classes      == {"inline", "bridged", "async"}
EarlyReaders == WsResponders \cup SmsResponders
Sessions     == EarlyReaders \cup DeskSessions \cup Rejecters

ASSUME ConstantsAssumption ==
  /\ ClassOf \in [Decisions -> Classes]
  /\ Options \subseteq Replies
  /\ None \notin Replies \cup Sessions \cup Decisions
  /\ EarlyReaders \cap DeskSessions = {}
  /\ EarlyReaders \cap Rejecters = {}
  /\ WsResponders \cap SmsResponders = {}
  /\ DeskSessions \cap Rejecters = {}
  /\ MaxCrashes \in Nat

VARIABLES
  row,      \* [Decisions -> committed decision_requests row]
  item,     \* [Decisions -> status of the action item whose payload names it]
  opener,   \* [Decisions -> progress of the tool call that opens it]
  pinged,   \* [Decisions -> the Manager's phone got the SMS with the prefix]
  job,      \* [Decisions -> state of the arq job dt:{id}]
  rowLock,  \* [Decisions -> session holding the row FOR UPDATE across steps]
  sess,     \* [Sessions -> request in progress]
  frames,   \* [Decisions -> frames published to the workspace bus, in order]
  winners,  \* history: [Decisions -> sessions whose answer was committed]
  crashes   \* crashes so far

vars == <<row, item, opener, pinged, job, rowLock, sess, frames, winners, crashes>>

----------------------------------------------------------------------------
(* Types *)

Statuses == {"absent", "open", "answered", "answered_late", "timed_out"}
Row      == [status : Statuses, response : Options \cup {None},
             via : {"none", "websocket", "sms", "timeout"}]
Items    == {"none", "pending_approval", "approved", "rejected"}
Openers  == {"idle", "committed", "announced", "pinged", "done", "dead"}
Jobs     == {"none", "scheduled", "committed", "done"}
Phases   == {"idle", "loaded", "locked", "committed", "done", "conflict", "invalid", "dead"}
Request  == [pc : Phases, target : Decisions \cup {None}, choice : Replies \cup {None},
             seen : Statuses \cup Items]
Frames   == {"opened", "answered", "timed_out"}

NoRow     == [status |-> "absent", response |-> None, via |-> "none"]
OpenRow   == [NoRow EXCEPT !.status = "open"]
NoRequest == [pc |-> "idle", target |-> None, choice |-> None, seen |-> "absent"]

TypeOK ==
  /\ row \in [Decisions -> Row]
  /\ item \in [Decisions -> Items]
  /\ opener \in [Decisions -> Openers]
  /\ pinged \in [Decisions -> BOOLEAN]
  /\ job \in [Decisions -> Jobs]
  /\ rowLock \in [Decisions -> DeskSessions \cup {None}]
  /\ sess \in [Sessions -> Request]
  /\ frames \in [Decisions -> Seq(Frames)]
  /\ winners \in [Decisions -> SUBSET Sessions]
  /\ crashes \in 0..MaxCrashes

Init ==
  /\ row = [d \in Decisions |-> NoRow]
  /\ item = [d \in Decisions |-> "none"]
  /\ opener = [d \in Decisions |-> "idle"]
  /\ pinged = [d \in Decisions |-> FALSE]
  /\ job = [d \in Decisions |-> "none"]
  /\ rowLock = [d \in Decisions |-> None]
  /\ sess = [s \in Sessions |-> NoRequest]
  /\ frames = [d \in Decisions |-> <<>>]
  /\ winners = [d \in Decisions |-> {}]
  /\ crashes = 0

Publish(d, f) == frames' = [frames EXCEPT ![d] = Append(@, f)]

(* Request s moves on to phase p. *)
Proceed(s, p) == sess' = [sess EXCEPT ![s].pc = p]

(* An idle session s receives a request for d with reply o and loads status st. *)
Receive(s, p, d, o, st) ==
  /\ sess[s].pc = "idle"
  /\ sess' = [sess EXCEPT ![s] = [pc |-> p, target |-> d, choice |-> o, seen |-> st]]

----------------------------------------------------------------------------
(* DecisionService.open *)

TimedClasses == {"inline", "bridged"}  \* DEFAULT_TIMEOUTS_SECONDS is not None

(* The row is inserted and committed before any side effect. *)
Open(d) ==
  /\ opener[d] = "idle"
  /\ row' = [row EXCEPT ![d] = OpenRow]
  /\ opener' = [opener EXCEPT ![d] = "committed"]
  /\ UNCHANGED <<item, pinged, job, rowLock, sess, frames, winners, crashes>>

OpenAnnounce(d) ==
  /\ opener[d] = "committed"
  /\ Publish(d, "opened")
  /\ opener' = [opener EXCEPT ![d] = "announced"]
  /\ UNCHANGED <<row, item, pinged, job, rowLock, sess, winners, crashes>>

(* No phone on file, or a send that fails, leaves the Manager without the prefix. *)
OpenPing(d) ==
  /\ opener[d] = "announced"
  /\ \E delivered \in BOOLEAN : pinged' = [pinged EXCEPT ![d] = delivered]
  /\ opener' = [opener EXCEPT ![d] = "pinged"]
  /\ UNCHANGED <<row, item, job, rowLock, sess, frames, winners, crashes>>

(* An enqueue that raises is logged and never retried. *)
OpenSchedule(d) ==
  /\ opener[d] = "pinged"
  /\ opener' = [opener EXCEPT ![d] = "done"]
  /\ \/ /\ ClassOf[d] \in TimedClasses
        /\ job' = [job EXCEPT ![d] = "scheduled"]
     \/ UNCHANGED job
  /\ UNCHANGED <<row, item, pinged, rowLock, sess, frames, winners, crashes>>

----------------------------------------------------------------------------
(* DecisionService.respond, from the endpoint and from the SMS matcher *)

(* respond_to_decision: repo.get loads the row into the session. *)
WsLoad(s, d, o) ==
  /\ s \in WsResponders
  /\ row[d].status # "absent"
  /\ Receive(s, "loaded", d, o, row[d].status)
  /\ UNCHANGED <<row, item, opener, pinged, job, rowLock, frames, winners, crashes>>

(* match_sms_response: list_open_for_user loads every open decision; the   *)
(* prefix picks d.  No open decision, or a reply that is no option, ends it.*)
SmsLoad(s, d, o) ==
  /\ s \in SmsResponders
  /\ pinged[d]
  /\ IF row[d].status = "open" /\ o \in Options
       THEN Receive(s, "loaded", d, o, "open")
       ELSE Receive(s, "done", d, o, row[d].status)
  /\ UNCHANGED <<row, item, opener, pinged, job, rowLock, frames, winners, crashes>>

Via(s) == IF s \in SmsResponders THEN "sms" ELSE "websocket"

AnsweredRow(s, st) == [status |-> st, response |-> sess[s].choice, via |-> Via(s)]

(* Lock, check the loaded status, check the option, write and commit. *)
Respond(s) ==
  LET d == sess[s].target IN
  /\ s \in EarlyReaders
  /\ sess[s].pc = "loaded"
  /\ rowLock[d] = None
  /\ \/ /\ sess[s].seen # "open"
        /\ Proceed(s, "conflict")
        /\ UNCHANGED <<row, winners>>
     \/ /\ sess[s].seen = "open"
        /\ sess[s].choice \notin Options
        /\ Proceed(s, "invalid")
        /\ UNCHANGED <<row, winners>>
     \/ /\ sess[s].seen = "open"
        /\ sess[s].choice \in Options
        /\ row' = [row EXCEPT ![d] = AnsweredRow(s, "answered")]
        /\ winners' = [winners EXCEPT ![d] = @ \cup {s}]
        /\ Proceed(s, "committed")
  /\ UNCHANGED <<item, opener, pinged, job, rowLock, frames, crashes>>

(* Mutant: the frame goes out before the commit. *)
RespondPublishFirst(s) ==
  /\ s \in EarlyReaders
  /\ sess[s].pc \in {"loaded", "committed"}
  /\ Publish(sess[s].target, "answered")
  /\ UNCHANGED <<row, item, opener, pinged, job, rowLock, sess, winners, crashes>>

RespondPublish(s) ==
  /\ s \in EarlyReaders
  /\ sess[s].pc = "committed"
  /\ Publish(sess[s].target, "answered")
  /\ Proceed(s, "done")
  /\ UNCHANGED <<row, item, opener, pinged, job, rowLock, winners, crashes>>

----------------------------------------------------------------------------
(* resolve_now, and the gated action item *)

(* Mutants: an answered decision may be resolved again; only a missed one may. *)
ResolvableAgain == {"timed_out", "open", "answered_late"}

Resolvable == {"timed_out", "open"}

(* Mutant: the approval commits by itself, ahead of the answer. *)
ResolveApprovesFirst(s, d, o) ==
  /\ s \in DeskSessions
  /\ row[d].status \in Resolvable
  /\ rowLock[d] = None
  /\ o \in Options
  /\ Receive(s, "locked", d, o, item[d])
  /\ rowLock' = [rowLock EXCEPT ![d] = s]
  /\ item' = [item EXCEPT ![d] = IF @ = "pending_approval" THEN "approved" ELSE @]
  /\ UNCHANGED <<row, opener, pinged, job, frames, winners, crashes>>

(* Lock and load the row, check it, flush the answer, read the pending items. *)
ResolveLock(s, d, o) ==
  /\ s \in DeskSessions
  /\ row[d].status # "absent"
  /\ rowLock[d] = None
  /\ IF row[d].status \notin Resolvable
       THEN Receive(s, "conflict", d, o, row[d].status) /\ UNCHANGED rowLock
       ELSE IF o \notin Options
       THEN Receive(s, "invalid", d, o, row[d].status) /\ UNCHANGED rowLock
       ELSE /\ Receive(s, "locked", d, o, item[d])
            /\ rowLock' = [rowLock EXCEPT ![d] = s]
  /\ UNCHANGED <<row, item, opener, pinged, job, frames, winners, crashes>>

(* The answer and the approval of the item it gates commit together. *)
ResolveCommit(s) ==
  LET d == sess[s].target
      st == IF row[d].status = "timed_out" THEN "answered_late" ELSE "answered"
  IN
  /\ s \in DeskSessions
  /\ sess[s].pc = "locked"
  /\ row' = [row EXCEPT ![d] = AnsweredRow(s, st)]
  /\ item' = IF sess[s].seen = "pending_approval"
               THEN [item EXCEPT ![d] = "approved"] ELSE item
  /\ winners' = [winners EXCEPT ![d] = @ \cup {s}]
  /\ rowLock' = [rowLock EXCEPT ![d] = None]
  /\ Proceed(s, "done")
  /\ UNCHANGED <<opener, pinged, job, frames, crashes>>

(* post_call extracts an item whose payload names the decision. *)
ExtractItem(d) ==
  /\ item[d] = "none"
  /\ row[d].status # "absent"
  /\ item' = [item EXCEPT ![d] = "pending_approval"]
  /\ UNCHANGED <<row, opener, pinged, job, rowLock, sess, frames, winners, crashes>>

RejectLoad(s, d) ==
  /\ s \in Rejecters
  /\ item[d] # "none"
  /\ Receive(s, IF item[d] = "pending_approval" THEN "loaded" ELSE "conflict",
             d, None, item[d])
  /\ UNCHANGED <<row, item, opener, pinged, job, rowLock, frames, winners, crashes>>

RejectCommit(s) ==
  /\ s \in Rejecters
  /\ sess[s].pc = "loaded"
  /\ item' = [item EXCEPT ![sess[s].target] = "rejected"]
  /\ Proceed(s, "done")
  /\ UNCHANGED <<row, opener, pinged, job, rowLock, frames, winners, crashes>>

----------------------------------------------------------------------------
(* decision_timeout_job; arq runs it again when the worker dies in it *)

(* mark_timed_out leaves what was chosen alone. *)
TimedOut(r) == [status |-> "timed_out", response |-> r.response, via |-> "timeout"]

(* Mutant: the row is not checked once it is locked. *)
TimeoutFireBlind(d) ==
  /\ job[d] = "scheduled"
  /\ rowLock[d] = None
  /\ row' = [row EXCEPT ![d] = TimedOut(@)]
  /\ job' = [job EXCEPT ![d] = "committed"]
  /\ UNCHANGED <<item, opener, pinged, rowLock, sess, frames, winners, crashes>>

(* Mutant: a locked row counts as being answered (SKIP LOCKED). *)
TimeoutFireSkips(d) ==
  /\ job[d] = "scheduled"
  /\ IF row[d].status = "open" /\ rowLock[d] = None
       THEN /\ row' = [row EXCEPT ![d] = TimedOut(@)]
            /\ job' = [job EXCEPT ![d] = "committed"]
       ELSE job' = [job EXCEPT ![d] = "done"] /\ UNCHANGED row
  /\ UNCHANGED <<item, opener, pinged, rowLock, sess, frames, winners, crashes>>

TimeoutFire(d) ==
  /\ job[d] = "scheduled"
  /\ rowLock[d] = None
  /\ \/ /\ row[d].status # "open"
        /\ job' = [job EXCEPT ![d] = "done"]
        /\ UNCHANGED row
     \/ /\ row[d].status = "open"
        /\ row' = [row EXCEPT ![d] = TimedOut(@)]
        /\ job' = [job EXCEPT ![d] = "committed"]
  /\ UNCHANGED <<item, opener, pinged, rowLock, sess, frames, winners, crashes>>

TimeoutPublish(d) ==
  /\ job[d] = "committed"
  /\ Publish(d, "timed_out")
  /\ job' = [job EXCEPT ![d] = "done"]
  /\ UNCHANGED <<row, item, opener, pinged, rowLock, sess, winners, crashes>>

----------------------------------------------------------------------------
(* Crashes: open transactions roll back, their locks go with them *)

Crash == crashes < MaxCrashes /\ crashes' = crashes + 1

CrashOpener(d) ==
  /\ Crash
  /\ opener[d] \in {"committed", "announced", "pinged"}
  /\ opener' = [opener EXCEPT ![d] = "dead"]
  /\ UNCHANGED <<row, item, pinged, job, rowLock, sess, frames, winners>>

(* Mutant: the dead handler's row lock outlives it. *)
CrashHoldingLock(s) ==
  /\ Crash
  /\ sess[s].pc \in {"loaded", "locked", "committed"}
  /\ Proceed(s, "dead")
  /\ UNCHANGED <<row, item, opener, pinged, job, rowLock, frames, winners>>

CrashRequest(s) ==
  /\ Crash
  /\ sess[s].pc \in {"loaded", "locked", "committed"}
  /\ Proceed(s, "dead")
  /\ rowLock' = [d \in Decisions |-> IF rowLock[d] = s THEN None ELSE rowLock[d]]
  /\ UNCHANGED <<row, item, opener, pinged, job, frames, winners>>

CrashJob(d) ==
  /\ Crash
  /\ job[d] = "committed"
  /\ job' = [job EXCEPT ![d] = "scheduled"]
  /\ UNCHANGED <<row, item, opener, pinged, rowLock, sess, frames, winners>>

----------------------------------------------------------------------------

OpenStep(d)    == Open(d) \/ OpenAnnounce(d) \/ OpenPing(d) \/ OpenSchedule(d)
TimeoutStep(d) == TimeoutFire(d) \/ TimeoutPublish(d)
RequestStep(s) ==
  \/ \E d \in Decisions, o \in Replies :
        WsLoad(s, d, o) \/ SmsLoad(s, d, o) \/ ResolveLock(s, d, o)
  \/ \E d \in Decisions : RejectLoad(s, d)
Progress(s) == Respond(s) \/ RespondPublish(s) \/ ResolveCommit(s) \/ RejectCommit(s)

Next ==
  \/ \E d \in Decisions :
       OpenStep(d) \/ TimeoutStep(d) \/ ExtractItem(d) \/ CrashOpener(d) \/ CrashJob(d)
  \/ \E s \in Sessions : RequestStep(s) \/ Progress(s) \/ CrashRequest(s)

Spec == Init /\ [][Next]_vars

(* A request that has begun either goes on or dies with its process, an    *)
(* opened tool call goes on, and arq runs a due job; nobody has to reply.  *)
Fairness ==
  /\ \A d \in Decisions :
       /\ WF_vars(OpenAnnounce(d) \/ OpenPing(d) \/ OpenSchedule(d))
       /\ WF_vars(TimeoutStep(d))
  /\ \A s \in Sessions : WF_vars(Progress(s))

FairSpec == Spec /\ Fairness

----------------------------------------------------------------------------
(* Properties *)

Resolved(d) == row[d].status \in {"answered", "answered_late", "timed_out"}
Published(d) == {frames[d][i] : i \in DOMAIN frames[d]}

(* First responder wins: of all the sessions whose reply to a decision was *)
(* accepted (respond over either channel, or resolve_now), there is one.   *)
AtMostOneWinner ==
  \A d \in Decisions : \A s, t \in winners[d] : s = t

(* The row tells one story whatever order respond, resolve_now and the     *)
(* timeout job commit in: a timeout never sits on top of an answer, an     *)
(* answer is one of the options and came from somebody whose reply was     *)
(* accepted, and an open decision has neither.                             *)
RowTellsOneStory ==
  \A d \in Decisions :
    /\ row[d].status \in {"absent", "open"} => row[d] \in {NoRow, OpenRow} /\ winners[d] = {}
    /\ row[d].status = "timed_out" =>
         row[d].response = None /\ row[d].via = "timeout" /\ winners[d] = {}
    /\ row[d].status \in {"answered", "answered_late"} =>
         /\ row[d].response \in Options
         /\ \E s \in winners[d] :
              row[d].response = sess[s].choice /\ row[d].via = Via(s)

(* resolve_now approves a gated action item only together with an answer:  *)
(* whatever commits, crashes or rolls back, no item it approved belongs to *)
(* a decision that is still open or merely timed out.                      *)
ApprovalFollowsAnswer ==
  \A d \in Decisions :
    item[d] = "approved" => row[d].status \in {"answered", "answered_late"}

(* The bus never runs ahead of the database: a decision.resolved frame is  *)
(* on the wire only for an outcome that is committed, so a crash in any    *)
(* handler cannot close a prompt that is still open.                       *)
NoFrameBeforeCommit ==
  \A d \in Decisions :
    /\ "answered" \in Published(d) => winners[d] # {}
    /\ "timed_out" \in Published(d) => Resolved(d)

(* A reply is refused as "already resolved" only when the decision is, so  *)
(* the conflict check never turns the first responder away.                *)
RefusedOnlyIfResolved ==
  \A s \in EarlyReaders \cup DeskSessions :
    sess[s].pc = "conflict" => Resolved(sess[s].target)

(* A decision whose timeout job was scheduled does not stay open, whatever *)
(* replies, locks and worker crashes get in the job's way.                 *)
TimeoutSettles ==
  \A d \in Decisions : job[d] = "scheduled" ~> Resolved(d)

(* Every request that has loaded a decision ends: no handler is left       *)
(* waiting for a row lock, not even one whose holder died.                 *)
Running == {"loaded", "locked", "committed"}
RequestsEnd ==
  \A s \in Sessions : sess[s].pc \in Running ~> sess[s].pc \notin Running

(* A row lock and the request that took it keep step: whoever holds one is *)
(* a live resolve_now between its check and its commit, and until it goes  *)
(* on nobody else's commit gets under the status it checked.               *)
LockProtocol ==
  /\ \A d \in Decisions : rowLock[d] # None =>
       sess[rowLock[d]].pc = "locked" /\ sess[rowLock[d]].target = d
  /\ \A s \in Sessions : sess[s].pc = "locked" =>
       /\ sess[s].target \in Decisions
       /\ rowLock[sess[s].target] = s
       /\ row[sess[s].target].status \in {"open", "timed_out"}
       /\ sess[s].choice \in Options

(* The code implements the decision lifecycle: its rows, without who wrote *)
(* them and how, behave as DecisionBoard says.                             *)
Board == INSTANCE DecisionBoard WITH
  board <- [d \in Decisions |-> [status |-> row[d].status, response |-> row[d].response]]

ImplementsBoard == Board!Spec

----------------------------------------------------------------------------
(* What the code's documents say and the code does not keep.  No run checks *)
(* these; the README says at which bounds TLC refutes each.                *)

(* README, WebSocket frames: decision.resolved is sent when a decision is  *)
(* answered or timed out.                                                  *)
ResolvedIsAnnounced ==
  \A d \in Decisions :
    row[d].status \in {"answered", "timed_out"} ~>
      Published(d) \cap {"answered", "timed_out"} # {}
==============================================================================
