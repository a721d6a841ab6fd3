---------------------------- MODULE CallWebhooks ----------------------------
(***************************************************************************)
(* AgentPhone's webhooks: the endpoint with its delivery dedupe,           *)
(* materialize_scope_and_call, the lifecycle frames, and the dispatch of   *)
(* voice turns and of the post_call job.                                   *)
(*                                                                         *)
(* A delivery is claimed in Redis before it is processed, its reads and    *)
(* its writes are a transaction, and the frames and the dispatch follow    *)
(* the commit.  Deliveries run concurrently; AgentPhone repeats one that   *)
(* got no 2xx answer.  Voice turns often carry no call id: they attach to  *)
(* the newest call in progress.  Rows are numbered as they are created,    *)
(* taken to be in order of started_at; field employees are taken to exist; *)
(* the turn itself is CallSession; arq is taken never to forget a job id   *)
(* (it keeps them for an hour).                                            *)
(***************************************************************************)
EXTENDS Naturals, FiniteSets, Sequences, FiniteSetsExt

CONSTANTS
  Voice,        \* deliveries of voice turns
  Ended,        \* deliveries of agent.call_ended
  Calls,        \* AgentPhone's calls, named by their call ids
  CallOf,       \* the call each delivery is about
  Named,        \* deliveries that carry the call id
  Unresolvable, \* deliveries that resolve to no workspace
  After,        \* what AgentPhone has had answered before it sends a delivery
  SecondOf,     \* the second of a delivery's timestamp
  Threads,      \* SMS conversations with the agent
  MaxFaults,    \* bound on crashes and failed enqueues
  MaxTimeouts,  \* bound on repeats of deliveries still in process
  MaxAged       \* bound on calls that outlast 20 minutes

Events == Voice \cup Ended
MaxRows == Cardinality(Events) + Cardinality(Threads)
Slots   == 1..MaxRows

ASSUME ConstantsAssumption ==
  /\ Voice \cap Ended = {} /\ IsFiniteSet(Events) /\ IsFiniteSet(Threads)
  /\ CallOf \in [Events -> Calls]
  /\ Named \subseteq Events
  /\ Unresolvable \subseteq Events
  /\ After \in [Events -> SUBSET Events]
  /\ SecondOf \in [Events -> Nat]
  /\ {MaxFaults, MaxTimeouts, MaxAged} \subseteq Nat

VARIABLES
  rows,      \* the calls table, in order of started_at
  claimed,   \* Redis keys seen_webhooks:{id}
  acked,     \* deliveries AgentPhone has a 2xx for
  hook,      \* [Events -> progress of the request that claimed the delivery]
  turns,     \* [Slots -> voice turns whose words are in the row's transcript]
  frames,    \* [Slots -> lifecycle frames published about the row]
  scheduled, \* rows whose job id post_call:{id} arq knows
  faults, timeouts, aged  \* so far

hookVars == <<rows, claimed, acked, hook, turns, frames, scheduled, faults, timeouts, aged>>

(* AgentPhone repeats no delivery that is in process, sends an end when the *)
(* turns of its call (and those that say no call) have been answered, and   *)
(* ends two calls at once only if every turn says which call it is of.      *)
Orderly ==
  /\ MaxTimeouts = 0
  /\ \A e, f \in Ended :
       \/ e = f \/ e \in After[f] \/ f \in After[e]
       \/ Voice \subseteq Named /\ {e, f} \subseteq Named /\ CallOf[e] # CallOf[f]
  /\ \A e \in Ended, v \in Voice : v \notin Named \/ CallOf[v] = CallOf[e] => v \in After[e]

----------------------------------------------------------------------------

(* agentphone_call_id: AgentPhone's, ap_<number>_<second>, sms_<thread> or empty. *)
Ids == ({"real"} \X Calls) \cup ({"ap"} \X {SecondOf[e] : e \in Events})
         \cup ({"sms"} \X Threads) \cup ({"empty"} \X {"empty"})
Row  == [id : Ids, status : {"in_progress", "ended"}, recent : BOOLEAN]
Hook == [pc : {"idle", "claimed", "read", "committed", "answered", "refused", "error", "dead"},
         row : 0..MaxRows, rename : BOOLEAN, frames : Seq({"started", "ended"})]

TypeOK ==
  /\ rows \in Seq(Row) /\ Len(rows) <= MaxRows
  /\ claimed \subseteq Events
  /\ acked \subseteq claimed
  /\ hook \in [Events -> Hook]
  /\ turns \in [Slots -> SUBSET Voice]
  /\ frames \in [Slots -> Seq({"started", "ended"})]
  /\ scheduled \subseteq DOMAIN rows
  /\ faults \in 0..MaxFaults
  /\ timeouts \in 0..MaxTimeouts
  /\ aged \in 0..MaxAged

HookInit ==
  /\ rows = <<>>
  /\ claimed = {}
  /\ acked = {}
  /\ hook = [e \in Events |-> [pc |-> "idle", row |-> 0, rename |-> FALSE,
                               frames |-> <<>>]]
  /\ turns = [i \in Slots |-> {}]
  /\ frames = [i \in Slots |-> <<>>]
  /\ scheduled = {}
  /\ faults = 0 /\ timeouts = 0 /\ aged = 0

At(e, p)      == hook[e].pc = p
Goto(e, p)    == hook' = [hook EXCEPT ![e].pc = p]
Settle(e, i, fs) ==
  hook' = [hook EXCEPT ![e].pc = "committed", ![e].row = i, ![e].frames = fs]
InProcess(e)  == hook[e].pc \in {"claimed", "read", "committed"}
Fault         == faults < MaxFaults /\ faults' = faults + 1

(* The call id of the event the adapter parses, often empty.               *)
ApCallId(e) == IF e \in Named THEN <<"real", CallOf[e]>> ELSE <<"empty", "empty">>
(* The id a new row takes: a voice turn without one gets a placeholder.    *)
IdOf(e)     == IF e \in Voice \ Named THEN <<"ap", SecondOf[e]>> ELSE ApCallId(e)
WithId(id)  == {i \in DOMAIN rows : rows[i].id = id}
Known(e)    == IF e \in Named THEN WithId(ApCallId(e)) ELSE {}
Open        == {i \in DOMAIN rows : rows[i].status = "in_progress" /\ rows[i].recent}
Newest(S)   == Max({0} \cup S)

----------------------------------------------------------------------------
(* agentphone_webhook *)

(* SET seen_webhooks:{id} NX *)
Claim(e) ==
  /\ e \notin claimed
  /\ After[e] \subseteq acked
  /\ claimed' = claimed \cup {e}
  /\ Goto(e, "claimed")
  /\ UNCHANGED <<rows, acked, turns, frames, scheduled, faults, timeouts, aged>>

(* A repeated delivery finds the key and is answered 200. *)
Repeat(e) ==
  /\ e \in claimed \ acked
  /\ IF InProcess(e)
       THEN timeouts < MaxTimeouts /\ timeouts' = timeouts + 1
       ELSE UNCHANGED timeouts
  /\ acked' = acked \cup {e}
  /\ UNCHANGED <<rows, claimed, hook, turns, frames, scheduled, faults, aged>>

(* Mutant: a voice turn of an unknown call id joins the call in progress. *)
TargetAnyOpen(e) ==
  IF Known(e) # {} THEN Newest(Known(e))
  ELSE IF e \in Ended THEN Newest({i \in Open : rows[i].id[1] = "ap"})
  ELSE Newest(Open)

(* The row a delivery is about, 0 if there is none: by call id, or for a   *)
(* voice turn without one the newest call in progress, or for a call_ended *)
(* whose id is not known the newest with a placeholder id.                 *)
Target(e) ==
  IF Known(e) # {} THEN Newest(Known(e))
  ELSE IF e \in Ended THEN Newest({i \in Open : rows[i].id[1] = "ap"})
  ELSE IF e \in Named THEN 0 ELSE Newest(Open)

(* The reads of materialize_scope_and_call.  A delivery that resolves to   *)
(* no workspace is a 404, unless it is a call_ended whose row is known: it *)
(* goes straight to the dispatch.                                          *)
Read(e) ==
  /\ At(e, "claimed")
  /\ \/ /\ e \notin Unresolvable
        /\ hook' = [hook EXCEPT ![e].pc = "read", ![e].row = Target(e),
             ![e].rename = e \in Ended \cap Named /\ Known(e) = {}]
     \/ /\ e \in Unresolvable
        /\ IF e \in Ended /\ Known(e) # {}
             THEN Settle(e, Newest(Known(e)), <<>>)
             ELSE Goto(e, "refused")
  /\ UNCHANGED <<rows, claimed, acked, turns, frames, scheduled, faults, timeouts, aged>>

(* Mutant: nothing but a rename is refused. *)
RefusedRenames(e, i) == hook[e].rename /\ WithId(IdOf(e)) \ {i} # {}

(* The unique index refuses to insert, or to rename row i to, an id that   *)
(* another row has by now: 500.                                            *)
Refused(e, i) == (i = 0 \/ hook[e].rename) /\ WithId(IdOf(e)) \ {i} # {}

Insert(e, status) ==
  rows' = Append(rows, [id |-> IdOf(e), status |-> status, recent |-> TRUE])

(* Mutant: a known row is not marked ended. *)
CloseRenamesOnly(e, i) ==
  rows' = [rows EXCEPT ![i].id = IF hook[e].rename THEN IdOf(e) ELSE @]

(* A known row takes the call's end and, for the placeholder the read saw, *)
(* the real id.                                                            *)
Close(e, i) ==
  rows' = [rows EXCEPT ![i].status = "ended",
                       ![i].id = IF hook[e].rename THEN IdOf(e) ELSE @]

Reject(e) ==
  /\ At(e, "read")
  /\ Refused(e, hook[e].row)
  /\ Goto(e, "error")
  /\ UNCHANGED <<rows, claimed, acked, turns, frames, scheduled, faults, timeouts, aged>>

CommitVoice(e) ==
  LET i == hook[e].row IN
  /\ e \in Voice
  /\ At(e, "read")
  /\ ~Refused(e, i)
  /\ IF i = 0 THEN Insert(e, "in_progress") /\ Settle(e, Len(rows) + 1, <<"started">>)
              ELSE Settle(e, i, <<>>) /\ UNCHANGED rows
  /\ UNCHANGED <<claimed, acked, turns, frames, scheduled, faults, timeouts, aged>>

(* Mutant: the end of a known call announces its start as well. *)
CommitEndedRestarts(e) ==
  LET i == hook[e].row IN
  /\ e \in Ended
  /\ At(e, "read")
  /\ ~Refused(e, i)
  /\ IF i = 0 THEN Insert(e, "ended") /\ Settle(e, Len(rows) + 1, <<"started", "ended">>)
              ELSE Close(e, i) /\ Settle(e, i, <<"started", "ended">>)
  /\ UNCHANGED <<claimed, acked, turns, frames, scheduled, faults, timeouts, aged>>

CommitEnded(e) ==
  LET i == hook[e].row IN
  /\ e \in Ended
  /\ At(e, "read")
  /\ ~Refused(e, i)
  /\ IF i = 0 THEN Insert(e, "ended") /\ Settle(e, Len(rows) + 1, <<"started", "ended">>)
              ELSE Close(e, i) /\ Settle(e, i, <<"ended">>)
  /\ UNCHANGED <<claimed, acked, turns, frames, scheduled, faults, timeouts, aged>>

(* publish_frame for each pending frame *)
PublishNext(e) ==
  LET i == hook[e].row IN
  /\ At(e, "committed")
  /\ hook[e].frames # <<>>
  /\ frames' = [frames EXCEPT ![i] = Append(@, Head(hook[e].frames))]
  /\ hook' = [hook EXCEPT ![e].frames = Tail(@)]
  /\ UNCHANGED <<rows, claimed, acked, turns, scheduled, faults, timeouts, aged>>

(* Mutant: a turn is answered before its words are stored. *)
DispatchAcksFirst(e) ==
  /\ At(e, "committed")
  /\ hook[e].frames = <<>>
  /\ IF e \in Voice /\ e \notin acked
       THEN acked' = acked \cup {e} /\ UNCHANGED <<hook, turns, scheduled>>
       ELSE /\ Goto(e, "answered")
            /\ acked' = acked \cup {e}
            /\ IF e \in Voice
                 THEN turns' = [turns EXCEPT ![hook[e].row] = @ \cup {e}] /\ UNCHANGED scheduled
                 ELSE scheduled' = scheduled \cup {hook[e].row} /\ UNCHANGED turns
  /\ UNCHANGED <<rows, claimed, frames, faults, timeouts, aged>>

(* A voice turn is streamed and stored; a call_ended enqueues the job,     *)
(* which arq refuses under a job id it knows, and an enqueue that fails is *)
(* only logged.                                                            *)
Dispatch(e) ==
  LET i == hook[e].row IN
  /\ At(e, "committed")
  /\ hook[e].frames = <<>>
  /\ Goto(e, "answered")
  /\ acked' = acked \cup {e}
  /\ \/ /\ e \in Voice
        /\ turns' = [turns EXCEPT ![i] = @ \cup {e}]
        /\ UNCHANGED <<scheduled, faults>>
     \/ /\ e \in Ended
        /\ scheduled' = scheduled \cup {i}
        /\ UNCHANGED <<turns, faults>>
     \/ e \in Ended /\ Fault /\ UNCHANGED <<scheduled, turns>>
  /\ UNCHANGED <<rows, claimed, frames, timeouts, aged>>

(* The process dies, or Redis or Postgres fails under it. *)
CrashHook(e) ==
  /\ Fault
  /\ InProcess(e)
  /\ Goto(e, "dead")
  /\ UNCHANGED <<rows, claimed, acked, turns, frames, scheduled, timeouts, aged>>

----------------------------------------------------------------------------
(* Around it *)

(* SmsOrchestrator._materialize: a conversation is a call row that nobody ends. *)
StartThread(s) ==
  /\ WithId(<<"sms", s>>) = {}
  /\ rows' = Append(rows, [id |-> <<"sms", s>>, status |-> "in_progress", recent |-> TRUE])
  /\ UNCHANGED <<claimed, acked, hook, turns, frames, scheduled, faults, timeouts, aged>>

(* Twenty minutes have passed since a call began. *)
Outlast(i) ==
  /\ i \in Open
  /\ aged < MaxAged /\ aged' = aged + 1
  /\ rows' = [rows EXCEPT ![i].recent = FALSE]
  /\ UNCHANGED <<claimed, acked, hook, turns, frames, scheduled, faults, timeouts>>

Serve(e) == Read(e) \/ Reject(e) \/ CommitVoice(e) \/ CommitEnded(e) \/ PublishNext(e) \/ Dispatch(e)

HookNext ==
  \/ \E e \in Events : Claim(e) \/ Repeat(e) \/ Serve(e) \/ CrashHook(e)
  \/ \E s \in Threads : StartThread(s)
  \/ \E i \in Slots : Outlast(i)

HookSpec == HookInit /\ [][HookNext]_hookVars

----------------------------------------------------------------------------
(* Properties *)

(* Turns do not "bleed across sessions" (dispatcher.py): a row has the     *)
(* turns of one call, and one row has all the turns of a call.             *)
TurnsTogether ==
  \A i, j \in Slots : \A e \in turns[i], f \in turns[j] :
    i = j <=> CallOf[e] = CallOf[f]

(* The calls whose ends read row i while it had a placeholder, to rename it. *)
Contested(i) == {CallOf[e] : e \in {f \in Ended : hook[f].rename /\ hook[f].row = i}}

(* The same for the turns of a call that carried its id, whatever races    *)
(* with them: no interleaving splits one call over two rows, unless another *)
(* call's end was to rename a row of the call as well.                     *)
NamedTogether ==
  \A i, j \in Slots : \A e \in turns[i] \cap Named, f \in turns[j] \cap Named :
    CallOf[e] = CallOf[f] /\ Contested(i) \cup Contested(j) \subseteq {CallOf[e]} => i = j

(* A viewer never sees a call end before it started: it would stay on the  *)
(* live list for good.                                                     *)
FramesInOrder ==
  \A i \in Slots : \A k, l \in DOMAIN frames[i] :
    frames[i][k] = "ended" /\ frames[i][l] = "started" => l < k

(* Together: the calls do not run into each other, nor a call into itself. *)
CallsStayApart == TurnsTogether /\ FramesInOrder

(* post_call is scheduled only for a call that is marked ended and committed, *)
(* so the job's status check never makes it skip, but for a call_ended from *)
(* a number that is not known.                                             *)
ScheduledIsEnded ==
  \A i \in scheduled :
    rows[i].status = "ended" \/ \E e \in Ended \cap Unresolvable : hook[e].row = i

(* However a call's deliveries race, its row is one and is what the jobs   *)
(* that follow take it for.                                                *)
OneRowPerCall == TypeOK /\ NamedTogether /\ ScheduledIsEnded

----------------------------------------------------------------------------
(* What the code's documents say and the code does not keep.  No run checks *)
(* this; the README says at which bounds TLC refutes it.                   *)

(* "Already processed - return 200 quickly so AP stops retrying"           *)
(* (agentphone.py): a delivery that has its 200 was processed or is being. *)
AckedIsProcessed == \A e \in acked : InProcess(e) \/ At(e, "answered")
=============================================================================
