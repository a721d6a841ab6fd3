------------------------------ MODULE PostCall ------------------------------
(***************************************************************************)
(* What happens after a call: post_call_job over the rows, transcripts and *)
(* job ids CallWebhooks maintains.                                         *)
(*                                                                         *)
(* The job reads the call and its transcript once, then summarises, saves  *)
(* the summary, updates the brain and the Rep's memory side by side, saves *)
(* action items, announces the summary and enqueues emails, each committed *)
(* on its own.  A failing step is logged and passed over, except that an   *)
(* exception out of the summarizer ends the job for good.  arq runs the    *)
(* job again from its beginning when the worker dies in it.                *)
(***************************************************************************)
EXTENDS CallWebhooks

CONSTANTS
  MaxBreaks, \* bound on worker crashes
  MaxFails   \* bound on failures of the summarizer, the summary's stores and the queue

ASSUME BoundsAssumption == {MaxBreaks, MaxFails} \subseteq Nat

VARIABLES
  job,       \* [Slots -> progress of job post_call:{id}]
  read,      \* [Slots -> the turns the job has in hand]
  summary,   \* [Slots -> sequence of transcripts of which a summary was stored]
  gathered,  \* [Slots -> which of the parallel tasks are over]
  timeline,  \* [Slots -> entries the brain has about the call]
  memory,    \* [Slots -> digests of the call the Rep's memory has]
  items,     \* [Slots -> times the call's action items were inserted]
  ready,     \* [Slots -> call.summary_ready frames, with their has_summary]
  mails,     \* [Slots -> times its emails were enqueued]
  breaks, fails

postVars == <<job, read, summary, gathered, timeline, memory, items, ready, mails, breaks, fails>>
vars     == <<hookVars, postVars>>

JobPhases == {"idle", "loaded", "summarised", "stored", "fanned", "itemised", "announced",
              "done", "failed"}

(* A step of the job that runs is counted at most this often. *)
Runs == 0..(MaxBreaks + 1)

PostTypeOK ==
  /\ job \in [Slots -> JobPhases]
  /\ read \in [Slots -> SUBSET Voice]
  /\ summary \in [Slots -> Seq(SUBSET Voice)]
  /\ gathered \in [Slots -> SUBSET {"brain", "memory"}]
  /\ timeline \in [Slots -> Runs] /\ memory \in [Slots -> Runs]
  /\ items \in [Slots -> Runs]
  /\ ready \in [Slots -> Seq(BOOLEAN)]
  /\ mails \in [Slots -> Runs]
  /\ breaks \in 0..MaxBreaks
  /\ fails \in 0..MaxFails

PostInit ==
  /\ job = [i \in Slots |-> "idle"]
  /\ read = [i \in Slots |-> {}]
  /\ summary = [i \in Slots |-> <<>>]
  /\ gathered = [i \in Slots |-> {}]
  /\ timeline = [i \in Slots |-> 0] /\ memory = [i \in Slots |-> 0]
  /\ items = [i \in Slots |-> 0]
  /\ ready = [i \in Slots |-> <<>>]
  /\ mails = [i \in Slots |-> 0]
  /\ breaks = 0
  /\ fails = 0

Init == HookInit /\ PostInit

Become(i, p)    == job' = [job EXCEPT ![i] = p]
Announce(i, has) == ready' = [ready EXCEPT ![i] = Append(@, has)]
Fail            == fails < MaxFails /\ fails' = fails + 1
Up(f, i)        == [f EXCEPT ![i] = @ + 1]

----------------------------------------------------------------------------

(* Mutant: the job runs for a call that is not over. *)
LoadUnchecked(i) ==
  /\ i \in scheduled
  /\ job[i] = "idle"
  /\ read' = [read EXCEPT ![i] = turns[i]]
  /\ IF turns[i] = {} THEN Become(i, "done") /\ Announce(i, FALSE)
                      ELSE Become(i, "loaded") /\ UNCHANGED ready
  /\ UNCHANGED <<hookVars, summary, gathered, timeline, memory, items, mails, breaks, fails>>

(* Mutants: a job that is done runs again when it is enqueued again; a call *)
(* without a transcript is not announced.                                  *)
LoadAgain(i) ==
  /\ i \in scheduled
  /\ job[i] \in {"idle", "done"}
  /\ Cardinality({e \in Ended : hook[e].row = i /\ At(e, "answered")}) > Len(ready[i])
  /\ Become(i, "loaded") /\ gathered' = [gathered EXCEPT ![i] = {}]
  /\ read' = [read EXCEPT ![i] = turns[i]]
  /\ UNCHANGED <<hookVars, summary, timeline, memory, items, ready, mails, breaks, fails>>
LoadSilent(i) ==
  /\ i \in scheduled
  /\ job[i] = "idle"
  /\ read' = [read EXCEPT ![i] = turns[i]]
  /\ Become(i, IF turns[i] = {} THEN "done" ELSE "loaded")
  /\ UNCHANGED <<hookVars, summary, gathered, timeline, memory, items, ready, mails, breaks, fails>>

(* A call that has not ended is skipped; one without a transcript is only  *)
(* announced.                                                              *)
Load(i) ==
  /\ i \in scheduled
  /\ job[i] = "idle"
  /\ read' = [read EXCEPT ![i] = turns[i]]
  /\ IF rows[i].status # "ended" THEN Become(i, "done") /\ UNCHANGED ready
     ELSE IF turns[i] = {} THEN Become(i, "done") /\ Announce(i, FALSE)
     ELSE Become(i, "loaded") /\ UNCHANGED ready
  /\ UNCHANGED <<hookVars, summary, gathered, timeline, memory, items, mails, breaks, fails>>

Summarise(i) ==
  /\ job[i] = "loaded"
  /\ \/ Become(i, "summarised") /\ UNCHANGED fails
     \/ Fail /\ Become(i, "failed")
  /\ UNCHANGED <<hookVars, read, summary, gathered, timeline, memory, items, ready, mails, breaks>>

StoreSummary(i) ==
  /\ job[i] = "summarised"
  /\ Become(i, "stored")
  /\ \/ summary' = [summary EXCEPT ![i] = Append(@, read[i])] /\ UNCHANGED fails
     \/ Fail /\ UNCHANGED summary
  /\ UNCHANGED <<hookVars, read, gathered, timeline, memory, items, ready, mails, breaks>>

(* The job goes on when both are over, however they ended.                 *)
Gather(i, with) ==
  /\ job[i] = "stored" /\ with \notin gathered[i]
  /\ gathered' = [gathered EXCEPT ![i] = @ \cup {with}]
  /\ IF gathered'[i] = {"brain", "memory"} THEN Become(i, "fanned") ELSE UNCHANGED job

(* run_brain_updater: a new page is seeded with an entry that cites the    *)
(* call, a known one has the entry appended; a call that names nothing, or *)
(* an update that fails, leaves none.                                      *)
UpdateBrain(i) ==
  /\ Gather(i, "brain")
  /\ timeline' = Up(timeline, i) \/ UNCHANGED timeline
  /\ UNCHANGED <<hookVars, read, summary, memory, items, ready, mails, breaks, fails>>

(* Mutant: a failed write is tried again although it may have got through. *)
RememberRetrying(i) ==
  /\ job[i] = "stored" /\ "memory" \notin gathered[i]
  /\ \/ Gather(i, "memory") /\ UNCHANGED fails
     \/ Fail /\ UNCHANGED <<job, gathered>>
  /\ memory' = Up(memory, i)
  /\ UNCHANGED <<hookVars, read, summary, timeline, items, ready, mails, breaks>>
(* The Rep's memory of the call: none for a caller without a profile, or   *)
(* when Supermemory fails.                                                 *)
WriteMemory(i) ==
  /\ Gather(i, "memory")
  /\ memory' = Up(memory, i) \/ UNCHANGED memory
  /\ UNCHANGED <<hookVars, read, summary, timeline, items, ready, mails, breaks, fails>>

(* The heuristics may find no candidate, or the insert fail.               *)
SaveItems(i) ==
  /\ job[i] = "fanned"
  /\ Become(i, "itemised")
  /\ items' = Up(items, i) \/ UNCHANGED items
  /\ UNCHANGED <<hookVars, read, summary, gathered, timeline, memory, ready, mails, breaks, fails>>

PublishReady(i) ==
  /\ job[i] = "itemised"
  /\ Become(i, "announced")
  /\ Announce(i, TRUE)
  /\ UNCHANGED <<hookVars, read, summary, gathered, timeline, memory, items, mails, breaks, fails>>

(* Mutant: a failed enqueue is retried although the mail may be in the queue. *)
EnqueueRetrying(i) ==
  /\ job[i] = "announced"
  /\ \/ Become(i, "done") /\ UNCHANGED fails
     \/ Fail /\ UNCHANGED job
  /\ mails' = Up(mails, i)
  /\ UNCHANGED <<hookVars, read, summary, gathered, timeline, memory, items, ready, breaks>>

EnqueueEmails(i) ==
  /\ job[i] = "announced"
  /\ Become(i, "done")
  /\ \/ mails' = Up(mails, i) /\ UNCHANGED fails
     \/ Fail /\ UNCHANGED mails
  /\ UNCHANGED <<hookVars, read, summary, gathered, timeline, memory, items, ready, breaks>>

CrashJob(i) ==
  /\ breaks < MaxBreaks /\ breaks' = breaks + 1
  /\ job[i] \notin {"idle", "done", "failed"}
  /\ Become(i, "idle") /\ gathered' = [gathered EXCEPT ![i] = {}]
  /\ UNCHANGED <<hookVars, read, summary, timeline, memory, items, ready, mails, fails>>

Work(i) ==
  \/ Load(i) \/ Summarise(i) \/ StoreSummary(i) \/ UpdateBrain(i) \/ WriteMemory(i) \/ SaveItems(i)
  \/ PublishReady(i) \/ EnqueueEmails(i)

Next ==
  \/ HookNext /\ UNCHANGED postVars
  \/ \E i \in Slots : Work(i) \/ CrashJob(i)

Spec == Init /\ [][Next]_vars

(* The endpoint goes on with what it has claimed and arq runs its jobs.    *)
FairSpec ==
  /\ Spec
  /\ \A e \in Events : WF_vars(Serve(e) /\ UNCHANGED postVars)
  /\ \A i \in Slots : WF_vars(Work(i))

----------------------------------------------------------------------------
(* Properties *)

(* "Idempotent by stable arq job_id" (post_call.py): however often a call  *)
(* ends, its action items are inserted, its digest is added to the Rep's   *)
(* memory, and its emails are enqueued once for each time a worker took    *)
(* the job up; nothing tells a step whether it got through before.         *)
EffectsOnce ==
  \A i \in Slots : \A n \in {items[i], memory[i], mails[i]} : n <= 1 + breaks

(* What is stored as the canonical summary is of the whole conversation:   *)
(* nothing the Rep said came after the job had read the transcript.        *)
SummaryIsComplete ==
  \A i \in Slots : \A k \in DOMAIN summary[i] : summary[i][k] = turns[i]

(* Nothing derived from a call exists before the call is over.             *)
NothingBeforeTheEnd ==
  \A i \in Slots :
    timeline[i] > 0 \/ memory[i] > 0 \/ items[i] > 0 \/ ready[i] # <<>> => rows[i].status = "ended"

(* Together: what is left of a call is of the whole call.                  *)
MadeOfTheWholeCall == PostTypeOK /\ SummaryIsComplete /\ NothingBeforeTheEnd

(* The delivery was turned away or died, its enqueue failed, or the        *)
(* summarizer raised in its job.                                           *)
Lost(e) ==
  \/ hook[e].pc \in {"refused", "error", "dead"}
  \/ At(e, "answered") /\ (hook[e].row \notin scheduled \/ job[hook[e].row] = "failed")

(* A call that AgentPhone ended is announced as summarised or as having    *)
(* nothing to summarise, whatever else fails in its job and though the     *)
(* worker dies in it: no viewer waits for the frame forever.  (The end of  *)
(* a call whose number is not known any more schedules the job for a row   *)
(* it leaves open, which the job skips.)                                   *)
EndIsAnnounced ==
  \A e \in Ended \ Unresolvable :
    At(e, "claimed") ~> (Lost(e) \/ \E i \in Slots : hook[e].row = i /\ ready[i] # <<>>)

----------------------------------------------------------------------------
(* What the code's documents say and the code does not keep.  No run checks *)
(* these; the README says at which bounds TLC refutes each.                *)

(* "Checks for existing timeline entries with same call_id citation before *)
(* appending" (LLD C11): a second run adds none.                           *)
TimelineOnce == \A i \in Slots : timeline[i] <= 1

(* "The frame's has_summary flag tells the FE whether the canonical        *)
(* summary landed" (post_call.py).                                         *)
ReadyTellsTruth ==
  \A i \in Slots : \A k \in DOMAIN ready[i] : ready[i][k] = (summary[i] # <<>>)
=============================================================================
