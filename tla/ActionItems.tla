----------------------------- MODULE ActionItems -----------------------------
(***************************************************************************)
(* Approving and executing action items: the approve, reject and edit      *)
(* endpoints, and the dispatcher job the cron enqueues every minute.       *)
(*                                                                         *)
(* The endpoints load the row, check its status and commit, without a lock.*)
(* A dispatcher run loads the approved items once, calls the provider for  *)
(* each, flushes the outcome (the UPDATE takes the row's lock) and commits *)
(* everything at the end.  SQLAlchemy updates only attributes that changed *)
(* since they were loaded: an outcome that is `approved' again does not    *)
(* write the status.  Items extracted from one call share their created_at,*)
(* so the order a run takes them in is not determined.                     *)
(***************************************************************************)
EXTENDS Naturals, FiniteSets

CONSTANTS
  Items,       \* action items extracted from a call
  Clerks,      \* requests to the approve, reject and edit endpoints
  Runs,        \* dispatcher jobs that may be running at once
  None,        \* no lock holder, no item
  MaxAttempts, \* MAX_HANDLER_ATTEMPTS
  MaxOpen,     \* bound on requests between their load and their commit
  MaxCount,    \* where the history counters stop
  MaxFaults    \* bound on worker crashes and lost provider answers

ASSUME ConstantsAssumption ==
  /\ None \notin Items \cup Runs
  /\ MaxAttempts \in Nat \ {0}
  /\ MaxOpen \in Nat \ {0}
  /\ MaxCount \in Nat \ {0}
  /\ MaxFaults \in Nat

VARIABLES
  item,      \* [Items -> committed row]
  lock,      \* [Items -> run whose flushed UPDATE holds the row lock]
  clerk,     \* [Clerks -> request in progress]
  run,       \* [Runs -> job in progress]
  approvals, \* history: items some approve request has committed on
  sent,      \* history: [Items -> provider calls that took effect]
  faults     \* faults so far

vars == <<item, lock, clerk, run, approvals, sent, faults>>

----------------------------------------------------------------------------

Handlers   == {"google", "none"}  \* scheduler and email_drafter both call Google
Statuses   == {"pending_approval", "needs_review", "approved", "done", "failed",
               "needs_reconnect", "rejected"}
Settled    == {"done", "failed", "needs_reconnect"}
Ops        == {"approve", "reject", "edit"}
Outcomes   == {"no_oauth", "sent", "revoked", "soft", "raised", "lost"}
Item       == [status : Statuses, handler : Handlers, attempts : Nat]
Clerk      == [pc : {"idle", "loaded", "done", "conflict"}, item : Items \cup {None}, op : Ops]
Update     == [status : Settled \cup {"approved", "none"}, attempts : Nat]
Run        == [pc : {"idle", "next", "called"}, todo : SUBSET Items,
               attempts : [Items -> Nat], oauth : BOOLEAN, at : Items \cup {None},
               outcome : Outcomes, updates : [Items -> Update]]

NoUpdate == [status |-> "none", attempts |-> 0]
NoClerk == [pc |-> "idle", item |-> None, op |-> "approve"]
Replied(p) == [NoClerk EXCEPT !.pc = p]
NoRun == [pc |-> "idle", todo |-> {}, attempts |-> [i \in Items |-> 0], oauth |-> FALSE,
          at |-> None, outcome |-> "soft", updates |-> [i \in Items |-> NoUpdate]]

TypeOK ==
  /\ item \in [Items -> Item]
  /\ lock \in [Items -> Runs \cup {None}]
  /\ clerk \in [Clerks -> Clerk]
  /\ run \in [Runs -> Run]
  /\ approvals \subseteq Items
  /\ sent \in [Items -> 0..MaxCount]
  /\ faults \in 0..MaxFaults

(* save_action_items stores what the heuristic extractor proposes. *)
Init ==
  /\ item \in [Items -> [status : {"pending_approval"}, handler : Handlers, attempts : {0}]]
  /\ lock = [i \in Items |-> None]
  /\ clerk = [c \in Clerks |-> NoClerk]
  /\ run = [r \in Runs |-> NoRun]
  /\ approvals = {}
  /\ sent = [i \in Items |-> 0]
  /\ faults = 0

Tally(f, i) == [f EXCEPT ![i] = IF @ < MaxCount THEN @ + 1 ELSE @]
Fault       == faults < MaxFaults /\ faults' = faults + 1

----------------------------------------------------------------------------
(* The endpoints *)

Reviewable == {"pending_approval", "needs_review"}

Load(c, i, op) ==
  /\ clerk[c].pc = "idle"
  /\ Cardinality({d \in Clerks : clerk[d].pc = "loaded"}) < MaxOpen
  /\ clerk' = [clerk EXCEPT ![c] = IF item[i].status \in Reviewable
                                    THEN [pc |-> "loaded", item |-> i, op |-> op]
                                    ELSE Replied("conflict")]
  /\ UNCHANGED <<item, lock, run, approvals, sent, faults>>

Commit(c) ==
  LET i == clerk[c].item IN
  /\ clerk[c].pc = "loaded"
  /\ lock[i] = None
  /\ clerk' = [clerk EXCEPT ![c] = Replied("done")]
  /\ \/ /\ clerk[c].op = "approve"
        /\ item' = [item EXCEPT ![i].status = "approved"]
        /\ approvals' = approvals \cup {i}
     \/ /\ clerk[c].op = "reject"
        /\ item' = [item EXCEPT ![i].status = "rejected"]
        /\ UNCHANGED approvals
     \/ /\ clerk[c].op = "edit"
        /\ \E h \in Handlers : item' = [item EXCEPT ![i].handler = h]
        /\ UNCHANGED approvals
  /\ UNCHANGED <<lock, run, sent, faults>>

----------------------------------------------------------------------------
(* action_item_dispatcher_job *)

(* Mutant: the listing forgets that pending items await review. *)
DueUnreviewed == {i \in Items : item[i].status \in {"approved", "pending_approval"}
                               /\ item[i].handler # "none"}

Due == {i \in Items : item[i].status = "approved" /\ item[i].handler # "none"}

(* list_approved_with_handler, and whether the workspace has credentials. *)
List(r) ==
  /\ run[r].pc = "idle"
  /\ Due # {}
  /\ \E connected \in BOOLEAN :
       run' = [run EXCEPT ![r] =
         [NoRun EXCEPT !.pc = "next", !.todo = Due, !.oauth = connected,
                       !.attempts = [i \in Items |-> item[i].attempts]]]
  /\ UNCHANGED <<item, lock, clerk, approvals, sent, faults>>

(* _run_one up to the flush: the mini-agent calls Google and gets an       *)
(* answer, an error, or no answer to a call that took effect.              *)
Call(r, i) ==
  /\ run[r].pc = "next"
  /\ i \in run[r].todo
  /\ \E o \in Outcomes :
       /\ o = "no_oauth" <=> ~run[r].oauth
       /\ run' = [run EXCEPT ![r].pc = "called", ![r].at = i, ![r].outcome = o]
       /\ sent' = IF o \in {"sent", "lost"} THEN Tally(sent, i) ELSE sent
       /\ IF o = "lost" THEN Fault ELSE UNCHANGED faults
  /\ UNCHANGED <<item, lock, clerk, approvals>>

(* Mutant: in-band errors are not looked for. *)
VerdictTrusting(o, n) ==
  CASE o \in {"sent", "soft"}      -> {"done"}
    [] o \in {"raised", "lost"}    -> {IF n >= MaxAttempts THEN "failed" ELSE "approved"}
    [] o \in {"no_oauth", "revoked"} -> {"needs_reconnect"}

(* The status an outcome leads to on attempt n. *)
Verdict(o, n) ==
  CASE o = "sent"                  -> {"done"}
    [] o \in {"raised", "lost"}    -> {IF n >= MaxAttempts THEN "failed" ELSE "approved"}
    [] o = "soft"                  -> {"failed", "needs_reconnect"}
    [] o \in {"no_oauth", "revoked"} -> {"needs_reconnect"}

(* update_handler_outcome: the UPDATE waits for the row's lock. *)
Flush(r) ==
  LET i == run[r].at
      n == run[r].attempts[i] + 1
  IN
  /\ run[r].pc = "called"
  /\ lock[i] = None
  /\ lock' = [lock EXCEPT ![i] = r]
  /\ \E s \in Verdict(run[r].outcome, n) :
       run' = [run EXCEPT ![r].pc = "next", ![r].todo = @ \ {i}, ![r].at = None,
                 ![r].outcome = "soft", ![r].updates[i] = [status |-> s, attempts |-> n]]
  /\ UNCHANGED <<item, clerk, approvals, sent, faults>>

(* Mutant: attempts are not counted. *)
WrittenUncounted(old, u) ==
  [old EXCEPT !.status = IF u.status = "approved" THEN @ ELSE u.status]

(* The row after update u: the status is written only if it changed. *)
Written(old, u) ==
  [old EXCEPT !.attempts = u.attempts,
              !.status = IF u.status = "approved" THEN @ ELSE u.status]

Flushed(r) == {i \in Items : run[r].updates[i] # NoUpdate}

Release(r) == lock' = [i \in Items |-> IF lock[i] = r THEN None ELSE lock[i]]

Finish(r) ==
  /\ run[r].pc = "next"
  /\ run[r].todo = {}
  /\ item' = [i \in Items |->
       IF i \in Flushed(r) THEN Written(item[i], run[r].updates[i]) ELSE item[i]]
  /\ Release(r)
  /\ run' = [run EXCEPT ![r] = NoRun]
  /\ UNCHANGED <<clerk, approvals, sent, faults>>

(* Postgres aborts a transaction that is on a cycle of waiting ones. *)
WaitsFor(r, s) == run[r].pc = "called" /\ s # r /\ lock[run[r].at] = s
OnCycle(r) ==
  \E S \in SUBSET Runs :
    /\ r \in S
    /\ \A s \in S : (\E t \in S : WaitsFor(s, t)) /\ (\E t \in S : WaitsFor(t, s))

RollBack(r) == Release(r) /\ run' = [run EXCEPT ![r] = NoRun]

DeadlockAbort(r) ==
  /\ OnCycle(r)
  /\ RollBack(r)
  /\ UNCHANGED <<item, clerk, approvals, sent, faults>>

(* The worker dies, or arq's job timeout cancels the job. *)
CrashRun(r) ==
  /\ Fault
  /\ run[r].pc # "idle"
  /\ RollBack(r)
  /\ UNCHANGED <<item, clerk, approvals, sent>>

----------------------------------------------------------------------------

RunStep(r) == List(r) \/ (\E i \in Items : Call(r, i)) \/ Flush(r) \/ Finish(r) \/ DeadlockAbort(r)

Next ==
  \/ \E c \in Clerks : Commit(c) \/ \E i \in Items, op \in Ops : Load(c, i, op)
  \/ \E r \in Runs : RunStep(r) \/ CrashRun(r)

Spec == Init /\ [][Next]_vars

(* The cron enqueues a run every minute and the worker runs it. *)
FairSpec == Spec /\ \A r \in Runs : WF_vars(RunStep(r))

----------------------------------------------------------------------------
(* Properties *)

(* "Approve = execute" and nothing else: no interleaving of requests, runs *)
(* and crashes lets a provider be called for an item no approve request    *)
(* has committed on.                                                       *)
OnlyApprovedIsSent == \A i \in Items : sent[i] > 0 => i \in approvals

(* The audit trail claims no effect that did not happen: an item is done   *)
(* only if the provider took the call, however runs overwrite each other.  *)
DoneWasSent == \A i \in Items : item[i].status = "done" => sent[i] > 0

(* A run's flushed outcomes and its row locks are the same items, so a     *)
(* commit overwrites no row that somebody else wrote after the flush.      *)
FlushedIsLocked ==
  \A r \in Runs : Flushed(r) = {i \in Items : lock[i] = r}

Deadlocked == \E r \in Runs : OnCycle(r)

(* An approved item with a handler is executed and settled, or withdrawn,  *)
(* through retries, crashes and overlapping runs; all that may put it off  *)
(* is another deadlock, after which the runs start over.                   *)
ApprovedSettles == \A i \in Items : i \in Due ~> (i \notin Due \/ Deadlocked)

----------------------------------------------------------------------------
(* What the code's documents say and the code does not keep.  No run checks *)
(* these; the README says at which bounds TLC refutes each.                *)

(* The provider is called with effect at most once for an item: the LLD    *)
(* would have the item's id and attempt number be an idempotency key.      *)
SentAtMostOnce == \A i \in Items : sent[i] <= 1

(* "max 3 internal retries before failed" (LLD F3): attempts accumulate,   *)
(* so that there is an end to them.                                        *)
AttemptsAccumulate ==
  [][ \A i \in Items : item'[i].attempts >= item[i].attempts ]_item

(* "cannot approve from status=rejected" (approve_action_item): an item    *)
(* whose rejection has committed is not approved afterwards.               *)
RejectionStands ==
  [][ \A i \in Items : item[i].status = "rejected" => item'[i].status # "approved" ]_item
==============================================================================
