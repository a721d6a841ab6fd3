------------------------------- MODULE Briefs -------------------------------
(***************************************************************************)
(* The daily brief: miniagents/dashboard_rollup.py over services/          *)
(* dashboards/aggregator.py, what GET daily_brief shows of it, and the     *)
(* saved queries of api/workspaces/dashboards.py.                          *)
(*                                                                         *)
(* A run of the rollup names a brief of its own.  arq keeps one job per    *)
(* date (job id db:{workspace}:{date}) and runs it again when its worker   *)
(* dies; runs of different dates may overlap.                              *)
(***************************************************************************)
EXTENDS Naturals, FiniteSets

CONSTANTS
  Missable,  \* decision requests
  Runs,      \* rollup runs, which are also the briefs
  DateOf,    \* the date each run is for
  Pins,      \* requests to save a pinned query
  MaxPinned, \* _MAX_PINNED
  MaxFaults  \* bound on failing stores and workers that die

ASSUME BriefAssumption ==
  {MaxPinned, MaxFaults} \subseteq Nat /\ "none" \notin Runs

VARIABLES
  dec,      \* decision_requests: status
  surfaced, \* decision_requests: those with surfaced_in_brief_at
  rollup,   \* where each run stands, and the missed decisions it read
  blobs,    \* object storage: briefs stored
  shown,    \* the brief the overview rows of a date point to
  rows,     \* dashboard_snapshots: overview rows of a date, by the run that wrote them
  queued,   \* email_delivery jobs about a brief
  pinned,   \* saved_dashboard_queries with pinned
  pin,      \* where each request to save one stands
  faults,
  met       \* history: pairs of runs, and of requests, that overlapped

briefVars == <<dec, surfaced, rollup, blobs, shown, rows, queued, pinned, pin, faults, met>>

Dates == {DateOf[r] : r \in Runs}
Active == {r \in Runs : rollup[r].at \in {"read", "stored", "committed"}}
Committed == UNION {rows[d] : d \in Dates}

BriefInit ==
  /\ dec = [d \in Missable |-> "open"] /\ surfaced = {}
  /\ rollup = [r \in Runs |-> [at |-> "idle", missed |-> {}]]
  /\ blobs = {} /\ queued = {} /\ pinned = {} /\ faults = 0 /\ met = {}
  /\ shown = [d \in Dates |-> "none"] /\ rows = [d \in Dates |-> {}]
  /\ pin = [p \in Pins |-> "start"]

Goes(r, from, to) == rollup[r].at = from /\ rollup' = [rollup EXCEPT ![r].at = to]
Fault == faults < MaxFaults /\ faults' = faults + 1

-----------------------------------------------------------------------------
(* Decisions, as far as a brief reads them *)

TimeOut(d) ==
  /\ dec[d] = "open" /\ dec' = [dec EXCEPT ![d] = "timed_out"]
  /\ UNCHANGED <<surfaced, rollup, blobs, shown, rows, queued, pinned, pin, faults, met>>

\* The call to action of a brief; it takes an open one too.
resolve_now(d) ==
  /\ dec[d] \in {"open", "timed_out"}
  /\ dec' = [dec EXCEPT ![d] = IF @ = "open" THEN "answered" ELSE "answered_late"]
  /\ UNCHANGED <<surfaced, rollup, blobs, shown, rows, queued, pinned, pin, faults, met>>

-----------------------------------------------------------------------------
(* A run *)

\* Reads what was missed and never surfaced; the prose is left out.
compute_aggregate(r) ==
  /\ rollup[r].at = "idle"
  /\ \A s \in Active : DateOf[s] # DateOf[r]
  /\ rollup' = [rollup EXCEPT ![r] =
       [at |-> "read", missed |-> {d \in Missable : dec[d] = "timed_out" /\ d \notin surfaced}]]
  /\ met' = met \cup {{r, s} : s \in Active}
  /\ UNCHANGED <<dec, surfaced, blobs, shown, rows, queued, pinned, pin, faults>>

\* Mutant: the rows are written first, the artifact when they are committed.
StoreBriefLater(r) ==
  /\ Goes(r, "read", "stored")
  /\ UNCHANGED <<dec, surfaced, blobs, shown, rows, queued, pinned, pin, faults, met>>

StoreBrief(r) ==
  /\ \/ Goes(r, "read", "stored") /\ blobs' = blobs \cup {r} /\ UNCHANGED faults
     \/ Goes(r, "read", "failed") /\ UNCHANGED blobs /\ Fault
  /\ UNCHANGED <<dec, surfaced, shown, rows, queued, pinned, pin, met>>

\* Mutants: the missed decisions are not stamped; they are read again to be stamped.
CommitUnstamped(r) ==
  /\ Goes(r, "stored", "committed")
  /\ rows' = [rows EXCEPT ![DateOf[r]] = @ \cup {r}]
  /\ shown' = [shown EXCEPT ![DateOf[r]] = r]
  /\ UNCHANGED <<dec, surfaced, blobs, queued, pinned, pin, faults, met>>
CommitReread(r) ==
  /\ Goes(r, "stored", "committed")
  /\ rows' = [rows EXCEPT ![DateOf[r]] = @ \cup {r}]
  /\ shown' = [shown EXCEPT ![DateOf[r]] = r]
  /\ surfaced' = surfaced \cup {d \in Missable : dec[d] = "timed_out"}
  /\ UNCHANGED <<dec, blobs, queued, pinned, pin, faults, met>>

\* write_snapshots adds rows to those of earlier runs, the overview rows of the
\* date all name the new brief, and what was read is stamped: one transaction.
Commit(r) ==
  /\ Goes(r, "stored", "committed")
  /\ rows' = [rows EXCEPT ![DateOf[r]] = @ \cup {r}]
  /\ shown' = [shown EXCEPT ![DateOf[r]] = r]
  /\ surfaced' = surfaced \cup rollup[r].missed
  /\ UNCHANGED <<dec, blobs, queued, pinned, pin, faults, met>>

\* When the workspace opted in; a failure is logged.
EnqueueBrief(r) ==
  /\ Goes(r, "committed", "done")
  /\ \/ queued' = queued \cup {r} /\ UNCHANGED faults
     \/ UNCHANGED queued /\ Fault
  /\ UNCHANGED <<dec, surfaced, blobs, shown, rows, pinned, pin, met>>

\* What was not committed is rolled back; another run takes the job up.
CrashRollup(r) ==
  /\ r \in Active /\ Goes(r, rollup[r].at, "dead") /\ Fault
  /\ UNCHANGED <<dec, surfaced, blobs, shown, rows, queued, pinned, pin, met>>

-----------------------------------------------------------------------------
(* Saved queries *)

Counting == {p \in Pins : pin[p] = "counted"}

\* Mutant: one more than the cap is let through.
CountPinnedLoosely(p) ==
  /\ pin[p] = "start"
  /\ pin' = [pin EXCEPT ![p] = IF Cardinality(pinned) > MaxPinned THEN "refused" ELSE "counted"]
  /\ met' = met \cup {{p, o} : o \in Counting}
  /\ UNCHANGED <<dec, surfaced, rollup, blobs, shown, rows, queued, pinned, faults>>

\* The count is of the workspace and the row is added after it.
count_pinned(p) ==
  /\ pin[p] = "start"
  /\ pin' = [pin EXCEPT ![p] = IF Cardinality(pinned) >= MaxPinned THEN "refused" ELSE "counted"]
  /\ met' = met \cup {{p, o} : o \in Counting}
  /\ UNCHANGED <<dec, surfaced, rollup, blobs, shown, rows, queued, pinned, faults>>

create_query(p) ==
  /\ pin[p] = "counted" /\ pin' = [pin EXCEPT ![p] = "saved"]
  /\ pinned' = pinned \cup {p}
  /\ UNCHANGED <<dec, surfaced, rollup, blobs, shown, rows, queued, faults, met>>

delete_query(p) ==
  /\ p \in pinned /\ pinned' = pinned \ {p}
  /\ UNCHANGED <<dec, surfaced, rollup, blobs, shown, rows, queued, pin, faults, met>>

Rollup(r) ==
  compute_aggregate(r) \/ StoreBrief(r) \/ Commit(r) \/ EnqueueBrief(r)

Pin(p) == count_pinned(p) \/ create_query(p) \/ delete_query(p)

RollupNext ==
  \/ \E d \in Missable : TimeOut(d) \/ resolve_now(d)
  \/ \E r \in Runs : Rollup(r) \/ CrashRollup(r)

-----------------------------------------------------------------------------
BriefTypeOK ==
  /\ dec \in [Missable -> {"open", "timed_out", "answered", "answered_late"}]
  /\ surfaced \subseteq Missable
  /\ rollup \in [Runs -> [at: {"idle", "read", "stored", "committed", "done", "failed", "dead"},
                          missed: SUBSET Missable]]
  /\ blobs \subseteq Runs /\ queued \subseteq Runs /\ pinned \subseteq Pins
  /\ shown \in [Dates -> Runs \cup {"none"}] /\ rows \in [Dates -> SUBSET Runs]
  /\ pin \in [Pins -> {"start", "counted", "refused", "saved"}]
  /\ faults \in 0..MaxFaults

(* A missed decision is stamped only by the brief that lists it: whatever   *)
(* times out, is answered, or dies meanwhile, none is passed over for good  *)
(* (dashboard_rollup.py:203-229).                                           *)
NoMissIsLost ==
  \A d \in surfaced : \E r \in Committed : d \in rollup[r].missed

(* "so they appear in exactly one brief" (dashboard_rollup.py:14-15), as    *)
(* far as it is kept: a decision in two briefs was read by runs that        *)
(* overlapped.                                                              *)
ListedOnce ==
  \A r \in Committed : \A s \in Committed \ {r} :
    rollup[r].missed \cap rollup[s].missed # {} => {r, s} \in met

(* The brief a date shows, and every brief mailed, is in the object store.  *)
ShownIsStored ==
  \A r \in Runs : r \in queued \/ (\E d \in Dates : shown[d] = r) => r \in blobs

(* Together: what a Manager missed reaches a brief that can be read.        *)
MissesAreBriefed == NoMissIsLost /\ ListedOnce /\ ShownIsStored

(* The cap on pinned queries (dashboards.py:340-346) is passed only by      *)
(* requests that overlapped.                                                *)
PinsAreCapped ==
  Cardinality(pinned) > MaxPinned => \E p, o \in pinned : p # o /\ {p, o} \in met

-----------------------------------------------------------------------------
(* What the code's documents say and the code does not keep.                *)

(* "so they only appear in one brief" (aggregator.py:13-14): two dates'     *)
(* runs that overlap list a decision twice.                                 *)
InOneBrief ==
  \A r \in Committed : \A s \in Committed \ {r} : rollup[r].missed \cap rollup[s].missed = {}

(* "rather than producing two briefs" (workers/dashboard_rollup.py:5-8) and *)
(* "overview: one row per (workspace, date)" (aggregator.py:222): a run     *)
(* whose worker dies after the commit is run again.                         *)
OneBriefPerDate == \A d \in Dates : Cardinality(rows[d]) <= 1

(* ... and the second brief, which lists nothing, is the one shown.         *)
MissIsShown ==
  \A d \in surfaced : \E r \in Runs : shown[DateOf[r]] = r /\ d \in rollup[r].missed

(* "pinned filters capped at 10" (db/repositories/dashboards_repo.py:4).    *)
NeverOverCap == Cardinality(pinned) <= MaxPinned
=============================================================================
