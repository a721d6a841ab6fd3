------------------------------ MODULE Verifier ------------------------------
(***************************************************************************)
(* The web verifier (miniagents/web_verifier.py): a claim of a call is     *)
(* looked up, checked against one web page, put before the Manager when it *)
(* is contradicted, and recorded, each in a session of its own.  The       *)
(* checks of one fan-out run side by side.                                 *)
(***************************************************************************)
EXTENDS Naturals, FiniteSets

CONSTANTS
  Checks,    \* runs of run_web_verifier
  ClaimOf,   \* the claim (subject, predicate, object) each is about
  MaxTrouble \* bound on failing stores and workers that die

ASSUME VerifierAssumption == MaxTrouble \in Nat

Verdicts == {"corroborated", "unconfirmed", "contradicted"}

VARIABLES
  check,   \* where each check stands, and its verdict
  opened,  \* correction_intakes of origin system_web_verifier, by the check that opened it
  claims,  \* claim_verifications: the rows, by the check that wrote them
  old,     \* rows that were written more than 30 days ago
  trouble,
  cut      \* history: checks that a failure or a crash cut short

verifierVars == <<check, opened, claims, old, trouble, cut>>

ClaimRow == [by: Checks, status: Verdicts, intake: BOOLEAN]

VerifierInit ==
  /\ check = [v \in Checks |-> [at |-> "start", verdict |-> "unconfirmed"]]
  /\ opened = {} /\ claims = {} /\ old = {} /\ trouble = 0 /\ cut = {}

Moves(v, from, to) == check[v].at = from /\ check' = [check EXCEPT ![v].at = to]
Trouble(v) == trouble < MaxTrouble /\ trouble' = trouble + 1 /\ cut' = cut \cup {v}
Fine == UNCHANGED <<trouble, cut>>

-----------------------------------------------------------------------------
\* Mutant: any row of the last 30 days will do.
FindExistingAny(v) ==
  {c \in claims : ClaimOf[c.by] = ClaimOf[v] /\ c.by \notin old}

find_existing_corroborated(v) ==
  {c \in claims : ClaimOf[c.by] = ClaimOf[v] /\ c.status = "corroborated" /\ c.by \notin old}

Reuse(v) ==
  /\ Moves(v, "start", IF find_existing_corroborated(v) = {} THEN "fetch" ELSE "reused")
  /\ UNCHANGED <<opened, claims, old, trouble, cut>>

\* One page is fetched and one skill rules on it; without either, unconfirmed.
Adjudicate(v) ==
  /\ check[v].at = "fetch"
  /\ \E r \in Verdicts :
       check' = [check EXCEPT ![v] = [at |-> IF r = "contradicted" THEN "open" ELSE "persist",
                                      verdict |-> r]]
  /\ UNCHANGED <<opened, claims, old, trouble, cut>>

\* A failure is logged and the row is written without a name for it.
OpenIntake(v) ==
  /\ \/ Moves(v, "open", "named") /\ opened' = opened \cup {v} /\ Fine
     \/ Moves(v, "open", "persist") /\ UNCHANGED opened /\ Trouble(v)
  /\ UNCHANGED <<claims, old>>

\* Mutant: the row is written without the intake it is about.
PersistUnnamed(v) ==
  /\ \/ Moves(v, "persist", "done") \/ Moves(v, "named", "done")
  /\ claims' = claims \cup {[by |-> v, status |-> check[v].verdict, intake |-> FALSE]}
  /\ Fine /\ UNCHANGED <<opened, old>>

Persist(v) ==
  /\ \/ /\ Moves(v, "persist", "done") \/ Moves(v, "named", "done")
        /\ claims' = claims \cup {[by |-> v, status |-> check[v].verdict,
                                   intake |-> check[v].at = "named"]}
        /\ Fine
     \/ /\ Moves(v, "persist", "failed") \/ Moves(v, "named", "failed")
        /\ UNCHANGED claims /\ Trouble(v)
  /\ UNCHANGED <<opened, old>>

\* The worker dies with the job that fanned out; the job's next run checks anew.
CrashCheck(v) ==
  /\ check[v].at \in {"fetch", "open", "named", "persist"}
  /\ Moves(v, check[v].at, "failed") /\ Trouble(v)
  /\ UNCHANGED <<opened, claims, old>>

\* Thirty days go by for a row.
AgeOut(v) ==
  /\ \E c \in claims : c.by = v
  /\ v \notin old /\ old' = old \cup {v}
  /\ UNCHANGED <<check, opened, claims, trouble, cut>>

run_web_verifier(v) == Reuse(v) \/ Adjudicate(v) \/ OpenIntake(v) \/ Persist(v)

VerifierNext == \E v \in Checks : run_web_verifier(v) \/ CrashCheck(v) \/ AgeOut(v)

-----------------------------------------------------------------------------
VerifierTypeOK ==
  /\ check \in [Checks -> [at: {"start", "reused", "fetch", "open", "named", "persist",
                                "done", "failed"}, verdict: Verdicts]]
  /\ {opened, old, cut} \subseteq SUBSET Checks
  /\ claims \subseteq ClaimRow /\ trouble \in 0..MaxTrouble

(* What a check takes over from an earlier one was corroborated: a claim    *)
(* that was contradicted or not confirmed is checked anew each time.        *)
ReusedWasCorroborated ==
  \A v \in Checks : check[v].at = "reused" =>
    \E c \in claims : ClaimOf[c.by] = ClaimOf[v] /\ c.status = "corroborated"

(* A contradiction reaches the Manager: its row names an intake that is     *)
(* there, unless opening it failed; and every intake is named by a row,     *)
(* unless the check was cut short.                                          *)
ContradictionIsTold ==
  /\ \A c \in claims :
       /\ c.status = "contradicted" => c.intake \/ c.by \in cut
       /\ c.intake => c.by \in opened
  /\ \A v \in opened : check[v].at = "done" => \E c \in claims : c.by = v /\ c.intake

(* Together: a verdict is passed on as it was reached.                      *)
VerdictsAreKept == ReusedWasCorroborated /\ ContradictionIsTold

-----------------------------------------------------------------------------
(* What the code's documents say and the code does not keep.                *)

(* "a claim corroborated within the last 30d is reused, no fresh fetch"     *)
(* (claim_verifications_repo.py:6-7): the checks of one fan-out do not see  *)
(* each other.                                                              *)
CorroboratedOnce ==
  \A c, e \in claims : c.status = "corroborated" /\ e.status = "corroborated"
    /\ ClaimOf[c.by] = ClaimOf[e.by] /\ {c.by, e.by} \cap old = {} => c = e
=============================================================================
