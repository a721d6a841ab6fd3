---------------------------- MODULE Provisioning ----------------------------
(***************************************************************************)
(* Signup (services/workspace_provisioning.py): the rows are committed     *)
(* first, then a number is bought, the brain's schema created and an inbox *)
(* opened, each with its own commit, and a pair of tokens is issued.       *)
(* Extends Auth, whose requests go on beside it.  A signup is one request; *)
(* its workspace carries its name.                                         *)
(***************************************************************************)
EXTENDS Auth

CONSTANTS Signups, EmailOf, MaxFaults

ASSUME EmailAssumption == EmailOf \in [Signups -> Users]
ASSUME FaultAssumption == MaxFaults \in Nat

VARIABLES
  ws,     \* manager_workspaces: provisioning_state, whether a number and an inbox are stored
  owner,  \* users: which signup created the user of an email address
  bought, \* AgentPhone: signups for which a number was bought
  schema, \* brain database: workspaces whose schema exists
  pc,     \* where each signup stands
  faults  \* failing calls and crashes so far

signupVars == <<ws, owner, bought, schema, pc, faults>>
vars == <<authVars, signupVars>>

States == {"none", "pending", "number_pending", "ready"}
Workspace == [state: States, number: BOOLEAN, inbox: {"none", "real", "stub"}]
NoOwner == "nobody"
ASSUME OwnerAssumption == NoOwner \notin Signups

Init ==
  /\ AuthInit
  /\ ws = [s \in Signups |-> [state |-> "none", number |-> FALSE, inbox |-> "none"]]
  /\ owner = [u \in Users |-> NoOwner]
  /\ bought = {} /\ schema = {} /\ faults = 0
  /\ pc = [s \in Signups |-> "start"]

At(s, here, there) == pc[s] = here /\ pc' = [pc EXCEPT ![s] = there]
Fault == faults < MaxFaults /\ faults' = faults + 1

\* ensure_email_available: a read, long before the rows are inserted.
CheckEmail(s) ==
  /\ At(s, "start", IF owner[EmailOf[s]] = NoOwner THEN "free" ELSE "over")
  /\ UNCHANGED <<authVars, ws, owner, bought, schema, faults>>

\* Mutant: without the constraint a later signup takes the address over.
CreateRowsTwice(s) ==
  /\ At(s, "free", "rows")
  /\ owner' = [owner EXCEPT ![EmailOf[s]] = s]
  /\ ws' = [ws EXCEPT ![s].state = "pending"]
  /\ UNCHANGED <<authVars, bought, schema, faults>>

\* Organization, workspace and user in one transaction; users.email is unique.
CreateRows(s) ==
  \/ /\ owner[EmailOf[s]] = NoOwner
     /\ At(s, "free", "rows")
     /\ owner' = [owner EXCEPT ![EmailOf[s]] = s]
     /\ ws' = [ws EXCEPT ![s].state = "pending"]
     /\ UNCHANGED <<authVars, bought, schema, faults>>
  \/ /\ owner[EmailOf[s]] # NoOwner
     /\ At(s, "free", "over")
     /\ UNCHANGED <<authVars, ws, owner, bought, schema, faults>>

\* The columns are flushed: until the next commit they are in the session only.
BuyNumber(s) ==
  /\ At(s, "rows", "flushed")
  /\ bought' = bought \cup {s}
  /\ UNCHANGED <<authVars, ws, owner, schema, faults>>

\* A call that raises may have bought the number all the same.
BuyFails(s) ==
  /\ At(s, "rows", "provisioned") /\ Fault
  /\ bought' \in {bought, bought \cup {s}}
  /\ ws' = [ws EXCEPT ![s].state = "number_pending"]
  /\ UNCHANGED <<authVars, owner, schema>>

EnsureSchema(s) ==
  /\ At(s, "flushed", "schema")
  /\ schema' = schema \cup {s}
  /\ UNCHANGED <<authVars, ws, owner, bought, faults>>

\* Mutant: the exception is swallowed and the workspace called ready.
EnsureFailsReady(s) ==
  /\ At(s, "flushed", "inbox") /\ Fault
  /\ ws' = [ws EXCEPT ![s].state = "ready", ![s].number = TRUE]
  /\ UNCHANGED <<authVars, owner, bought, schema>>

EnsureFails(s) ==
  /\ At(s, "flushed", "inbox") /\ Fault
  /\ ws' = [ws EXCEPT ![s].state = "number_pending", ![s].number = TRUE]
  /\ UNCHANGED <<authVars, owner, bought, schema>>

\* Mutant: the flushed columns are dropped with a session opened anew.
CommitReadyUnnumbered(s) ==
  /\ At(s, "schema", "inbox")
  /\ ws' = [ws EXCEPT ![s].state = "ready"]
  /\ UNCHANGED <<authVars, owner, bought, schema, faults>>

CommitReady(s) ==
  /\ At(s, "schema", "inbox")
  /\ ws' = [ws EXCEPT ![s].state = "ready", ![s].number = TRUE]
  /\ UNCHANGED <<authVars, owner, bought, schema, faults>>

\* The provider never raises: without a real inbox it names a stub.
OpenInbox(s) ==
  /\ At(s, "inbox", "provisioned")
  /\ \/ ws' = [ws EXCEPT ![s].inbox = "real"] /\ UNCHANGED faults
     \/ ws' = [ws EXCEPT ![s].inbox = "stub"] /\ Fault
  /\ UNCHANGED <<authVars, owner, bought, schema>>

IssueTokens(s, t) ==
  /\ At(s, "provisioned", "answered") /\ t \in Fresh
  /\ rows' = Record(rows, t, EmailOf[s], NoToken)
  /\ held' = held \cup {t}
  /\ UNCHANGED <<expired, reqs, raced, ws, owner, bought, schema, faults>>

CrashSignup(s) ==
  /\ pc[s] \notin {"start", "answered", "over", "dead"}
  /\ At(s, pc[s], "dead") /\ Fault
  /\ UNCHANGED <<authVars, ws, owner, bought, schema>>

LoginUser(u, t) == owner[u] # NoOwner /\ Login(u, t) /\ UNCHANGED signupVars

SignupStep(s) ==
  \/ CheckEmail(s) \/ CreateRows(s) \/ BuyNumber(s) \/ BuyFails(s)
  \/ EnsureSchema(s) \/ EnsureFails(s) \/ CommitReady(s) \/ OpenInbox(s)
  \/ \E t \in Tokens : IssueTokens(s, t)

Next ==
  \/ \E s \in Signups : SignupStep(s) \/ CrashSignup(s)
  \/ \E u \in Users, t \in Tokens : LoginUser(u, t)
  \/ AuthNext /\ UNCHANGED signupVars

Spec == Init /\ [][Next]_vars

-----------------------------------------------------------------------------
TypeOK ==
  /\ AuthTypeOK
  /\ ws \in [Signups -> Workspace]
  /\ owner \in [Users -> Signups \cup {NoOwner}]
  /\ bought \subseteq Signups /\ schema \subseteq Signups /\ faults \in 0..MaxFaults
  /\ pc \in [Signups -> {"start", "free", "rows", "flushed", "schema", "inbox",
                         "provisioned", "answered", "over", "dead"}]

(* A workspace called ready has its number bought and stored, its brain     *)
(* schema, and a manager who can log in (workspace_provisioning.py:99-126). *)
ReadyIsComplete ==
  \A s \in Signups : ws[s].state = "ready" =>
    /\ ws[s].number /\ s \in bought \cap schema
    /\ owner[EmailOf[s]] = s

(* The commit that pays for a number's row is never rolled back without a   *)
(* reason: a number bought and stored nowhere means a signup that is still  *)
(* running, died, or whose call to AgentPhone raised.                       *)
PaidIsKept ==
  \A s \in bought : ws[s].number \/ ws[s].state = "number_pending"
                    \/ pc[s] \in {"flushed", "schema", "dead"}

(* Every signup that reached its rows leaves an account: of two signups     *)
(* with one address one is refused, and the account that answered owns it.  *)
OneAccountPerAddress ==
  \A s \in Signups : ws[s].state # "none" => owner[EmailOf[s]] = s

(* Together: what signups leave behind, however they end, adds up.          *)
SignupsAddUp == TypeOK /\ ReadyIsComplete /\ PaidIsKept /\ OneAccountPerAddress

-----------------------------------------------------------------------------
(* What the code's documents say and the code does not keep.                *)

(* "refresh tokens are stored" (lld/phase_0_scaffolding_and_mvp.md:551):    *)
(* login flushes the row and nobody commits it.                             *)
HeldIsStored == held \subseteq Stored

(* "We never pair a transaction rollback with a paid-for AP number that     *)
(* would leak" (workspace_provisioning.py:6).                               *)
NothingLeaks == \A s \in bought : pc[s] \in {"dead", "answered"} => ws[s].number
=============================================================================
