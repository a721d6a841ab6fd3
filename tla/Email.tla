------------------------------- MODULE Email --------------------------------
(***************************************************************************)
(* Outbound mail (miniagents/email_delivery.py): a job looks its key up,   *)
(* loads what the mail is about, sends it and records it, over the         *)
(* workspace's own inbox (AgentMail) or the Google connection.  Jobs of    *)
(* one key run when what ran before runs again; arq runs a job again when  *)
(* its worker dies.                                                        *)
(***************************************************************************)
EXTENDS GoogleConnector

CONSTANTS
  Jobs,      \* email_delivery_job
  KeyOf,     \* the idempotency key of each
  Personal,  \* the jobs of route oauth_personal: each is a request to Google
  MaxDeaths  \* bound on workers that die

ASSUME EmailAssumption ==
  /\ Personal \subseteq Jobs /\ Personal \subseteq Requests
  /\ IsFiniteSet(Jobs)
  /\ MaxDeaths \in Nat

Keys == {KeyOf[j] : j \in Jobs}
Plain == Requests \ Personal

VARIABLES
  job,      \* where each job stands
  recorded, \* email_messages: the keys it holds
  inbox,    \* how many mails of a key the recipient got
  deaths,
  loose     \* history: keys a run of which sent, or may have sent, unrecorded,
            \* or two runs of which had looked the key up before either recorded

mailVars == <<job, recorded, inbox, deaths, loose>>
vars == <<gVars, mailVars>>

JobPhases == {"queued", "checking", "composing", "sending", "recording", "recorded",
              "raised", "disconnected", "already_sent", "artifact_load_failed", "send_failed"}

Init ==
  /\ GInit
  /\ job = [j \in Jobs |-> "queued"]
  /\ recorded = {} /\ inbox = [k \in Keys |-> 0] /\ deaths = 0 /\ loose = {}

Step(j, from, to) == job[j] = from /\ job' = [job EXCEPT ![j] = to]
Between(j) == job[j] \in {"composing", "sending", "recording"}
Deliver(j) == inbox' = [inbox EXCEPT ![KeyOf[j]] = @ + 1]
Loose(j) == loose' = loose \cup {KeyOf[j]}

\* The route is looked at first: a personal mail needs a connection.
Preflight(j) ==
  /\ Step(j, "queued", IF j \in Personal /\ get_active = None THEN "disconnected" ELSE "checking")
  /\ UNCHANGED <<gVars, recorded, inbox, deaths, loose>>

\* Mutant: the key is not looked up.
CheckNothing(j) ==
  /\ Step(j, "checking", "composing")
  /\ IF \E i \in Jobs \ {j} : KeyOf[i] = KeyOf[j] /\ Between(i) THEN Loose(j) ELSE UNCHANGED loose
  /\ UNCHANGED <<gVars, recorded, inbox, deaths>>

\* The look-up and what follows are not one transaction.
Check(j) ==
  /\ Step(j, "checking", IF KeyOf[j] \in recorded THEN "already_sent" ELSE "composing")
  /\ IF \E i \in Jobs \ {j} : KeyOf[i] = KeyOf[j] /\ Between(i) THEN Loose(j) ELSE UNCHANGED loose
  /\ UNCHANGED <<gVars, recorded, inbox, deaths>>

Compose(j) ==
  /\ \/ Step(j, "composing", "sending") /\ UNCHANGED faults
     \/ Step(j, "composing", "artifact_load_failed") /\ Fault
  /\ UNCHANGED <<creds, granted, req, stale, ended, refused, troubled, recorded, inbox, deaths, loose>>

\* Mutant: a failed send is recorded like one that went out.
SendOwnTrusting(j) ==
  /\ j \notin Personal /\ Step(j, "sending", "recording")
  /\ \/ Deliver(j) /\ UNCHANGED faults
     \/ UNCHANGED inbox /\ Fault
  /\ UNCHANGED <<creds, granted, req, stale, ended, refused, troubled, recorded, deaths, loose>>

\* AgentMail.  A call that raises may have sent the mail.
SendOwn(j) ==
  /\ j \notin Personal
  /\ \/ Step(j, "sending", "recording") /\ Deliver(j) /\ UNCHANGED <<faults, loose>>
     \/ /\ Step(j, "sending", "send_failed") /\ Fault
        /\ (Deliver(j) /\ Loose(j)) \/ UNCHANGED <<inbox, loose>>
  /\ UNCHANGED <<creds, granted, req, stale, ended, refused, troubled, recorded, deaths>>

\* Gmail, through the connector; every exception is a skipped mail.
SendPersonal(j) ==
  /\ j \in Personal /\ job[j] = "sending"
  /\ \/ PreCall(j) /\ UNCHANGED mailVars
     \/ \E sent \in BOOLEAN :
          /\ CallGoogle(j, sent)
          /\ IF sent THEN Deliver(j) ELSE UNCHANGED inbox
          /\ IF sent /\ req'[j].at # "sent" THEN Loose(j) ELSE UNCHANGED loose
          /\ UNCHANGED <<job, recorded, deaths>>
     \/ /\ req[j].at \in {"sent", "revoked", "failed"}
        /\ Step(j, "sending", IF req[j].at = "sent" THEN "recording" ELSE "send_failed")
        /\ UNCHANGED <<gVars, recorded, inbox, deaths, loose>>

\* The key is unique: a second row is refused and the job raises.
Save(j) ==
  /\ Step(j, "recording", IF KeyOf[j] \in recorded THEN "raised" ELSE "recorded")
  /\ recorded' = recorded \cup {KeyOf[j]}
  /\ UNCHANGED <<gVars, inbox, deaths, loose>>

\* The worker dies and arq starts the job again, with a request of its own.
Die(j) ==
  /\ job[j] = "checking" \/ Between(j)
  /\ deaths < MaxDeaths /\ deaths' = deaths + 1
  /\ job' = [job EXCEPT ![j] = "queued"]
  /\ req' = IF j \in Personal THEN [req EXCEPT ![j] = Idle] ELSE req
  /\ IF job[j] = "recording" \/ (j \in Personal /\ req[j].at = "sent") THEN Loose(j) ELSE UNCHANGED loose
  /\ UNCHANGED <<creds, granted, faults, stale, ended, refused, troubled, recorded, inbox>>

Deliverer(j) ==
  Preflight(j) \/ Check(j) \/ Compose(j) \/ SendOwn(j) \/ SendPersonal(j) \/ Save(j)

\* A request of an action item: a calendar event, or a mail of its own.
Other(q) ==
  /\ PreCall(q) \/ CrashRequest(q) \/ \E sent \in BOOLEAN : CallGoogle(q, sent)
  /\ UNCHANGED mailVars

Next ==
  \/ Settings /\ UNCHANGED mailVars
  \/ \E q \in Plain : Other(q)
  \/ \E j \in Jobs : Deliverer(j) \/ Die(j)

Spec == Init /\ [][Next]_vars

-----------------------------------------------------------------------------
TypeOK ==
  /\ GTypeOK
  /\ job \in [Jobs -> JobPhases]
  /\ recorded \subseteq Keys /\ loose \subseteq Keys
  /\ inbox \in [Keys -> 0..(Cardinality(Jobs) + MaxDeaths)]
  /\ deaths \in 0..MaxDeaths

(* A mail is sent once for its key however many jobs ask for it, unless a   *)
(* run ended between the send and the record or two runs overlapped         *)
(* (email_delivery.py:181-190, :266-281).                                   *)
SentOnce == \A k \in Keys : inbox[k] > 1 => k \in loose

(* A recorded mail reached its recipient: nothing is skipped as sent that   *)
(* was not.                                                                 *)
RecordedWasSent == \A k \in recorded : inbox[k] > 0

(* Together: the table and the recipients' inboxes agree.                   *)
MailsAddUp == TypeOK /\ SentOnce /\ RecordedWasSent

-----------------------------------------------------------------------------
(* What the code's documents say and the code does not keep.                *)

(* "arq retries against the same ... tuple resolve to a single send"        *)
(* (db/models/email_message.py:6-9).                                        *)
OneSendPerKey == \A k \in Keys : inbox[k] <= 1

(* "The mini-agent NEVER raises to the queue worker" (email_delivery.py:24):*)
(* the row that is refused raises.                                          *)
NeverRaises == \A j \in Jobs : job[j] # "raised"
=============================================================================
