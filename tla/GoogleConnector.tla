--------------------------- MODULE GoogleConnector ---------------------------
(***************************************************************************)
(* The Google Workspace connection of one workspace: the credential rows   *)
(* (db/models/oauth_credentials.py), connecting and disconnecting          *)
(* (api/workspaces/integrations.py), and the requests that send mail or    *)
(* create events with a token they refresh when it is stale                *)
(* (connectors/base.py, connectors/google_workspace.py).                   *)
(*                                                                         *)
(* A row stands for one consent; rows are numbered as they were connected. *)
(* Its refresh token works as long as Google keeps that consent's grant.   *)
(* A request holds no lock while it talks to Google.                       *)
(***************************************************************************)
EXTENDS Naturals, Sequences, FiniteSets, FiniteSetsExt

CONSTANTS
  Requests,   \* calls of gmail_send and calendar_create_event
  MaxRows,    \* bound on consents
  MaxFaults,  \* bound on failing calls to a provider
  MaxStale    \* bound on tokens running out

ASSUME ConnectorAssumption == {MaxRows, MaxFaults, MaxStale} \subseteq Nat

VARIABLES
  creds,   \* workspace_oauth_credentials: sequence of rows
  granted, \* Google: rows whose consent is alive
  req,     \* where each request stands, and the row it loaded
  faults, stale,
  ended,   \* history: rows a Manager disconnected
  refused, \* history: rows Google refused to refresh
  troubled \* history: requests that met a fault or found the newest consent gone

gVars == <<creds, granted, req, faults, stale, ended, refused, troubled>>

None == 0
Idle == [at |-> "idle", row |-> None]
Phases == {"idle", "ready", "refreshing", "refreshed", "refused", "dead",
           "sent", "revoked", "failed"}
Row == [fresh: BOOLEAN, revoked: BOOLEAN]

GInit ==
  /\ creds = <<>> /\ granted = {} /\ ended = {} /\ refused = {} /\ troubled = {}
  /\ req = [q \in Requests |-> Idle]
  /\ faults = 0 /\ stale = 0

Fault == faults < MaxFaults /\ faults' = faults + 1
Goes(q, from, to) == req[q].at = from /\ req' = [req EXCEPT ![q].at = to]
Troubles(q) == troubled' = troubled \cup {q}
Connected == LET n == Len(creds) IN n > 0 /\ n \in granted /\ ~creds[n].revoked

-----------------------------------------------------------------------------
(* Connecting and disconnecting *)

\* The callback exchanges the code and adds a row beside the ones there are.
handle_callback ==
  /\ Len(creds) < MaxRows
  /\ creds' = Append(creds, [fresh |-> TRUE, revoked |-> FALSE])
  /\ granted' = granted \cup {Len(creds) + 1}
  /\ UNCHANGED <<req, faults, stale, ended, refused, troubled>>

\* The Manager disconnects the row the settings page names.
disconnect_integration(i) ==
  /\ ~creds[i].revoked
  /\ creds' = [creds EXCEPT ![i].revoked = TRUE]
  /\ ended' = ended \cup {i}
  /\ UNCHANGED <<granted, req, faults, stale, refused, troubled>>

\* The user withdraws the consents on Google's own page.
RevokeAtGoogle ==
  /\ granted # {} /\ granted' = {}
  /\ troubled' = troubled \cup {q \in Requests : req[q].at \notin {"idle", "sent"}}
  /\ UNCHANGED <<creds, req, faults, stale, ended, refused>>

RunOut(i) ==
  /\ stale < MaxStale /\ stale' = stale + 1
  /\ creds[i].fresh /\ creds' = [creds EXCEPT ![i].fresh = FALSE]
  /\ UNCHANGED <<granted, req, faults, ended, refused, troubled>>

-----------------------------------------------------------------------------
(* A request *)

\* Mutant: the oldest row that was not revoked.
GetOldest ==
  LET active == {i \in DOMAIN creds : ~creds[i].revoked}
  IN IF active = {} THEN None ELSE Min(active)

\* The newest row that was not revoked.
get_active ==
  LET active == {i \in DOMAIN creds : ~creds[i].revoked}
  IN IF active = {} THEN None ELSE Max(active)

\* refresh_if_needed up to the call to Google.
LoadCreds(q) ==
  /\ req[q].at = "idle"
  /\ LET i == get_active
         to == IF i = None THEN "failed" ELSE IF creds[i].fresh THEN "ready" ELSE "refreshing"
     IN req' = [req EXCEPT ![q] = [at |-> to, row |-> i]]
  /\ IF Connected THEN UNCHANGED troubled ELSE Troubles(q)
  /\ UNCHANGED <<creds, granted, faults, stale, ended, refused>>

\* Mutant: whatever goes wrong is taken for a refusal.
RefreshRefusedLoosely(q) ==
  /\ Goes(q, "refreshing", "refused")
  /\ \/ /\ req[q].row \notin granted /\ refused' = refused \cup {req[q].row}
        /\ UNCHANGED <<faults, troubled>>
     \/ Fault /\ Troubles(q) /\ UNCHANGED refused
  /\ UNCHANGED <<creds, granted, stale, ended>>

\* invalid_grant, or any other answer of 400 or 401.
RefreshRefused(q) ==
  /\ Goes(q, "refreshing", "refused")
  /\ \/ req[q].row \notin granted /\ UNCHANGED <<faults, troubled>>
     \/ Fault /\ Troubles(q)
  /\ refused' = refused \cup {req[q].row}
  /\ UNCHANGED <<creds, granted, stale, ended>>

RefreshAnswered(q) ==
  /\ req[q].row \in granted /\ Goes(q, "refreshing", "refreshed")
  /\ UNCHANGED <<creds, granted, faults, stale, ended, refused, troubled>>

\* No answer, or one that is neither 200, 400 nor 401: the error goes up.
RefreshFails(q) ==
  /\ Goes(q, "refreshing", "failed") /\ Fault /\ Troubles(q)
  /\ UNCHANGED <<creds, granted, stale, ended, refused>>

\* Mutant: the row is written whole, as it was read.
UpdateTokensWhole(q) ==
  /\ Goes(q, "refreshed", "ready")
  /\ creds' = [creds EXCEPT ![req[q].row] = [fresh |-> TRUE, revoked |-> FALSE]]
  /\ UNCHANGED <<granted, faults, stale, ended, refused, troubled>>

\* Only the columns of the tokens are written.
update_tokens(q) ==
  /\ Goes(q, "refreshed", "ready")
  /\ creds' = [creds EXCEPT ![req[q].row].fresh = TRUE]
  /\ UNCHANGED <<granted, faults, stale, ended, refused, troubled>>

mark_revoked(q) ==
  /\ Goes(q, "refused", "revoked")
  /\ creds' = [creds EXCEPT ![req[q].row].revoked = TRUE]
  /\ UNCHANGED <<granted, faults, stale, ended, refused, troubled>>

\* The call itself.  A 401 or 403 is told from other failures, and the row is
\* left as it is; a call that fails may have taken effect.
CallGoogle(q, sent) ==
  /\ \/ /\ req[q].row \in granted /\ sent
        /\ Goes(q, "ready", "sent") /\ UNCHANGED <<faults, troubled>>
     \/ /\ req[q].row \notin granted /\ ~sent
        /\ Goes(q, "ready", "revoked") \/ Goes(q, "ready", "failed")
        /\ UNCHANGED <<faults, troubled>>
     \/ Goes(q, "ready", "failed") /\ Fault /\ Troubles(q)
  /\ UNCHANGED <<creds, granted, stale, ended, refused>>

CrashRequest(q) ==
  /\ req[q].at \in {"ready", "refreshing", "refreshed", "refused"}
  /\ Goes(q, req[q].at, "dead") /\ Fault /\ Troubles(q)
  /\ UNCHANGED <<creds, granted, stale, ended, refused>>

PreCall(q) ==
  \/ LoadCreds(q) \/ RefreshRefused(q) \/ RefreshAnswered(q) \/ RefreshFails(q)
  \/ update_tokens(q) \/ mark_revoked(q)

Settings ==
  \/ handle_callback \/ RevokeAtGoogle
  \/ \E i \in DOMAIN creds : disconnect_integration(i) \/ RunOut(i)

-----------------------------------------------------------------------------
GTypeOK ==
  /\ creds \in Seq(Row) /\ Len(creds) <= MaxRows
  /\ {granted, ended, refused} \subseteq SUBSET DOMAIN creds
  /\ req \in [Requests -> [at: Phases, row: {None} \cup DOMAIN creds]]
  /\ faults \in 0..MaxFaults /\ stale \in 0..MaxStale
  /\ troubled \subseteq Requests

(* "mark_revoked is one-way" (oauth_credentials_repo.py:4): a refresh that  *)
(* was under way when the Manager disconnected does not connect again.      *)
EndedStaysEnded == \A i \in ended : creds[i].revoked

(* A connection is lost only because the Manager ended it or Google         *)
(* answered a refresh with a refusal: not because a call failed.            *)
RevokedForCause == \A i \in DOMAIN creds : creds[i].revoked => i \in ended \cup refused

(* Connecting again heals: a request whose calls all go through, on a grant *)
(* that was there when it loaded the newest row and stays, is carried out,  *)
(* whatever older rows there are and whoever refreshes meanwhile.           *)
HealthyIsSent ==
  \A q \in Requests : req[q].at \in {"revoked", "failed", "dead"} => q \in troubled

(* Together: a connection that works is neither lost nor passed over, and   *)
(* one that was ended does not come back.                                   *)
ConnectionServes == EndedStaysEnded /\ RevokedForCause /\ HealthyIsSent

-----------------------------------------------------------------------------
(* What the code's documents say and the code does not keep.                *)

(* "one credential per workspace today" (google_workspace.py:328): a second *)
(* consent leaves the first row active, and it is the one in use again once *)
(* the second is disconnected.                                              *)
OneCredential == Cardinality({i \in DOMAIN creds : ~creds[i].revoked}) <= 1

(* "raised when a provider returns invalid_grant on refresh" (base.py:9):   *)
(* any 400 or 401 marks the row revoked.                                    *)
RefusedIsGone == refused \cap granted = {}
=============================================================================
