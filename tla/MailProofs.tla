------------------------------ MODULE MailProofs ------------------------------
(***************************************************************************)
(* Theorems about the Google connection and the mails that go over it and  *)
(* over the workspace's inbox, for any requests, jobs, keys and bounds.    *)
(***************************************************************************)
EXTENDS Email, FiniteSetTheorems, WellFoundedInduction, SequenceTheorems, TLAPS

(* A request that was never troubled works on a grant that is still there;  *)
(* one that was refused says so of the row it loaded.                       *)
RequestsHold ==
  \A q \in Requests :
    /\ req[q].at \in {"ready", "refreshing", "refreshed", "refused"} => req[q].row \in DOMAIN creds
    /\ req[q].at = "refused" => req[q].row \in refused
    /\ req[q].at \in {"ready", "refreshing", "refreshed"} /\ q \notin troubled
         => req[q].row \in granted
    /\ req[q].at \in {"refused", "revoked", "failed", "dead"} => q \in troubled

GInv == GTypeOK /\ ConnectionServes /\ RequestsHold

-----------------------------------------------------------------------------
(* The newest row *)

LEMMA Least ==
  ASSUME NEW T \in SUBSET Nat, T # {}
  PROVE  \E m \in T : \A k \in T : m <= k
<1> DEFINE R == {ss \in Nat \X Nat : ss[1] < ss[2]}
<1>1. IsWellFoundedOn(R, Nat)
  BY NatLessThanWellFounded DEF OpToRel
<1>2. PICK m \in T : \A k \in T : ~ (<<k, m>> \in R)
  BY <1>1, WFMin
<1>3. \A k \in T : k \in Nat /\ m \in Nat /\ ~ (k < m)
  BY <1>2
<1> HIDE DEF R
<1> QED
  BY <1>3

LEMMA MaxOf ==
  ASSUME NEW n \in Nat, NEW S \in SUBSET (1..n), S # {}
  PROVE  Max(S) \in S /\ \A x \in S : x <= Max(S)
<1> DEFINE T == {k \in Nat : n - k \in S}
<1>1. \A x \in S : n - x \in Nat /\ n - (n - x) = x
  OBVIOUS
<1>2. T \in SUBSET Nat /\ T # {} /\ \A x \in S : n - x \in T
  BY <1>1
<1> HIDE DEF T
<1>3. PICK m \in T : \A k \in T : m <= k
  BY <1>2, Least
<1>4. n - m \in S /\ m \in Nat
  BY DEF T
<1>5. \A x \in S : n - m >= x
  BY <1>1, <1>2, <1>3, <1>4
<1> QED
  BY <1>4, <1>5 DEF Max

LEMMA ActiveRow ==
  ASSUME GTypeOK
  PROVE  /\ get_active \in {None} \cup DOMAIN creds
         /\ Connected => get_active = Len(creds) /\ Len(creds) # None
<1> DEFINE active == {i \in DOMAIN creds : ~creds[i].revoked}
<1>1. Len(creds) \in Nat /\ DOMAIN creds = 1..Len(creds) /\ active \in SUBSET (1..Len(creds))
  BY DEF GTypeOK
<1>2. active # {} => get_active = Max(active) /\ Max(active) \in active
                     /\ \A x \in active : x <= Max(active)
  BY <1>1, MaxOf DEF get_active
<1>3. active = {} => get_active = None
  BY DEF get_active
<1>4. Connected => Len(creds) \in active /\ Len(creds) # None
  BY <1>1 DEF Connected, None
<1> HIDE DEF active
<1>5. ASSUME Connected PROVE get_active = Len(creds)
  <2>1. Len(creds) <= get_active /\ get_active \in 1..Len(creds)
    BY <1>1, <1>2, <1>4, <1>5
  <2>2. Len(creds) \in Nat /\ get_active \in Nat /\ get_active <= Len(creds)
    BY <1>1, <2>1
  <2> QED
    BY <2>1, <2>2
<1>6. get_active \in {None} \cup DOMAIN creds
  BY <1>1, <1>2, <1>3
<1> QED
  BY <1>4, <1>5, <1>6

-----------------------------------------------------------------------------
(* The connection's steps *)

(* A row is written in place. *)
LEMMA RowWritten ==
  ASSUME NEW s \in Seq(Row), NEW i \in DOMAIN s, NEW new \in Row
  PROVE  /\ [s EXCEPT ![i] = new] \in Seq(Row)
         /\ Len([s EXCEPT ![i] = new]) = Len(s)
         /\ DOMAIN [s EXCEPT ![i] = new] = DOMAIN s
         /\ [s EXCEPT ![i] = new][i] = new
         /\ \A o \in DOMAIN s \ {i} : [s EXCEPT ![i] = new][o] = s[o]
BY ExceptSeq

LEMMA SettingsKeepG ==
  ASSUME GInv, Settings
  PROVE  GInv'
<1> USE ConnectorAssumption
<1>0. Len(creds) \in Nat /\ DOMAIN creds = 1..Len(creds)
  BY DEF GInv, GTypeOK
<1>1. CASE handle_callback
  <2> DEFINE new == [fresh |-> TRUE, revoked |-> FALSE]
  <2>1. new \in Row /\ new.revoked = FALSE
    BY DEF Row
  <2>2. /\ creds' \in Seq(Row) /\ Len(creds') = Len(creds) + 1
        /\ DOMAIN creds' = 1..(Len(creds) + 1)
        /\ \A i \in DOMAIN creds : creds'[i] = creds[i]
        /\ creds'[Len(creds) + 1] = new /\ Len(creds) < MaxRows
    BY <1>0, <1>1, <2>1 DEF handle_callback, GInv, GTypeOK
  <2> HIDE DEF new
  <2>3. GTypeOK'
    BY <1>0, <1>1, <2>2 DEF handle_callback, GInv, GTypeOK
  <2>4. RequestsHold'
    BY <1>0, <1>1, <2>2 DEF handle_callback, GInv, RequestsHold
  <2>5. ConnectionServes'
    <3>1. EndedStaysEnded' /\ RevokedForCause'
      BY <1>0, <1>1, <2>1, <2>2 DEF handle_callback, GInv, GTypeOK, ConnectionServes,
                                    EndedStaysEnded, RevokedForCause
    <3>2. HealthyIsSent'
      BY <1>1 DEF handle_callback, GInv, ConnectionServes, HealthyIsSent
    <3> QED
      BY <3>1, <3>2 DEF ConnectionServes
  <2> QED
    BY <2>3, <2>4, <2>5 DEF GInv
<1>2. CASE RevokeAtGoogle
  <2>1. troubled \subseteq troubled' /\ troubled' \subseteq Requests
        /\ \A q \in Requests : req[q].at \in {"ready", "refreshing", "refreshed"} => q \in troubled'
    BY <1>2 DEF RevokeAtGoogle, GInv, GTypeOK
  <2> QED
    BY <1>2, <2>1 DEF RevokeAtGoogle, GInv, GTypeOK, ConnectionServes, EndedStaysEnded,
                      RevokedForCause, HealthyIsSent, RequestsHold
<1>3. CASE \E i \in DOMAIN creds : disconnect_integration(i) \/ RunOut(i)
  <2> PICK i \in DOMAIN creds : disconnect_integration(i) \/ RunOut(i)
    BY <1>3
  <2>1. /\ creds' \in Seq(Row) /\ Len(creds') = Len(creds) /\ DOMAIN creds' = DOMAIN creds
        /\ \A o \in DOMAIN creds : creds[o].revoked => creds'[o].revoked
        /\ \A o \in DOMAIN creds : creds'[o].revoked => creds[o].revoked \/ o \in ended'
        /\ ended \subseteq ended' /\ ended' \subseteq DOMAIN creds
        /\ \A o \in ended' : creds'[o].revoked
        /\ UNCHANGED <<granted, req, faults, refused, troubled>>
    <3>0. creds \in Seq(Row) /\ creds[i] \in Row
      BY <1>0 DEF GInv, GTypeOK
    <3>1. CASE disconnect_integration(i)
      <4> DEFINE new == [creds[i] EXCEPT !.revoked = TRUE]
      <4>1. new \in Row /\ new.revoked
        BY <3>0 DEF Row
      <4>2. creds' = [creds EXCEPT ![i] = new]
        BY <3>1 DEF disconnect_integration
      <4> HIDE DEF new
      <4>3. /\ creds' \in Seq(Row) /\ Len(creds') = Len(creds) /\ DOMAIN creds' = DOMAIN creds
            /\ creds'[i] = new /\ \A o \in DOMAIN creds \ {i} : creds'[o] = creds[o]
        BY <3>0, <4>1, <4>2, RowWritten
      <4> QED
        BY <3>1, <4>1, <4>3
        DEF disconnect_integration, GInv, GTypeOK, ConnectionServes, EndedStaysEnded
    <3>2. CASE RunOut(i)
      <4> DEFINE new == [creds[i] EXCEPT !.fresh = FALSE]
      <4>1. new \in Row /\ new.revoked = creds[i].revoked
        BY <3>0 DEF Row
      <4>2. creds' = [creds EXCEPT ![i] = new]
        BY <3>2 DEF RunOut
      <4> HIDE DEF new
      <4>3. /\ creds' \in Seq(Row) /\ Len(creds') = Len(creds) /\ DOMAIN creds' = DOMAIN creds
            /\ creds'[i] = new /\ \A o \in DOMAIN creds \ {i} : creds'[o] = creds[o]
        BY <3>0, <4>1, <4>2, RowWritten
      <4> QED
        BY <3>2, <4>1, <4>3
        DEF RunOut, GInv, GTypeOK, ConnectionServes, EndedStaysEnded
    <3> QED
      BY <3>1, <3>2
  <2>2. stale' \in 0..MaxStale
    BY DEF disconnect_integration, RunOut, GInv, GTypeOK
  <2>3. GTypeOK'
    BY <2>1, <2>2 DEF GInv, GTypeOK
  <2>4. RequestsHold'
    BY <2>1 DEF GInv, RequestsHold
  <2>5. ConnectionServes'
    BY <2>1 DEF GInv, ConnectionServes, EndedStaysEnded, RevokedForCause, HealthyIsSent
  <2> QED
    BY <2>3, <2>4, <2>5 DEF GInv
<1> QED
  BY <1>1, <1>2, <1>3 DEF Settings

(* A step of one request: what it may change, and what it must keep. *)
LEMMA RequestKeepsG ==
  ASSUME GInv, NEW q \in Requests,
         UNCHANGED <<granted, stale, ended>>, faults' \in 0..MaxFaults,
         NEW to \in [at: Phases, row: {None} \cup DOMAIN creds],
         req' = [req EXCEPT ![q] = to],
         troubled \subseteq troubled', troubled' \subseteq Requests,
         refused \subseteq refused', refused' \subseteq DOMAIN creds,
         creds' \in Seq(Row), Len(creds') = Len(creds), DOMAIN creds' = DOMAIN creds,
         \A i \in DOMAIN creds : creds[i].revoked => creds'[i].revoked,
         \A i \in DOMAIN creds : creds'[i].revoked => creds[i].revoked \/ i \in refused',
         to.at \in {"ready", "refreshing", "refreshed", "refused"} => to.row \in DOMAIN creds,
         to.at = "refused" => to.row \in refused',
         to.at \in {"ready", "refreshing", "refreshed"} /\ q \notin troubled' => to.row \in granted,
         to.at \in {"refused", "revoked", "failed", "dead"} => q \in troubled'
  PROVE  GInv'
<1>1. /\ req' \in [Requests -> [at: Phases, row: {None} \cup DOMAIN creds]]
      /\ req'[q] = to /\ \A o \in Requests \ {q} : req'[o] = req[o]
  BY DEF GInv, GTypeOK
<1>2. GTypeOK'
  BY <1>1 DEF GInv, GTypeOK
<1>3. RequestsHold'
  BY <1>1 DEF GInv, RequestsHold
<1>4. EndedStaysEnded' /\ RevokedForCause'
  BY DEF GInv, GTypeOK, ConnectionServes, EndedStaysEnded, RevokedForCause
<1>5. HealthyIsSent'
  BY <1>1 DEF GInv, ConnectionServes, HealthyIsSent
<1> QED
  BY <1>2, <1>3, <1>4, <1>5 DEF GInv, ConnectionServes

LEMMA Going ==
  ASSUME GTypeOK, NEW q \in Requests, NEW from, NEW to \in Phases, Goes(q, from, to)
  PROVE  /\ req[q].at = from
         /\ req' = [req EXCEPT ![q] = [at |-> to, row |-> req[q].row]]
         /\ [at |-> to, row |-> req[q].row] \in [at: Phases, row: {None} \cup DOMAIN creds]
<1>1. req[q] \in [at: Phases, row: {None} \cup DOMAIN creds]
  BY DEF GTypeOK
<1>2. [req[q] EXCEPT !.at = to] = [at |-> to, row |-> req[q].row]
  BY <1>1
<1> QED
  BY <1>1, <1>2 DEF Goes

LEMMA FaultBound ==
  GTypeOK /\ (Fault \/ UNCHANGED faults) => faults' \in 0..MaxFaults
BY ConnectorAssumption DEF GTypeOK, Fault

LEMMA PreCallKeepsG ==
  ASSUME GInv, NEW q \in Requests, PreCall(q)
  PROVE  GInv'
<1>0. /\ GTypeOK /\ RequestsHold /\ creds \in Seq(Row) /\ DOMAIN creds = 1..Len(creds)
      /\ troubled \subseteq Requests /\ refused \subseteq DOMAIN creds
      /\ faults \in 0..MaxFaults
  BY DEF GInv, GTypeOK
<1> DEFINE moved(p) == [at |-> p, row |-> req[q].row]
<1>1. CASE LoadCreds(q)
  <2> DEFINE i == get_active
             p == IF i = None THEN "failed" ELSE IF creds[i].fresh THEN "ready" ELSE "refreshing"
             to == [at |-> p, row |-> i]
  <2>1. i \in {None} \cup DOMAIN creds /\ (Connected => i = Len(creds) /\ Len(creds) # None)
    BY <1>0, ActiveRow
  <2>2. /\ req' = [req EXCEPT ![q] = to] /\ troubled \subseteq troubled'
        /\ troubled' \subseteq Requests /\ (~Connected => q \in troubled')
        /\ UNCHANGED <<creds, granted, faults, stale, ended, refused>>
    BY <1>0, <1>1 DEF LoadCreds, Troubles
  <2>3. Connected => Len(creds) \in granted
    BY DEF Connected
  <2>4. to.at = p /\ to.row = i /\ p \in {"failed", "ready", "refreshing"}
        /\ (p = "failed" <=> i = None)
    OBVIOUS
  <2> HIDE DEF i, p
  <2>5. to \in [at: Phases, row: {None} \cup DOMAIN creds]
    BY <2>1, <2>4 DEF Phases
  <2>6. /\ to.at \in {"ready", "refreshing", "refreshed", "refused"} => to.row \in DOMAIN creds
        /\ to.at # "refused"
        /\ to.at \in {"ready", "refreshing", "refreshed"} /\ q \notin troubled' => to.row \in granted
        /\ to.at \in {"refused", "revoked", "failed", "dead"} => q \in troubled'
    BY <2>1, <2>2, <2>3, <2>4
  <2> HIDE DEF to
  <2> QED
    BY <1>0, <2>2, <2>5, <2>6, RequestKeepsG
<1>2. CASE RefreshRefused(q)
  <2>1. /\ req[q].at = "refreshing" /\ req' = [req EXCEPT ![q] = moved("refused")]
        /\ moved("refused") \in [at: Phases, row: {None} \cup DOMAIN creds]
    BY <1>0, <1>2, Going DEF RefreshRefused, Phases
  <2>2. /\ refused' = refused \cup {req[q].row} /\ req[q].row \in DOMAIN creds
        /\ troubled \subseteq troubled' /\ troubled' \subseteq Requests /\ q \in troubled'
        /\ UNCHANGED <<creds, granted, stale, ended>>
    BY <1>0, <1>2, <2>1 DEF RefreshRefused, Troubles, RequestsHold
  <2>3. faults' \in 0..MaxFaults
    BY <1>0, <1>2, FaultBound DEF RefreshRefused
  <2> QED
    BY <1>0, <2>1, <2>2, <2>3, RequestKeepsG
<1>3. CASE RefreshAnswered(q)
  <2>1. /\ req[q].at = "refreshing" /\ req' = [req EXCEPT ![q] = moved("refreshed")]
        /\ moved("refreshed") \in [at: Phases, row: {None} \cup DOMAIN creds]
    BY <1>0, <1>3, Going DEF RefreshAnswered, Phases
  <2>2. req[q].row \in DOMAIN creds /\ req[q].row \in granted
    BY <1>0, <1>3, <2>1 DEF RefreshAnswered, RequestsHold
  <2> QED
    BY <1>0, <1>3, <2>1, <2>2, RequestKeepsG DEF RefreshAnswered
<1>4. CASE RefreshFails(q)
  <2>1. /\ req' = [req EXCEPT ![q] = moved("failed")]
        /\ moved("failed") \in [at: Phases, row: {None} \cup DOMAIN creds]
    BY <1>0, <1>4, Going DEF RefreshFails, Phases
  <2>2. faults' \in 0..MaxFaults
    BY <1>0, <1>4, FaultBound DEF RefreshFails
  <2> QED
    BY <1>0, <1>4, <2>1, <2>2, RequestKeepsG DEF RefreshFails, Troubles
<1>5. CASE update_tokens(q) \/ mark_revoked(q)
  <2> DEFINE r == req[q].row
             new == IF update_tokens(q) THEN [creds[r] EXCEPT !.fresh = TRUE]
                    ELSE [creds[r] EXCEPT !.revoked = TRUE]
             p == IF req[q].at = "refreshed" THEN "ready" ELSE "revoked"
  <2>1. /\ req[q].at \in {"refreshed", "refused"} /\ req' = [req EXCEPT ![q] = moved(p)]
        /\ moved(p) \in [at: Phases, row: {None} \cup DOMAIN creds]
        /\ req[q].at = "refreshed" <=> update_tokens(q)
    BY <1>0, <1>5, Going DEF update_tokens, mark_revoked, Phases, Goes
  <2>2. r \in DOMAIN creds /\ creds[r] \in Row
    BY <1>0, <2>1 DEF RequestsHold
  <2>3. new \in Row /\ (creds[r].revoked => new.revoked)
        /\ (new.revoked => creds[r].revoked \/ req[q].at = "refused")
    BY <2>1, <2>2 DEF Row
  <2>4. creds' = [creds EXCEPT ![r] = new]
    BY <1>5 DEF update_tokens, mark_revoked, Goes
  <2>5. /\ UNCHANGED <<granted, faults, stale, ended, refused, troubled>>
    BY <1>5 DEF update_tokens, mark_revoked
  <2> HIDE DEF new
  <2>6. /\ creds' \in Seq(Row) /\ Len(creds') = Len(creds) /\ DOMAIN creds' = DOMAIN creds
        /\ creds'[r] = new /\ \A o \in DOMAIN creds \ {r} : creds'[o] = creds[o]
    BY <1>0, <2>2, <2>3, <2>4, RowWritten
  <2>7. /\ req[q].at = "refused" => r \in refused /\ q \in troubled
        /\ req[q].at = "refreshed" /\ q \notin troubled => r \in granted
    BY <1>0, <2>1 DEF RequestsHold
  <2>8. /\ \A i \in DOMAIN creds : creds[i].revoked => creds'[i].revoked
        /\ \A i \in DOMAIN creds : creds'[i].revoked => creds[i].revoked \/ i \in refused'
    BY <2>3, <2>5, <2>6, <2>7
  <2>9. /\ moved(p).at = p /\ moved(p).row = r /\ p \in {"ready", "revoked"}
        /\ p = "ready" <=> req[q].at = "refreshed"
    OBVIOUS
  <2> HIDE DEF r, p, moved
  <2> QED
    BY <1>0, <2>1, <2>2, <2>5, <2>6, <2>7, <2>8, <2>9, RequestKeepsG
<1> QED
  BY <1>1, <1>2, <1>3, <1>4, <1>5 DEF PreCall

LEMMA CallKeepsG ==
  ASSUME GInv, NEW q \in Requests, (\E sent \in BOOLEAN : CallGoogle(q, sent)) \/ CrashRequest(q)
  PROVE  GInv'
<1> DEFINE moved(p) == [at |-> p, row |-> req[q].row]
<1>0. /\ GTypeOK /\ RequestsHold /\ creds \in Seq(Row) /\ DOMAIN creds = 1..Len(creds)
      /\ troubled \subseteq Requests /\ refused \subseteq DOMAIN creds
      /\ faults \in 0..MaxFaults
  BY DEF GInv, GTypeOK
<1>1. /\ UNCHANGED <<creds, granted, stale, ended, refused>>
      /\ troubled \subseteq troubled' /\ troubled' \subseteq Requests
      /\ Fault \/ UNCHANGED faults
  BY <1>0 DEF CallGoogle, CrashRequest, Troubles
<1>2. PICK p \in {"sent", "revoked", "failed", "dead"} :
        /\ Goes(q, req[q].at, p)
        /\ p # "sent" => q \in troubled'
  <2>1. CASE CrashRequest(q)
    BY <2>1 DEF CrashRequest, Troubles
  <2>2. CASE \E sent \in BOOLEAN : CallGoogle(q, sent)
    BY <1>0, <2>2 DEF CallGoogle, Troubles, RequestsHold, Goes
  <2> QED
    BY <2>1, <2>2
<1>3. /\ req' = [req EXCEPT ![q] = moved(p)]
      /\ moved(p) \in [at: Phases, row: {None} \cup DOMAIN creds]
  BY <1>0, <1>2, Going DEF Phases
<1>4. faults' \in 0..MaxFaults
  BY <1>0, <1>1, FaultBound
<1> QED
  BY <1>0, <1>1, <1>2, <1>3, <1>4, RequestKeepsG

LEMMA GFrame ==
  ASSUME GInv, UNCHANGED <<creds, granted, req, stale, ended, refused, troubled>>,
         Fault \/ UNCHANGED faults
  PROVE  GInv'
<1>1. faults' \in 0..MaxFaults
  BY FaultBound DEF GInv
<1> QED
  BY <1>1 DEF GInv, GTypeOK, ConnectionServes, EndedStaysEnded, RevokedForCause,
              HealthyIsSent, RequestsHold

-----------------------------------------------------------------------------
(* The jobs *)

(* A job whose mail went out and is not recorded; one that is past its send. *)
Sent(j) ==
  \/ job[j] = "recording"
  \/ j \in Personal /\ job[j] = "sending" /\ req[j].at = "sent"

Past(j) ==
  \/ job[j] \in {"recording", "recorded", "raised", "send_failed"}
  \/ j \in Personal /\ job[j] = "sending" /\ req[j].at \in {"sent", "revoked", "failed"}

PastJobs == {j \in Jobs : Past(j)}

Early == {"queued", "checking", "composing"}

(* A job of a key that is not loose is alone between its look-up and its    *)
(* record, and the key is not recorded until it records it.                 *)
JobsHold ==
  \A j \in Jobs :
    /\ Sent(j) => inbox[KeyOf[j]] > 0
    /\ j \in Personal /\ job[j] \in Early => req[j].at = "idle"
    /\ KeyOf[j] \notin loose /\ Between(j) =>
         /\ KeyOf[j] \notin recorded
         /\ \A i \in Jobs : KeyOf[i] = KeyOf[j] /\ Between(i) => i = j

(* So its one mail is recorded, or about to be; and no more mails go out    *)
(* than there are runs.                                                     *)
KeysHold ==
  \A k \in Keys :
    /\ inbox[k] \in Nat /\ inbox[k] <= Cardinality(PastJobs) + deaths
    /\ k \notin loose =>
         /\ inbox[k] <= 1
         /\ inbox[k] = 1 => k \in recorded \/ \E j \in Jobs : KeyOf[j] = k /\ Sent(j)

MailTypeOK ==
  /\ job \in [Jobs -> JobPhases] /\ req \in [Requests -> [at: Phases, row: {None} \cup DOMAIN creds]]
  /\ recorded \subseteq Keys /\ loose \subseteq Keys /\ inbox \in [Keys -> Nat]
  /\ deaths \in 0..MaxDeaths

MailInv == MailTypeOK /\ JobsHold /\ KeysHold /\ RecordedWasSent

LEMMA PastIsFinite ==
  /\ IsFiniteSet(PastJobs) /\ Cardinality(PastJobs) \in Nat
  /\ Cardinality(PastJobs) <= Cardinality(Jobs) /\ Cardinality(Jobs) \in Nat
  /\ IsFiniteSet(PastJobs') /\ Cardinality(PastJobs') \in Nat
<1>1. PastJobs \in SUBSET Jobs /\ PastJobs' \in SUBSET Jobs
  BY DEF PastJobs
<1> QED
  BY <1>1, EmailAssumption, FS_Subset, FS_CardinalityType

(* What a step of job j leaves alone. *)
Others(j) ==
  /\ \A o \in Jobs \ {j} : job'[o] = job[o] /\ (o \in Personal => req'[o] = req[o])
  /\ job' \in [Jobs -> JobPhases]
  /\ req' \in [Requests -> [at: Phases, row: {None} \cup DOMAIN creds']]

LEMMA OthersStay ==
  ASSUME NEW j \in Jobs, Others(j)
  PROVE  /\ \A o \in Jobs \ {j} : /\ Sent(o)' = Sent(o) /\ Past(o)' = Past(o)
                                  /\ Between(o)' = Between(o)
         /\ \A o \in Jobs : KeyOf[o] \in Keys
BY DEF Others, Sent, Past, Between, Keys

(* A step of a job that neither sends nor records. *)
LEMMA QuietKeeps ==
  ASSUME MailInv, NEW j \in Jobs, Others(j), UNCHANGED <<recorded, inbox>>,
         loose \subseteq loose', loose' \subseteq Keys,
         Sent(j)' => Sent(j),
         KeyOf[j] \notin loose' /\ Sent(j) => Sent(j)',
         j \in Personal /\ job'[j] \in Early => req'[j].at = "idle",
         KeyOf[j] \notin loose' /\ Between(j)' => Between(j) \/
           ( /\ KeyOf[j] \notin recorded
             /\ \A i \in Jobs \ {j} : ~ (KeyOf[i] = KeyOf[j] /\ Between(i)) ),
         \/ deaths' = deaths /\ (Past(j) => Past(j)')
         \/ deaths' = deaths + 1 /\ deaths' \in 0..MaxDeaths
  PROVE  MailInv'
<1>0. /\ \A o \in Jobs \ {j} : /\ Sent(o)' = Sent(o) /\ Past(o)' = Past(o)
                               /\ Between(o)' = Between(o)
      /\ \A o \in Jobs : KeyOf[o] \in Keys
  BY OthersStay
<1>1. MailTypeOK'
  BY DEF MailInv, MailTypeOK, Others
<1>2. JobsHold'
  <2> SUFFICES ASSUME NEW o \in Jobs
               PROVE  /\ Sent(o)' => inbox'[KeyOf[o]] > 0
                      /\ o \in Personal /\ job'[o] \in Early => req'[o].at = "idle"
                      /\ KeyOf[o] \notin loose' /\ Between(o)' =>
                           /\ KeyOf[o] \notin recorded'
                           /\ \A i \in Jobs : KeyOf[i] = KeyOf[o] /\ Between(i)' => i = o
    BY DEF JobsHold
  <2>1. Sent(o)' => inbox'[KeyOf[o]] > 0
    BY <1>0 DEF MailInv, JobsHold
  <2>2. o \in Personal /\ job'[o] \in Early => req'[o].at = "idle"
    BY DEF MailInv, JobsHold, Others
  <2>3. CASE o = j
    BY <1>0, <2>1, <2>2, <2>3 DEF MailInv, JobsHold
  <2>4. CASE o # j
    BY <1>0, <2>1, <2>2, <2>4 DEF MailInv, JobsHold
  <2> QED
    BY <2>3, <2>4
<1>3. Cardinality(PastJobs) + deaths <= Cardinality(PastJobs') + deaths'
  <2>1. deaths \in Nat
    BY DEF MailInv, MailTypeOK
  <2>2. CASE deaths' = deaths /\ (Past(j) => Past(j)')
    <3>1. PastJobs \subseteq PastJobs'
      BY <1>0, <2>2 DEF PastJobs
    <3> QED
      BY <2>1, <2>2, <3>1, PastIsFinite, FS_Subset
  <2>3. CASE deaths' = deaths + 1
    <3>1. PastJobs \subseteq PastJobs' \cup {j}
      BY <1>0 DEF PastJobs
    <3>2. IsFiniteSet(PastJobs' \cup {j})
          /\ Cardinality(PastJobs' \cup {j}) \in {Cardinality(PastJobs'), Cardinality(PastJobs') + 1}
      BY PastIsFinite, FS_AddElement
    <3>3. Cardinality(PastJobs) <= Cardinality(PastJobs' \cup {j})
      BY <3>1, <3>2, FS_Subset
    <3> QED
      BY <2>1, <2>3, <3>2, <3>3, PastIsFinite
  <2> QED
    BY <2>2, <2>3
<1>4. KeysHold'
  <2> SUFFICES ASSUME NEW k \in Keys
               PROVE  /\ inbox'[k] \in Nat /\ inbox'[k] <= Cardinality(PastJobs') + deaths'
                      /\ k \notin loose' =>
                           /\ inbox'[k] <= 1
                           /\ inbox'[k] = 1 => k \in recorded' \/ \E o \in Jobs : KeyOf[o] = k /\ Sent(o)'
    BY DEF KeysHold, Keys
  <2>1. inbox'[k] \in Nat /\ inbox'[k] <= Cardinality(PastJobs) + deaths
    BY DEF MailInv, KeysHold
  <2>2. deaths \in Nat /\ deaths' \in Nat
    BY DEF MailInv, MailTypeOK
  <2>3. inbox'[k] <= Cardinality(PastJobs') + deaths'
    BY <1>3, <2>1, <2>2, PastIsFinite
  <2>4. \A o \in Jobs : KeyOf[o] \notin loose' /\ Sent(o) => Sent(o)'
    BY <1>0
  <2> QED
    BY <2>1, <2>3, <2>4 DEF MailInv, KeysHold
<1>5. RecordedWasSent'
  BY DEF MailInv, RecordedWasSent
<1> QED
  BY <1>1, <1>2, <1>4, <1>5 DEF MailInv

(* A step of a job that sends. *)
LEMMA SendKeeps ==
  ASSUME MailInv, NEW j \in Jobs, Others(j), UNCHANGED <<recorded, deaths>>, Deliver(j),
         Between(j), ~ Sent(j), ~ Past(j), Past(j)', job'[j] \notin Early,
         \/ Sent(j)' /\ loose' = loose
         \/ ~ Sent(j)' /\ loose' = loose \cup {KeyOf[j]}
  PROVE  MailInv'
<1> DEFINE K == KeyOf[j]
<1>0. /\ \A o \in Jobs \ {j} : /\ Sent(o)' = Sent(o) /\ Past(o)' = Past(o)
                               /\ Between(o)' = Between(o)
      /\ \A o \in Jobs : KeyOf[o] \in Keys
  BY OthersStay
<1>1. /\ inbox' \in [Keys -> Nat] /\ inbox'[K] = inbox[K] + 1
      /\ \A k \in Keys \ {K} : inbox'[k] = inbox[k]
      /\ inbox \in [Keys -> Nat] /\ K \in Keys
  BY <1>0 DEF Deliver, MailInv, MailTypeOK
<1>2. loose \subseteq loose' /\ loose' \subseteq Keys /\ deaths \in Nat
  BY <1>0 DEF MailInv, MailTypeOK
<1>3. MailTypeOK'
  BY <1>1, <1>2 DEF MailInv, MailTypeOK, Others
<1>4. \A k \in Keys : inbox'[k] >= inbox[k]
  BY <1>1
<1> HIDE DEF K
<1>5. JobsHold'
  <2> SUFFICES ASSUME NEW o \in Jobs
               PROVE  /\ Sent(o)' => inbox'[KeyOf[o]] > 0
                      /\ o \in Personal /\ job'[o] \in Early => req'[o].at = "idle"
                      /\ KeyOf[o] \notin loose' /\ Between(o)' =>
                           /\ KeyOf[o] \notin recorded'
                           /\ \A i \in Jobs : KeyOf[i] = KeyOf[o] /\ Between(i)' => i = o
    BY DEF JobsHold
  <2>1. Sent(o)' => inbox'[KeyOf[o]] > 0
    <3>1. CASE o = j
      BY <1>1, <3>1 DEF K
    <3>2. CASE o # j
      <4>1. Sent(o) => inbox[KeyOf[o]] > 0
        BY DEF MailInv, JobsHold
      <4>2. inbox'[KeyOf[o]] >= inbox[KeyOf[o]] /\ inbox'[KeyOf[o]] \in Nat /\ inbox[KeyOf[o]] \in Nat
        BY <1>0, <1>1, <1>4
      <4> QED
        BY <1>0, <3>2, <4>1, <4>2
    <3> QED
      BY <3>1, <3>2
  <2>2. o \in Personal /\ job'[o] \in Early => req'[o].at = "idle"
    BY DEF MailInv, JobsHold, Others
  <2>3. KeyOf[o] \notin loose' /\ Between(o)' =>
           /\ KeyOf[o] \notin recorded'
           /\ \A i \in Jobs : KeyOf[i] = KeyOf[o] /\ Between(i)' => i = o
    BY <1>0, <1>2 DEF MailInv, JobsHold
  <2> QED
    BY <2>1, <2>2, <2>3
<1>6. Cardinality(PastJobs') = Cardinality(PastJobs) + 1
  <2>1. PastJobs' = PastJobs \cup {j} /\ j \notin PastJobs
    BY <1>0 DEF PastJobs
  <2> QED
    BY <2>1, PastIsFinite, FS_AddElement
<1>7. KeysHold'
  <2> SUFFICES ASSUME NEW k \in Keys
               PROVE  /\ inbox'[k] \in Nat /\ inbox'[k] <= Cardinality(PastJobs') + deaths'
                      /\ k \notin loose' =>
                           /\ inbox'[k] <= 1
                           /\ inbox'[k] = 1 => k \in recorded' \/ \E o \in Jobs : KeyOf[o] = k /\ Sent(o)'
    BY DEF KeysHold, Keys
  <2>1. inbox'[k] \in Nat /\ inbox'[k] <= Cardinality(PastJobs') + deaths'
    <3>1. inbox[k] \in Nat /\ inbox[k] <= Cardinality(PastJobs) + deaths
      BY DEF MailInv, KeysHold
    <3>2. inbox'[k] \in Nat /\ inbox'[k] <= inbox[k] + 1
      BY <1>1, <3>1
    <3> QED
      BY <1>2, <1>6, <3>1, <3>2, PastIsFinite
  <2>2. CASE k # K
    <3>1. k \notin loose' => k \notin loose
      BY <1>2
    <3>2. \A o \in Jobs : KeyOf[o] = k => o # j
      BY <2>2 DEF K
    <3> QED
      BY <1>0, <1>1, <2>1, <2>2, <3>1, <3>2 DEF MailInv, KeysHold
  <2>3. CASE k = K
    <3>1. k \notin loose' => Sent(j)' /\ k \notin loose
      BY <2>3 DEF K
    <3>2. k \notin loose => inbox[k] = 0
      <4> SUFFICES ASSUME k \notin loose, inbox[k] # 0 PROVE FALSE
        OBVIOUS
      <4>1. inbox[k] = 1
        BY <1>1 DEF MailInv, KeysHold
      <4>2. k \notin recorded /\ \A i \in Jobs : KeyOf[i] = k /\ Between(i) => i = j
        BY <2>3 DEF K, MailInv, JobsHold
      <4>3. PICK i \in Jobs : KeyOf[i] = k /\ Sent(i)
        BY <4>1, <4>2 DEF MailInv, KeysHold
      <4>4. Between(i)
        BY <4>3 DEF Sent, Between
      <4> QED
        BY <4>2, <4>3, <4>4
    <3> QED
      BY <1>1, <2>1, <2>3, <3>1, <3>2 DEF K
  <2> QED
    BY <2>2, <2>3
<1>8. RecordedWasSent'
  <2>1. \A k \in recorded : k \in Keys /\ inbox[k] > 0
    BY DEF MailInv, MailTypeOK, RecordedWasSent
  <2>2. \A k \in recorded : inbox'[k] > 0
    BY <1>1, <1>4, <2>1
  <2> QED
    BY <2>2 DEF RecordedWasSent
<1> QED
  BY <1>3, <1>5, <1>7, <1>8 DEF MailInv

LEMMA SaveKeeps ==
  ASSUME MailInv, NEW j \in Jobs, Others(j), Save(j)
  PROVE  MailInv'
<1>0. /\ \A o \in Jobs \ {j} : /\ Sent(o)' = Sent(o) /\ Past(o)' = Past(o)
                               /\ Between(o)' = Between(o)
      /\ \A o \in Jobs : KeyOf[o] \in Keys
  BY OthersStay
<1>1. /\ job[j] = "recording" /\ job'[j] \in {"raised", "recorded"}
      /\ recorded' = recorded \cup {KeyOf[j]} /\ UNCHANGED <<inbox, deaths, loose>>
  BY DEF Save, Step, MailInv, MailTypeOK
<1>2. /\ Sent(j) /\ Between(j) /\ Past(j) /\ ~ Sent(j)' /\ ~ Between(j)' /\ Past(j)'
  BY <1>1 DEF Sent, Between, Past
<1>3. MailTypeOK'
  BY <1>0, <1>1 DEF MailInv, MailTypeOK, Others
<1>4. JobsHold'
  <2> SUFFICES ASSUME NEW o \in Jobs
               PROVE  /\ Sent(o)' => inbox'[KeyOf[o]] > 0
                      /\ o \in Personal /\ job'[o] \in Early => req'[o].at = "idle"
                      /\ KeyOf[o] \notin loose' /\ Between(o)' =>
                           /\ KeyOf[o] \notin recorded'
                           /\ \A i \in Jobs : KeyOf[i] = KeyOf[o] /\ Between(i)' => i = o
    BY DEF JobsHold
  <2>1. o \in Personal /\ job'[o] \in Early => req'[o].at = "idle"
    BY <1>1 DEF MailInv, JobsHold, Others, Early
  <2> QED
    BY <1>0, <1>1, <1>2, <2>1 DEF MailInv, JobsHold
<1>5. PastJobs' = PastJobs
  BY <1>0, <1>2 DEF PastJobs
<1>6. KeysHold'
  BY <1>0, <1>1, <1>2, <1>5 DEF MailInv, KeysHold, Keys
<1>7. RecordedWasSent'
  BY <1>0, <1>1, <1>2 DEF MailInv, RecordedWasSent, JobsHold
<1> QED
  BY <1>3, <1>4, <1>6, <1>7 DEF MailInv

(* A step outside the jobs, which leaves their requests alone. *)
LEMMA MailFrame ==
  ASSUME MailInv, UNCHANGED mailVars,
         req' \in [Requests -> [at: Phases, row: {None} \cup DOMAIN creds']],
         \A o \in Personal : req'[o] = req[o]
  PROVE  MailInv'
<1>1. \A o \in Jobs : /\ Sent(o)' = Sent(o) /\ Past(o)' = Past(o) /\ Between(o)' = Between(o)
  BY DEF mailVars, Sent, Past, Between
<1>2. PastJobs' = PastJobs
  BY <1>1 DEF PastJobs
<1>3. MailTypeOK'
  BY DEF MailInv, MailTypeOK, mailVars
<1>4. JobsHold'
  BY <1>1 DEF MailInv, JobsHold, mailVars
<1>5. KeysHold'
  BY <1>1, <1>2 DEF MailInv, KeysHold, mailVars, Keys
<1>6. RecordedWasSent'
  BY DEF MailInv, RecordedWasSent, mailVars
<1> QED
  BY <1>3, <1>4, <1>5, <1>6 DEF MailInv

LEMMA OnlyItsOwn ==
  ASSUME GTypeOK, NEW q \in Requests,
         PreCall(q) \/ CrashRequest(q) \/ \E sent \in BOOLEAN : CallGoogle(q, sent)
  PROVE  \A o \in Requests \ {q} : req'[o] = req[o]
BY DEF PreCall, LoadCreds, RefreshRefused, RefreshAnswered, RefreshFails, update_tokens,
       mark_revoked, CrashRequest, CallGoogle, Goes, GTypeOK

IInv == GInv /\ MailInv

LEMMA SendPersonalKeeps ==
  ASSUME IInv, NEW j \in Jobs, SendPersonal(j)
  PROVE  IInv'
<1>0. /\ j \in Personal /\ j \in Requests /\ job[j] = "sending" /\ Between(j)
      /\ GInv /\ MailInv /\ GTypeOK
      /\ req \in [Requests -> [at: Phases, row: {None} \cup DOMAIN creds]]
      /\ job \in [Jobs -> JobPhases] /\ KeyOf[j] \in Keys /\ loose \subseteq Keys
  BY EmailAssumption DEF IInv, SendPersonal, Between, GInv, GTypeOK, MailInv, MailTypeOK, Keys
<1>1. CASE PreCall(j) /\ UNCHANGED mailVars
  <2>1. GInv'
    BY <1>0, <1>1, PreCallKeepsG
  <2>2. req' \in [Requests -> [at: Phases, row: {None} \cup DOMAIN creds']]
    BY <2>1 DEF GInv, GTypeOK
  <2>3. Others(j)
    BY <1>0, <1>1, <2>2, OnlyItsOwn, EmailAssumption DEF Others, mailVars
  <2>4. ~ Sent(j) /\ ~ Sent(j)' /\ ~ Past(j) /\ Between(j)'
    BY <1>0, <1>1
    DEF PreCall, LoadCreds, RefreshRefused, RefreshAnswered, RefreshFails, update_tokens,
        mark_revoked, Goes, Sent, Past, Between, mailVars, GTypeOK
  <2>5. MailInv'
    BY <1>0, <1>1, <2>3, <2>4, QuietKeeps DEF mailVars, Early
  <2> QED
    BY <2>1, <2>5 DEF IInv
<1>2. ASSUME NEW sent \in BOOLEAN, CallGoogle(j, sent),
             IF sent THEN Deliver(j) ELSE UNCHANGED inbox,
             IF sent /\ req'[j].at # "sent" THEN Loose(j) ELSE UNCHANGED loose,
             UNCHANGED <<job, recorded, deaths>>
      PROVE  IInv'
  <2>1. GInv'
    BY <1>0, <1>2, CallKeepsG
  <2>2. req' \in [Requests -> [at: Phases, row: {None} \cup DOMAIN creds']]
    BY <2>1 DEF GInv, GTypeOK
  <2>3. Others(j)
    BY <1>0, <1>2, <2>2, OnlyItsOwn, EmailAssumption DEF Others
  <2>4. /\ req[j].at = "ready" /\ req'[j].at \in {"sent", "revoked", "failed"}
        /\ ~ sent => req'[j].at # "sent"
    BY <1>0, <1>2 DEF CallGoogle, Goes
  <2>5. /\ ~ Sent(j) /\ ~ Past(j) /\ Past(j)' /\ Between(j)'
        /\ Sent(j)' <=> req'[j].at = "sent"
        /\ job'[j] = "sending"
    BY <1>0, <1>2, <2>4 DEF Sent, Past, Between
  <2>6. ASSUME sent PROVE MailInv'
    BY <1>0, <1>2, <2>3, <2>5, <2>6, SendKeeps DEF Loose, Early
  <2>7. ASSUME ~ sent PROVE MailInv'
    BY <1>0, <1>2, <2>3, <2>4, <2>5, <2>7, QuietKeeps DEF Early
  <2>8. MailInv'
    BY <2>6, <2>7
  <2> QED
    BY <2>1, <2>8 DEF IInv
<1>3. CASE /\ req[j].at \in {"sent", "revoked", "failed"}
           /\ Step(j, "sending", IF req[j].at = "sent" THEN "recording" ELSE "send_failed")
           /\ UNCHANGED <<gVars, recorded, inbox, deaths, loose>>
  <2>1. GInv'
    BY <1>0, <1>3, GFrame DEF gVars
  <2>2. Others(j)
    BY <1>0, <1>3, EmailAssumption DEF Others, Step, gVars, JobPhases
  <2>3. /\ job'[j] = IF req[j].at = "sent" THEN "recording" ELSE "send_failed"
        /\ req' = req
    BY <1>0, <1>3 DEF Step, gVars
  <2>4. (Sent(j) <=> Sent(j)') /\ Past(j)' /\ job'[j] \notin Early
    BY <1>0, <1>3, <2>3 DEF Sent, Past, Early
  <2>5. MailInv'
    BY <1>0, <1>3, <2>2, <2>4, QuietKeeps
  <2> QED
    BY <2>1, <2>5 DEF IInv
<1> QED
  BY <1>1, <1>2, <1>3 DEF SendPersonal

LEMMA DelivererKeeps ==
  ASSUME IInv, NEW j \in Jobs, Deliverer(j) \/ Die(j)
  PROVE  IInv'
<1>0. /\ GInv /\ MailInv /\ GTypeOK
      /\ req \in [Requests -> [at: Phases, row: {None} \cup DOMAIN creds]]
      /\ job \in [Jobs -> JobPhases] /\ KeyOf[j] \in Keys /\ loose \subseteq Keys
      /\ Personal \subseteq Requests
  BY EmailAssumption DEF IInv, GInv, GTypeOK, MailInv, MailTypeOK, Keys
<1>1. CASE Preflight(j)
  <2>1. /\ job[j] = "queued" /\ job'[j] \in {"disconnected", "checking"} /\ Others(j)
        /\ UNCHANGED <<gVars, recorded, inbox, deaths, loose>> /\ req' = req
    BY <1>0, <1>1 DEF Preflight, Step, Others, gVars, JobPhases
  <2>2. ~ Sent(j) /\ ~ Sent(j)' /\ ~ Past(j) /\ ~ Between(j)'
        /\ (j \in Personal => req'[j].at = "idle")
    BY <1>0, <2>1 DEF Sent, Past, Between, MailInv, JobsHold, Early
  <2>3. MailInv'
    BY <1>0, <2>1, <2>2, QuietKeeps
  <2> QED
    BY <1>0, <2>1, <2>3, GFrame DEF gVars, IInv
<1>2. CASE Check(j)
  <2>1. /\ job[j] = "checking" /\ Others(j)
        /\ job'[j] = IF KeyOf[j] \in recorded THEN "already_sent" ELSE "composing"
        /\ UNCHANGED <<gVars, recorded, inbox, deaths>> /\ req' = req
        /\ loose \subseteq loose' /\ loose' \subseteq Keys
        /\ KeyOf[j] \notin loose' =>
             \A i \in Jobs \ {j} : ~ (KeyOf[i] = KeyOf[j] /\ Between(i))
    BY <1>0, <1>2 DEF Check, Step, Others, gVars, JobPhases, Loose
  <2>2. ~ Sent(j) /\ ~ Sent(j)' /\ ~ Past(j) /\ (Between(j)' => KeyOf[j] \notin recorded)
        /\ (j \in Personal => req'[j].at = "idle")
    BY <1>0, <2>1 DEF Sent, Past, Between, MailInv, JobsHold, Early
  <2>3. MailInv'
    BY <1>0, <2>1, <2>2, QuietKeeps
  <2> QED
    BY <1>0, <2>1, <2>3, GFrame DEF gVars, IInv
<1>3. CASE Compose(j)
  <2>1. /\ job[j] = "composing" /\ Others(j)
        /\ job'[j] \in {"sending", "artifact_load_failed"}
        /\ Fault \/ UNCHANGED faults
        /\ UNCHANGED <<creds, granted, req, stale, ended, refused, troubled, recorded,
                       inbox, deaths, loose>>
    BY <1>0, <1>3 DEF Compose, Step, Others, JobPhases
  <2>2. ~ Sent(j) /\ ~ Sent(j)' /\ ~ Past(j) /\ Between(j) /\ job'[j] \notin Early
    BY <1>0, <2>1 DEF Sent, Past, Between, MailInv, JobsHold, Early
  <2>3. MailInv'
    BY <1>0, <2>1, <2>2, QuietKeeps
  <2> QED
    BY <1>0, <2>1, <2>3, GFrame DEF IInv
<1>4. CASE SendOwn(j)
  <2>1. /\ j \notin Personal /\ job[j] = "sending" /\ Others(j)
        /\ job'[j] \in {"recording", "send_failed"}
        /\ Fault \/ UNCHANGED faults
        /\ UNCHANGED <<creds, granted, req, stale, ended, refused, troubled, recorded, deaths>>
        /\ \/ Deliver(j) /\ job'[j] = "recording" /\ UNCHANGED loose
           \/ Deliver(j) /\ job'[j] = "send_failed" /\ Loose(j)
           \/ UNCHANGED <<inbox, loose>> /\ job'[j] = "send_failed"
    BY <1>0, <1>4 DEF SendOwn, Step, Others, JobPhases
  <2>2. /\ ~ Sent(j) /\ ~ Past(j) /\ Past(j)' /\ Between(j) /\ job'[j] \notin Early
        /\ Sent(j)' <=> job'[j] = "recording"
    BY <2>1 DEF Sent, Past, Between, Early
  <2>3. ASSUME Deliver(j) PROVE MailInv'
    <3>1. (Sent(j)' /\ loose' = loose) \/ (~ Sent(j)' /\ loose' = loose \cup {KeyOf[j]})
          \/ UNCHANGED <<inbox, loose>>
      BY <2>1, <2>2 DEF Loose
    <3>2. CASE (Sent(j)' /\ loose' = loose) \/ (~ Sent(j)' /\ loose' = loose \cup {KeyOf[j]})
      BY <1>0, <2>1, <2>2, <2>3, <3>2, SendKeeps
    <3>3. CASE UNCHANGED <<inbox, loose>>
      <4>1. inbox[KeyOf[j]] \in Nat /\ inbox'[KeyOf[j]] = inbox[KeyOf[j]] + 1
        BY <1>0, <2>3 DEF Deliver, MailInv, MailTypeOK
      <4> QED
        BY <3>3, <4>1
    <3> QED
      BY <3>1, <3>2, <3>3
  <2>4. ASSUME UNCHANGED <<inbox, loose>>, job'[j] = "send_failed" PROVE MailInv'
    BY <1>0, <2>1, <2>2, <2>4, QuietKeeps
  <2>5. MailInv'
    BY <2>1, <2>3, <2>4
  <2> QED
    BY <1>0, <2>1, <2>5, GFrame DEF IInv
<1>5. CASE SendPersonal(j)
  BY <1>5, SendPersonalKeeps
<1>6. CASE Save(j)
  <2>1. Others(j) /\ UNCHANGED gVars
    BY <1>0, <1>6 DEF Save, Step, Others, gVars, JobPhases
  <2> QED
    BY <1>0, <1>6, <2>1, SaveKeeps, GFrame DEF gVars, IInv
<1>7. CASE Die(j)
  <2>1. /\ job'[j] = "queued" /\ deaths' = deaths + 1 /\ deaths' \in 0..MaxDeaths
        /\ UNCHANGED <<creds, granted, faults, stale, ended, refused, troubled, recorded, inbox>>
        /\ Sent(j) => loose' = loose \cup {KeyOf[j]}
        /\ loose' = loose \/ loose' = loose \cup {KeyOf[j]}
    BY <1>0, <1>7, EmailAssumption DEF Die, Loose, Sent, MailInv, MailTypeOK
  <2>2. req' = IF j \in Personal THEN [req EXCEPT ![j] = Idle] ELSE req
    BY <1>7 DEF Die
  <2>3. Idle \in [at: Phases, row: {None} \cup DOMAIN creds] /\ Idle.at = "idle"
    BY DEF Idle, Phases
  <2>4. GInv'
    <3>1. CASE j \in Personal
      BY <1>0, <2>1, <2>2, <2>3, <3>1, RequestKeepsG DEF GInv, GTypeOK
    <3>2. CASE j \notin Personal
      BY <1>0, <2>1, <2>2, <3>2, GFrame
    <3> QED
      BY <3>1, <3>2
  <2>5. Others(j) /\ (j \in Personal => req'[j].at = "idle")
    <3>1. req' \in [Requests -> [at: Phases, row: {None} \cup DOMAIN creds']]
      BY <2>4 DEF GInv, GTypeOK
    <3>2. job' \in [Jobs -> JobPhases] /\ \A o \in Jobs \ {j} : job'[o] = job[o]
      BY <1>0, <1>7 DEF Die, JobPhases
    <3>3. /\ \A o \in Jobs \ {j} : o \in Personal => req'[o] = req[o]
          /\ j \in Personal => req'[j].at = "idle"
      BY <1>0, <2>2, <2>3
    <3> QED
      BY <3>1, <3>2, <3>3 DEF Others
  <2>6. ~ Sent(j)' /\ ~ Between(j)'
    BY <2>1 DEF Sent, Between
  <2>7. MailInv'
    BY <1>0, <2>1, <2>5, <2>6, QuietKeeps
  <2> QED
    BY <2>4, <2>7 DEF IInv
<1> QED
  BY <1>1, <1>2, <1>3, <1>4, <1>5, <1>6, <1>7 DEF Deliverer

-----------------------------------------------------------------------------
LEMMA Initially == Init => IInv
<1> SUFFICES ASSUME Init PROVE IInv
  OBVIOUS
<1>1. GInv
  BY ConnectorAssumption
  DEF Init, GInit, GInv, GTypeOK, ConnectionServes, EndedStaysEnded, RevokedForCause,
      HealthyIsSent, RequestsHold, Idle, Phases
<1>2. \A j \in Jobs : ~ Sent(j) /\ ~ Past(j) /\ ~ Between(j)
  BY DEF Init, Sent, Past, Between
<1>3. MailTypeOK
  BY <1>1, EmailAssumption DEF Init, MailTypeOK, JobPhases, GInv, GTypeOK
<1>4. JobsHold
  BY <1>2, EmailAssumption DEF Init, GInit, JobsHold, Idle
<1>5. KeysHold
  BY PastIsFinite DEF Init, KeysHold
<1> QED
  BY <1>1, <1>3, <1>4, <1>5 DEF IInv, MailInv, Init, RecordedWasSent

LEMMA EveryStep == IInv /\ [Next]_vars => IInv'
<1> SUFFICES ASSUME IInv, [Next]_vars PROVE IInv'
  OBVIOUS
<1>0. GInv /\ MailInv /\ GTypeOK /\ Personal \subseteq Requests
  BY EmailAssumption DEF IInv, GInv
<1>1. CASE Settings /\ UNCHANGED mailVars
  <2>1. GInv'
    BY <1>0, <1>1, SettingsKeepG
  <2>2. req' = req
    BY <1>1 DEF Settings, handle_callback, RevokeAtGoogle, disconnect_integration, RunOut
  <2> QED
    BY <1>0, <1>1, <2>1, <2>2, MailFrame DEF IInv, GInv, GTypeOK
<1>2. CASE \E q \in Plain : Other(q)
  <2> PICK q \in Plain : Other(q)
    BY <1>2
  <2>1. q \in Requests /\ q \notin Personal
    BY DEF Plain
  <2>2. GInv'
    BY <1>0, <2>1, PreCallKeepsG, CallKeepsG DEF Other
  <2>3. \A o \in Personal : req'[o] = req[o]
    BY <1>0, <2>1, OnlyItsOwn DEF Other
  <2> QED
    BY <1>0, <2>2, <2>3, MailFrame DEF Other, IInv, GInv, GTypeOK
<1>3. CASE \E j \in Jobs : Deliverer(j) \/ Die(j)
  BY <1>3, DelivererKeeps
<1>4. CASE UNCHANGED vars
  <2>1. GInv'
    BY <1>0, <1>4, GFrame DEF vars, gVars
  <2> QED
    BY <1>0, <1>4, <2>1, MailFrame DEF IInv, vars, gVars, GInv, GTypeOK
<1> QED
  BY <1>1, <1>2, <1>3, <1>4 DEF Next

(* The inductive invariant of the connection and the mails. *)
THEOREM Invariance == Spec => []IInv
BY Initially, EveryStep, PTL DEF Spec

(* A connection that works is neither lost nor passed over, and one that    *)
(* was ended does not come back (connectors/base.py:200-260).               *)
THEOREM ConnectionHolds == Spec => []ConnectionServes
<1>1. IInv => ConnectionServes
  BY DEF IInv, GInv
<1> QED
  BY <1>1, Invariance, PTL

(* A mail is sent once for its key unless a run ended between the send and  *)
(* the record or two runs overlapped, and what is recorded was sent         *)
(* (email_delivery.py:181-190, :266-281).                                   *)
THEOREM MailsHold == Spec => []MailsAddUp
<1>1. IInv => MailsAddUp
  <2> SUFFICES ASSUME IInv PROVE MailsAddUp
    OBVIOUS
  <2>1. inbox \in [Keys -> 0..(Cardinality(Jobs) + MaxDeaths)]
    <3>1. \A k \in Keys : inbox[k] \in Nat /\ inbox[k] <= Cardinality(PastJobs) + deaths
      BY DEF IInv, MailInv, KeysHold
    <3>2. deaths \in 0..MaxDeaths /\ MaxDeaths \in Nat /\ inbox \in [Keys -> Nat]
      BY EmailAssumption DEF IInv, MailInv, MailTypeOK
    <3>3. \A k \in Keys : inbox[k] \in 0..(Cardinality(Jobs) + MaxDeaths)
      BY <3>1, <3>2, PastIsFinite
    <3> QED
      BY <3>2, <3>3
  <2>2. TypeOK
    BY <2>1 DEF IInv, GInv, MailInv, MailTypeOK, TypeOK
  <2>3. SentOnce /\ RecordedWasSent
    BY DEF IInv, MailInv, KeysHold, SentOnce
  <2> QED
    BY <2>2, <2>3 DEF MailsAddUp
<1> QED
  BY <1>1, Invariance, PTL
=============================================================================
