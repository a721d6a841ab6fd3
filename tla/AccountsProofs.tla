---------------------------- MODULE AccountsProofs ----------------------------
(***************************************************************************)
(* Theorems about accounts and their refresh tokens, for any users,        *)
(* tokens, refreshes and signups.  The tokens' invariant comes first: a    *)
(* refresh works on what it read before, so it must say what a checked     *)
(* token still is when nothing raced with the refresh.                     *)
(***************************************************************************)
EXTENDS Provisioning, FiniteSetTheorems, TLAPS

(* Parents are stored tokens. *)
Rooted == \A c \in Stored : rows[c].parent \in Stored \cup {NoToken}

(* What a refresh has checked is stored; unless something met it there, it  *)
(* is still live and no other refresh has checked it.                       *)
ChecksHold ==
  \A r \in Requests : reqs[r].pc = "checked" =>
    /\ reqs[r].tok \in Stored
    /\ reqs[r].tok \notin raced =>
         /\ reqs[r].tok \in Live
         /\ \A q \in Requests :
              reqs[q].pc = "checked" /\ reqs[q].tok = reqs[r].tok => q = r

(* What a refresh is about to answer with is a token. *)
Answerable == \A r \in Requests : reqs[r].pc = "stored" => reqs[r].new \in Tokens

AuthInv ==
  /\ AuthTypeOK /\ Rooted /\ ChecksHold /\ Answerable
  /\ ParentsAreRevoked /\ SpentOnce

(* Where a signup stands tells what it has bought and made. *)
StagesHold ==
  \A s \in Signups :
    /\ pc[s] \in {"start", "free"} => ws[s].state = "none" /\ s \notin bought
    /\ pc[s] \in {"flushed", "schema"} => s \in bought
    /\ pc[s] = "schema" => s \in schema
    /\ pc[s] \in {"rows", "flushed", "schema"} => ws[s].state # "none"

IInv ==
  /\ TypeOK /\ AuthInv /\ StagesHold
  /\ ReadyIsComplete /\ PaidIsKept /\ OneAccountPerAddress

-----------------------------------------------------------------------------
(* Tables of tokens *)

LEMMA Revoked ==
  ASSUME AuthTypeOK, NEW ts, NEW reason \in {"rotated", "logout", "reuse_detected"},
         rows' = Revoke(rows, ts, reason)
  PROVE  /\ rows' \in [Tokens -> Row]
         /\ Stored' = Stored
         /\ Live' = Live \ ts
         /\ \A t \in Tokens : rows'[t].parent = rows[t].parent
         /\ \A t \in Tokens : t \notin Live => rows'[t] = rows[t]
         /\ \A t \in Tokens : Children(t)' = Children(t)
<1>1. \A t \in Tokens :
        rows'[t] = IF t \in ts /\ rows[t].fate = "live"
                   THEN [rows[t] EXCEPT !.fate = reason] ELSE rows[t]
  BY DEF Revoke
<1>2. \A t \in Tokens : rows[t] \in Row
  BY DEF AuthTypeOK
<1>3. \A t \in Tokens :
        /\ rows'[t] \in Row
        /\ rows'[t].parent = rows[t].parent
        /\ rows'[t].fate = IF t \in ts /\ rows[t].fate = "live" THEN reason ELSE rows[t].fate
  BY <1>1, <1>2 DEF Row, Fates
<1>4. rows' \in [Tokens -> Row]
  BY <1>3 DEF Revoke
<1>5. Stored' = Stored /\ Live' = Live \ ts
  BY <1>3 DEF Stored, Live
<1>6. \A t \in Tokens : Children(t)' = Children(t)
  BY <1>3, <1>5 DEF Children, Stored
<1> QED
  BY <1>1, <1>3, <1>4, <1>5, <1>6 DEF Live

(* A revocation keeps the tokens' invariant when every checked token that   *)
(* it hits is said to be raced, or its refresh is over.                     *)
LEMMA RevokeKeeps ==
  ASSUME AuthInv, NEW ts, NEW reason \in {"rotated", "logout", "reuse_detected"},
         rows' = Revoke(rows, ts, reason),
         raced' \in SUBSET Tokens, raced \subseteq raced',
         \A r \in Requests : reqs'[r].pc \in {"checked", "stored"} => reqs'[r] = reqs[r],
         \A r \in Requests : reqs'[r].pc = "checked" /\ reqs'[r].tok \in ts
                             => reqs'[r].tok \in raced',
         held' = held, expired' = expired, reqs' \in [Requests -> Request]
  PROVE  AuthInv'
<1>1. /\ rows' \in [Tokens -> Row]
      /\ Stored' = Stored
      /\ Live' = Live \ ts
      /\ \A t \in Tokens : rows'[t].parent = rows[t].parent
      /\ \A t \in Tokens : t \notin Live => rows'[t] = rows[t]
      /\ \A t \in Tokens : Children(t)' = Children(t)
  BY Revoked DEF AuthInv
<1>2. Stored \subseteq Tokens /\ Live \subseteq Tokens
  BY DEF Stored, Live
<1>3. AuthTypeOK'
  BY <1>1 DEF AuthInv, AuthTypeOK
<1>4. Rooted'
  BY <1>1, <1>2 DEF AuthInv, Rooted
<1>5. ChecksHold'
  BY <1>1, <1>2 DEF AuthInv, ChecksHold
<1>51. Answerable'
  BY DEF AuthInv, Answerable
<1>6. ParentsAreRevoked'
  BY <1>1, <1>2 DEF AuthInv, ParentsAreRevoked
<1>7. SpentOnce'
  <2> SUFFICES ASSUME NEW t \in (Stored \ raced)', Children(t)' # {}
               PROVE  rows'[t].fate = "rotated" /\ Cardinality(Children(t)') = 1
    BY DEF SpentOnce
  <2>1. t \in Stored \ raced /\ t \in Tokens /\ Children(t) # {}
    BY <1>1, <1>2
  <2>2. t \notin Live
    BY <2>1 DEF AuthInv, ParentsAreRevoked
  <2> QED
    BY <1>1, <2>1, <2>2 DEF AuthInv, SpentOnce
<1> QED
  BY <1>3, <1>4, <1>5, <1>51, <1>6, <1>7 DEF AuthInv

(* A new row of a fresh token, whose parent (if it has one) is being rotated. *)
LEMMA Recorded ==
  ASSUME AuthTypeOK, NEW t \in Tokens, t \notin Stored,
         NEW table \in [Tokens -> Row], NEW u \in Users \cup {NoToken},
         NEW parent \in Tokens \cup {NoToken},
         rows' = Record(table, t, u, parent)
  PROVE  /\ rows' \in [Tokens -> Row]
         /\ rows'[t].fate = "live" /\ rows'[t].parent = parent
         /\ \A o \in Tokens \ {t} : rows'[o] = table[o]
BY DEF Record, Row, Fates

-----------------------------------------------------------------------------
(* The tokens' steps *)

LEMMA RotateKeepsInv ==
  ASSUME AuthInv, NEW r \in Requests, NEW t \in Tokens, Rotate(r, t)
  PROVE  AuthInv'
<1> DEFINE old == reqs[r].tok
           table == Revoke(rows, {old}, "rotated")
<1>1. /\ old \in Stored /\ old \in Tokens /\ t \notin Stored /\ t # old
      /\ rows[old].user \in Users \cup {NoToken}
  BY DEF AuthInv, AuthTypeOK, ChecksHold, Rotate, Fresh, Stored, Row
<1>2. table \in [Tokens -> Row]
  BY DEF AuthInv, AuthTypeOK, Revoke, Row, Fates
<1>3. \A o \in Tokens :
        /\ table[o].parent = rows[o].parent
        /\ table[o].fate = IF o = old /\ rows[o].fate = "live"
                           THEN "rotated" ELSE rows[o].fate
  BY DEF AuthInv, AuthTypeOK, Revoke, Row
<1>4. /\ rows' \in [Tokens -> Row]
      /\ rows'[t].fate = "live" /\ rows'[t].parent = old
      /\ \A o \in Tokens \ {t} : rows'[o] = table[o]
  <2>1. rows' = Record(table, t, rows[old].user, old)
    BY DEF Rotate
  <2> QED
    BY <1>1, <1>2, <2>1, Recorded DEF AuthInv
<1>5. Stored' = Stored \cup {t} /\ Live' = (Live \ {old}) \cup {t}
  <2>1. \A o \in Tokens :
          rows'[o].fate = IF o = t THEN "live"
                          ELSE IF o = old /\ rows[o].fate = "live" THEN "rotated"
                          ELSE rows[o].fate
    BY <1>1, <1>3, <1>4
  <2>2. \A o \in Tokens : rows'[o].fate # "none" <=> o = t \/ rows[o].fate # "none"
    BY <2>1
  <2>3. \A o \in Tokens :
          rows'[o].fate = "live" <=> o = t \/ (o # old /\ rows[o].fate = "live")
    BY <1>1, <2>1
  <2> HIDE DEF old, table
  <2>4. Stored' = Stored \cup {t}
    BY <2>2 DEF Stored
  <2>5. Live' = (Live \ {old}) \cup {t}
    BY <2>3 DEF Live
  <2> QED
    BY <2>4, <2>5
<1>6. \A o \in Tokens : Children(o)' = IF o = old THEN Children(o) \cup {t} ELSE Children(o)
  <2>1. /\ rows'[t].parent = old
        /\ \A c \in Stored : rows'[c].parent = rows[c].parent
    BY <1>1, <1>3, <1>4 DEF Stored
  <2> HIDE DEF old, table
  <2> QED
    BY <1>5, <2>1 DEF Children
<1>7. /\ reqs[r].pc = "checked" /\ raced' = raced /\ held' = held /\ expired' = expired
      /\ \A q \in Requests : reqs'[q].pc = "checked" => q # r /\ reqs'[q] = reqs[q]
      /\ \A q \in Requests \ {r} : reqs'[q] = reqs[q]
      /\ reqs'[r].new = t
      /\ reqs' \in [Requests -> Request]
  BY <1>1 DEF Rotate, Goto, AuthInv, AuthTypeOK, Request
<1>8. Children(t) = {}
  BY <1>1, NoTokenAssumption DEF AuthInv, Rooted, Children
<1>9. AuthTypeOK'
  BY <1>4, <1>7 DEF AuthInv, AuthTypeOK
<1>10. Rooted'
  <2>1. \A c \in Stored : rows'[c].parent = rows[c].parent
    BY <1>1, <1>3, <1>4 DEF Stored
  <2> QED
    BY <1>1, <1>4, <1>5, <2>1 DEF AuthInv, Rooted
<1>11. ChecksHold'
  <2> SUFFICES ASSUME NEW q \in Requests, reqs'[q].pc = "checked"
               PROVE  /\ reqs'[q].tok \in Stored'
                      /\ reqs'[q].tok \notin raced' =>
                           /\ reqs'[q].tok \in Live'
                           /\ \A p \in Requests :
                                reqs'[p].pc = "checked" /\ reqs'[p].tok = reqs'[q].tok => p = q
    BY DEF ChecksHold
  <2>1. q # r /\ reqs'[q] = reqs[q] /\ reqs[q].tok \in Stored
    BY <1>7 DEF AuthInv, ChecksHold
  <2>2. reqs[q].tok \notin raced =>
          /\ reqs[q].tok \in Live /\ reqs[q].tok # old
          /\ \A p \in Requests : reqs[p].pc = "checked" /\ reqs[p].tok = reqs[q].tok => p = q
    BY <1>7, <2>1 DEF AuthInv, ChecksHold
  <2> QED
    BY <1>5, <1>7, <2>1, <2>2
<1>111. Answerable'
  BY <1>7 DEF AuthInv, Answerable
<1>12. ParentsAreRevoked'
  BY <1>1, <1>5, <1>6, <1>8 DEF AuthInv, ParentsAreRevoked, Live
<1>13. SpentOnce'
  <2> SUFFICES ASSUME NEW o \in (Stored \ raced)', Children(o)' # {}
               PROVE  rows'[o].fate = "rotated" /\ Cardinality(Children(o)') = 1
    BY DEF SpentOnce
  <2>1. o \in Tokens /\ o # t /\ o \in Stored \ raced
    BY <1>5, <1>6, <1>7, <1>8, <1>1 DEF Stored
  <2>2. CASE o = old
    <3>1. o \in Live /\ Children(o) = {}
      BY <1>7, <2>1, <2>2 DEF AuthInv, ChecksHold, ParentsAreRevoked
    <3>2. Children(o)' = {t}
      BY <1>1, <1>6, <2>2, <3>1
    <3>3. rows'[o].fate = "rotated"
      BY <1>3, <1>4, <2>1, <2>2, <3>1 DEF Live
    <3> QED
      BY <3>2, <3>3, FS_Singleton
  <2>3. CASE o # old
    BY <1>3, <1>4, <1>6, <2>1, <2>3 DEF AuthInv, SpentOnce
  <2> QED
    BY <2>2, <2>3
<1> QED
  BY <1>9, <1>10, <1>11, <1>111, <1>12, <1>13 DEF AuthInv

(* A first token of a pair is recorded: it has no parent. *)
LEMMA IssueKeepsInv ==
  ASSUME AuthInv, NEW t \in Fresh, NEW u \in Users,
         rows' = Record(rows, t, u, NoToken), held' = held \cup {t},
         UNCHANGED <<expired, reqs, raced>>
  PROVE  AuthInv'
<1>1. t \in Tokens /\ t \notin Stored
  BY DEF Fresh
<1>2. /\ rows' \in [Tokens -> Row]
      /\ rows'[t].fate = "live" /\ rows'[t].parent = NoToken
      /\ \A o \in Tokens \ {t} : rows'[o] = rows[o]
  BY <1>1, Recorded DEF AuthInv, AuthTypeOK
<1>3. Stored' = Stored \cup {t} /\ Live' = Live \cup {t}
  BY <1>1, <1>2 DEF Stored, Live
<1>4. \A o \in Tokens : Children(o)' = Children(o)
  BY <1>1, <1>2, <1>3, NoTokenAssumption DEF Children, Stored
<1>5. Children(t) = {}
  BY <1>1, NoTokenAssumption DEF AuthInv, Rooted, Children
<1>6. AuthTypeOK'
  BY <1>1, <1>2 DEF AuthInv, AuthTypeOK
<1>7. Rooted'
  BY <1>1, <1>2, <1>3 DEF AuthInv, Rooted, Stored
<1>8. ChecksHold'
  BY <1>1, <1>3 DEF AuthInv, ChecksHold
<1>9. ParentsAreRevoked'
  BY <1>1, <1>3, <1>4, <1>5 DEF AuthInv, ParentsAreRevoked, Live
<1>10. SpentOnce'
  BY <1>1, <1>2, <1>3, <1>4, <1>5 DEF AuthInv, SpentOnce, Stored
<1> QED
  BY <1>6, <1>7, <1>8, <1>9, <1>10 DEF AuthInv, Answerable

(* A step that leaves the table of tokens and the refreshes alone. *)
LEMMA HeldKeepsInv ==
  ASSUME AuthInv, UNCHANGED <<rows, reqs, raced>>,
         held' \in SUBSET Tokens, held \subseteq held', expired' \in SUBSET held'
  PROVE  AuthInv'
<1>1. Stored' = Stored /\ Live' = Live /\ \A o \in Tokens : Children(o)' = Children(o)
  BY DEF Stored, Live, Children
<1>2. AuthTypeOK'
  BY DEF AuthInv, AuthTypeOK
<1>3. Rooted' /\ ChecksHold' /\ Answerable'
  BY <1>1 DEF AuthInv, Rooted, ChecksHold, Answerable
<1>4. ParentsAreRevoked' /\ SpentOnce'
  BY <1>1 DEF AuthInv, ParentsAreRevoked, SpentOnce, Live, Stored
<1> QED
  BY <1>2, <1>3, <1>4 DEF AuthInv

(* A refresh reads: what it met there is raced from then on. *)
LEMMA ReadKeepsInv ==
  ASSUME AuthInv, NEW r \in Requests, NEW t \in Tokens, RefreshRead(r, t)
  PROVE  AuthInv'
<1>1. /\ reqs' \in [Requests -> Request]
      /\ \A q \in Requests \ {r} : reqs'[q] = reqs[q]
      /\ reqs'[r].pc = "checked" => reqs'[r].tok = t /\ rows[t].fate = "live"
      /\ reqs[r].pc = "idle" /\ reqs'[r].pc # "stored"
  BY DEF RefreshRead, Goto, AuthInv, AuthTypeOK, Request, Row, Fates
<1>2. Stored' = Stored /\ Live' = Live /\ \A o \in Tokens : Children(o)' = Children(o)
  BY DEF RefreshRead, Stored, Live, Children
<1>3. /\ raced' \in SUBSET Tokens /\ raced \subseteq raced'
      /\ t \notin raced' => \A q \in Requests : reqs[q].pc = "checked" => reqs[q].tok # t
  BY DEF RefreshRead, Checking, AuthInv, AuthTypeOK
<1>4. AuthTypeOK' /\ Rooted' /\ ParentsAreRevoked'
  BY <1>1, <1>2, <1>3 DEF RefreshRead, AuthInv, AuthTypeOK, Rooted, ParentsAreRevoked, Live
<1>5. ChecksHold' /\ Answerable'
  BY <1>1, <1>2, <1>3 DEF AuthInv, ChecksHold, Answerable, Live, Stored
<1>6. SpentOnce'
  BY <1>2, <1>3 DEF RefreshRead, AuthInv, SpentOnce, Stored
<1> QED
  BY <1>4, <1>5, <1>6 DEF AuthInv

LEMMA AnswerKeepsInv ==
  ASSUME AuthInv, NEW r \in Requests, Answer(r)
  PROVE  AuthInv'
<1>1. /\ reqs' \in [Requests -> Request]
      /\ \A q \in Requests : reqs'[q].pc \in {"checked", "stored"} => reqs'[q] = reqs[q]
  BY DEF Answer, Goto, AuthInv, AuthTypeOK, Request
<1>2. Stored' = Stored /\ Live' = Live /\ \A o \in Tokens : Children(o)' = Children(o)
  BY DEF Answer, Stored, Live, Children
<1>3. held' \in SUBSET Tokens /\ held \subseteq held'
  BY DEF Answer, Answerable, AuthInv, AuthTypeOK
<1>4. AuthTypeOK' /\ Rooted' /\ ParentsAreRevoked'
  BY <1>1, <1>2, <1>3 DEF Answer, AuthInv, AuthTypeOK, Rooted, ParentsAreRevoked, Live
<1>5. ChecksHold' /\ Answerable'
  BY <1>1, <1>2 DEF Answer, AuthInv, ChecksHold, Answerable
<1>6. SpentOnce'
  BY <1>2 DEF Answer, AuthInv, SpentOnce, Stored
<1> QED
  BY <1>4, <1>5, <1>6 DEF AuthInv

LEMMA AuthSteps ==
  ASSUME AuthInv, AuthNext
  PROVE  AuthInv'
<1>1. CASE \E t \in Tokens : Logout(t)
  <2> PICK t \in Tokens : Logout(t)
    BY <1>1
  <2>1. /\ raced' \in SUBSET Tokens /\ raced \subseteq raced'
        /\ \A r \in Requests : reqs[r].pc = "checked" /\ reqs[r].tok \in {t} => t \in raced'
    BY DEF Logout, Checking, AuthInv, AuthTypeOK
  <2>2. rows' = Revoke(rows, {t}, "logout") /\ UNCHANGED <<held, expired, reqs>>
    BY DEF Logout
  <2>3. reqs' \in [Requests -> Request]
    BY <2>2 DEF AuthInv, AuthTypeOK
  <2> QED
    BY <2>1, <2>2, <2>3, RevokeKeeps
<1>2. CASE \E t \in Tokens : Expire(t)
  <2>1. expired' \in SUBSET held' /\ held' \in SUBSET Tokens
    BY <1>2 DEF Expire, AuthInv, AuthTypeOK
  <2> QED
    BY <1>2, <2>1, HeldKeepsInv DEF Expire
<1>3. CASE \E r \in Requests : RefreshReuse(r)
  <2> PICK r \in Requests : RefreshReuse(r)
    BY <1>3
  <2> DEFINE chain == ChainOf(rows[reqs[r].tok].user)
  <2>1. /\ rows' = Revoke(rows, chain, "reuse_detected")
        /\ raced' = raced \cup {t \in chain : Checking(t) # {}}
        /\ Goto(r, "over", NoToken, NoToken) /\ UNCHANGED <<held, expired>>
    BY DEF RefreshReuse
  <2>2. chain \subseteq Tokens
    BY DEF ChainOf
  <2>3. /\ reqs' \in [Requests -> Request]
        /\ \A q \in Requests : reqs'[q].pc \in {"checked", "stored"} => reqs'[q] = reqs[q]
    BY <2>1 DEF Goto, AuthInv, AuthTypeOK, Request
  <2> HIDE DEF chain
  <2>4. /\ raced' \in SUBSET Tokens /\ raced \subseteq raced'
        /\ \A q \in Requests : reqs'[q].pc = "checked" /\ reqs'[q].tok \in chain
                               => reqs'[q].tok \in raced'
    BY <2>1, <2>2, <2>3 DEF Checking, AuthInv, AuthTypeOK
  <2> QED
    BY <2>1, <2>3, <2>4, RevokeKeeps
<1>4. CASE \E r \in Requests : Answer(r)
  BY <1>4, AnswerKeepsInv
<1>5. CASE \E r \in Requests, t \in Tokens : RefreshRead(r, t)
  BY <1>5, ReadKeepsInv
<1>6. CASE \E r \in Requests, t \in Tokens : Rotate(r, t)
  BY <1>6, RotateKeepsInv
<1> QED
  BY <1>1, <1>2, <1>3, <1>4, <1>5, <1>6 DEF AuthNext

-----------------------------------------------------------------------------
(* The signups' steps *)

SignupInv ==
  StagesHold /\ ReadyIsComplete /\ PaidIsKept /\ OneAccountPerAddress

SignupTypeOK ==
  /\ ws \in [Signups -> Workspace]
  /\ owner \in [Users -> Signups \cup {NoOwner}]
  /\ bought \subseteq Signups /\ schema \subseteq Signups /\ faults \in 0..MaxFaults
  /\ pc \in [Signups -> {"start", "free", "rows", "flushed", "schema", "inbox",
                         "provisioned", "answered", "over", "dead"}]

LEMMA SignupTypes ==
  ASSUME SignupTypeOK, NEW s \in Signups, SignupStep(s) \/ CrashSignup(s)
  PROVE  SignupTypeOK'
<1> USE EmailAssumption, FaultAssumption
<1>1. CASE CheckEmail(s)
  BY <1>1 DEF CheckEmail, At, SignupTypeOK
<1>2. CASE CreateRows(s)
  BY <1>2 DEF CreateRows, At, SignupTypeOK, Workspace, States
<1>3. CASE BuyNumber(s) \/ EnsureSchema(s)
  BY <1>3 DEF BuyNumber, EnsureSchema, At, SignupTypeOK
<1>4. CASE BuyFails(s) \/ EnsureFails(s)
  <2>1. ws' \in [Signups -> Workspace]
    BY <1>4 DEF BuyFails, EnsureFails, SignupTypeOK, Workspace, States
  <2>2. bought' \subseteq Signups /\ schema' = schema /\ owner' = owner
    BY <1>4 DEF BuyFails, EnsureFails, SignupTypeOK
  <2>3. pc' = [pc EXCEPT ![s] = "provisioned"] \/ pc' = [pc EXCEPT ![s] = "inbox"]
    BY <1>4 DEF BuyFails, EnsureFails, At
  <2> QED
    BY <1>4, <2>1, <2>2, <2>3 DEF BuyFails, EnsureFails, Fault, SignupTypeOK
<1>5. CASE CommitReady(s)
  BY <1>5 DEF CommitReady, At, SignupTypeOK, Workspace, States
<1>6. CASE OpenInbox(s)
  <2>1. ws' \in [Signups -> Workspace]
    BY <1>6 DEF OpenInbox, SignupTypeOK, Workspace
  <2>2. faults' \in 0..MaxFaults
    BY <1>6 DEF OpenInbox, Fault, SignupTypeOK
  <2> QED
    BY <1>6, <2>1, <2>2 DEF OpenInbox, At, SignupTypeOK
<1>7. CASE \E t \in Tokens : IssueTokens(s, t)
  BY <1>7 DEF IssueTokens, At, SignupTypeOK
<1>8. CASE CrashSignup(s)
  BY <1>8 DEF CrashSignup, Fault, At, SignupTypeOK
<1> QED
  BY <1>1, <1>2, <1>3, <1>4, <1>5, <1>6, <1>7, <1>8 DEF SignupStep

LEMMA SignupKeeps ==
  ASSUME SignupTypeOK, SignupInv, NEW s \in Signups, SignupStep(s) \/ CrashSignup(s)
  PROVE  SignupInv'
<1> USE EmailAssumption, OwnerAssumption
<1> USE DEF SignupInv, StagesHold, ReadyIsComplete, PaidIsKept, OneAccountPerAddress,
            At, SignupTypeOK
<1>1. CASE CheckEmail(s)
  BY <1>1 DEF CheckEmail
<1>2. CASE CreateRows(s)
  <2>1. CASE owner[EmailOf[s]] = NoOwner /\ At(s, "free", "rows")
             /\ owner' = [owner EXCEPT ![EmailOf[s]] = s]
             /\ ws' = [ws EXCEPT ![s].state = "pending"]
             /\ UNCHANGED <<bought, schema>>
    <3>1. /\ \A o \in Signups \ {s} : ws'[o] = ws[o] /\ pc'[o] = pc[o]
          /\ ws'[s].state = "pending" /\ pc'[s] = "rows" /\ s \notin bought
      BY <2>1 DEF Workspace
    <3>2. \A o \in Signups \ {s} : ws[o].state # "none" =>
            EmailOf[o] # EmailOf[s] /\ owner'[EmailOf[o]] = o
      BY <2>1
    <3> QED
      BY <2>1, <3>1, <3>2
  <2>2. CASE At(s, "free", "over") /\ UNCHANGED <<ws, owner, bought, schema>>
    BY <2>2
  <2> QED
    BY <1>2, <2>1, <2>2 DEF CreateRows
<1>3. CASE BuyNumber(s)
  BY <1>3 DEF BuyNumber
<1>4. CASE BuyFails(s)
  <2>1. /\ \A o \in Signups \ {s} : ws'[o] = ws[o] /\ pc'[o] = pc[o]
        /\ ws'[s].state = "number_pending" /\ pc'[s] = "provisioned" /\ pc[s] = "rows"
        /\ bought \subseteq bought' /\ bought' \subseteq bought \cup {s}
        /\ UNCHANGED <<owner, schema>>
    BY <1>4 DEF BuyFails, Workspace
  <2> QED
    BY <2>1
<1>5. CASE EnsureSchema(s)
  BY <1>5 DEF EnsureSchema
<1>6. CASE EnsureFails(s) \/ CommitReady(s)
  <2>1. /\ \A o \in Signups \ {s} : ws'[o] = ws[o] /\ pc'[o] = pc[o]
        /\ ws'[s].number = TRUE /\ pc'[s] = "inbox"
        /\ ws'[s].state = "ready" => pc[s] = "schema"
        /\ pc[s] \in {"flushed", "schema"}
        /\ UNCHANGED <<owner, bought, schema>>
    BY <1>6 DEF EnsureFails, CommitReady, Workspace
  <2> QED
    BY <2>1
<1>7. CASE OpenInbox(s)
  <2>1. /\ \A o \in Signups : ws'[o].state = ws[o].state /\ ws'[o].number = ws[o].number
        /\ \A o \in Signups \ {s} : pc'[o] = pc[o]
        /\ pc'[s] = "provisioned" /\ pc[s] = "inbox"
        /\ UNCHANGED <<owner, bought, schema>>
    BY <1>7 DEF OpenInbox, Workspace
  <2> QED
    BY <2>1
<1>8. CASE \E t \in Tokens : IssueTokens(s, t)
  BY <1>8 DEF IssueTokens
<1>9. CASE CrashSignup(s)
  BY <1>9 DEF CrashSignup
<1> QED
  BY <1>1, <1>2, <1>3, <1>4, <1>5, <1>6, <1>7, <1>8, <1>9 DEF SignupStep

(* Of the tokens' state a signup only records its first token. *)
LEMMA SignupAuth ==
  ASSUME AuthInv, NEW s \in Signups, SignupStep(s) \/ CrashSignup(s)
  PROVE  AuthInv'
<1>1. CASE \E t \in Tokens : IssueTokens(s, t)
  BY <1>1, IssueKeepsInv, EmailAssumption DEF IssueTokens
<1>2. CASE UNCHANGED authVars
  <2>1. held' \in SUBSET Tokens /\ expired' \in SUBSET held'
    BY <1>2 DEF authVars, AuthInv, AuthTypeOK
  <2> QED
    BY <1>2, <2>1, HeldKeepsInv DEF authVars
<1>3. (\E t \in Tokens : IssueTokens(s, t)) \/ UNCHANGED authVars
  BY DEF SignupStep, CrashSignup, CheckEmail, CreateRows, BuyNumber, BuyFails,
         EnsureSchema, EnsureFails, CommitReady, OpenInbox
<1> QED
  BY <1>1, <1>2, <1>3

-----------------------------------------------------------------------------
LEMMA InvParts == TypeOK <=> AuthTypeOK /\ SignupTypeOK
BY DEF TypeOK, SignupTypeOK

LEMMA Initially == Init => IInv
<1> SUFFICES ASSUME Init PROVE IInv
  OBVIOUS
<1>1. AuthTypeOK
  BY DEF Init, AuthInit, AuthTypeOK, Absent, Row, Fates, Request
<1>2. Stored = {} /\ Live = {}
  BY DEF Init, AuthInit, Absent, Stored, Live
<1>3. AuthInv
  BY <1>1, <1>2 DEF Init, AuthInit, AuthInv, Rooted, ChecksHold, Answerable,
                    ParentsAreRevoked, SpentOnce
<1>4. SignupTypeOK /\ SignupInv
  BY EmailAssumption, FaultAssumption
  DEF Init, SignupTypeOK, Workspace, States, SignupInv, StagesHold, ReadyIsComplete,
      PaidIsKept, OneAccountPerAddress
<1> QED
  BY <1>3, <1>4, InvParts DEF IInv, AuthInv, SignupInv

LEMMA EveryStep == IInv /\ [Next]_vars => IInv'
<1> SUFFICES ASSUME IInv, [Next]_vars
             PROVE  AuthInv' /\ SignupTypeOK' /\ SignupInv'
  BY DEF IInv, TypeOK, AuthInv, SignupTypeOK, SignupInv
<1>0. AuthInv /\ SignupTypeOK /\ SignupInv
  BY InvParts DEF IInv, SignupInv
<1>1. CASE \E s \in Signups : SignupStep(s) \/ CrashSignup(s)
  BY <1>0, <1>1, SignupAuth, SignupTypes, SignupKeeps
<1>2. CASE \E u \in Users, t \in Tokens : LoginUser(u, t)
  <2> PICK u \in Users, t \in Tokens : LoginUser(u, t)
    BY <1>2
  <2>1. AuthInv'
    <3>1. held' \in SUBSET Tokens /\ held \subseteq held' /\ expired' \in SUBSET held'
      BY <1>0 DEF LoginUser, Login, Fresh, AuthInv, AuthTypeOK
    <3> QED
      BY <1>0, <3>1, HeldKeepsInv DEF LoginUser, Login
  <2>2. SignupTypeOK' /\ SignupInv'
    BY <1>0 DEF LoginUser, signupVars, SignupTypeOK, SignupInv, StagesHold,
                ReadyIsComplete, PaidIsKept, OneAccountPerAddress
  <2> QED
    BY <2>1, <2>2
<1>3. CASE AuthNext /\ UNCHANGED signupVars
  <2>1. SignupTypeOK' /\ SignupInv'
    BY <1>0, <1>3 DEF signupVars, SignupTypeOK, SignupInv, StagesHold,
                      ReadyIsComplete, PaidIsKept, OneAccountPerAddress
  <2> QED
    BY <1>0, <1>3, <2>1, AuthSteps
<1>4. CASE UNCHANGED vars
  BY <1>0, <1>4 DEF vars, authVars, signupVars, AuthInv, AuthTypeOK, Rooted, ChecksHold,
                    Answerable, ParentsAreRevoked, SpentOnce, Stored, Live, Children,
                    SignupTypeOK, SignupInv, StagesHold, ReadyIsComplete, PaidIsKept,
                    OneAccountPerAddress
<1> QED
  BY <1>1, <1>2, <1>3, <1>4 DEF Next

(* The inductive invariant of accounts and their tokens. *)
THEOREM Invariance == Spec => []IInv
BY Initially, EveryStep, PTL DEF Spec

(* A chain of tokens forks nowhere but in a race, and its live token is its *)
(* last even there (auth_service.py:50-75).                                 *)
THEOREM ChainsHold == Spec => []ChainsAreSound
<1>1. IInv => ChainsAreSound
  BY DEF IInv, AuthInv, ChainsAreSound
<1> QED
  BY <1>1, Invariance, PTL

(* What signups leave behind, however they end, adds up                     *)
(* (workspace_provisioning.py:99-190).                                      *)
THEOREM SignupsHold == Spec => []SignupsAddUp
<1>1. IInv => SignupsAddUp
  BY DEF IInv, SignupsAddUp
<1> QED
  BY <1>1, Invariance, PTL

-----------------------------------------------------------------------------
LEMMA StepRevocationStands ==
  ASSUME IInv, [Next]_vars
  PROVE  [\A t \in Stored \ Live : rows'[t] = rows[t]]_authVars
<1> SUFFICES ASSUME NEW t \in Stored \ Live, ~ UNCHANGED authVars
             PROVE  rows'[t] = rows[t]
  OBVIOUS
<1>0. t \in Tokens /\ AuthInv
  BY DEF Stored, IInv
<1>1. CASE \E o \in Tokens : Logout(o)
  BY <1>0, <1>1 DEF Logout, Revoke, Live
<1>2. CASE \E r \in Requests : RefreshReuse(r)
  BY <1>0, <1>2 DEF RefreshReuse, Revoke, Live
<1>3. CASE \E r \in Requests, o \in Tokens : Rotate(r, o)
  <2> PICK r \in Requests, o \in Tokens : Rotate(r, o)
    BY <1>3
  <2>1. o # t
    BY DEF Rotate, Fresh
  <2>2. Revoke(rows, {reqs[r].tok}, "rotated")[t] = rows[t]
    BY <1>0 DEF Revoke, Live
  <2> QED
    BY <1>0, <2>1, <2>2 DEF Rotate, Record, Revoke
<1>4. CASE \E s \in Signups, o \in Tokens : IssueTokens(s, o)
  <2> PICK s \in Signups, o \in Tokens : IssueTokens(s, o)
    BY <1>4
  <2> QED
    BY <1>0 DEF IssueTokens, Record, Fresh, AuthInv, AuthTypeOK
<1>5. CASE UNCHANGED rows
  BY <1>5
<1> QED
  BY <1>1, <1>2, <1>3, <1>4, <1>5
  DEF Next, vars, authVars, AuthNext, Expire, RefreshRead, Answer, LoginUser, Login,
      SignupStep, CrashSignup, CheckEmail, CreateRows, BuyNumber, BuyFails,
      EnsureSchema, EnsureFails, CommitReady, OpenInbox

(* A revocation stands, and so does its first reason: no later logout,      *)
(* rotation or reuse writes a revoked row again (refresh_tokens_repo).      *)
THEOREM RevocationsHold == Spec => RevocationStands
BY Invariance, StepRevocationStands, PTL DEF Spec, RevocationStands
=============================================================================
