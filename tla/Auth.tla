-------------------------------- MODULE Auth --------------------------------
(***************************************************************************)
(* Login, refresh with rotation and reuse detection, and logout            *)
(* (services/auth_service.py over refresh_tokens).  A request's statement  *)
(* that reads and its transaction that writes are two steps; a transaction *)
(* is one step, since its first UPDATE holds the row until the commit.     *)
(* Access tokens are checked by signature alone and change no state.       *)
(***************************************************************************)
EXTENDS Naturals, FiniteSets

CONSTANTS Users, Tokens, Requests, NoToken

ASSUME NoTokenAssumption == NoToken \notin Tokens

VARIABLES
  rows,    \* refresh_tokens: who a token is for, its parent, what it has become
  held,    \* the tokens that reached a client
  expired, \* the tokens whose expires_at has passed
  reqs,    \* what each refresh request has read and made
  raced    \* history: tokens revoked, or read again, while a refresh had them checked

authVars == <<rows, held, expired, reqs, raced>>

Fates == {"none", "live", "rotated", "logout", "reuse_detected"}
Row == [user: Users \cup {NoToken}, parent: Tokens \cup {NoToken}, fate: Fates]
Request == [pc: {"idle", "checked", "reuse", "stored", "over"},
            tok: Tokens \cup {NoToken}, new: Tokens \cup {NoToken}]

Absent == [user |-> NoToken, parent |-> NoToken, fate |-> "none"]

AuthInit ==
  /\ rows = [t \in Tokens |-> Absent]
  /\ held = {} /\ expired = {} /\ raced = {}
  /\ reqs = [r \in Requests |-> [pc |-> "idle", tok |-> NoToken, new |-> NoToken]]

Stored == {t \in Tokens : rows[t].fate # "none"}
Live == {t \in Tokens : rows[t].fate = "live"}
Children(t) == {c \in Stored : rows[c].parent = t}
Checking(t) == {r \in Requests : reqs[r].pc = "checked" /\ reqs[r].tok = t}
\* Every token is signed with a jti of its own.
Fresh == Tokens \ (Stored \cup held)

Record(table, t, u, parent) ==
  [table EXCEPT ![t] = [user |-> u, parent |-> parent, fate |-> "live"]]
\* Mutant: the UPDATE of a token without the condition on revoked_at.
RevokeAgain(table, ts, reason) ==
  [t \in Tokens |-> IF t \in ts /\ table[t].fate # "none"
                    THEN [table[t] EXCEPT !.fate = reason] ELSE table[t]]

\* The UPDATE touches only a row that is not revoked yet.
Revoke(table, ts, reason) ==
  [t \in Tokens |-> IF t \in ts /\ table[t].fate = "live"
                    THEN [table[t] EXCEPT !.fate = reason] ELSE table[t]]
ChainOf(u) == {t \in Tokens : rows[t].user = u}

\* decode_token refuses what has expired; only tokens the service signed exist.
Decodes(t) == t \in held \ expired

Goto(r, pc, tok, new) == reqs' = [reqs EXCEPT ![r] = [pc |-> pc, tok |-> tok, new |-> new]]

-----------------------------------------------------------------------------
(* The password matches: a pair is signed and returned.  Its row is flushed *)
(* and rolled back with the session, since nothing commits it.              *)
Login(u, t) ==
  /\ t \in Fresh
  /\ held' = held \cup {t}
  /\ UNCHANGED <<rows, expired, reqs, raced>>

\* Mutant: a revoked token is not recognised as one.
RefreshReadTrusting(r, t) ==
  /\ reqs[r].pc = "idle" /\ Decodes(t)
  /\ Goto(r, IF rows[t].fate = "none" THEN "over" ELSE "checked", t, NoToken)
  /\ raced' = IF Checking(t) = {} THEN raced ELSE raced \cup {t}
  /\ UNCHANGED <<rows, held, expired>>

RefreshRead(r, t) ==
  /\ reqs[r].pc = "idle" /\ Decodes(t)
  /\ Goto(r, CASE rows[t].fate = "none" -> "over"
               [] rows[t].fate = "live" -> "checked"
               [] OTHER -> "reuse", t, NoToken)
  /\ raced' = IF Checking(t) = {} THEN raced ELSE raced \cup {t}
  /\ UNCHANGED <<rows, held, expired>>

RefreshReuse(r) ==
  LET chain == ChainOf(rows[reqs[r].tok].user) IN
  /\ reqs[r].pc = "reuse"
  /\ rows' = Revoke(rows, chain, "reuse_detected")
  /\ raced' = raced \cup {t \in chain : Checking(t) # {}}
  /\ Goto(r, "over", NoToken, NoToken)
  /\ UNCHANGED <<held, expired>>

\* Mutant: the pair is issued and the consumed token forgotten.
RotateKeeps(r, t) ==
  LET old == reqs[r].tok IN
  /\ reqs[r].pc = "checked" /\ t \in Fresh
  /\ rows' = Record(rows, t, rows[old].user, old)
  /\ Goto(r, "stored", old, t)
  /\ UNCHANGED <<held, expired, raced>>

(* The consumed token is revoked and its successor recorded in one commit.  *)
Rotate(r, t) ==
  LET old == reqs[r].tok IN
  /\ reqs[r].pc = "checked" /\ t \in Fresh
  /\ rows' = Record(Revoke(rows, {old}, "rotated"), t, rows[old].user, old)
  /\ Goto(r, "stored", old, t)
  /\ UNCHANGED <<held, expired, raced>>

\* The answer may be lost on its way: the client is left with the old token.
Answer(r) ==
  /\ reqs[r].pc = "stored"
  /\ held' \in {held, held \cup {reqs[r].new}}
  /\ Goto(r, "over", NoToken, NoToken)
  /\ UNCHANGED <<rows, expired, raced>>

(* An expired or unknown token is passed over in silence. *)
Logout(t) ==
  /\ Decodes(t)
  /\ rows' = Revoke(rows, {t}, "logout")
  /\ raced' = IF Checking(t) = {} THEN raced ELSE raced \cup {t}
  /\ UNCHANGED <<held, expired, reqs>>

Expire(t) ==
  /\ t \in held \ expired
  /\ expired' = expired \cup {t}
  /\ UNCHANGED <<rows, held, reqs, raced>>

AuthNext ==
  \/ \E t \in Tokens : Logout(t) \/ Expire(t)
  \/ \E r \in Requests : RefreshReuse(r) \/ Answer(r)
  \/ \E r \in Requests, t \in Tokens : RefreshRead(r, t) \/ Rotate(r, t)

-----------------------------------------------------------------------------
AuthTypeOK ==
  /\ rows \in [Tokens -> Row]
  /\ held \subseteq Tokens /\ expired \subseteq held /\ raced \subseteq Tokens
  /\ reqs \in [Requests -> Request]

(* A refresh token is spent once: what has a successor was rotated and has  *)
(* one successor only, unless a logout, a reuse detection or a second       *)
(* refresh met the refresh between its read and its commit                  *)
(* (auth_service.py:50-75, which reads without a lock).                     *)
SpentOnce ==
  \A t \in Stored \ raced :
    Children(t) # {} => rows[t].fate = "rotated" /\ Cardinality(Children(t)) = 1

(* Even then the successor is never stored without its parent's revocation: *)
(* the comment at auth_service.py:67-72.                                    *)
ParentsAreRevoked == \A t \in Live : Children(t) = {}

(* Together: a chain of tokens forks nowhere but in a race, and its live    *)
(* token is its last even there.                                            *)
ChainsAreSound == SpentOnce /\ ParentsAreRevoked

(* A revocation stands, and so does its first reason.                       *)
RevocationStands ==
  [][\A t \in Stored \ Live : rows'[t] = rows[t]]_authVars
=============================================================================
