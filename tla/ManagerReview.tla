---------------------------- MODULE ManagerReview ----------------------------
(***************************************************************************)
(* What is put before the Manager: the briefs, the contradictions of the   *)
(* web verifier, and the replies to the mails about a brief                *)
(* (miniagents/email_reply_handler.py behind api/webhooks/agentmail.py).   *)
(* A Manager's reply opens a correction intake beside the verifier's, a    *)
(* Rep's becomes an intake item.                                           *)
(***************************************************************************)
EXTENDS Briefs, Verifier

CONSTANTS
  Hooks,    \* deliveries of AgentMail's webhook
  ParentOf, \* the brief whose mail each replies to
  SenderOf  \* who wrote it

ASSUME HookAssumption ==
  \A w \in Hooks : ParentOf[w] \in Runs /\ SenderOf[w] \in {"manager", "rep", "stranger"}

VARIABLES
  sent,     \* AgentMail: briefs mailed
  mailed,   \* email_messages: briefs whose mail is recorded
  hook,     \* where each delivery stands
  replied,  \* correction_intakes of origin manager_email_reply, by delivery
  followups \* intake_buffer_items of source rep_email_followup, by delivery

replyVars == <<sent, mailed, hook, replied, followups>>
reviewVars == <<briefVars, verifierVars, replyVars>>

ReviewInit ==
  /\ BriefInit /\ VerifierInit
  /\ sent = {} /\ mailed = {} /\ replied = {} /\ followups = {}
  /\ hook = [w \in Hooks |-> "start"]

On(w, from, to) == hook[w] = from /\ hook' = [hook EXCEPT ![w] = to]
BriefRest == UNCHANGED <<dec, surfaced, rollup, blobs, shown, rows, queued, pinned, pin, met>>

SendMail(r) ==
  /\ r \in queued \ sent /\ sent' = sent \cup {r}
  /\ UNCHANGED <<briefVars, verifierVars, mailed, hook, replied, followups>>

\* The row is committed after the send, or never when the worker dies.
RecordMail(r) ==
  /\ r \in sent \ mailed /\ mailed' = mailed \cup {r}
  /\ UNCHANGED <<briefVars, verifierVars, sent, hook, replied, followups>>

Parent(w, otherwise) == IF ParentOf[w] \in mailed THEN "found" ELSE otherwise

\* Mutant: a reply without a parent is routed like any other.
LookAgainTrusting(w) ==
  /\ On(w, "waiting", "found")
  /\ UNCHANGED <<briefVars, verifierVars, sent, mailed, replied, followups>>

\* A reply may be quicker than the commit of the mail it answers ...
Look(w) ==
  /\ ParentOf[w] \in sent /\ On(w, "start", Parent(w, "waiting"))
  /\ UNCHANGED <<briefVars, verifierVars, sent, mailed, replied, followups>>

\* ... so it is looked up once more, and dropped as an orphan.
LookAgain(w) ==
  /\ On(w, "waiting", Parent(w, "orphan"))
  /\ UNCHANGED <<briefVars, verifierVars, sent, mailed, replied, followups>>

\* By the sender's address.  An exception is logged and answered with 200.
Route(w) ==
  /\ \/ /\ On(w, "found", IF SenderOf[w] = "stranger" THEN "dropped" ELSE "routed")
        /\ replied' = IF SenderOf[w] = "manager" THEN replied \cup {w} ELSE replied
        /\ followups' = IF SenderOf[w] = "rep" THEN followups \cup {w} ELSE followups
        /\ UNCHANGED faults
     \/ On(w, "found", "lost") /\ Fault /\ UNCHANGED <<replied, followups>>
  /\ BriefRest /\ UNCHANGED <<verifierVars, sent, mailed>>

BriefsAndReplies ==
  \/ RollupNext /\ UNCHANGED <<verifierVars, replyVars>>
  \/ \E r \in Runs : SendMail(r) \/ RecordMail(r)
  \/ \E w \in Hooks : Look(w) \/ LookAgain(w) \/ Route(w)

Queries == (\E p \in Pins : Pin(p)) /\ UNCHANGED <<verifierVars, replyVars>>

Verifications == VerifierNext /\ UNCHANGED <<briefVars, replyVars>>

ReviewNext == BriefsAndReplies \/ Queries \/ Verifications

ReviewSpec == ReviewInit /\ [][ReviewNext]_reviewVars

-----------------------------------------------------------------------------
ReviewTypeOK ==
  /\ BriefTypeOK /\ VerifierTypeOK
  /\ {sent, mailed} \subseteq SUBSET Runs /\ {replied, followups} \subseteq SUBSET Hooks
  /\ hook \in [Hooks -> {"start", "waiting", "found", "orphan", "routed", "dropped", "lost"}]

(* What a reply sets going answers a mail that is on record, and goes to    *)
(* whom its sender's role says: a correction for the Manager's, an intake   *)
(* item for a Rep's, nothing for a stranger's or an orphan.                 *)
RepliesAreRouted ==
  /\ ReviewTypeOK
  /\ \A w \in Hooks :
       /\ w \in replied => SenderOf[w] = "manager" /\ ParentOf[w] \in mailed
       /\ w \in followups => SenderOf[w] = "rep" /\ ParentOf[w] \in mailed
       /\ hook[w] = "routed" => w \in replied \cup followups

-----------------------------------------------------------------------------
(* What the code's documents say and the code does not keep.                *)

(* "in case the reply landed before the parent's commit was visible"        *)
(* (email_reply_handler.py:73-75): one look half a second later does not    *)
(* always find it, and no third follows.                                    *)
OrphansHaveNoMail == \A w \in Hooks : hook[w] = "orphan" => ParentOf[w] \notin sent
=============================================================================
