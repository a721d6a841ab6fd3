---------------------------- MODULE ManagerProofs ----------------------------
(***************************************************************************)
(* Theorems about what the Manager decides and what is put before them:    *)
(* Decisions, for any decisions, options and sessions, and ManagerReview,  *)
(* for any decisions, rollup runs, saved queries, checks of claims and     *)
(* replies.                                                                *)
(*                                                                         *)
(* Decisions needs one invariant over rows, requests and jobs together.    *)
(* The three parts of the review share only the history of what            *)
(* overlapped, so each has an invariant of its own and a lemma that the    *)
(* others keep it.                                                         *)
(***************************************************************************)
EXTENDS Decisions, ManagerReview, SequenceTheorems, FiniteSetTheorems, TLAPS

(* Decisions. *)

(* The row appears with the first step of its tool call. *)
OpenedOnce ==
  \A d \in Decisions : opener[d] = "idle" <=> row[d].status = "absent"

(* A job that has committed leaves a resolved decision. *)
JobsSettle == \A d \in Decisions : job[d] = "committed" => Resolved(d)

(* What the phase of a request says of the row it is about. *)
RequestHolds(s) ==
  /\ sess[s].pc \in Running => sess[s].target \in Decisions
  /\ sess[s].pc = "locked" => s \in DeskSessions
  /\ sess[s].pc = "loaded" => s \in EarlyReaders \cup Rejecters
  /\ sess[s].pc = "loaded" /\ s \in EarlyReaders =>
       /\ sess[s].seen # "open" => Resolved(sess[s].target)
       /\ sess[s].seen = "open" => row[sess[s].target].status # "absent"
  /\ sess[s].pc = "committed" => s \in winners[sess[s].target]
  /\ sess[s].pc = "conflict" /\ s \in EarlyReaders \cup DeskSessions =>
       sess[s].target \in Decisions /\ Resolved(sess[s].target)

RequestsHold == \A s \in Sessions : RequestHolds(s)

(* A winner's request is over, or has only its frame to publish. *)
WinnersStay ==
  \A d \in Decisions : \A s \in winners[d] : sess[s].pc \in {"committed", "done", "dead"}

IInv ==
  /\ TypeOK
  /\ OpenedOnce
  /\ JobsSettle
  /\ RequestsHold
  /\ LockProtocol
  /\ WinnersStay
  /\ RowTellsOneStory
  /\ ApprovalFollowsAnswer
  /\ NoFrameBeforeCommit

----------------------------------------------------------------------------
(* Initially there is no row, no request and no lock. *)
LEMMA InitEstablishes == Init => IInv
  BY ConstantsAssumption
  DEF Init, IInv, TypeOK, OpenedOnce, JobsSettle, RequestsHold, RequestHolds, LockProtocol, WinnersStay,
      RowTellsOneStory, ApprovalFollowsAnswer, NoFrameBeforeCommit,
      NoRow, NoRequest, Row, Request, Statuses, Items, Openers, Jobs, Phases, Frames,
      Published, Running, Sessions, EarlyReaders

(* What Proceed, Receive, Publish and an answer do to a well-typed state. *)
LEMMA ProceedMoves ==
  ASSUME TypeOK, NEW s \in Sessions, NEW p \in Phases, Proceed(s, p)
  PROVE  /\ sess' \in [Sessions -> Request]
         /\ sess'[s].pc = p
         /\ sess'[s].target = sess[s].target
         /\ sess'[s].choice = sess[s].choice
         /\ sess'[s].seen = sess[s].seen
         /\ \A t \in Sessions : t # s => sess'[t] = sess[t]
<1> DEFINE next == [sess[s] EXCEPT !.pc = p]
<1>1. sess[s] \in Request
  BY DEF TypeOK
<1>2. /\ next \in Request
      /\ next.pc = p
      /\ next.target = sess[s].target
      /\ next.choice = sess[s].choice
      /\ next.seen = sess[s].seen
  BY <1>1 DEF Request
<1>3. sess' = [sess EXCEPT ![s] = next]
  BY DEF Proceed
<1> HIDE DEF next
<1> QED
  BY <1>2, <1>3 DEF TypeOK

LEMMA ReceiveMoves ==
  ASSUME TypeOK, NEW s \in Sessions, NEW p \in Phases, NEW d \in Decisions,
         NEW o \in Replies \cup {None}, NEW st \in Statuses \cup Items,
         Receive(s, p, d, o, st)
  PROVE  /\ sess[s].pc = "idle"
         /\ sess' \in [Sessions -> Request]
         /\ sess'[s] = [pc |-> p, target |-> d, choice |-> o, seen |-> st]
         /\ \A t \in Sessions : t # s => sess'[t] = sess[t]
  BY DEF TypeOK, Receive, Request

LEMMA PublishType ==
  ASSUME TypeOK, NEW d, NEW f \in Frames, Publish(d, f)
  PROVE  frames' \in [Decisions -> Seq(Frames)]
<1>1. CASE d \in Decisions
  <2>1. Append(frames[d], f) \in Seq(Frames)
    BY <1>1 DEF TypeOK
  <2>2. frames' = [frames EXCEPT ![d] = Append(frames[d], f)]
    BY DEF Publish
  <2> QED
    BY <2>1, <2>2 DEF TypeOK
<1>2. CASE d \notin Decisions
  BY <1>2 DEF TypeOK, Publish
<1> QED
  BY <1>1, <1>2

LEMMA AnsweredRowType ==
  ASSUME NEW s \in Sessions, NEW st \in Statuses, sess[s].choice \in Options
  PROVE  /\ AnsweredRow(s, st) \in Row
         /\ AnsweredRow(s, st).status = st
         /\ AnsweredRow(s, st).response = sess[s].choice
         /\ AnsweredRow(s, st).via = Via(s)
  BY DEF AnsweredRow, Via, Row

(* Every step keeps every variable in its type. *)
LEMMA TypeStep == TypeOK /\ LockProtocol /\ [Next]_vars => TypeOK'
<1> SUFFICES ASSUME TypeOK, LockProtocol, [Next]_vars PROVE TypeOK'
  OBVIOUS
<1> USE ConstantsAssumption DEF TypeOK
<1>1. ASSUME NEW d \in Decisions, Open(d) PROVE TypeOK'
  BY <1>1 DEF Open, OpenRow, NoRow, Row, Statuses, Openers
<1>2. ASSUME NEW d \in Decisions, OpenAnnounce(d) PROVE TypeOK'
  BY <1>2 DEF OpenAnnounce, Publish, Frames, Openers
<1>3. ASSUME NEW d \in Decisions, OpenPing(d) PROVE TypeOK'
  BY <1>3 DEF OpenPing, Openers
<1>4. ASSUME NEW d \in Decisions, OpenSchedule(d) PROVE TypeOK'
  BY <1>4 DEF OpenSchedule, Openers, Jobs
<1>5. ASSUME NEW d \in Decisions, TimeoutFire(d) PROVE TypeOK'
  <2>1. CASE row[d].status # "open"
    BY <1>5, <2>1 DEF TimeoutFire, Jobs
  <2>2. CASE row[d].status = "open"
    <3>1. TimedOut(row[d]) \in Row
      BY DEF TimedOut, Row, Statuses
    <3>2. row' = [row EXCEPT ![d] = TimedOut(row[d])] /\ job' = [job EXCEPT ![d] = "committed"]
      BY <1>5, <2>2 DEF TimeoutFire
    <3>3. row' \in [Decisions -> Row] /\ job' \in [Decisions -> Jobs]
      BY <3>1, <3>2 DEF Jobs
    <3> QED
      BY <1>5, <3>3 DEF TimeoutFire
  <2> QED
    BY <2>1, <2>2
<1>6. ASSUME NEW d \in Decisions, TimeoutPublish(d) PROVE TypeOK'
  BY <1>6 DEF TimeoutPublish, Publish, Frames, Jobs
<1>7. ASSUME NEW d \in Decisions, ExtractItem(d) PROVE TypeOK'
  BY <1>7 DEF ExtractItem, Items
<1>8. ASSUME NEW d \in Decisions, CrashOpener(d) PROVE TypeOK'
  BY <1>8 DEF CrashOpener, Crash, Openers
<1>9. ASSUME NEW d \in Decisions, CrashJob(d) PROVE TypeOK'
  BY <1>9 DEF CrashJob, Crash, Jobs
<1>10. ASSUME NEW s \in Sessions, NEW d \in Decisions, NEW o \in Replies, WsLoad(s, d, o)
       PROVE TypeOK'
  BY <1>10 DEF WsLoad, Receive, Row, Request, Phases
<1>11. ASSUME NEW s \in Sessions, NEW d \in Decisions, NEW o \in Replies, SmsLoad(s, d, o)
       PROVE TypeOK'
  <2>1. PICK p \in {"loaded", "done"}, st \in Statuses : Receive(s, p, d, o, st)
    BY <1>11 DEF SmsLoad, Row, Statuses
  <2> p \in Phases /\ o \in Replies \cup {None} /\ st \in Statuses \cup Items
    BY DEF Phases
  <2> HIDE DEF TypeOK
  <2>2. sess' \in [Sessions -> Request]
    BY <2>1, ReceiveMoves
  <2> USE DEF TypeOK
  <2> QED
    BY <1>11, <2>2 DEF SmsLoad
<1>12. ASSUME NEW s \in Sessions, NEW d \in Decisions, NEW o \in Replies, ResolveLock(s, d, o)
       PROVE TypeOK'
  <2>1. PICK p \in {"locked", "conflict", "invalid"}, st \in Statuses \cup Items :
          Receive(s, p, d, o, st)
    BY <1>12 DEF ResolveLock, Row
  <2> p \in Phases /\ o \in Replies \cup {None} /\ st \in Statuses \cup Items
    BY DEF Phases
  <2> HIDE DEF TypeOK
  <2>2. sess' \in [Sessions -> Request]
    BY <2>1, ReceiveMoves
  <2> USE DEF TypeOK
  <2>3. rowLock' \in [Decisions -> DeskSessions \cup {None}]
    BY <1>12 DEF ResolveLock
  <2> QED
    BY <1>12, <2>2, <2>3 DEF ResolveLock
<1>13. ASSUME NEW s \in Sessions, NEW d \in Decisions, RejectLoad(s, d) PROVE TypeOK'
  BY <1>13 DEF RejectLoad, Receive, Request, Phases
<1>14. ASSUME NEW s \in Sessions, Respond(s) PROVE TypeOK'
  <2>1. PICK p \in {"conflict", "invalid", "committed"} : Proceed(s, p)
    BY <1>14 DEF Respond
  <2>2. sess' \in [Sessions -> Request]
    BY <2>1, ProceedMoves DEF Phases
  <2>3. row' \in [Decisions -> Row]
    <3>1. CASE sess[s].choice \in Options
      BY <1>14, <3>1, AnsweredRowType DEF Respond, Statuses
    <3>2. CASE sess[s].choice \notin Options
      BY <1>14, <3>2 DEF Respond
    <3> QED
      BY <3>1, <3>2
  <2>4. winners' \in [Decisions -> SUBSET Sessions]
    BY <1>14 DEF Respond
  <2> QED
    BY <1>14, <2>2, <2>3, <2>4 DEF Respond
<1>15. ASSUME NEW s \in Sessions, RespondPublish(s) PROVE TypeOK'
  <2>1. sess' \in [Sessions -> Request]
    BY <1>15, ProceedMoves DEF RespondPublish, Phases
  <2>2. frames' \in [Decisions -> Seq(Frames)]
    BY <1>15, PublishType DEF RespondPublish, Frames
  <2> QED
    BY <1>15, <2>1, <2>2 DEF RespondPublish
<1>16. ASSUME NEW s \in Sessions, ResolveCommit(s) PROVE TypeOK'
  <2>1. sess' \in [Sessions -> Request]
    BY <1>16, ProceedMoves DEF ResolveCommit, Phases
  <2>2. sess[s].choice \in Options
    BY <1>16 DEF ResolveCommit, LockProtocol
  <2>3. row' \in [Decisions -> Row] /\ winners' \in [Decisions -> SUBSET Sessions]
    BY <1>16, <2>2, AnsweredRowType DEF ResolveCommit, Statuses
  <2>4. item' \in [Decisions -> Items] /\ rowLock' \in [Decisions -> DeskSessions \cup {None}]
    BY <1>16 DEF ResolveCommit, Items
  <2> QED
    BY <1>16, <2>1, <2>3, <2>4 DEF ResolveCommit
<1>17. ASSUME NEW s \in Sessions, RejectCommit(s) PROVE TypeOK'
  BY <1>17 DEF RejectCommit, Proceed, Request, Phases, Items
<1>18. ASSUME NEW s \in Sessions, CrashRequest(s) PROVE TypeOK'
  <2>1. sess' \in [Sessions -> Request]
    BY <1>18, ProceedMoves DEF CrashRequest, Phases
  <2>2. rowLock' \in [Decisions -> DeskSessions \cup {None}]
    BY <1>18 DEF CrashRequest
  <2>3. crashes' \in 0..MaxCrashes
    BY <1>18 DEF CrashRequest, Crash
  <2> QED
    BY <1>18, <2>1, <2>2, <2>3 DEF CrashRequest
<1>19. CASE UNCHANGED vars
  BY <1>19 DEF vars
<1> QED
  BY <1>1, <1>2, <1>3, <1>4, <1>5, <1>6, <1>7, <1>8, <1>9, <1>10, <1>11, <1>12, <1>13,
     <1>14, <1>15, <1>16, <1>17, <1>18, <1>19
  DEF Next, OpenStep, TimeoutStep, RequestStep, Progress

----------------------------------------------------------------------------
(* What each writer of a row does to it, given the invariant. *)
LEMMA OpenWrites ==
  ASSUME IInv, NEW d \in Decisions, Open(d)
  PROVE  /\ row[d].status = "absent"
         /\ row'[d] = OpenRow
         /\ \A e \in Decisions : e # d => row'[e] = row[e]
  BY DEF IInv, TypeOK, OpenedOnce, Open

LEMMA TimeoutWrites ==
  ASSUME IInv, NEW d \in Decisions, TimeoutFire(d)
  PROVE  /\ rowLock[d] = None
         /\ \A e \in Decisions : e # d => row'[e] = row[e]
         /\ \/ row[d].status # "open" /\ row'[d] = row[d] /\ job'[d] = "done"
            \/ row[d].status = "open" /\ row'[d] = TimedOut(row[d]) /\ job'[d] = "committed"
         /\ \A e \in Decisions : e # d => job'[e] = job[e]
<1>1. rowLock[d] = None /\ d \in DOMAIN row /\ d \in DOMAIN job
  BY DEF TimeoutFire, IInv, TypeOK
<1> QED
  BY <1>1 DEF TimeoutFire, IInv, TypeOK

LEMMA RespondWrites ==
  ASSUME IInv, NEW s \in Sessions, Respond(s)
  PROVE  /\ s \in EarlyReaders
         /\ sess[s].pc = "loaded"
         /\ sess[s].target \in Decisions
         /\ rowLock[sess[s].target] = None
         /\ \/ /\ sess[s].seen # "open"
               /\ row' = row /\ winners' = winners /\ Proceed(s, "conflict")
            \/ /\ row' = row /\ winners' = winners /\ Proceed(s, "invalid")
            \/ /\ sess[s].seen = "open"
               /\ sess[s].choice \in Options
               /\ row' = [row EXCEPT ![sess[s].target] = AnsweredRow(s, "answered")]
               /\ winners' = [winners EXCEPT ![sess[s].target] = @ \cup {s}]
               /\ Proceed(s, "committed")
  BY DEF Respond, IInv, RequestsHold, RequestHolds, Running

LEMMA ResolveWrites ==
  ASSUME IInv, NEW s \in Sessions, ResolveCommit(s)
  PROVE  /\ s \in DeskSessions
         /\ sess[s].pc = "locked"
         /\ sess[s].target \in Decisions
         /\ sess[s].choice \in Options
         /\ rowLock[sess[s].target] = s
         /\ row[sess[s].target].status \in {"open", "timed_out"}
         /\ \E st \in {"answered", "answered_late"} :
              row' = [row EXCEPT ![sess[s].target] = AnsweredRow(s, st)]
         /\ winners' = [winners EXCEPT ![sess[s].target] = @ \cup {s}]
         /\ rowLock' = [rowLock EXCEPT ![sess[s].target] = None]
         /\ Proceed(s, "done")
  BY DEF ResolveCommit, IInv, LockProtocol

(* Nobody un-answers or un-resolves a decision, and winners stay winners.  *)
Advances(d) ==
  /\ row[d].status # "absent" => row'[d].status # "absent"
  /\ Resolved(d) => Resolved(d)'
  /\ row[d].status \in {"answered", "answered_late"} =>
       row'[d].status \in {"answered", "answered_late"}
  /\ winners[d] \subseteq winners'[d]

LEMMA RowsAdvance == IInv /\ [Next]_vars => \A d \in Decisions : Advances(d)
<1> SUFFICES ASSUME IInv, [Next]_vars, NEW d \in Decisions PROVE Advances(d)
  OBVIOUS
<1> row \in [Decisions -> Row] /\ winners \in [Decisions -> SUBSET Sessions]
  BY DEF IInv, TypeOK
<1> USE DEF Advances, Resolved
<1>1. CASE UNCHANGED <<row, winners>>
  BY <1>1
<1>2. ASSUME NEW e \in Decisions, Open(e) PROVE Advances(d)
  BY <1>2, OpenWrites DEF Open
<1>3. ASSUME NEW e \in Decisions, TimeoutFire(e) PROVE Advances(d)
  <2>1. winners' = winners
    BY <1>3 DEF TimeoutFire
  <2>2. row'[d] = row[d] \/ (row[d].status = "open" /\ row'[d] = TimedOut(row[d]))
    BY <1>3, TimeoutWrites
  <2> QED
    BY <2>1, <2>2 DEF TimedOut
<1>4. ASSUME NEW s \in Sessions, Respond(s) PROVE Advances(d)
  <2>1. winners[d] \subseteq winners'[d]
    BY <1>4, RespondWrites
  <2>2. row'[d] = row[d] \/ (sess[s].choice \in Options /\ row'[d] = AnsweredRow(s, "answered"))
    BY <1>4, RespondWrites
  <2> QED
    BY <2>1, <2>2, AnsweredRowType DEF Statuses
<1>5. ASSUME NEW s \in Sessions, ResolveCommit(s) PROVE Advances(d)
  <2>1. winners[d] \subseteq winners'[d]
    BY <1>5, ResolveWrites
  <2>2. \/ row'[d] = row[d]
        \/ \E st \in {"answered", "answered_late"} : row'[d] = AnsweredRow(s, st)
    BY <1>5, ResolveWrites
  <2>3. sess[s].choice \in Options
    BY <1>5, ResolveWrites
  <2> QED
    BY <2>1, <2>2, <2>3, AnsweredRowType DEF Statuses
<1> QED
  BY <1>1, <1>2, <1>3, <1>4, <1>5
  DEF Next, OpenStep, TimeoutStep, RequestStep, Progress, vars, OpenAnnounce, OpenPing,
      OpenSchedule, TimeoutPublish, ExtractItem, CrashOpener, CrashJob, WsLoad, SmsLoad,
      ResolveLock, RejectLoad, RespondPublish, RejectCommit, CrashRequest

----------------------------------------------------------------------------
(* The parts of the invariant, one lemma each. *)
LEMMA OpenedOnceStep == IInv /\ [Next]_vars => OpenedOnce'
<1> SUFFICES ASSUME IInv, [Next]_vars, NEW d \in Decisions
             PROVE  (opener[d] = "idle" <=> row[d].status = "absent")'
  BY DEF OpenedOnce
<1> /\ row \in [Decisions -> Row]
    /\ opener \in [Decisions -> Openers]
    /\ opener[d] = "idle" <=> row[d].status = "absent"
    /\ row[d].status # "absent" => row'[d].status # "absent"
  BY RowsAdvance DEF IInv, TypeOK, OpenedOnce, Advances
<1>1. ASSUME NEW e \in Decisions, Open(e) PROVE (opener[d] = "idle" <=> row[d].status = "absent")'
  BY <1>1, OpenWrites DEF Open, OpenRow, NoRow
<1>2. CASE row' = row /\ opener' = opener
  BY <1>2
<1>3. ASSUME NEW e \in Decisions, row' = row,
             \E p \in Openers \ {"idle"} : opener' = [opener EXCEPT ![e] = p], opener[e] # "idle"
      PROVE  (opener[d] = "idle" <=> row[d].status = "absent")'
  BY <1>3
<1>4. ASSUME NEW e \in Decisions, TimeoutFire(e)
      PROVE  (opener[d] = "idle" <=> row[d].status = "absent")'
  BY <1>4, TimeoutWrites DEF TimeoutFire, TimedOut
<1>5. ASSUME NEW s \in Sessions, Respond(s)
      PROVE  (opener[d] = "idle" <=> row[d].status = "absent")'
  <2>1. sess[s].seen = "open" => row[sess[s].target].status # "absent"
    BY <1>5, RespondWrites DEF IInv, RequestsHold, RequestHolds
  <2>2. row'[d] = row[d] \/ (d = sess[s].target /\ sess[s].seen = "open")
    BY <1>5, RespondWrites
  <2> QED
    BY <1>5, <2>1, <2>2 DEF Respond
<1>6. ASSUME NEW s \in Sessions, ResolveCommit(s)
      PROVE  (opener[d] = "idle" <=> row[d].status = "absent")'
  <2>1. row'[d] = row[d] \/ d = sess[s].target
    BY <1>6, ResolveWrites
  <2> QED
    BY <1>6, <2>1, ResolveWrites DEF ResolveCommit
<1> QED
  BY <1>1, <1>2, <1>3, <1>4, <1>5, <1>6
  DEF Next, OpenStep, TimeoutStep, RequestStep, Progress, vars, OpenAnnounce, OpenPing,
      OpenSchedule, TimeoutPublish, ExtractItem, CrashOpener, CrashJob, WsLoad, SmsLoad,
      ResolveLock, RejectLoad, RespondPublish, RejectCommit, CrashRequest, Openers

LEMMA JobsSettleStep == IInv /\ [Next]_vars => JobsSettle'
<1> SUFFICES ASSUME IInv, [Next]_vars, NEW d \in Decisions, job'[d] = "committed"
             PROVE  Resolved(d)'
  BY DEF JobsSettle
<1> /\ job \in [Decisions -> Jobs]
    /\ job[d] = "committed" => Resolved(d)'
  BY RowsAdvance DEF IInv, TypeOK, JobsSettle, Advances
<1>1. CASE \E e \in Decisions : TimeoutFire(e)
  <2>1. PICK e \in Decisions : TimeoutFire(e)
    BY <1>1
  <2>2. job[d] = "committed" \/ (e = d /\ row'[d] = TimedOut(row[d]))
    BY <2>1, TimeoutWrites
  <2> QED
    BY <2>2 DEF Resolved, TimedOut
<1>2. CASE ~ \E e \in Decisions : TimeoutFire(e)
  <2>1. job[d] = "committed"
    BY <1>2
    DEF Next, OpenStep, TimeoutStep, RequestStep, Progress, vars, Open, OpenAnnounce, OpenPing,
        OpenSchedule, TimeoutPublish, ExtractItem, CrashOpener, CrashJob, WsLoad, SmsLoad,
        Respond, ResolveLock, ResolveCommit, RejectLoad, RespondPublish, RejectCommit,
        CrashRequest
  <2> QED
    BY <2>1
<1> QED
  BY <1>1, <1>2

LEMMA Undisturbed ==
  ASSUME IInv, [Next]_vars, NEW s \in Sessions, sess'[s] = sess[s]
  PROVE  RequestHolds(s)'
  BY RowsAdvance DEF IInv, RequestsHold, RequestHolds, Advances, Running

LEMMA RequestsStep == IInv /\ [Next]_vars => RequestsHold'
<1> SUFFICES ASSUME IInv, [Next]_vars, NEW s \in Sessions PROVE RequestHolds(s)'
  BY DEF RequestsHold
<1>0. TypeOK /\ RequestHolds(s)
  BY DEF IInv, RequestsHold
<1>1. ASSUME NEW t \in Sessions, NEW d \in Decisions, NEW o \in Replies, WsLoad(t, d, o)
      PROVE RequestHolds(s)'
  <2>1. row[d].status \in Statuses
    BY <1>0 DEF TypeOK, Row
  <2>2. /\ sess'[t] = [pc |-> "loaded", target |-> d, choice |-> o, seen |-> row[d].status]
        /\ \A u \in Sessions : u # t => sess'[u] = sess[u]
        /\ row' = row
    BY <1>0, <1>1, <2>1, ReceiveMoves DEF WsLoad, Phases
  <2> QED
    BY <1>1, <2>1, <2>2, Undisturbed
    DEF WsLoad, RequestHolds, Running, Resolved, Statuses, EarlyReaders
<1>2. ASSUME NEW t \in Sessions, NEW d \in Decisions, NEW o \in Replies, SmsLoad(t, d, o)
      PROVE RequestHolds(s)'
  <2>1. row[d].status \in Statuses
    BY <1>0 DEF TypeOK, Row
  <2>2. CASE row[d].status = "open" /\ o \in Options
    <3>1. /\ sess'[t] = [pc |-> "loaded", target |-> d, choice |-> o, seen |-> "open"]
          /\ \A u \in Sessions : u # t => sess'[u] = sess[u]
          /\ row' = row
      BY <1>0, <1>2, <2>1, <2>2, ReceiveMoves DEF SmsLoad, Phases
    <3> QED
      BY <1>2, <2>2, <3>1, Undisturbed DEF SmsLoad, RequestHolds, Running, EarlyReaders
  <2>3. CASE ~(row[d].status = "open" /\ o \in Options)
    <3>1. Receive(t, "done", d, o, row[d].status)
      BY <1>2, <2>3 DEF SmsLoad
    <3> "done" \in Phases /\ o \in Replies \cup {None} /\ row[d].status \in Statuses \cup Items
      BY <2>1 DEF Phases
    <3>2. /\ sess'[t].pc = "done"
          /\ \A u \in Sessions : u # t => sess'[u] = sess[u]
      <4>1. sess'[t] = [pc |-> "done", target |-> d, choice |-> o, seen |-> row[d].status]
        BY <1>0, <3>1, ReceiveMoves
      <4> QED
        BY <1>0, <3>1, <4>1, ReceiveMoves
    <3> QED
      BY <3>2, Undisturbed DEF RequestHolds, Running
  <2> QED
    BY <2>2, <2>3
<1>3. ASSUME NEW t \in Sessions, NEW d \in Decisions, NEW o \in Replies, ResolveLock(t, d, o)
      PROVE RequestHolds(s)'
  <2>1. row[d].status \in Statuses /\ item[d] \in Items /\ row' = row /\ t \in DeskSessions
    BY <1>0, <1>3 DEF TypeOK, Row, ResolveLock
  <2>2. PICK p \in {"locked", "conflict", "invalid"}, st \in Statuses \cup Items :
          Receive(t, p, d, o, st) /\ (p = "conflict" => row[d].status \notin Resolvable)
    BY <1>3, <2>1 DEF ResolveLock
  <2>3. p \in Phases /\ row[d].status # "absent"
    BY <1>3 DEF Phases, ResolveLock
  <2>4. /\ sess'[t] = [pc |-> p, target |-> d, choice |-> o, seen |-> st]
        /\ \A u \in Sessions : u # t => sess'[u] = sess[u]
    BY <1>0, <2>2, <2>3, ReceiveMoves
  <2>5. p = "conflict" => Resolved(d)'
    BY <2>1, <2>2, <2>3 DEF Resolved, Resolvable, Statuses
  <2> QED
    BY <2>1, <2>4, <2>5, Undisturbed DEF RequestHolds, Running
<1>4. ASSUME NEW t \in Sessions, NEW d \in Decisions, RejectLoad(t, d) PROVE RequestHolds(s)'
  <2>1. item[d] \in Items /\ t \in Rejecters
    BY <1>0, <1>4 DEF TypeOK, RejectLoad
  <2>2. PICK p \in {"loaded", "conflict"} : Receive(t, p, d, None, item[d])
    BY <1>4 DEF RejectLoad
  <2>3. p \in Phases
    BY DEF Phases
  <2>4. /\ sess'[t] = [pc |-> p, target |-> d, choice |-> None, seen |-> item[d]]
        /\ \A u \in Sessions : u # t => sess'[u] = sess[u]
    BY <1>0, <2>1, <2>2, <2>3, ReceiveMoves
  <2>5. t \notin EarlyReaders \cup DeskSessions
    BY <2>1, ConstantsAssumption
  <2> QED
    BY <2>1, <2>4, <2>5, Undisturbed DEF RequestHolds, Running
<1>5. ASSUME NEW t \in Sessions, Respond(t) PROVE RequestHolds(s)'
  <2>1. \E p \in {"conflict", "invalid", "committed"} :
          /\ sess'[t].pc = p
          /\ sess'[t].target = sess[t].target
          /\ \A u \in Sessions : u # t => sess'[u] = sess[u]
          /\ p = "conflict" => sess[t].seen # "open" /\ row' = row
          /\ p = "committed" => winners' = [winners EXCEPT ![sess[t].target] = @ \cup {t}]
    BY <1>0, <1>5, RespondWrites, ProceedMoves DEF Phases
  <2>2. /\ sess[t].pc = "loaded" /\ sess[t].target \in Decisions /\ t \in EarlyReaders
        /\ RequestHolds(t)
        /\ winners \in [Decisions -> SUBSET Sessions]
    BY <1>0, <1>5, RespondWrites DEF IInv, RequestsHold, TypeOK
  <2> QED
    BY <2>1, <2>2, Undisturbed DEF RequestHolds, Running, Resolved
<1>6. ASSUME NEW t \in Sessions, NEW p \in {"done", "dead"}, Proceed(t, p) PROVE RequestHolds(s)'
  <2>1. sess'[t].pc = p /\ \A u \in Sessions : u # t => sess'[u] = sess[u]
    BY <1>0, <1>6, ProceedMoves DEF Phases
  <2> QED
    BY <2>1, Undisturbed DEF RequestHolds, Running
<1>7. CASE sess' = sess
  BY <1>7, Undisturbed
<1> QED
  BY <1>1, <1>2, <1>3, <1>4, <1>5, <1>6, <1>7
  DEF Next, OpenStep, TimeoutStep, RequestStep, Progress, vars, Open, OpenAnnounce, OpenPing,
      OpenSchedule, TimeoutFire, TimeoutPublish, ExtractItem, CrashOpener, CrashJob,
      ResolveCommit, RespondPublish, RejectCommit, CrashRequest

LEMMA LockStep == IInv /\ [Next]_vars => LockProtocol'
<1> SUFFICES ASSUME IInv, [Next]_vars PROVE LockProtocol'
  OBVIOUS
<1>0. /\ TypeOK /\ LockProtocol
      /\ None \notin Sessions /\ DeskSessions \subseteq Sessions
      /\ EarlyReaders \cap DeskSessions = {}
  BY ConstantsAssumption DEF IInv, Sessions
<1>a. /\ row \in [Decisions -> Row]
      /\ rowLock \in [Decisions -> DeskSessions \cup {None}]
  BY <1>0 DEF TypeOK
<1>1. CASE UNCHANGED <<row, rowLock, sess>>
  BY <1>0, <1>1 DEF LockProtocol
<1>2. ASSUME NEW d \in Decisions, Open(d) PROVE LockProtocol'
  <2>1. rowLock' = rowLock /\ sess' = sess
    BY <1>2 DEF Open
  <2>2. row[d].status = "absent" /\ \A e \in Decisions : e # d => row'[e] = row[e]
    BY <1>2, OpenWrites
  <2>3. rowLock[d] = None
    BY <1>0, <1>a, <2>2 DEF LockProtocol
  <2> QED
    BY <1>0, <1>a, <2>1, <2>2, <2>3 DEF LockProtocol
<1>3. ASSUME NEW d \in Decisions, TimeoutFire(d) PROVE LockProtocol'
  <2>1. rowLock' = rowLock /\ sess' = sess
    BY <1>3 DEF TimeoutFire
  <2>2. \A e \in Decisions : rowLock[e] # None => row'[e] = row[e]
    BY <1>3, TimeoutWrites
  <2> QED
    BY <1>0, <2>1, <2>2 DEF LockProtocol
<1>4. ASSUME NEW s \in Sessions, Respond(s) PROVE LockProtocol'
  <2>1. rowLock' = rowLock /\ sess[s].pc = "loaded"
    BY <1>4 DEF Respond
  <2>2. \A e \in Decisions : rowLock[e] # None => row'[e] = row[e]
    BY <1>4, <1>a, RespondWrites
  <2>3. sess'[s].pc # "locked" /\ \A t \in Sessions : t # s => sess'[t] = sess[t]
    <3>1. PICK p \in {"conflict", "invalid", "committed"} : Proceed(s, p)
      BY <1>4 DEF Respond
    <3> QED
      BY <1>0, <3>1, ProceedMoves DEF Phases
  <2> QED
    BY <1>0, <1>a, <2>1, <2>2, <2>3 DEF LockProtocol
<1>5. ASSUME NEW s \in Sessions, ResolveCommit(s) PROVE LockProtocol'
  <2>1. /\ sess'[s].pc = "done"
        /\ \A t \in Sessions : t # s => sess'[t] = sess[t]
    BY <1>0, <1>5, ResolveWrites, ProceedMoves DEF Phases
  <2>2. /\ sess[s].target \in Decisions /\ rowLock[sess[s].target] = s
        /\ rowLock' = [rowLock EXCEPT ![sess[s].target] = None]
        /\ \A e \in Decisions : e # sess[s].target => row'[e] = row[e]
    BY <1>5, <1>a, ResolveWrites
  <2> QED
    BY <1>0, <1>a, <2>1, <2>2 DEF LockProtocol
<1>6. ASSUME NEW s \in Sessions, NEW d \in Decisions, NEW o \in Replies, ResolveLock(s, d, o)
      PROVE LockProtocol'
  <2>1. row[d].status \in Statuses /\ item[d] \in Items
    BY <1>0 DEF TypeOK, Row
  <2>2. /\ row' = row /\ rowLock[d] = None /\ s \in DeskSessions
    BY <1>6 DEF ResolveLock
  <2>3. CASE row[d].status \in Resolvable /\ o \in Options
    <3>1. /\ rowLock' = [rowLock EXCEPT ![d] = s]
          /\ Receive(s, "locked", d, o, item[d])
      BY <1>6, <2>3 DEF ResolveLock
    <3>2. /\ sess[s].pc = "idle"
          /\ sess'[s] = [pc |-> "locked", target |-> d, choice |-> o, seen |-> item[d]]
          /\ \A t \in Sessions : t # s => sess'[t] = sess[t]
      BY <1>0, <2>1, <3>1, ReceiveMoves DEF Phases
    <3> QED
      BY <1>0, <1>a, <2>2, <2>3, <3>1, <3>2 DEF LockProtocol, Resolvable
  <2>4. CASE ~(row[d].status \in Resolvable /\ o \in Options)
    <3>1. rowLock' = rowLock
      BY <1>6, <2>4 DEF ResolveLock
    <3>2. PICK p \in {"conflict", "invalid"} : Receive(s, p, d, o, row[d].status)
      BY <1>6, <2>4 DEF ResolveLock
    <3> p \in Phases /\ o \in Replies \cup {None} /\ row[d].status \in Statuses \cup Items
      BY <2>1 DEF Phases
    <3>3. /\ sess[s].pc = "idle" /\ sess'[s].pc = p
          /\ \A t \in Sessions : t # s => sess'[t] = sess[t]
      <4>1. sess'[s] = [pc |-> p, target |-> d, choice |-> o, seen |-> row[d].status]
        BY <1>0, <3>2, ReceiveMoves
      <4> QED
        BY <1>0, <3>2, <4>1, ReceiveMoves
    <3> QED
      BY <1>0, <1>a, <2>2, <3>1, <3>3 DEF LockProtocol
  <2> QED
    BY <2>3, <2>4
<1>7. ASSUME NEW s \in Sessions, CrashRequest(s) PROVE LockProtocol'
  <2>1. /\ sess'[s].pc = "dead"
        /\ \A t \in Sessions : t # s => sess'[t] = sess[t]
    BY <1>0, <1>7, ProceedMoves DEF CrashRequest, Phases
  <2>2. /\ row' = row
        /\ rowLock' = [d \in Decisions |-> IF rowLock[d] = s THEN None ELSE rowLock[d]]
    BY <1>7 DEF CrashRequest
  <2> QED
    BY <1>0, <1>a, <2>1, <2>2 DEF LockProtocol
<1>8. ASSUME NEW s \in Sessions, NEW p \in {"loaded", "done", "conflict"},
             sess[s].pc # "locked", sess'[s].pc = p,
             \A t \in Sessions : t # s => sess'[t] = sess[t], UNCHANGED <<row, rowLock>>
      PROVE  LockProtocol'
  BY <1>0, <1>a, <1>8 DEF LockProtocol
<1>9. ASSUME NEW s \in Sessions, NEW d \in Decisions, NEW o \in Replies \cup {None},
             WsLoad(s, d, o) \/ SmsLoad(s, d, o) \/ RejectLoad(s, d)
      PROVE LockProtocol'
  <2>1. row[d].status \in Statuses /\ item[d] \in Items /\ None \in Replies \cup {None}
    BY <1>0 DEF TypeOK, Row
  <2>2. PICK p \in {"loaded", "done", "conflict"}, st \in Statuses \cup Items,
             c \in Replies \cup {None} : Receive(s, p, d, c, st)
    BY <1>9, <2>1 DEF WsLoad, SmsLoad, RejectLoad, Statuses
  <2>3. p \in Phases /\ st \in Statuses \cup Items /\ c \in Replies \cup {None}
    BY <2>2 DEF Phases
  <2>4. /\ sess[s].pc = "idle" /\ sess'[s].pc = p
        /\ \A t \in Sessions : t # s => sess'[t] = sess[t]
    <3>1. sess'[s] = [pc |-> p, target |-> d, choice |-> c, seen |-> st]
      BY <1>0, <2>2, <2>3, ReceiveMoves
    <3> QED
      BY <1>0, <2>2, <2>3, <3>1, ReceiveMoves
  <2>5. UNCHANGED <<row, rowLock>>
    BY <1>9 DEF WsLoad, SmsLoad, RejectLoad
  <2> QED
    BY <1>8, <2>4, <2>5
<1>10. ASSUME NEW s \in Sessions, RespondPublish(s) \/ RejectCommit(s) PROVE LockProtocol'
  <2>1. Proceed(s, "done") /\ sess[s].pc # "locked" /\ UNCHANGED <<row, rowLock>>
    BY <1>10 DEF RespondPublish, RejectCommit
  <2>2. sess'[s].pc = "done" /\ \A t \in Sessions : t # s => sess'[t] = sess[t]
    BY <1>0, <2>1, ProceedMoves DEF Phases
  <2> QED
    BY <1>8, <2>1, <2>2
<1> QED
  BY <1>1, <1>2, <1>3, <1>4, <1>5, <1>6, <1>7, <1>9, <1>10
  DEF Next, OpenStep, TimeoutStep, RequestStep, Progress, vars, OpenAnnounce, OpenPing,
      OpenSchedule, TimeoutPublish, ExtractItem, CrashOpener, CrashJob

LEMMA WinnersStep == IInv /\ [Next]_vars => WinnersStay'
<1> SUFFICES ASSUME IInv, [Next]_vars, NEW d \in Decisions, NEW w \in winners'[d]
             PROVE  sess'[w].pc \in {"committed", "done", "dead"}
  BY DEF WinnersStay
<1>0. /\ TypeOK
      /\ winners \in [Decisions -> SUBSET Sessions]
      /\ winners' \in [Decisions -> SUBSET Sessions]
      /\ w \in winners[d] => sess[w].pc \in {"committed", "done", "dead"}
  BY TypeStep DEF IInv, TypeOK, WinnersStay
<1>1. CASE UNCHANGED <<winners, sess>>
  BY <1>0, <1>1
<1>2. ASSUME NEW s \in Sessions, Respond(s) PROVE sess'[w].pc \in {"committed", "done", "dead"}
  <2>1. PICK p \in {"conflict", "invalid", "committed"} :
          /\ Proceed(s, p)
          /\ IF p = "committed" THEN winners' = [winners EXCEPT ![sess[s].target] = @ \cup {s}]
             ELSE winners' = winners
    BY <1>2, RespondWrites
  <2>2. sess'[s].pc = p /\ \A t \in Sessions : t # s => sess'[t] = sess[t]
    BY <1>0, <2>1, ProceedMoves DEF Phases
  <2>3. sess[s].pc = "loaded"
    BY <1>2, RespondWrites
  <2>4. w \in winners[d] \/ (w = s /\ p = "committed")
    BY <1>0, <2>1
  <2> QED
    BY <1>0, <2>2, <2>3, <2>4
<1>3. ASSUME NEW s \in Sessions, ResolveCommit(s)
      PROVE  sess'[w].pc \in {"committed", "done", "dead"}
  <2>1. sess'[s].pc = "done" /\ \A t \in Sessions : t # s => sess'[t] = sess[t]
    BY <1>0, <1>3, ResolveWrites, ProceedMoves DEF Phases
  <2>2. w \in winners[d] \/ w = s
    BY <1>0, <1>3, ResolveWrites
  <2> QED
    BY <1>0, <2>1, <2>2
<1>4. ASSUME NEW s \in Sessions, NEW p \in {"done", "dead"}, Proceed(s, p), winners' = winners
      PROVE  sess'[w].pc \in {"committed", "done", "dead"}
  <2>1. sess'[s].pc = p /\ \A t \in Sessions : t # s => sess'[t] = sess[t]
    BY <1>0, <1>4, ProceedMoves DEF Phases
  <2> QED
    BY <1>0, <1>4, <2>1
<1>5. ASSUME NEW s \in Sessions, sess[s].pc = "idle", winners' = winners,
             \A t \in Sessions : t # s => sess'[t] = sess[t]
      PROVE  sess'[w].pc \in {"committed", "done", "dead"}
  BY <1>0, <1>5
<1>6. ASSUME NEW s \in Sessions, NEW d2 \in Decisions, NEW o \in Replies \cup {None},
             \/ WsLoad(s, d2, o) \/ SmsLoad(s, d2, o) \/ ResolveLock(s, d2, o)
             \/ RejectLoad(s, d2)
      PROVE  sess'[w].pc \in {"committed", "done", "dead"}
  <2>1. /\ winners' = winners
        /\ sess[s].pc = "idle"
        /\ \E r : sess' = [sess EXCEPT ![s] = r]
    BY <1>6 DEF WsLoad, SmsLoad, ResolveLock, RejectLoad, Receive
  <2>2. \A t \in Sessions : t # s => sess'[t] = sess[t]
    BY <1>0, <2>1 DEF TypeOK
  <2> QED
    BY <1>5, <2>1, <2>2
<1> QED
  BY <1>1, <1>2, <1>3, <1>4, <1>6
  DEF Next, OpenStep, TimeoutStep, RequestStep, Progress, vars, Open, OpenAnnounce, OpenPing,
      OpenSchedule, TimeoutFire, TimeoutPublish, ExtractItem, CrashOpener, CrashJob,
      RespondPublish, RejectCommit, CrashRequest

LEMMA ApprovalStep == IInv /\ [Next]_vars => ApprovalFollowsAnswer'
<1> SUFFICES ASSUME IInv, [Next]_vars, NEW d \in Decisions, item'[d] = "approved"
             PROVE  row'[d].status \in {"answered", "answered_late"}
  BY DEF ApprovalFollowsAnswer
<1>0. /\ item \in [Decisions -> Items]
      /\ row \in [Decisions -> Row]
      /\ item[d] = "approved" => row'[d].status \in {"answered", "answered_late"}
  BY RowsAdvance DEF IInv, TypeOK, ApprovalFollowsAnswer, Advances
<1>1. CASE \E s \in Sessions : ResolveCommit(s)
  <2>1. PICK s \in Sessions : ResolveCommit(s)
    BY <1>1
  <2>2. item[d] = "approved" \/ d = sess[s].target
    BY <1>0, <2>1 DEF ResolveCommit
  <2>3. sess[s].choice \in Options
        /\ \E st \in {"answered", "answered_late"} : row'[sess[s].target] = AnsweredRow(s, st)
    BY <1>0, <2>1, ResolveWrites
  <2> QED
    BY <1>0, <2>2, <2>3 DEF AnsweredRow
<1>2. CASE ~ \E s \in Sessions : ResolveCommit(s)
  <2>1. item[d] = "approved"
    BY <1>0, <1>2
    DEF Next, OpenStep, TimeoutStep, RequestStep, Progress, vars, Open, OpenAnnounce, OpenPing,
        OpenSchedule, TimeoutFire, TimeoutPublish, ExtractItem, CrashOpener, CrashJob, WsLoad,
        SmsLoad, Respond, ResolveLock, RejectLoad, RespondPublish, RejectCommit, CrashRequest
  <2> QED
    BY <1>0, <2>1
<1> QED
  BY <1>1, <1>2

(* Nobody changes the reply of a request that has begun. *)
LEMMA RepliesStay ==
  ASSUME IInv, [Next]_vars, NEW w \in Sessions, sess[w].pc # "idle"
  PROVE  sess'[w].choice = sess[w].choice
<1>0. TypeOK
  BY DEF IInv
<1>1. ASSUME NEW s \in Sessions, \E r : sess[s].pc = "idle" /\ sess' = [sess EXCEPT ![s] = r]
      PROVE  sess'[w].choice = sess[w].choice
  BY <1>0, <1>1 DEF TypeOK
<1>2. ASSUME NEW s \in Sessions, NEW p \in Phases, Proceed(s, p)
      PROVE  sess'[w].choice = sess[w].choice
  BY <1>0, <1>2, ProceedMoves
<1>3. CASE sess' = sess
  BY <1>3
<1> QED
  BY <1>1, <1>2, <1>3
  DEF Next, OpenStep, TimeoutStep, RequestStep, Progress, vars, Open, OpenAnnounce, OpenPing,
      OpenSchedule, TimeoutFire, TimeoutPublish, ExtractItem, CrashOpener, CrashJob, WsLoad,
      SmsLoad, Respond, ResolveLock, ResolveCommit, RejectLoad, RespondPublish, RejectCommit,
      CrashRequest, Receive, Phases

Story(d) ==
  /\ row[d].status \in {"absent", "open"} => row[d] \in {NoRow, OpenRow} /\ winners[d] = {}
  /\ row[d].status = "timed_out" =>
       row[d].response = None /\ row[d].via = "timeout" /\ winners[d] = {}
  /\ row[d].status \in {"answered", "answered_late"} =>
       /\ row[d].response \in Options
       /\ \E s \in winners[d] : row[d].response = sess[s].choice /\ row[d].via = Via(s)

LEMMA StoryStep == IInv /\ [Next]_vars => RowTellsOneStory'
<1> SUFFICES ASSUME IInv, [Next]_vars, NEW d \in Decisions PROVE Story(d)'
  BY DEF RowTellsOneStory, Story
<1>0. /\ TypeOK /\ Story(d)
      /\ row \in [Decisions -> Row]
      /\ winners \in [Decisions -> SUBSET Sessions]
  BY DEF IInv, TypeOK, RowTellsOneStory, Story
<1>a. \A w \in winners[d] : sess'[w].choice = sess[w].choice
  <2> SUFFICES ASSUME NEW w \in winners[d] PROVE sess'[w].choice = sess[w].choice
    OBVIOUS
  <2>1. w \in Sessions /\ sess[w].pc # "idle"
    BY <1>0 DEF IInv, WinnersStay
  <2> QED
    BY <2>1, RepliesStay
<1>b. CASE row'[d] = row[d] /\ winners'[d] = winners[d]
  BY <1>0, <1>a, <1>b DEF Story, Via
<1>c. ASSUME NEW s \in Sessions, NEW st \in {"answered", "answered_late"},
             sess[s].pc # "idle", sess[s].choice \in Options,
             row'[d] = AnsweredRow(s, st), s \in winners'[d]
      PROVE  Story(d)'
  <2>1. /\ row'[d].status = st /\ row'[d].response = sess[s].choice /\ row'[d].via = Via(s)
    BY <1>c, AnsweredRowType DEF Statuses
  <2>2. sess'[s].choice = sess[s].choice
    BY <1>c, RepliesStay
  <2> QED
    BY <1>c, <2>1, <2>2 DEF Story, Via
<1>1. ASSUME NEW e \in Decisions, Open(e) PROVE Story(d)'
  <2>1. CASE e = d
    BY <1>0, <1>1, <2>1, OpenWrites DEF Open, Story, OpenRow, NoRow
  <2>2. CASE e # d
    BY <1>1, <1>b, <2>2, OpenWrites DEF Open
  <2> QED
    BY <2>1, <2>2
<1>2. ASSUME NEW e \in Decisions, TimeoutFire(e) PROVE Story(d)'
  <2>1. winners' = winners
    BY <1>2 DEF TimeoutFire
  <2>2. CASE row'[d] = row[d]
    BY <1>b, <2>1, <2>2
  <2>3. CASE row[d].status = "open" /\ row'[d] = TimedOut(row[d])
    BY <1>0, <2>1, <2>3 DEF Story, TimedOut, OpenRow, NoRow
  <2> QED
    BY <1>2, <2>2, <2>3, TimeoutWrites
<1>3. ASSUME NEW s \in Sessions, Respond(s) PROVE Story(d)'
  <2>1. CASE d = sess[s].target /\ sess[s].choice \in Options /\ row' # row
    <3>1. row'[d] = AnsweredRow(s, "answered") /\ s \in winners'[d]
      BY <1>0, <1>3, <2>1, RespondWrites
    <3> QED
      BY <1>3, <1>c, <2>1, <3>1, RespondWrites
  <2>2. CASE row' = row /\ winners' = winners
    BY <1>b, <2>2
  <2>3. CASE d # sess[s].target
    BY <1>0, <1>3, <1>b, <2>3, RespondWrites
  <2>4. CASE d = sess[s].target /\ sess[s].choice \in Options /\ row' = row /\ winners' # winners
    <3>1. row'[d] = AnsweredRow(s, "answered") /\ s \in winners'[d]
      BY <1>0, <1>3, <2>4, RespondWrites
    <3> QED
      BY <1>3, <1>c, <2>4, <3>1, RespondWrites
  <2> QED
    BY <1>3, <2>1, <2>2, <2>3, <2>4, RespondWrites
<1>4. ASSUME NEW s \in Sessions, ResolveCommit(s) PROVE Story(d)'
  <2>1. CASE d = sess[s].target
    <3>1. PICK st \in {"answered", "answered_late"} : row' = [row EXCEPT ![d] = AnsweredRow(s, st)]
      BY <1>4, <2>1, ResolveWrites
    <3>2. s \in winners'[d]
      BY <1>0, <1>4, <2>1, ResolveWrites
    <3>3. row'[d] = AnsweredRow(s, st)
      BY <1>0, <3>1
    <3> QED
      BY <1>4, <1>c, <3>2, <3>3, ResolveWrites
  <2>2. CASE d # sess[s].target
    BY <1>0, <1>4, <1>b, <2>2, ResolveWrites
  <2> QED
    BY <2>1, <2>2
<1>5. CASE UNCHANGED <<row, winners>>
  BY <1>b, <1>5
<1> QED
  BY <1>1, <1>2, <1>3, <1>4, <1>5
  DEF Next, OpenStep, TimeoutStep, RequestStep, Progress, vars, OpenAnnounce, OpenPing,
      OpenSchedule, TimeoutPublish, ExtractItem, CrashOpener, CrashJob, WsLoad, SmsLoad,
      ResolveLock, RejectLoad, RespondPublish, RejectCommit, CrashRequest

LEMMA AppendItems ==
  ASSUME NEW S, NEW q \in Seq(S), NEW f \in S, NEW i \in DOMAIN Append(q, f)
  PROVE  Append(q, f)[i] = f \/ (i \in DOMAIN q /\ Append(q, f)[i] = q[i])
  BY AppendProperties

(* Publishing adds one frame to one decision's frames. *)
LEMMA PublishAdds ==
  ASSUME TypeOK, NEW d \in Decisions, NEW e \in Decisions, NEW f \in Frames, Publish(e, f)
  PROVE  IF d = e THEN Published(d)' \subseteq Published(d) \cup {f}
                  ELSE Published(d)' = Published(d)
<1>1. frames[d] \in Seq(Frames) /\ frames' = [frames EXCEPT ![e] = Append(frames[e], f)]
  BY DEF TypeOK, Publish
<1>2. CASE d = e
  <2>1. frames'[d] = Append(frames[d], f)
    BY <1>1, <1>2 DEF TypeOK
  <2>2. \A i \in DOMAIN Append(frames[d], f) :
          \/ Append(frames[d], f)[i] = f
          \/ i \in DOMAIN frames[d] /\ Append(frames[d], f)[i] = frames[d][i]
    BY <1>1, AppendItems
  <2> QED
    BY <1>2, <2>1, <2>2 DEF Published
<1>3. CASE d # e
  BY <1>1, <1>3 DEF TypeOK, Published
<1> QED
  BY <1>2, <1>3

LEMMA FramesStep == IInv /\ [Next]_vars => NoFrameBeforeCommit'
<1> SUFFICES ASSUME IInv, [Next]_vars, NEW d \in Decisions
             PROVE  /\ "answered" \in Published(d)' => winners'[d] # {}
                    /\ "timed_out" \in Published(d)' => Resolved(d)'
  BY DEF NoFrameBeforeCommit
<1>0. /\ TypeOK
      /\ "answered" \in Published(d) => winners'[d] # {}
      /\ "timed_out" \in Published(d) => Resolved(d)'
      /\ winners[d] \subseteq winners'[d]
      /\ Resolved(d) => Resolved(d)'
  BY RowsAdvance DEF IInv, NoFrameBeforeCommit, Advances
<1>1. ASSUME NEW e \in Decisions, OpenAnnounce(e)
      PROVE  /\ "answered" \in Published(d)' => winners'[d] # {}
             /\ "timed_out" \in Published(d)' => Resolved(d)'
  <2>1. Published(d)' \subseteq Published(d) \cup {"opened"}
    BY <1>0, <1>1, PublishAdds DEF OpenAnnounce, Frames
  <2> QED
    BY <1>0, <2>1
<1>2. ASSUME NEW e \in Decisions, TimeoutPublish(e)
      PROVE  /\ "answered" \in Published(d)' => winners'[d] # {}
             /\ "timed_out" \in Published(d)' => Resolved(d)'
  <2>1. IF d = e THEN Published(d)' \subseteq Published(d) \cup {"timed_out"}
                 ELSE Published(d)' = Published(d)
    BY <1>0, <1>2, PublishAdds DEF TimeoutPublish, Frames
  <2>2. Resolved(e)
    BY <1>2 DEF TimeoutPublish, IInv, JobsSettle
  <2> QED
    BY <1>0, <2>1, <2>2
<1>3. ASSUME NEW s \in Sessions, RespondPublish(s)
      PROVE  /\ "answered" \in Published(d)' => winners'[d] # {}
             /\ "timed_out" \in Published(d)' => Resolved(d)'
  <2>1. sess[s].target \in Decisions /\ s \in winners[sess[s].target]
    BY <1>3 DEF RespondPublish, IInv, RequestsHold, RequestHolds, Running
  <2>2. IF d = sess[s].target THEN Published(d)' \subseteq Published(d) \cup {"answered"}
                              ELSE Published(d)' = Published(d)
    BY <1>0, <1>3, <2>1, PublishAdds DEF RespondPublish, Frames
  <2> QED
    BY <1>0, <2>1, <2>2
<1>4. CASE frames' = frames
  BY <1>0, <1>4 DEF Published
<1> QED
  BY <1>1, <1>2, <1>3, <1>4
  DEF Next, OpenStep, TimeoutStep, RequestStep, Progress, vars, Open, OpenPing, OpenSchedule,
      TimeoutFire, ExtractItem, CrashOpener, CrashJob, WsLoad, SmsLoad, Respond, ResolveLock,
      ResolveCommit, RejectLoad, RejectCommit, CrashRequest

----------------------------------------------------------------------------
LEMMA Inductive == IInv /\ [Next]_vars => IInv'
  BY TypeStep, OpenedOnceStep, JobsSettleStep, RequestsStep, LockStep, WinnersStep, StoryStep,
     ApprovalStep, FramesStep
  DEF IInv

THEOREM Invariance == Spec => []IInv
<1>1. Init => IInv
  BY InitEstablishes
<1>2. IInv /\ [Next]_vars => IInv'
  BY Inductive
<1> QED
  BY <1>1, <1>2, PTL DEF Spec

(* Every variable keeps its type: in particular an accepted response is    *)
(* one of the options and only resolve_now holds a lock across steps.      *)
THEOREM TypeCorrect == Spec => []TypeOK
  BY Invariance, PTL DEF IInv

(* A lock is held by exactly the resolve_now request that is between its   *)
(* check and its commit, and what it checked is still so.                  *)
THEOREM LocksAreSound == Spec => []LockProtocol
  BY Invariance, PTL DEF IInv

(* A timeout never sits on top of an answer and an answer is somebody's,   *)
(* even with the stale checks of respond().                                *)
THEOREM StoryHolds == Spec => []RowTellsOneStory
  BY Invariance, PTL DEF IInv

(* resolve_now never leaves an approved action item without its answer.    *)
THEOREM ApprovalHolds == Spec => []ApprovalFollowsAnswer
  BY Invariance, PTL DEF IInv

(* No decision.resolved frame precedes the commit it reports.              *)
THEOREM FramesHold == Spec => []NoFrameBeforeCommit
  BY Invariance, PTL DEF IInv

(* The conflict check turns no first responder away.                       *)
THEOREM RefusalsHold == Spec => []RefusedOnlyIfResolved
<1>1. IInv => RefusedOnlyIfResolved
  BY DEF IInv, RequestsHold, RequestHolds, RefusedOnlyIfResolved, Sessions
<1> QED
  BY <1>1, Invariance, PTL

----------------------------------------------------------------------------
(* Where every writer loads the row by its FOR UPDATE statement. *)

LEMMA WinnerStep ==
  ASSUME EarlyReaders = {}, IInv, AtMostOneWinner, [Next]_vars
  PROVE  AtMostOneWinner'
<1>0. winners \in [Decisions -> SUBSET Sessions]
  BY DEF IInv, TypeOK
<1>1. CASE winners' = winners
  BY <1>1 DEF AtMostOneWinner
<1>2. ASSUME NEW s \in Sessions, ResolveCommit(s) PROVE AtMostOneWinner'
  <2>1. winners[sess[s].target] = {}
    BY <1>2, ResolveWrites DEF IInv, RowTellsOneStory
  <2> QED
    BY <1>0, <1>2, <2>1, ResolveWrites DEF AtMostOneWinner
<1> QED
  BY <1>1, <1>2
  DEF Next, OpenStep, TimeoutStep, RequestStep, Progress, vars, Open, OpenAnnounce, OpenPing,
      OpenSchedule, TimeoutFire, TimeoutPublish, ExtractItem, CrashOpener, CrashJob, WsLoad,
      SmsLoad, Respond, ResolveLock, RejectLoad, RespondPublish, RejectCommit, CrashRequest

(* First responder wins, for any number of decisions, resolve_now sessions *)
(* and crashes, as long as nobody checks a row loaded before its lock.     *)
THEOREM FirstResponderWins ==
  ASSUME EarlyReaders = {} PROVE Spec => []AtMostOneWinner
<1>1. Init => AtMostOneWinner
  BY DEF Init, AtMostOneWinner
<1>2. IInv /\ AtMostOneWinner /\ [Next]_vars => AtMostOneWinner'
  BY WinnerStep
<1> QED
  BY <1>1, <1>2, Invariance, PTL DEF Spec

(* The board a state shows. *)
Shown == [d \in Decisions |-> [status |-> row[d].status, response |-> row[d].response]]

LEMMA ShownMoves ==
  ASSUME NEW d \in Decisions, row \in [Decisions -> Row], row' \in [Decisions -> Row],
         \A e \in Decisions : e # d => row'[e] = row[e]
  PROVE  Shown' = [Shown EXCEPT ![d] = [status |-> row'[d].status, response |-> row'[d].response]]
  BY DEF Shown

LEMMA BoardStep ==
  EarlyReaders = {} /\ IInv /\ IInv' /\ [Next]_vars => [Board!Next]_Shown
<1> SUFFICES ASSUME EarlyReaders = {}, IInv, IInv', [Next]_vars PROVE [Board!Next]_Shown
  OBVIOUS
<1>0. row \in [Decisions -> Row] /\ row' \in [Decisions -> Row]
  BY DEF IInv, TypeOK
<1>1. CASE row' = row
  BY <1>1 DEF Shown
<1>2. ASSUME NEW d \in Decisions, Open(d) PROVE Board!Next
  <2>1. row[d] = NoRow
    BY <1>2, OpenWrites DEF IInv, RowTellsOneStory, OpenRow, NoRow
  <2>2. Shown' = [Shown EXCEPT ![d] = [status |-> "open", response |-> None]]
    BY <1>0, <1>2, OpenWrites, ShownMoves DEF OpenRow, NoRow
  <2>3. Board!Ask(d)
    BY <2>1, <2>2 DEF Board!Ask, Board!Move, Board!Unresolved, Shown, NoRow
  <2> QED
    BY <2>3 DEF Board!Next
<1>3. ASSUME NEW d \in Decisions, TimeoutFire(d), row' # row PROVE Board!Next
  <2>1. row[d].status = "open" /\ row'[d] = TimedOut(row[d])
    BY <1>0, <1>3 DEF TimeoutFire
  <2>2. row[d].response = None
    BY <2>1 DEF IInv, RowTellsOneStory, OpenRow, NoRow
  <2>3. Shown' = [Shown EXCEPT ![d] = [status |-> "timed_out", response |-> None]]
    BY <1>0, <1>3, <2>1, <2>2, TimeoutWrites, ShownMoves DEF TimedOut
  <2>4. Board!Expire(d)
    BY <2>1, <2>2, <2>3 DEF Board!Expire, Board!Move, Board!Unresolved, Shown
  <2> QED
    BY <2>4 DEF Board!Next
<1>4. ASSUME NEW s \in Sessions, ResolveCommit(s) PROVE Board!Next
  <2> DEFINE d == sess[s].target
             o == sess[s].choice
             st == IF row[d].status = "timed_out" THEN "answered_late" ELSE "answered"
  <2>1. /\ d \in Decisions /\ o \in Options
        /\ row[d].status \in {"open", "timed_out"}
    BY <1>4, ResolveWrites
  <2>2. row' = [row EXCEPT ![d] = AnsweredRow(s, st)]
    BY <1>4 DEF ResolveCommit
  <2>3. row[d].response = None
    BY <2>1 DEF IInv, RowTellsOneStory, OpenRow, NoRow
  <2>4. row'[d].status = st /\ row'[d].response = o
    BY <1>0, <2>1, <2>2 DEF AnsweredRow
  <2>5. Shown' = [Shown EXCEPT ![d] = [status |-> st, response |-> o]]
    BY <1>0, <2>1, <2>2, <2>4, ShownMoves
  <2>6. CASE row[d].status = "open"
    BY <2>1, <2>3, <2>5, <2>6 DEF Board!Next, Board!Answer, Board!Move, Board!Unresolved, Shown
  <2>7. CASE row[d].status = "timed_out"
    BY <2>1, <2>3, <2>5, <2>7 DEF Board!Next, Board!AnswerLate, Board!Move, Board!Unresolved, Shown
  <2> QED
    BY <2>1, <2>6, <2>7
<1> QED
  BY <1>1, <1>2, <1>3, <1>4
  DEF Next, OpenStep, TimeoutStep, RequestStep, Progress, vars, OpenAnnounce, OpenPing,
      OpenSchedule, TimeoutPublish, ExtractItem, CrashOpener, CrashJob, WsLoad, SmsLoad,
      Respond, ResolveLock, RejectLoad, RespondPublish, RejectCommit, CrashRequest

(* The rows implement the abstract lifecycle: asked once, answered once or *)
(* timed out, then perhaps answered late, and no answer ever replaced.     *)
THEOREM Implementation ==
  ASSUME EarlyReaders = {} PROVE Spec => ImplementsBoard
<1>1. Init => Board!Init
  BY DEF Init, Board!Init, Board!Unresolved, NoRow
<1>2. EarlyReaders = {} /\ IInv /\ IInv' /\ [Next]_vars => [Board!Next]_Shown
  BY BoardStep
<1>3. [Board!Next]_Shown <=> [Board!Next]_([d \in Decisions |->
         [status |-> row[d].status, response |-> row[d].response]])
  BY DEF Shown
<1> QED
  BY <1>1, <1>2, <1>3, Invariance, PTL DEF Spec, ImplementsBoard, Board!Spec


-----------------------------------------------------------------------------
(* What is put before the Manager. *)

Reading == {r \in Runs : rollup[r].at \in {"read", "stored"}}

(* What has been committed was surfaced, and what is to be shown is stored. *)
StagesHold ==
  \A r \in Runs :
    /\ r \in Committed =>
         /\ rollup[r].at \in {"committed", "done", "dead"}
         /\ rollup[r].missed \subseteq surfaced
    /\ rollup[r].at \in {"stored", "committed"} => r \in blobs

(* A run that has read and not committed met every run that read or         *)
(* committed what it read.                                                  *)
OverlapsAreKnown ==
  \A r \in Reading :
    /\ \A s \in Reading \ {r} : {r, s} \in met
    /\ \A s \in Committed : rollup[r].missed \cap rollup[s].missed # {} => {r, s} \in met

BriefsInv == BriefTypeOK /\ StagesHold /\ OverlapsAreKnown /\ MissesAreBriefed

(* Queries a request did not meet. *)
Strangers(p) == {o \in pinned : {p, o} \notin met}

Apart(S) == \A a, b \in S : a # b => {a, b} \notin met

(* A request that has counted is still under the cap but for those it met,  *)
(* so no set of queries that never met is over it.                          *)
PinsInv ==
  /\ IsFiniteSet(pinned)
  /\ \A p \in pinned : pin[p] = "saved"
  /\ \A p \in Counting :
       /\ Cardinality(Strangers(p)) < MaxPinned
       /\ \A o \in Counting \ {p} : {p, o} \in met
  /\ \A S \in SUBSET pinned : Apart(S) => Cardinality(S) <= MaxPinned

(* How far a check is tells what it has opened, and what cut it short.      *)
ChecksInv ==
  /\ VerifierTypeOK /\ VerdictsAreKept
  /\ \A v \in Checks :
       /\ check[v].at = "named" => v \in opened
       /\ check[v].at \in {"start", "reused", "fetch", "open", "persist"} => v \notin opened
       /\ check[v].at = "persist" /\ check[v].verdict = "contradicted" => v \in cut
  /\ \A c \in claims : check[c.by].at = "done"

RepliesTypeOK ==
  /\ {sent, mailed} \subseteq SUBSET Runs /\ {replied, followups} \subseteq SUBSET Hooks
  /\ hook \in [Hooks -> {"start", "waiting", "found", "orphan", "routed", "dropped", "lost"}]

RepliesInv ==
  /\ RepliesTypeOK
  /\ \A w \in Hooks :
       /\ hook[w] = "found" => ParentOf[w] \in mailed
       /\ w \in replied => SenderOf[w] = "manager" /\ ParentOf[w] \in mailed
       /\ w \in followups => SenderOf[w] = "rep" /\ ParentOf[w] \in mailed
       /\ hook[w] = "routed" => w \in replied \cup followups

ReviewInv == BriefsInv /\ PinsInv /\ ChecksInv /\ RepliesInv

-----------------------------------------------------------------------------
(* The briefs *)

LEMMA PairsCommute == \A a, b : {a, b} = {b, a}
OBVIOUS

LEMMA CommittedRows == \A r : r \in Committed <=> \E d \in Dates : r \in rows[d]
BY DEF Committed

(* Requests to save a query add to what overlapped and touch no brief; a    *)
(* routed reply may add a fault.                                            *)
LEMMA OthersKeepBriefs ==
  ASSUME BriefsInv,
         UNCHANGED <<dec, surfaced, rollup, blobs, shown, rows, queued>>,
         met \subseteq met', faults' \in 0..MaxFaults,
         pinned' \in SUBSET Pins,
         pin' \in [Pins -> {"start", "counted", "refused", "saved"}]
  PROVE  BriefsInv'
<1>1. Committed' = Committed /\ Reading' = Reading
  BY DEF Committed, Reading, Dates
<1>2. BriefTypeOK'
  BY DEF BriefsInv, BriefTypeOK, Dates
<1>3. StagesHold' /\ OverlapsAreKnown'
  BY <1>1 DEF BriefsInv, StagesHold, OverlapsAreKnown
<1>4. NoMissIsLost' /\ ListedOnce' /\ ShownIsStored'
  BY <1>1 DEF BriefsInv, MissesAreBriefed, NoMissIsLost, ListedOnce, ShownIsStored, Dates
<1> QED
  BY <1>2, <1>3, <1>4 DEF BriefsInv, MissesAreBriefed

LEMMA DecisionsKeepBriefs ==
  ASSUME BriefsInv, NEW d \in Missable, TimeOut(d) \/ resolve_now(d)
  PROVE  BriefsInv'
<1>0. dec' \in [Missable -> {"open", "timed_out", "answered", "answered_late"}]
      /\ UNCHANGED <<surfaced, rollup, blobs, shown, rows, queued, pinned, pin, faults, met>>
  BY DEF TimeOut, resolve_now, BriefsInv, BriefTypeOK
<1>1. Committed' = Committed /\ Reading' = Reading
  BY <1>0 DEF Committed, Reading, Dates
<1>2. BriefTypeOK'
  BY <1>0 DEF BriefsInv, BriefTypeOK, Dates
<1>3. StagesHold' /\ OverlapsAreKnown'
  BY <1>0, <1>1 DEF BriefsInv, StagesHold, OverlapsAreKnown
<1>4. NoMissIsLost' /\ ListedOnce' /\ ShownIsStored'
  BY <1>0, <1>1 DEF BriefsInv, MissesAreBriefed, NoMissIsLost, ListedOnce, ShownIsStored, Dates
<1> QED
  BY <1>2, <1>3, <1>4 DEF BriefsInv, MissesAreBriefed

LEMMA ReadKeepsBriefs ==
  ASSUME BriefsInv, NEW r \in Runs, compute_aggregate(r)
  PROVE  BriefsInv'
<1>0. /\ rollup[r].at = "idle"
      /\ rollup'[r].at = "read" /\ rollup'[r].missed \in SUBSET Missable
      /\ rollup'[r].missed \cap surfaced = {}
      /\ \A s \in Runs \ {r} : rollup'[s] = rollup[s]
      /\ met' = met \cup {{r, s} : s \in Active}
      /\ UNCHANGED <<dec, surfaced, blobs, shown, rows, queued, pinned, pin, faults>>
  BY DEF compute_aggregate, BriefsInv, BriefTypeOK
<1>1. Committed' = Committed /\ r \notin Committed /\ Committed \subseteq Runs
  <2>1. Committed \subseteq Runs
    BY CommittedRows DEF BriefsInv, BriefTypeOK
  <2> QED
    BY <1>0, <2>1 DEF Committed, Dates, BriefsInv, StagesHold
<1>2. Reading' = Reading \cup {r} /\ Reading \subseteq Active
  BY <1>0 DEF Reading, Active
<1>3. BriefTypeOK'
  <2>1. rollup' \in [Runs -> [at: {"idle", "read", "stored", "committed", "done", "failed", "dead"},
                              missed: SUBSET Missable]]
    BY DEF compute_aggregate, BriefsInv, BriefTypeOK
  <2> QED
    BY <1>0, <2>1 DEF BriefsInv, BriefTypeOK, Dates
<1>4. StagesHold'
  BY <1>0, <1>1 DEF BriefsInv, StagesHold
<1>5. OverlapsAreKnown'
  <2>1. \A s \in Reading \ {r} : {r, s} \in met' /\ {s, r} \in met'
    BY <1>0, <1>2, PairsCommute
  <2>2. \A q, s \in Reading \ {r} : q # s => {q, s} \in met'
    BY <1>0 DEF BriefsInv, OverlapsAreKnown
  <2>3. \A s \in Committed : rollup'[r].missed \cap rollup'[s].missed = {}
    BY <1>0, <1>1 DEF BriefsInv, StagesHold
  <2>4. \A q \in Reading \ {r}, s \in Committed :
          rollup'[q].missed \cap rollup'[s].missed # {} => {q, s} \in met'
    BY <1>0, <1>1 DEF BriefsInv, OverlapsAreKnown, Reading
  <2> QED
    BY <1>1, <1>2, <2>1, <2>2, <2>3, <2>4 DEF OverlapsAreKnown
<1>6. NoMissIsLost' /\ ListedOnce' /\ ShownIsStored'
  BY <1>0, <1>1 DEF BriefsInv, MissesAreBriefed, NoMissIsLost, ListedOnce, ShownIsStored, Dates
<1> QED
  BY <1>3, <1>4, <1>5, <1>6 DEF BriefsInv, MissesAreBriefed

(* A run moves on without committing anything. *)
LEMMA MoveKeepsBriefs ==
  ASSUME BriefsInv, NEW r \in Runs, StoreBrief(r) \/ EnqueueBrief(r) \/ CrashRollup(r)
  PROVE  BriefsInv'
<1>0. /\ rollup' \in [Runs -> [at: {"idle", "read", "stored", "committed", "done", "failed", "dead"},
                               missed: SUBSET Missable]]
      /\ \A s \in Runs : rollup'[s].missed = rollup[s].missed
      /\ \A s \in Runs \ {r} : rollup'[s] = rollup[s]
      /\ UNCHANGED <<dec, surfaced, shown, rows, pinned, pin, met>>
  BY DEF StoreBrief, EnqueueBrief, CrashRollup, Goes, BriefsInv, BriefTypeOK
<1>1. /\ rollup'[r].at \in {"committed", "done", "dead"} \/ rollup[r].at = "read"
      /\ rollup'[r].at \in {"read", "stored"} => rollup[r].at = "read"
      /\ rollup'[r].at \in {"stored", "committed"} => r \in blobs'
      /\ blobs \subseteq blobs' /\ blobs' \subseteq blobs \cup {r}
      /\ queued' = queued \/ (queued' = queued \cup {r} /\ r \in blobs)
  BY DEF StoreBrief, EnqueueBrief, CrashRollup, Goes, BriefsInv, BriefTypeOK, StagesHold
<1>2. faults' \in 0..MaxFaults
  BY BriefAssumption DEF StoreBrief, EnqueueBrief, CrashRollup, Fault, BriefsInv, BriefTypeOK
<1>3. Committed' = Committed /\ Reading' \subseteq Reading /\ Committed \subseteq Runs
  <2>1. Committed \subseteq Runs
    BY CommittedRows DEF BriefsInv, BriefTypeOK
  <2> QED
    BY <1>0, <1>1, <2>1 DEF Committed, Dates, Reading
<1>4. BriefTypeOK'
  BY <1>0, <1>1, <1>2 DEF BriefsInv, BriefTypeOK, Dates
<1>5. StagesHold'
  BY <1>0, <1>1, <1>3 DEF BriefsInv, StagesHold
<1>6. OverlapsAreKnown'
  BY <1>0, <1>3 DEF BriefsInv, OverlapsAreKnown, Reading
<1>7. NoMissIsLost' /\ ListedOnce' /\ ShownIsStored'
  <2>1. ShownIsStored'
    BY <1>0, <1>1 DEF BriefsInv, MissesAreBriefed, ShownIsStored, Dates
  <2> QED
    BY <1>0, <1>3, <2>1 DEF BriefsInv, MissesAreBriefed, NoMissIsLost, ListedOnce
<1> QED
  BY <1>4, <1>5, <1>6, <1>7 DEF BriefsInv, MissesAreBriefed

LEMMA CommitKeepsBriefs ==
  ASSUME BriefsInv, NEW r \in Runs, Commit(r)
  PROVE  BriefsInv'
<1> DEFINE D == DateOf[r]
<1>0. /\ rollup' \in [Runs -> [at: {"idle", "read", "stored", "committed", "done", "failed", "dead"},
                               missed: SUBSET Missable]]
      /\ \A s \in Runs : rollup'[s].missed = rollup[s].missed
      /\ \A s \in Runs \ {r} : rollup'[s] = rollup[s]
      /\ rollup[r].at = "stored" /\ rollup'[r].at = "committed"
      /\ surfaced' = surfaced \cup rollup[r].missed
      /\ UNCHANGED <<dec, blobs, queued, pinned, pin, faults, met>>
  BY DEF Commit, Goes, BriefsInv, BriefTypeOK
<1>1. D \in Dates /\ Dates' = Dates
  BY DEF Dates
<1>2. /\ rows' \in [Dates -> SUBSET Runs]
      /\ rows'[D] = rows[D] \cup {r} /\ \A d \in Dates \ {D} : rows'[d] = rows[d]
      /\ shown' \in [Dates -> Runs \cup {"none"}]
      /\ shown'[D] = r /\ \A d \in Dates \ {D} : shown'[d] = shown[d]
  BY <1>1 DEF Commit, BriefsInv, BriefTypeOK
<1> HIDE DEF D
<1>3. Committed' = Committed \cup {r} /\ Committed \subseteq Runs
  <2>1. \A s : s \in Committed' <=> \E d \in Dates : s \in rows'[d]
    BY <1>1 DEF Committed
  <2>2. \A s : s \in Committed' <=> s \in Committed \/ s = r
    BY <1>1, <1>2, <2>1, CommittedRows
  <2>3. Committed \subseteq Runs
    BY CommittedRows DEF BriefsInv, BriefTypeOK
  <2> QED
    BY <2>2, <2>3
<1>4. Reading' = Reading \ {r} /\ r \in Reading /\ Reading \subseteq Runs
  BY <1>0 DEF Reading
<1>5. BriefTypeOK'
  BY <1>0, <1>1, <1>2 DEF BriefsInv, BriefTypeOK
<1>6. StagesHold'
  BY <1>0, <1>3 DEF BriefsInv, StagesHold
<1>7. OverlapsAreKnown'
  BY <1>0, <1>3, <1>4 DEF BriefsInv, OverlapsAreKnown
<1>8. NoMissIsLost'
  BY <1>0, <1>3 DEF BriefsInv, MissesAreBriefed, NoMissIsLost
<1>9. ListedOnce'
  <2>1. \A s \in Committed : rollup[r].missed \cap rollup[s].missed # {}
                             => {r, s} \in met /\ {s, r} \in met
    BY <1>4, PairsCommute DEF BriefsInv, OverlapsAreKnown
  <2>2. \A q \in Committed : \A s \in Committed \ {q} :
          rollup[q].missed \cap rollup[s].missed # {} => {q, s} \in met
    BY DEF BriefsInv, MissesAreBriefed, ListedOnce
  <2>3. \A q, s \in Runs : rollup'[q].missed \cap rollup'[s].missed
                           = rollup[s].missed \cap rollup[q].missed
    BY <1>0
  <2>4. ASSUME NEW q \in Committed', NEW s \in Committed' \ {q},
               rollup'[q].missed \cap rollup'[s].missed # {}
        PROVE  {q, s} \in met'
    <3>1. rollup[q].missed \cap rollup[s].missed # {} /\ rollup[s].missed \cap rollup[q].missed # {}
      BY <1>0, <1>3, <2>3, <2>4
    <3>2. CASE q = r
      BY <1>0, <1>3, <2>1, <3>1, <3>2
    <3>3. CASE s = r
      BY <1>0, <1>3, <2>1, <3>1, <3>3
    <3>4. CASE q # r /\ s # r
      BY <1>0, <1>3, <2>2, <3>1, <3>4
    <3> QED
      BY <3>2, <3>3, <3>4
  <2> QED
    BY <2>4 DEF ListedOnce
<1>10. ShownIsStored'
  BY <1>0, <1>1, <1>2 DEF BriefsInv, MissesAreBriefed, ShownIsStored, StagesHold
<1> QED
  BY <1>5, <1>6, <1>7, <1>8, <1>9, <1>10 DEF BriefsInv, MissesAreBriefed

-----------------------------------------------------------------------------
(* Saved queries *)

LEMMA SmallerStaysUnder ==
  ASSUME NEW S, IsFiniteSet(S), NEW T \in SUBSET S, NEW n \in Nat, Cardinality(S) < n
  PROVE  Cardinality(T) < n
<1>1. Cardinality(T) <= Cardinality(S) /\ IsFiniteSet(T)
  BY FS_Subset
<1>2. Cardinality(T) \in Nat /\ Cardinality(S) \in Nat
  BY <1>1, FS_CardinalityType
<1> QED
  BY <1>1, <1>2

(* The briefs' runs add to what overlapped and touch no query. *)
LEMMA OthersKeepPins ==
  ASSUME PinsInv, UNCHANGED <<pinned, pin>>, met \subseteq met'
  PROVE  PinsInv'
<1>1. \A p \in Counting : Strangers(p)' \subseteq Strangers(p) /\ Strangers(p) \subseteq pinned
  BY DEF Strangers
<1>2. \A p \in Counting : Cardinality(Strangers(p)') < MaxPinned
  <2> TAKE p \in Counting
  <2>1. IsFiniteSet(Strangers(p))
    BY <1>1, FS_Subset DEF PinsInv
  <2> QED
    BY <1>1, <2>1, SmallerStaysUnder, BriefAssumption DEF PinsInv
<1>3. Counting' = Counting
  BY DEF Counting
<1>4. \A S \in SUBSET pinned : Apart(S)' => Apart(S)
  BY DEF Apart
<1> QED
  BY <1>2, <1>3, <1>4 DEF PinsInv, Apart

LEMMA CountKeepsPins ==
  ASSUME PinsInv, pin \in [Pins -> {"start", "counted", "refused", "saved"}],
         NEW p \in Pins, count_pinned(p)
  PROVE  PinsInv'
<1>0. /\ pin[p] = "start" /\ pinned' = pinned
      /\ \A o \in Pins \ {p} : pin'[o] = pin[o]
      /\ pin'[p] = "counted" => ~ (Cardinality(pinned) >= MaxPinned)
      /\ met' = met \cup {{p, o} : o \in Counting}
  BY DEF count_pinned
<1>1. Cardinality(pinned) \in Nat
  BY FS_CardinalityType DEF PinsInv
<1>2. \A q \in Counting' : Cardinality(Strangers(q)') < MaxPinned
  <2> SUFFICES ASSUME NEW q \in Counting' PROVE Cardinality(Strangers(q)') < MaxPinned
    OBVIOUS
  <2>1. CASE q = p
    <3>1. Cardinality(pinned) < MaxPinned
      BY <1>0, <1>1, <2>1, BriefAssumption DEF Counting
    <3>2. Strangers(q)' \subseteq pinned
      BY <1>0 DEF Strangers
    <3> QED
      BY <3>1, <3>2, SmallerStaysUnder, BriefAssumption DEF PinsInv
  <2>2. CASE q # p
    <3>1. q \in Counting
      BY <1>0, <2>2 DEF Counting
    <3>2. Strangers(q)' \subseteq Strangers(q) /\ Strangers(q) \subseteq pinned
      BY <1>0 DEF Strangers
    <3>3. IsFiniteSet(Strangers(q))
      BY <3>2, FS_Subset DEF PinsInv
    <3> QED
      BY <3>1, <3>2, <3>3, SmallerStaysUnder, BriefAssumption DEF PinsInv
  <2> QED
    BY <2>1, <2>2
<1>3. \A q \in Counting' : \A o \in Counting' \ {q} : {q, o} \in met'
  <2>1. \A o \in Counting : {p, o} \in met' /\ {o, p} \in met'
    BY <1>0, PairsCommute
  <2>2. Counting' \subseteq Counting \cup {p}
    BY <1>0 DEF Counting
  <2>3. \A q \in Counting : \A o \in Counting \ {q} : {q, o} \in met'
    BY <1>0 DEF PinsInv
  <2> QED
    BY <2>1, <2>2, <2>3
<1>4. \A q \in pinned' : pin'[q] = "saved"
  BY <1>0 DEF PinsInv, count_pinned
<1>5. \A S \in SUBSET pinned : Apart(S)' => Apart(S)
  BY <1>0 DEF Apart
<1> QED
  BY <1>0, <1>2, <1>3, <1>4, <1>5 DEF PinsInv, Apart

LEMMA CreateKeepsPins ==
  ASSUME PinsInv, pin \in [Pins -> {"start", "counted", "refused", "saved"}],
         NEW p \in Pins, create_query(p)
  PROVE  PinsInv'
<1>0. /\ pin[p] = "counted" /\ pin'[p] = "saved" /\ pinned' = pinned \cup {p}
      /\ \A o \in Pins \ {p} : pin'[o] = pin[o]
      /\ met' = met /\ p \in Counting
  BY DEF create_query, Counting
<1>1. IsFiniteSet(pinned')
  BY <1>0, FS_AddElement DEF PinsInv
<1>2. \A q \in pinned' : pin'[q] = "saved"
  <2>1. \A q \in pinned : q # p => pin'[q] = pin[q]
    BY DEF create_query
  <2> QED
    BY <1>0, <2>1 DEF PinsInv
<1>3. Counting' \subseteq Counting /\ \A q \in Counting' : q # p
  BY <1>0 DEF Counting
<1>4. \A q \in Counting' : Strangers(q)' = Strangers(q)
  <2>1. \A q \in Counting' : {q, p} \in met
    BY <1>0, <1>3 DEF PinsInv
  <2> QED
    BY <1>0, <2>1 DEF Strangers
<1>5. \A S \in SUBSET pinned' : Apart(S)' => Cardinality(S) <= MaxPinned
  <2> SUFFICES ASSUME NEW S \in SUBSET pinned', Apart(S)'
               PROVE  Cardinality(S) <= MaxPinned
    OBVIOUS
  <2>1. CASE p \notin S
    <3>1. S \in SUBSET pinned /\ Apart(S)
      BY <1>0, <2>1 DEF Apart
    <3> QED
      BY <3>1 DEF PinsInv
  <2>2. CASE p \in S
    <3> DEFINE T == S \ {p}
    <3>1. T \subseteq Strangers(p) /\ Strangers(p) \subseteq pinned
      BY <1>0, <2>2 DEF Strangers, Apart
    <3>2. IsFiniteSet(Strangers(p))
      BY <3>1, FS_Subset DEF PinsInv
    <3>3. Cardinality(T) <= Cardinality(Strangers(p)) /\ IsFiniteSet(T)
      BY <3>1, <3>2, FS_Subset
    <3>4. Cardinality(T) \in Nat /\ Cardinality(Strangers(p)) \in Nat
      BY <3>2, <3>3, FS_CardinalityType
    <3>5. S = T \cup {p} /\ p \notin T
      BY <2>2
    <3>6. Cardinality(S) = Cardinality(T) + 1
      BY <3>3, <3>5, FS_AddElement
    <3>7. Cardinality(Strangers(p)) < MaxPinned
      BY <1>0 DEF PinsInv
    <3> QED
      BY <3>3, <3>4, <3>6, <3>7, BriefAssumption
  <2> QED
    BY <2>1, <2>2
<1> QED
  BY <1>0, <1>1, <1>2, <1>3, <1>4, <1>5 DEF PinsInv

LEMMA DeleteKeepsPins ==
  ASSUME PinsInv, NEW p \in Pins, delete_query(p)
  PROVE  PinsInv'
<1>0. pinned' = pinned \ {p} /\ pin' = pin /\ met' = met /\ Counting' = Counting
  BY DEF delete_query, Counting
<1>1. IsFiniteSet(pinned')
  BY <1>0, FS_Subset DEF PinsInv
<1>2. \A q \in Counting : Cardinality(Strangers(q)') < MaxPinned
  <2> TAKE q \in Counting
  <2>1. Strangers(q)' \subseteq Strangers(q) /\ Strangers(q) \subseteq pinned
    BY <1>0 DEF Strangers
  <2>2. IsFiniteSet(Strangers(q))
    BY <2>1, FS_Subset DEF PinsInv
  <2> QED
    BY <2>1, <2>2, SmallerStaysUnder, BriefAssumption DEF PinsInv
<1> QED
  BY <1>0, <1>1, <1>2 DEF PinsInv, Apart

LEMMA PinsCapped == PinsInv => PinsAreCapped
<1> SUFFICES ASSUME PinsInv, ~ \E p, o \in pinned : p # o /\ {p, o} \in met
             PROVE  ~ (Cardinality(pinned) > MaxPinned)
  BY DEF PinsAreCapped
<1>1. Apart(pinned)
  BY DEF Apart
<1>2. Cardinality(pinned) <= MaxPinned /\ Cardinality(pinned) \in Nat
  BY <1>1, FS_CardinalityType DEF PinsInv
<1> QED
  BY <1>2, BriefAssumption

-----------------------------------------------------------------------------
(* The checks of claims *)

Checked == [at: {"start", "reused", "fetch", "open", "named", "persist", "done", "failed"},
            verdict: Verdicts]

(* A check moves on and records nothing. *)
LEMMA MoveKeepsChecks ==
  ASSUME ChecksInv, NEW v \in Checks,
         Adjudicate(v) \/ OpenIntake(v) \/ CrashCheck(v)
  PROVE  ChecksInv'
<1>0. /\ check \in [Checks -> Checked] /\ claims \subseteq ClaimRow
      /\ claims' = claims /\ old' = old
      /\ opened \subseteq opened' /\ cut \subseteq cut' /\ cut' \subseteq Checks
      /\ \A o \in opened' : o \in opened \/ o = v
  BY DEF ChecksInv, VerifierTypeOK, Adjudicate, OpenIntake, CrashCheck, Trouble, Fine, Checked
<1>1. /\ check' \in [Checks -> Checked]
      /\ \A o \in Checks \ {v} : check'[o] = check[o]
      /\ check[v].at \in {"fetch", "open", "named", "persist"}
      /\ check'[v].at \in {"open", "persist", "named", "failed"}
  BY <1>0 DEF Adjudicate, OpenIntake, CrashCheck, Moves, Checked, Verdicts
<1>2. /\ check'[v].at = "named" => v \in opened'
      /\ check'[v].at \in {"open", "persist"} => v \notin opened'
      /\ check'[v].at = "persist" /\ check'[v].verdict = "contradicted" => v \in cut'
  BY <1>0 DEF ChecksInv, Adjudicate, OpenIntake, CrashCheck, Moves, Trouble, Checked, Verdicts
<1>3. trouble' \in 0..MaxTrouble
  BY VerifierAssumption
  DEF ChecksInv, VerifierTypeOK, Adjudicate, OpenIntake, CrashCheck, Trouble, Fine
<1>4. VerifierTypeOK'
  BY <1>0, <1>1, <1>3 DEF ChecksInv, VerifierTypeOK, Checked
<1>5. \A c \in claims : c.by \in Checks /\ c.by # v
  BY <1>0, <1>1 DEF ChecksInv, ClaimRow
<1>6. ReusedWasCorroborated'
  BY <1>0, <1>1 DEF ChecksInv, VerdictsAreKept, ReusedWasCorroborated
<1>7. ContradictionIsTold'
  BY <1>0, <1>1, <1>5 DEF ChecksInv, VerdictsAreKept, ContradictionIsTold, VerifierTypeOK
<1> QED
  BY <1>0, <1>1, <1>2, <1>4, <1>5, <1>6, <1>7 DEF ChecksInv, VerdictsAreKept

LEMMA ReuseKeepsChecks ==
  ASSUME ChecksInv, NEW v \in Checks, Reuse(v)
  PROVE  ChecksInv'
<1>0. /\ check' \in [Checks -> Checked]
      /\ \A o \in Checks \ {v} : check'[o] = check[o]
      /\ check[v].at = "start" /\ check'[v].at \in {"fetch", "reused"}
      /\ check'[v].at = "reused" => find_existing_corroborated(v) # {}
      /\ UNCHANGED <<opened, claims, old, trouble, cut>>
  BY DEF Reuse, Moves, ChecksInv, VerifierTypeOK, Checked
<1>1. VerifierTypeOK'
  BY <1>0 DEF ChecksInv, VerifierTypeOK, Checked
<1>2. \A c \in claims : c.by \in Checks /\ c.by # v
  BY <1>0 DEF ChecksInv, VerifierTypeOK, ClaimRow
<1>3. ReusedWasCorroborated'
  BY <1>0 DEF ChecksInv, VerdictsAreKept, ReusedWasCorroborated, find_existing_corroborated
<1>4. ContradictionIsTold'
  BY <1>0, <1>2 DEF ChecksInv, VerdictsAreKept, ContradictionIsTold, VerifierTypeOK
<1> QED
  BY <1>0, <1>1, <1>2, <1>3, <1>4 DEF ChecksInv, VerdictsAreKept

LEMMA PersistKeepsChecks ==
  ASSUME ChecksInv, NEW v \in Checks, Persist(v)
  PROVE  ChecksInv'
<1> DEFINE new == [by |-> v, status |-> check[v].verdict, intake |-> check[v].at = "named"]
<1>0. /\ check \in [Checks -> Checked] /\ claims \subseteq ClaimRow
      /\ opened' = opened /\ old' = old /\ opened \subseteq Checks
      /\ cut \subseteq cut' /\ cut' \subseteq Checks
  BY DEF ChecksInv, VerifierTypeOK, Persist, Trouble, Fine, Checked
<1>1. /\ check' \in [Checks -> Checked]
      /\ \A o \in Checks \ {v} : check'[o] = check[o]
      /\ check[v].at \in {"named", "persist"} /\ check'[v].at \in {"done", "failed"}
      /\ check'[v].at = "done" => claims' = claims \cup {new}
      /\ check'[v].at # "done" => claims' = claims
  BY <1>0 DEF Persist, Moves, Checked
<1>2. new \in ClaimRow /\ new.by = v /\ new.status = check[v].verdict
  BY <1>0 DEF ClaimRow, Checked
<1>3. new.intake <=> check[v].at = "named"
  OBVIOUS
<1>4. /\ new.status = "contradicted" => new.intake \/ v \in cut'
      /\ new.intake => v \in opened
      /\ v \in opened => new.intake
  BY <1>0, <1>1, <1>2, <1>3 DEF ChecksInv
<1> HIDE DEF new
<1>5. trouble' \in 0..MaxTrouble
  BY VerifierAssumption DEF ChecksInv, VerifierTypeOK, Persist, Trouble, Fine
<1>6. VerifierTypeOK'
  BY <1>0, <1>1, <1>2, <1>5 DEF ChecksInv, VerifierTypeOK, Checked
<1>7. /\ \A c \in claims : c.by \in Checks /\ c.by # v
      /\ \A c \in claims' : c \in claims \/ (c = new /\ check'[v].at = "done")
      /\ claims \subseteq claims'
  BY <1>0, <1>1 DEF ChecksInv, ClaimRow
<1>8. ReusedWasCorroborated'
  BY <1>0, <1>1, <1>7 DEF ChecksInv, VerdictsAreKept, ReusedWasCorroborated
<1>9. ContradictionIsTold'
  <2>1. \A c \in claims' :
          /\ c.status = "contradicted" => c.intake \/ c.by \in cut'
          /\ c.intake => c.by \in opened'
    BY <1>0, <1>2, <1>4, <1>7 DEF ChecksInv, VerdictsAreKept, ContradictionIsTold
  <2>2. \A o \in opened' : check'[o].at = "done" => \E c \in claims' : c.by = o /\ c.intake
    BY <1>0, <1>1, <1>2, <1>4, <1>7 DEF ChecksInv, VerdictsAreKept, ContradictionIsTold
  <2> QED
    BY <2>1, <2>2 DEF ContradictionIsTold
<1> QED
  BY <1>0, <1>1, <1>2, <1>6, <1>7, <1>8, <1>9 DEF ChecksInv, VerdictsAreKept

LEMMA AgeKeepsChecks ==
  ASSUME ChecksInv, NEW v \in Checks, AgeOut(v)
  PROVE  ChecksInv'
BY DEF AgeOut, ChecksInv, VerifierTypeOK, VerdictsAreKept, ReusedWasCorroborated,
       ContradictionIsTold

-----------------------------------------------------------------------------
(* The replies *)

LEMMA HooksKeepReplies ==
  ASSUME RepliesInv, NEW w \in Hooks, Look(w) \/ LookAgain(w) \/ Route(w)
  PROVE  RepliesInv'
<1>1. CASE Look(w) \/ LookAgain(w)
  <2>1. /\ hook' \in [Hooks -> {"start", "waiting", "found", "orphan", "routed", "dropped", "lost"}]
        /\ \A o \in Hooks \ {w} : hook'[o] = hook[o]
        /\ hook'[w] = "found" => ParentOf[w] \in mailed
        /\ hook'[w] # "routed"
        /\ UNCHANGED <<sent, mailed, replied, followups>>
    BY <1>1 DEF Look, LookAgain, On, Parent, RepliesInv, RepliesTypeOK
  <2> QED
    BY <2>1 DEF RepliesInv, RepliesTypeOK
<1>2. CASE Route(w)
  <2>1. /\ hook' \in [Hooks -> {"start", "waiting", "found", "orphan", "routed", "dropped", "lost"}]
        /\ \A o \in Hooks \ {w} : hook'[o] = hook[o]
        /\ hook[w] = "found" /\ hook'[w] # "found"
        /\ UNCHANGED <<sent, mailed>>
    BY <1>2 DEF Route, On, RepliesInv, RepliesTypeOK
  <2>2. /\ replied \subseteq replied' /\ followups \subseteq followups'
        /\ \A o \in replied' : o \in replied \/ (o = w /\ SenderOf[w] = "manager")
        /\ \A o \in followups' : o \in followups \/ (o = w /\ SenderOf[w] = "rep")
        /\ hook'[w] = "routed" => w \in replied' \cup followups'
    BY <1>2, HookAssumption DEF Route, On, RepliesInv, RepliesTypeOK
  <2>3. replied' \subseteq Hooks /\ followups' \subseteq Hooks
    BY <2>2 DEF RepliesInv, RepliesTypeOK
  <2> QED
    BY <2>1, <2>2, <2>3 DEF RepliesInv, RepliesTypeOK
<1> QED
  BY <1>1, <1>2

-----------------------------------------------------------------------------
LEMMA Initially == ReviewInit => ReviewInv
<1> SUFFICES ASSUME ReviewInit PROVE ReviewInv
  OBVIOUS
<1>1. BriefTypeOK /\ Committed = {} /\ Reading = {}
  <2>1. BriefTypeOK
    BY BriefAssumption DEF ReviewInit, BriefInit, BriefTypeOK
  <2>2. Reading = {}
    BY DEF ReviewInit, BriefInit, Reading
  <2>3. \A r : r \notin Committed
    BY CommittedRows DEF ReviewInit, BriefInit
  <2> QED
    BY <2>1, <2>2, <2>3
<1>2. BriefsInv
  BY <1>1, BriefAssumption
  DEF ReviewInit, BriefInit, BriefsInv, StagesHold, OverlapsAreKnown, MissesAreBriefed,
      NoMissIsLost, ListedOnce, ShownIsStored, Dates
<1>3. PinsInv
  <2>1. pinned = {} /\ Counting = {}
    BY DEF ReviewInit, BriefInit, Counting
  <2> QED
    BY <2>1, FS_EmptySet, BriefAssumption DEF PinsInv
<1>4. ChecksInv
  BY VerifierAssumption
  DEF ReviewInit, VerifierInit, ChecksInv, VerifierTypeOK, Verdicts, ClaimRow,
      VerdictsAreKept, ReusedWasCorroborated, ContradictionIsTold
<1>5. RepliesInv
  BY DEF ReviewInit, RepliesInv, RepliesTypeOK
<1> QED
  BY <1>2, <1>3, <1>4, <1>5 DEF ReviewInv

LEMMA BriefsFrame ==
  ASSUME ReviewInv, UNCHANGED <<briefVars, verifierVars>>
  PROVE  BriefsInv' /\ PinsInv' /\ ChecksInv'
<1>1. BriefsInv'
  BY OthersKeepBriefs DEF ReviewInv, BriefsInv, BriefTypeOK, briefVars
<1>2. PinsInv'
  BY OthersKeepPins DEF ReviewInv, briefVars
<1>3. ChecksInv'
  BY DEF ReviewInv, verifierVars, ChecksInv, VerifierTypeOK, VerdictsAreKept,
         ReusedWasCorroborated, ContradictionIsTold
<1> QED
  BY <1>1, <1>2, <1>3

LEMMA RepliesFrame == RepliesInv /\ UNCHANGED replyVars => RepliesInv'
BY DEF RepliesInv, RepliesTypeOK, replyVars

LEMMA ChecksFrame == ChecksInv /\ UNCHANGED verifierVars => ChecksInv'
BY DEF verifierVars, ChecksInv, VerifierTypeOK, VerdictsAreKept,
       ReusedWasCorroborated, ContradictionIsTold

LEMMA EveryStep == ReviewInv /\ [ReviewNext]_reviewVars => ReviewInv'
<1> SUFFICES ASSUME ReviewInv, [ReviewNext]_reviewVars PROVE ReviewInv'
  OBVIOUS
<1>0. BriefsInv /\ PinsInv /\ ChecksInv /\ RepliesInv
  BY DEF ReviewInv
<1>1. CASE RollupNext /\ UNCHANGED <<verifierVars, replyVars>>
  <2>1. BriefsInv'
    BY <1>0, <1>1, DecisionsKeepBriefs, ReadKeepsBriefs, MoveKeepsBriefs, CommitKeepsBriefs
    DEF RollupNext, Rollup
  <2>2. PinsInv'
    <3>1. UNCHANGED <<pinned, pin>> /\ met \subseteq met'
      BY <1>1 DEF RollupNext, Rollup, TimeOut, resolve_now, compute_aggregate, StoreBrief,
                  Commit, EnqueueBrief, CrashRollup
    <3> QED
      BY <1>0, <3>1, OthersKeepPins
  <2> QED
    BY <1>0, <1>1, <2>1, <2>2, ChecksFrame, RepliesFrame DEF ReviewInv
<1>2. CASE \E r \in Runs : SendMail(r) \/ RecordMail(r)
  <2>1. BriefsInv' /\ PinsInv' /\ ChecksInv'
    BY <1>2, BriefsFrame DEF SendMail, RecordMail
  <2>2. RepliesInv'
    BY <1>0, <1>2 DEF SendMail, RecordMail, RepliesInv, RepliesTypeOK
  <2> QED
    BY <2>1, <2>2 DEF ReviewInv
<1>3. CASE \E w \in Hooks : Look(w) \/ LookAgain(w) \/ Route(w)
  <2>1. RepliesInv'
    BY <1>0, <1>3, HooksKeepReplies
  <2>2. UNCHANGED verifierVars /\ BriefRest /\ faults' \in 0..MaxFaults
    BY <1>0, <1>3, BriefAssumption DEF Look, LookAgain, Route, Fault, BriefRest, briefVars,
                                       BriefsInv, BriefTypeOK
  <2>3. BriefsInv'
    BY <1>0, <2>2, OthersKeepBriefs DEF BriefRest, BriefsInv, BriefTypeOK
  <2>4. PinsInv'
    BY <1>0, <2>2, OthersKeepPins DEF BriefRest
  <2> QED
    BY <1>0, <2>1, <2>2, <2>3, <2>4, ChecksFrame DEF ReviewInv
<1>4. CASE Queries
  <2> PICK p \in Pins : Pin(p)
    BY <1>4 DEF Queries
  <2>1. UNCHANGED <<verifierVars, replyVars>>
    BY <1>4 DEF Queries
  <2>2. PinsInv'
    BY <1>0, CountKeepsPins, CreateKeepsPins, DeleteKeepsPins DEF Pin, BriefsInv, BriefTypeOK
  <2>3. BriefsInv'
    <3>1. /\ UNCHANGED <<dec, surfaced, rollup, blobs, shown, rows, queued, faults>>
          /\ met \subseteq met'
          /\ pinned' \in SUBSET Pins
          /\ pin' \in [Pins -> {"start", "counted", "refused", "saved"}]
      BY <1>0 DEF Pin, count_pinned, create_query, delete_query, BriefsInv, BriefTypeOK
    <3> QED
      BY <1>0, <3>1, OthersKeepBriefs DEF BriefsInv, BriefTypeOK
  <2> QED
    BY <1>0, <2>1, <2>2, <2>3, ChecksFrame, RepliesFrame DEF ReviewInv
<1>5. CASE Verifications
  <2>1. ChecksInv'
    BY <1>0, <1>5, MoveKeepsChecks, ReuseKeepsChecks, PersistKeepsChecks, AgeKeepsChecks
    DEF Verifications, VerifierNext, run_web_verifier
  <2>2. UNCHANGED <<briefVars, replyVars>>
    BY <1>5 DEF Verifications
  <2>3. BriefsInv' /\ PinsInv'
    BY <1>0, <2>2, OthersKeepBriefs, OthersKeepPins DEF briefVars, BriefsInv, BriefTypeOK
  <2> QED
    BY <1>0, <2>1, <2>2, <2>3, RepliesFrame DEF ReviewInv
<1>6. CASE UNCHANGED reviewVars
  BY <1>0, <1>6, BriefsFrame, RepliesFrame DEF reviewVars, ReviewInv
<1> QED
  BY <1>1, <1>2, <1>3, <1>4, <1>5, <1>6 DEF ReviewNext, BriefsAndReplies

(* The inductive invariant of briefs, queries, checks and replies. *)
THEOREM ReviewInvariance == ReviewSpec => []ReviewInv
BY Initially, EveryStep, PTL DEF ReviewSpec

(* What a Manager missed reaches a brief that can be read, and two only if  *)
(* their runs overlapped (dashboard_rollup.py:203-229).                     *)
THEOREM MissesHold == ReviewSpec => []MissesAreBriefed
<1>1. ReviewInv => MissesAreBriefed
  BY DEF ReviewInv, BriefsInv
<1> QED
  BY <1>1, ReviewInvariance, PTL

(* Only requests that overlapped pass the cap on pinned queries             *)
(* (dashboards.py:340-346).                                                 *)
THEOREM PinsHold == ReviewSpec => []PinsAreCapped
<1>1. ReviewInv => PinsAreCapped
  BY PinsCapped DEF ReviewInv
<1> QED
  BY <1>1, ReviewInvariance, PTL

(* A verdict is passed on as it was reached (web_verifier.py).              *)
THEOREM VerdictsHold == ReviewSpec => []VerdictsAreKept
<1>1. ReviewInv => VerdictsAreKept
  BY DEF ReviewInv, ChecksInv
<1> QED
  BY <1>1, ReviewInvariance, PTL

(* A reply goes where its sender's role says, and answers a mail on record  *)
(* (email_reply_handler.py).                                                *)
THEOREM RepliesHold == ReviewSpec => []RepliesAreRouted
<1>1. ReviewInv => RepliesAreRouted
  BY DEF ReviewInv, RepliesInv, RepliesTypeOK, RepliesAreRouted, BriefsInv, ChecksInv, ReviewTypeOK
<1> QED
  BY <1>1, ReviewInvariance, PTL
=============================================================================
