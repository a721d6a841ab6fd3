-------------------------- MODULE ActionItemsProofs --------------------------
(***************************************************************************)
(* Type correctness and the safety properties of ActionItems, for any      *)
(* number of items, requests, runs and faults.                             *)
(*                                                                         *)
(* The three properties are about what a run does long after it listed the *)
(* items, so the inductive invariant says what a run carries along: what   *)
(* it has listed was approved, what it is about to call or has an outcome  *)
(* of was approved, an outcome `sent' was sent, and an idle run holds      *)
(* nothing.                                                                *)
(***************************************************************************)
EXTENDS ActionItems, TLAPS

(* A status that follows an approval. *)
Past == {"approved", "done", "failed", "needs_reconnect"}

(* Only an approval takes an item past its review, and rejecting it later  *)
(* does not undo that there was one.                                       *)
PastIsApproved == \A i \in Items : item[i].status \in Past => i \in approvals

(* A request that has loaded is about an item. *)
ClerksAim == \A c \in Clerks : clerk[c].pc = "loaded" => clerk[c].item \in Items

(* What a run has in hand was approved when it was listed. *)
RunsHoldApproved ==
  \A r \in Runs :
    /\ run[r].todo \subseteq approvals
    /\ Flushed(r) \subseteq approvals
    /\ run[r].pc = "called" => run[r].at \in Items \cap approvals

(* An outcome of a call, flushed or not, claims nothing that was not sent. *)
OutcomesAreTrue ==
  \A r \in Runs :
    /\ run[r].pc = "called" /\ run[r].outcome = "sent" => sent[run[r].at] > 0
    /\ \A i \in Items : run[r].updates[i].status = "done" => sent[i] > 0

(* A run that is over holds no outcome, and one that has an outcome has a  *)
(* status for it.                                                          *)
RunsAreClean ==
  \A r \in Runs :
    /\ run[r].pc = "idle" => Flushed(r) = {}
    /\ \A i \in Items : run[r].updates[i].status = "none" => run[r].updates[i] = NoUpdate

IInv ==
  /\ TypeOK
  /\ OnlyApprovedIsSent
  /\ DoneWasSent
  /\ FlushedIsLocked
  /\ ClerksAim
  /\ PastIsApproved
  /\ RunsHoldApproved
  /\ OutcomesAreTrue
  /\ RunsAreClean

----------------------------------------------------------------------------
(* Initially nothing is approved, and nothing has happened to it. *)
LEMMA InitEstablishes == Init => IInv
<1> SUFFICES ASSUME Init PROVE IInv
  OBVIOUS
<1> USE ConstantsAssumption
<1>1. NoRun \in Run /\ NoClerk \in Clerk
  BY DEF NoRun, NoClerk, Run, Clerk, Ops, Outcomes, Update, NoUpdate, Settled
<1>2. TypeOK
  BY <1>1 DEF Init, TypeOK, Item, Statuses
<1>3. \A r \in Runs : Flushed(r) = {}
  BY DEF Init, Flushed, NoRun
<1>4. FlushedIsLocked
  BY <1>3 DEF Init, FlushedIsLocked
<1>5. OnlyApprovedIsSent /\ DoneWasSent /\ PastIsApproved
  BY DEF Init, OnlyApprovedIsSent, DoneWasSent, PastIsApproved, Past
<1>6. ClerksAim
  BY DEF Init, ClerksAim, NoClerk
<1>7. RunsHoldApproved /\ OutcomesAreTrue /\ RunsAreClean
  BY <1>3 DEF Init, RunsHoldApproved, OutcomesAreTrue, RunsAreClean, NoRun, NoUpdate
<1> QED
  BY <1>2, <1>4, <1>5, <1>6, <1>7 DEF IInv

(* A counter of effects stays in its range and goes up, also at its bound. *)
LEMMA TallyCounts ==
  ASSUME NEW f \in [Items -> 0..MaxCount], NEW i \in Items
  PROVE  /\ Tally(f, i) \in [Items -> 0..MaxCount]
         /\ Tally(f, i)[i] > 0
         /\ \A j \in Items : f[j] > 0 => Tally(f, i)[j] > 0
  BY ConstantsAssumption DEF Tally

(* Every outcome has a verdict, and only an effect is called done. *)
LEMMA VerdictIsHonest ==
  ASSUME NEW o \in Outcomes, NEW n \in Nat, NEW s \in Verdict(o, n)
  PROVE  /\ s \in Settled \cup {"approved"}
         /\ s = "done" => o = "sent"
<1>1. CASE o = "sent"
  BY <1>1 DEF Verdict, Settled
<1>2. CASE o \in {"raised", "lost"}
  BY <1>2 DEF Verdict, Settled
<1>3. CASE o = "soft"
  BY <1>3 DEF Verdict, Settled
<1>4. CASE o \in {"no_oauth", "revoked"}
  BY <1>4 DEF Verdict, Settled
<1> QED
  BY <1>1, <1>2, <1>3, <1>4 DEF Outcomes

(* A request that has its reply has nothing in hand. *)
LEMMA RepliesAreTyped ==
  /\ Replied("done") \in Clerk /\ Replied("done").pc = "done"
  /\ Replied("conflict") \in Clerk /\ Replied("conflict").pc = "conflict"
  BY DEF Replied, NoClerk, Clerk, Ops

(* What a call to the provider does to the run that makes it. *)
LEMMA CallMoves ==
  ASSUME TypeOK, NEW r \in Runs, NEW i \in Items, Call(r, i)
  PROVE  /\ run' \in [Runs -> Run]
         /\ sent' \in [Items -> 0..MaxCount]
         /\ faults' \in 0..MaxFaults
         /\ \A q \in Runs : q # r => run'[q] = run[q]
         /\ \A q \in Runs : run'[q].updates = run[q].updates /\ run'[q].todo = run[q].todo
         /\ run'[r].pc = "called" /\ run'[r].at = i
         /\ run'[r].outcome = "sent" => sent'[i] > 0
         /\ \A j \in Items : sent[j] > 0 => sent'[j] > 0
         /\ \A j \in Items : sent'[j] > 0 => sent[j] > 0 \/ j = i
<1> USE ConstantsAssumption
<1>1. PICK o \in Outcomes :
        /\ run' = [run EXCEPT ![r].pc = "called", ![r].at = i, ![r].outcome = o]
        /\ sent' = IF o \in {"sent", "lost"} THEN Tally(sent, i) ELSE sent
        /\ IF o = "lost" THEN Fault ELSE UNCHANGED faults
  BY DEF Call
<1> DEFINE next == [run[r] EXCEPT !.pc = "called", !.at = i, !.outcome = o]
<1>2. run[r] \in Run
  BY DEF TypeOK
<1>3. /\ next \in Run /\ next.pc = "called" /\ next.at = i /\ next.outcome = o
      /\ next.updates = run[r].updates /\ next.todo = run[r].todo
  BY <1>2 DEF Run
<1>4. run' = [run EXCEPT ![r] = next]
  BY <1>1
<1> HIDE DEF next
<1>5. /\ run' \in [Runs -> Run]
      /\ \A q \in Runs : q # r => run'[q] = run[q]
      /\ run'[r] = next
  BY <1>3, <1>4 DEF TypeOK
<1>6. sent \in [Items -> 0..MaxCount]
  BY DEF TypeOK
<1>7. /\ sent' \in [Items -> 0..MaxCount]
      /\ o = "sent" => sent'[i] > 0
      /\ \A j \in Items : sent[j] > 0 => sent'[j] > 0
  BY <1>1, <1>6, TallyCounts
<1>8. \A j \in Items : sent'[j] > 0 => sent[j] > 0 \/ j = i
  BY <1>1, <1>6 DEF Tally
<1>9. faults' \in 0..MaxFaults
  BY <1>1 DEF Fault, TypeOK
<1> QED
  BY <1>3, <1>5, <1>7, <1>8, <1>9

(* What a flush does: the item's outcome and its lock are the run's. *)
LEMMA FlushMoves ==
  ASSUME TypeOK, NEW r \in Runs, Flush(r), run[r].at \in Items
  PROVE  /\ run' \in [Runs -> Run]
         /\ lock[run[r].at] = None
         /\ lock' = [lock EXCEPT ![run[r].at] = r]
         /\ \A q \in Runs : q # r => run'[q] = run[q]
         /\ run'[r].pc = "next" /\ run'[r].todo \subseteq run[r].todo
         /\ \A j \in Items : j # run[r].at => run'[r].updates[j] = run[r].updates[j]
         /\ run'[r].updates[run[r].at].status \in Settled \cup {"approved"}
         /\ run'[r].updates[run[r].at].status = "done" => run[r].outcome = "sent"
<1> USE ConstantsAssumption
<1> DEFINE i == run[r].at
           n == run[r].attempts[i] + 1
<1>1. run[r] \in Run
  BY DEF TypeOK
<1>2. n \in Nat /\ run[r].outcome \in Outcomes
  BY <1>1 DEF Run
<1>3. PICK s \in Verdict(run[r].outcome, n) :
        run' = [run EXCEPT ![r].pc = "next", ![r].todo = @ \ {i}, ![r].at = None,
                  ![r].outcome = "soft", ![r].updates[i] = [status |-> s, attempts |-> n]]
  BY DEF Flush
<1>4. s \in Settled \cup {"approved"} /\ (s = "done" => run[r].outcome = "sent")
  BY <1>2, VerdictIsHonest
<1> DEFINE u == [status |-> s, attempts |-> n]
           upd == [run[r].updates EXCEPT ![i] = u]
           next == [run[r] EXCEPT !.pc = "next", !.todo = @ \ {i}, !.at = None,
                           !.outcome = "soft", !.updates = upd]
<1>5. u \in Update /\ u.status = s
  BY <1>2, <1>4 DEF Update
<1>o. "soft" \in Outcomes
  BY DEF Outcomes
<1> HIDE DEF u
<1>6. run[r].updates \in [Items -> Update]
  BY <1>1 DEF Run
<1>7. upd \in [Items -> Update] /\ upd[i] = u /\ \A j \in Items : j # i => upd[j] = run[r].updates[j]
  BY <1>5, <1>6
<1>8. run' = [run EXCEPT ![r] = next]
  BY <1>3 DEF u
<1> HIDE DEF upd
<1>9. /\ next \in Run /\ next.pc = "next" /\ next.updates = upd
      /\ next.todo \subseteq run[r].todo
  BY <1>1, <1>7, <1>o DEF Run
<1> HIDE DEF next
<1>10. run'[r] = next /\ run' \in [Runs -> Run] /\ \A q \in Runs : q # r => run'[q] = run[q]
  BY <1>8, <1>9 DEF TypeOK
<1>11. lock[i] = None /\ lock' = [lock EXCEPT ![i] = r]
  BY DEF Flush
<1> QED
  BY <1>4, <1>5, <1>7, <1>9, <1>10, <1>11

(* A run that ends, by its commit or not, leaves its locks and outcomes. *)
LEMMA EndMoves ==
  ASSUME TypeOK, NEW r \in Runs, Release(r), run' = [run EXCEPT ![r] = NoRun]
  PROVE  /\ run' \in [Runs -> Run]
         /\ lock' \in [Items -> Runs \cup {None}]
         /\ \A q \in Runs : q # r => run'[q] = run[q]
         /\ run'[r] = NoRun
         /\ \A i \in Items : lock'[i] # r
         /\ \A q \in Runs, i \in Items : q # r => (lock'[i] = q <=> lock[i] = q)
<1>1. NoRun \in Run
  BY ConstantsAssumption DEF NoRun, Run, Outcomes, Update, NoUpdate
<1>2. /\ run' \in [Runs -> Run] /\ run'[r] = NoRun
      /\ \A q \in Runs : q # r => run'[q] = run[q]
  BY <1>1 DEF TypeOK
<1>3. /\ lock' \in [Items -> Runs \cup {None}]
      /\ \A i \in Items : lock'[i] # r
      /\ \A q \in Runs, i \in Items : q # r => (lock'[i] = q <=> lock[i] = q)
  BY ConstantsAssumption DEF TypeOK, Release
<1> QED
  BY <1>2, <1>3

(* A run that begins holds what is due and nothing else. *)
LEMMA ListMoves ==
  ASSUME TypeOK, NEW r \in Runs, List(r)
  PROVE  /\ run' \in [Runs -> Run]
         /\ \A q \in Runs : q # r => run'[q] = run[q]
         /\ run[r].pc = "idle"
         /\ run'[r].pc = "next" /\ run'[r].todo = Due
         /\ \A i \in Items : run'[r].updates[i] = NoUpdate
<1>1. PICK connected \in BOOLEAN :
        run' = [run EXCEPT ![r] =
          [NoRun EXCEPT !.pc = "next", !.todo = Due, !.oauth = connected,
                        !.attempts = [i \in Items |-> item[i].attempts]]]
  BY DEF List
<1> DEFINE next == [NoRun EXCEPT !.pc = "next", !.todo = Due, !.oauth = connected,
                                !.attempts = [i \in Items |-> item[i].attempts]]
<1>2. [i \in Items |-> item[i].attempts] \in [Items -> Nat] /\ Due \subseteq Items
  BY DEF TypeOK, Item, Due
<1>3. NoRun \in Run /\ NoRun.updates = [i \in Items |-> NoUpdate]
  BY ConstantsAssumption DEF NoRun, Run, Outcomes, Update, NoUpdate
<1>4. next \in Run /\ next.pc = "next" /\ next.todo = Due /\ next.updates = [i \in Items |-> NoUpdate]
  BY <1>2, <1>3 DEF Run
<1> HIDE DEF next
<1>5. run' = [run EXCEPT ![r] = next]
  BY <1>1 DEF next
<1> QED
  BY <1>4, <1>5 DEF TypeOK, List

----------------------------------------------------------------------------
(* An update that is written leaves a row of the table. *)
LEMMA WrittenType ==
  ASSUME NEW old \in Item, NEW u \in Update, u.status # "none"
  PROVE  /\ Written(old, u) \in Item
         /\ Written(old, u).status \in {old.status, u.status}
         /\ u.status = "approved" => Written(old, u).status = old.status
  BY DEF Written, Item, Update, Statuses, Settled

(* What the commit of a run writes: its outcomes, and no row but theirs. *)
LEMMA FinishWrites ==
  ASSUME TypeOK, RunsAreClean, NEW r \in Runs, Finish(r)
  PROVE  /\ item' \in [Items -> Item]
         /\ \A i \in Items \ Flushed(r) : item'[i] = item[i]
         /\ \A i \in Flushed(r) : item'[i].status \in {item[i].status, run[r].updates[i].status}
<1>1. \A i \in Items : item[i] \in Item /\ run[r].updates[i] \in Update
  BY DEF TypeOK, Run
<1>2. \A i \in Flushed(r) : i \in Items /\ run[r].updates[i].status # "none"
  BY DEF Flushed, RunsAreClean
<1>3. \A i \in Flushed(r) : /\ Written(item[i], run[r].updates[i]) \in Item
                             /\ Written(item[i], run[r].updates[i]).status
                                  \in {item[i].status, run[r].updates[i].status}
  BY <1>1, <1>2, WrittenType
<1>4. item' = [i \in Items |->
        IF i \in Flushed(r) THEN Written(item[i], run[r].updates[i]) ELSE item[i]]
  BY DEF Finish
<1> QED
  BY <1>1, <1>2, <1>3, <1>4

(* What a request writes: one row, and an approval if it is one. *)
LEMMA CommitWrites ==
  ASSUME TypeOK, ClerksAim, NEW c \in Clerks, Commit(c)
  PROVE  /\ item' \in [Items -> Item]
         /\ approvals \subseteq approvals'
         /\ approvals' \subseteq Items
         /\ \A i \in Items :
              item'[i].status = item[i].status \/ item'[i].status = "rejected"
                \/ (item'[i].status = "approved" /\ i \in approvals')
<1> DEFINE i == clerk[c].item
<1>1. i \in Items
  BY DEF Commit, ClerksAim
<1>2. item \in [Items -> Item] /\ approvals \subseteq Items
  BY DEF TypeOK
<1> HIDE DEF i
<1>3. CASE item' = [item EXCEPT ![i].status = "approved"] /\ approvals' = approvals \cup {i}
  <2>1. [item[i] EXCEPT !.status = "approved"] \in Item
    BY <1>1, <1>2 DEF Item, Statuses
  <2> QED
    BY <1>1, <1>2, <1>3, <2>1 DEF Item
<1>4. CASE item' = [item EXCEPT ![i].status = "rejected"] /\ UNCHANGED approvals
  <2>1. [item[i] EXCEPT !.status = "rejected"] \in Item
    BY <1>1, <1>2 DEF Item, Statuses
  <2> QED
    BY <1>1, <1>2, <1>4, <2>1 DEF Item
<1>5. CASE (\E h \in Handlers : item' = [item EXCEPT ![i].handler = h]) /\ UNCHANGED approvals
  <2>1. PICK h \in Handlers : item' = [item EXCEPT ![i].handler = h]
    BY <1>5
  <2>2. /\ [item[i] EXCEPT !.handler = h] \in Item
        /\ [item[i] EXCEPT !.handler = h].status = item[i].status
    BY <1>1, <1>2 DEF Item
  <2> QED
    BY <1>1, <1>2, <1>5, <2>1, <2>2
<1> QED
  BY <1>3, <1>4, <1>5 DEF Commit, i

(* Every step keeps every variable in its type. *)
LEMMA TypeStep == IInv /\ [Next]_vars => TypeOK'
<1> SUFFICES ASSUME IInv, [Next]_vars PROVE TypeOK'
  OBVIOUS
<1> USE ConstantsAssumption
<1>0. TypeOK
  BY DEF IInv
<1>1. ASSUME NEW c \in Clerks, NEW i \in Items, NEW op \in Ops, Load(c, i, op) PROVE TypeOK'
  <2>1. clerk' \in [Clerks -> Clerk]
    BY <1>0, <1>1, RepliesAreTyped DEF Load, TypeOK, Clerk
  <2> QED
    BY <1>0, <1>1, <2>1 DEF Load, TypeOK
<1>2. ASSUME NEW c \in Clerks, Commit(c) PROVE TypeOK'
  <2>1. clerk' \in [Clerks -> Clerk]
    BY <1>0, <1>2, RepliesAreTyped DEF Commit, TypeOK
  <2> QED
    BY <1>0, <1>2, <2>1, CommitWrites DEF Commit, TypeOK, IInv
<1>3. ASSUME NEW r \in Runs, List(r) PROVE TypeOK'
  BY <1>0, <1>3, ListMoves DEF List, TypeOK
<1>4. ASSUME NEW r \in Runs, NEW i \in Items, Call(r, i) PROVE TypeOK'
  BY <1>0, <1>4, CallMoves DEF Call, TypeOK
<1>5. ASSUME NEW r \in Runs, Flush(r) PROVE TypeOK'
  <2>1. run[r].at \in Items
    BY <1>5 DEF Flush, IInv, RunsHoldApproved
  <2>2. run' \in [Runs -> Run] /\ lock' = [lock EXCEPT ![run[r].at] = r]
    BY <1>0, <1>5, <2>1, FlushMoves
  <2>3. lock' \in [Items -> Runs \cup {None}]
    BY <1>0, <2>1, <2>2 DEF TypeOK
  <2> QED
    BY <1>0, <1>5, <2>2, <2>3 DEF Flush, TypeOK
<1>6. ASSUME NEW r \in Runs, Finish(r) PROVE TypeOK'
  <2>1. item' \in [Items -> Item]
    BY <1>0, <1>6, FinishWrites DEF IInv
  <2>2. run' \in [Runs -> Run] /\ lock' \in [Items -> Runs \cup {None}]
    BY <1>0, <1>6, EndMoves DEF Finish
  <2> QED
    BY <1>0, <1>6, <2>1, <2>2 DEF Finish, TypeOK
<1>7. ASSUME NEW r \in Runs, DeadlockAbort(r) PROVE TypeOK'
  <2>1. run' \in [Runs -> Run] /\ lock' \in [Items -> Runs \cup {None}]
    BY <1>0, <1>7, EndMoves DEF DeadlockAbort, RollBack
  <2> QED
    BY <1>0, <1>7, <2>1 DEF DeadlockAbort, TypeOK
<1>8. ASSUME NEW r \in Runs, CrashRun(r) PROVE TypeOK'
  <2>1. run' \in [Runs -> Run] /\ lock' \in [Items -> Runs \cup {None}]
    BY <1>0, <1>8, EndMoves DEF CrashRun, RollBack
  <2> QED
    BY <1>0, <1>8, <2>1 DEF CrashRun, Fault, TypeOK
<1>9. CASE UNCHANGED vars
  BY <1>0, <1>9 DEF vars, TypeOK
<1> QED
  BY <1>1, <1>2, <1>3, <1>4, <1>5, <1>6, <1>7, <1>8, <1>9 DEF Next, RunStep

(* Locks are taken with an outcome and given back with all of them. *)
LEMMA LocksStep == IInv /\ [Next]_vars => FlushedIsLocked'
<1> SUFFICES ASSUME IInv, [Next]_vars PROVE FlushedIsLocked'
  OBVIOUS
<1> USE ConstantsAssumption
<1>0. TypeOK /\ FlushedIsLocked /\ RunsAreClean
  BY DEF IInv
<1>1. ASSUME NEW c \in Clerks, NEW i \in Items, NEW op \in Ops, Load(c, i, op)
      PROVE FlushedIsLocked'
  BY <1>0, <1>1 DEF Load, FlushedIsLocked, Flushed
<1>2. ASSUME NEW c \in Clerks, Commit(c) PROVE FlushedIsLocked'
  BY <1>0, <1>2 DEF Commit, FlushedIsLocked, Flushed
<1>3. ASSUME NEW r \in Runs, List(r) PROVE FlushedIsLocked'
  <2>1. Flushed(r) = {} /\ Flushed(r)' = {}
    BY <1>0, <1>3, ListMoves DEF RunsAreClean, Flushed
  <2>2. \A q \in Runs : q # r => Flushed(q)' = Flushed(q)
    BY <1>0, <1>3, ListMoves DEF Flushed
  <2> QED
    BY <1>0, <1>3, <2>1, <2>2 DEF List, FlushedIsLocked
<1>4. ASSUME NEW r \in Runs, NEW i \in Items, Call(r, i) PROVE FlushedIsLocked'
  <2>1. \A q \in Runs : Flushed(q)' = Flushed(q)
    BY <1>0, <1>4, CallMoves DEF Flushed
  <2> QED
    BY <1>0, <1>4, <2>1 DEF Call, FlushedIsLocked
<1>5. ASSUME NEW r \in Runs, Flush(r) PROVE FlushedIsLocked'
  <2> DEFINE i == run[r].at
  <2>1. i \in Items
    BY <1>5 DEF Flush, IInv, RunsHoldApproved
  <2>2. run'[r].updates[i] # NoUpdate
    BY <1>0, <1>5, <2>1, FlushMoves DEF NoUpdate, Settled
  <2>3. Flushed(r)' = Flushed(r) \cup {i}
    BY <1>0, <1>5, <2>1, <2>2, FlushMoves DEF Flushed
  <2>4. \A q \in Runs : q # r => Flushed(q)' = Flushed(q)
    BY <1>0, <1>5, <2>1, FlushMoves DEF Flushed
  <2>5. lock \in [Items -> Runs \cup {None}] /\ lock[i] = None /\ lock' = [lock EXCEPT ![i] = r]
    BY <1>0, <1>5, <2>1, FlushMoves DEF TypeOK
  <2> HIDE DEF i
  <2>6. \A q \in Runs : Flushed(q) = {j \in Items : lock[j] = q}
    BY <1>0 DEF FlushedIsLocked
  <2>7. ASSUME NEW q \in Runs PROVE Flushed(q)' = {j \in Items : lock'[j] = q}
    <3>1. CASE q = r
      BY <3>1, <2>1, <2>3, <2>5, <2>6
    <3>2. CASE q # r
      BY <3>2, <2>1, <2>4, <2>5, <2>6
    <3> QED
      BY <3>1, <3>2
  <2> QED
    BY <2>7 DEF FlushedIsLocked
<1>6. ASSUME NEW r \in Runs, Release(r), run' = [run EXCEPT ![r] = NoRun]
      PROVE FlushedIsLocked'
  <2>1. Flushed(r)' = {}
    BY <1>0, <1>6, EndMoves DEF Flushed, NoRun
  <2>2. \A q \in Runs : q # r => Flushed(q)' = Flushed(q)
    BY <1>0, <1>6, EndMoves DEF Flushed
  <2>3. /\ \A i \in Items : lock'[i] # r
        /\ \A q \in Runs, i \in Items : q # r => (lock'[i] = q <=> lock[i] = q)
    BY <1>0, <1>6, EndMoves
  <2> QED
    BY <1>0, <2>1, <2>2, <2>3 DEF FlushedIsLocked
<1>7. CASE UNCHANGED vars
  BY <1>0, <1>7 DEF vars, FlushedIsLocked, Flushed
<1> QED
  BY <1>1, <1>2, <1>3, <1>4, <1>5, <1>6, <1>7
  DEF Next, RunStep, Finish, DeadlockAbort, CrashRun, RollBack

(* Only approved items are listed, so only those are called and written. *)
LEMMA ApprovalStep == IInv /\ [Next]_vars => (PastIsApproved /\ RunsHoldApproved)'
<1> SUFFICES ASSUME IInv, [Next]_vars PROVE PastIsApproved' /\ RunsHoldApproved'
  OBVIOUS
<1> DEFINE Goal == PastIsApproved' /\ RunsHoldApproved'
<1>0. TypeOK /\ PastIsApproved /\ RunsHoldApproved /\ RunsAreClean /\ ClerksAim
  BY DEF IInv
<1>1. ASSUME NEW c \in Clerks, NEW i \in Items, NEW op \in Ops, Load(c, i, op) PROVE Goal
  BY <1>0, <1>1 DEF Load, PastIsApproved, RunsHoldApproved, Flushed
<1>2. ASSUME NEW c \in Clerks, Commit(c) PROVE Goal
  <2>1. PastIsApproved'
    BY <1>0, <1>2, CommitWrites DEF PastIsApproved, Past
  <2>2. RunsHoldApproved'
    <3>1. approvals \subseteq approvals' /\ run' = run
      BY <1>0, <1>2, CommitWrites DEF Commit
    <3> QED
      BY <1>0, <3>1 DEF RunsHoldApproved, Flushed
  <2> QED
    BY <2>1, <2>2
<1>3. ASSUME NEW r \in Runs, List(r) PROVE Goal
  <2>1. Due \subseteq approvals
    BY <1>0 DEF Due, PastIsApproved, Past
  <2>2. Flushed(r)' = {}
    BY <1>0, <1>3, ListMoves DEF Flushed
  <2>3. \A q \in Runs : q # r => run'[q] = run[q] /\ Flushed(q)' = Flushed(q)
    BY <1>0, <1>3, ListMoves DEF Flushed
  <2>4. run'[r].pc = "next" /\ run'[r].todo = Due
    BY <1>0, <1>3, ListMoves
  <2> QED
    BY <1>0, <1>3, <2>1, <2>2, <2>3, <2>4 DEF List, PastIsApproved, RunsHoldApproved
<1>4. ASSUME NEW r \in Runs, NEW i \in Items, Call(r, i) PROVE Goal
  <2>1. i \in approvals
    BY <1>0, <1>4 DEF Call, RunsHoldApproved
  <2>2. \A q \in Runs : run'[q].todo = run[q].todo /\ Flushed(q)' = Flushed(q)
    BY <1>0, <1>4, CallMoves DEF Flushed
  <2>3. run'[r].at = i /\ \A q \in Runs : q # r => run'[q] = run[q]
    BY <1>0, <1>4, CallMoves
  <2> QED
    BY <1>0, <1>4, <2>1, <2>2, <2>3 DEF Call, PastIsApproved, RunsHoldApproved
<1>5. ASSUME NEW r \in Runs, Flush(r) PROVE Goal
  <2>1. run[r].at \in Items \cap approvals
    BY <1>0, <1>5 DEF Flush, RunsHoldApproved
  <2>2. Flushed(r)' \subseteq Flushed(r) \cup {run[r].at}
    BY <1>0, <1>5, <2>1, FlushMoves DEF Flushed
  <2>3. \A q \in Runs : q # r => run'[q] = run[q] /\ Flushed(q)' = Flushed(q)
    BY <1>0, <1>5, <2>1, FlushMoves DEF Flushed
  <2>4. run'[r].pc = "next" /\ run'[r].todo \subseteq run[r].todo
    BY <1>0, <1>5, <2>1, FlushMoves
  <2> QED
    BY <1>0, <1>5, <2>1, <2>2, <2>3, <2>4 DEF Flush, PastIsApproved, RunsHoldApproved
<1>6. ASSUME NEW r \in Runs, Release(r), run' = [run EXCEPT ![r] = NoRun], approvals' = approvals
      PROVE RunsHoldApproved'
  <2>1. Flushed(r)' = {} /\ run'[r] = NoRun
    BY <1>0, <1>6, EndMoves DEF Flushed, NoRun
  <2>2. \A q \in Runs : q # r => run'[q] = run[q] /\ Flushed(q)' = Flushed(q)
    BY <1>0, <1>6, EndMoves DEF Flushed
  <2> QED
    BY <1>0, <1>6, <2>1, <2>2 DEF RunsHoldApproved, NoRun
<1>7. ASSUME NEW r \in Runs, Finish(r) PROVE Goal
  <2>1. RunsHoldApproved'
    BY <1>6, <1>7 DEF Finish
  <2>2. \A i \in Flushed(r) : i \in approvals
    BY <1>0 DEF RunsHoldApproved
  <2>3. \A i \in Items \ Flushed(r) : item'[i] = item[i]
    BY <1>0, <1>7, FinishWrites
  <2> QED
    BY <1>0, <1>7, <2>1, <2>2, <2>3 DEF Finish, PastIsApproved
<1>8. ASSUME NEW r \in Runs, DeadlockAbort(r) \/ CrashRun(r) PROVE Goal
  <2>1. RunsHoldApproved'
    BY <1>6, <1>8 DEF DeadlockAbort, CrashRun, RollBack
  <2> QED
    BY <1>0, <1>8, <2>1 DEF DeadlockAbort, CrashRun, PastIsApproved
<1>9. CASE UNCHANGED vars
  BY <1>0, <1>9 DEF vars, PastIsApproved, RunsHoldApproved, Flushed
<1> QED
  BY <1>1, <1>2, <1>3, <1>4, <1>5, <1>7, <1>8, <1>9 DEF Next, RunStep

(* A request keeps its item from its load on. *)
LEMMA ClerksStep == IInv /\ [Next]_vars => ClerksAim'
<1> SUFFICES ASSUME IInv, [Next]_vars PROVE ClerksAim'
  OBVIOUS
<1>0. ClerksAim /\ clerk \in [Clerks -> Clerk]
  BY DEF IInv, TypeOK
<1>1. ASSUME NEW c \in Clerks, NEW i \in Items, NEW op \in Ops, Load(c, i, op) PROVE ClerksAim'
  BY <1>0, <1>1, RepliesAreTyped DEF Load, ClerksAim
<1>2. ASSUME NEW c \in Clerks, Commit(c) PROVE ClerksAim'
  <2>1. clerk' = [clerk EXCEPT ![c] = Replied("done")]
    BY <1>2 DEF Commit
  <2> QED
    BY <1>0, <2>1, RepliesAreTyped DEF ClerksAim
<1>3. CASE UNCHANGED clerk
  BY <1>0, <1>3 DEF ClerksAim
<1> QED
  BY <1>1, <1>2, <1>3
  DEF Next, RunStep, List, Call, Flush, Finish, DeadlockAbort, CrashRun, vars

(* A call is made for what was listed, and counts as its outcome says. *)
LEMMA OutcomesStep == IInv /\ [Next]_vars => (OnlyApprovedIsSent /\ OutcomesAreTrue /\ RunsAreClean)'
<1> SUFFICES ASSUME IInv, [Next]_vars
             PROVE  OnlyApprovedIsSent' /\ OutcomesAreTrue' /\ RunsAreClean'
  OBVIOUS
<1> DEFINE Goal == OnlyApprovedIsSent' /\ OutcomesAreTrue' /\ RunsAreClean'
<1>0. TypeOK /\ OnlyApprovedIsSent /\ OutcomesAreTrue /\ RunsAreClean /\ RunsHoldApproved /\ ClerksAim
  BY DEF IInv
<1>1. ASSUME NEW c \in Clerks, NEW i \in Items, NEW op \in Ops, Load(c, i, op) PROVE Goal
  BY <1>0, <1>1 DEF Load, OnlyApprovedIsSent, OutcomesAreTrue, RunsAreClean, Flushed
<1>2. ASSUME NEW c \in Clerks, Commit(c) PROVE Goal
  <2>1. approvals \subseteq approvals' /\ UNCHANGED <<run, sent>>
    BY <1>0, <1>2, CommitWrites DEF Commit
  <2> QED
    BY <1>0, <2>1 DEF OnlyApprovedIsSent, OutcomesAreTrue, RunsAreClean, Flushed
<1>3. ASSUME NEW r \in Runs, List(r) PROVE Goal
  <2>1. \A q \in Runs : q # r => run'[q] = run[q] /\ Flushed(q)' = Flushed(q)
    BY <1>0, <1>3, ListMoves DEF Flushed
  <2>2. run'[r].pc = "next" /\ \A i \in Items : run'[r].updates[i] = NoUpdate
    BY <1>0, <1>3, ListMoves
  <2>3. UNCHANGED <<sent, approvals>>
    BY <1>3 DEF List
  <2> QED
    BY <1>0, <2>1, <2>2, <2>3 DEF OnlyApprovedIsSent, OutcomesAreTrue, RunsAreClean, NoUpdate
<1>4. ASSUME NEW r \in Runs, NEW i \in Items, Call(r, i) PROVE Goal
  <2>1. i \in approvals /\ UNCHANGED approvals
    BY <1>0, <1>4 DEF Call, RunsHoldApproved
  <2>2. /\ \A j \in Items : sent[j] > 0 => sent'[j] > 0
        /\ \A j \in Items : sent'[j] > 0 => sent[j] > 0 \/ j = i
    BY <1>0, <1>4, CallMoves
  <2>3. /\ \A q \in Runs : q # r => run'[q] = run[q]
        /\ \A q \in Runs : run'[q].updates = run[q].updates /\ Flushed(q)' = Flushed(q)
        /\ run'[r].pc = "called" /\ run'[r].at = i
        /\ run'[r].outcome = "sent" => sent'[i] > 0
    BY <1>0, <1>4, CallMoves DEF Flushed
  <2>4. OnlyApprovedIsSent'
    BY <1>0, <2>1, <2>2 DEF OnlyApprovedIsSent
  <2>5. OutcomesAreTrue'
    BY <1>0, <2>2, <2>3 DEF OutcomesAreTrue, RunsHoldApproved
  <2>6. RunsAreClean'
    BY <1>0, <2>3 DEF RunsAreClean
  <2> QED
    BY <2>4, <2>5, <2>6
<1>5. ASSUME NEW r \in Runs, Flush(r) PROVE Goal
  <2> DEFINE i == run[r].at
  <2>1. i \in Items /\ run[r].pc = "called" /\ UNCHANGED <<sent, approvals>>
    BY <1>0, <1>5 DEF Flush, RunsHoldApproved
  <2>2. \A q \in Runs : q # r => run'[q] = run[q] /\ Flushed(q)' = Flushed(q)
    BY <1>0, <1>5, <2>1, FlushMoves DEF Flushed
  <2>3. /\ run'[r].pc = "next"
        /\ \A j \in Items : j # i => run'[r].updates[j] = run[r].updates[j]
        /\ run'[r].updates[i].status \in Settled \cup {"approved"}
        /\ run'[r].updates[i].status = "done" => run[r].outcome = "sent"
    BY <1>0, <1>5, <2>1, FlushMoves
  <2>4. OutcomesAreTrue'
    BY <1>0, <2>1, <2>2, <2>3 DEF OutcomesAreTrue
  <2>5. RunsAreClean'
    BY <1>0, <2>1, <2>2, <2>3 DEF RunsAreClean, Settled
  <2> QED
    BY <1>0, <2>1, <2>4, <2>5 DEF OnlyApprovedIsSent
<1>6. ASSUME NEW r \in Runs, Release(r), run' = [run EXCEPT ![r] = NoRun],
             UNCHANGED <<sent, approvals>>
      PROVE  Goal
  <2>1. run'[r] = NoRun /\ \A q \in Runs : q # r => run'[q] = run[q]
    BY <1>0, <1>6, EndMoves
  <2>2. Flushed(r)' = {} /\ \A q \in Runs : q # r => Flushed(q)' = Flushed(q)
    BY <2>1 DEF Flushed, NoRun
  <2> QED
    BY <1>0, <1>6, <2>1, <2>2
    DEF OnlyApprovedIsSent, OutcomesAreTrue, RunsAreClean, NoRun, NoUpdate
<1>7. CASE UNCHANGED vars
  BY <1>0, <1>7 DEF vars, OnlyApprovedIsSent, OutcomesAreTrue, RunsAreClean, Flushed
<1> QED
  BY <1>1, <1>2, <1>3, <1>4, <1>5, <1>6, <1>7
  DEF Next, RunStep, Finish, DeadlockAbort, CrashRun, RollBack

(* Done is written from an outcome that was sent, and by nobody else. *)
LEMMA DoneStep == IInv /\ [Next]_vars => DoneWasSent'
<1> SUFFICES ASSUME IInv, [Next]_vars PROVE DoneWasSent'
  OBVIOUS
<1>0. TypeOK /\ DoneWasSent /\ OutcomesAreTrue /\ RunsAreClean /\ ClerksAim
  BY DEF IInv
<1>1. ASSUME NEW c \in Clerks, Commit(c) PROVE DoneWasSent'
  <2>1. UNCHANGED sent
    BY <1>1 DEF Commit
  <2> QED
    BY <1>0, <1>1, <2>1, CommitWrites DEF DoneWasSent
<1>2. ASSUME NEW r \in Runs, NEW i \in Items, Call(r, i) PROVE DoneWasSent'
  <2>1. UNCHANGED item
    BY <1>2 DEF Call
  <2> QED
    BY <1>0, <1>2, <2>1, CallMoves DEF DoneWasSent
<1>3. ASSUME NEW r \in Runs, Finish(r) PROVE DoneWasSent'
  <2>1. UNCHANGED sent /\ Flushed(r) \subseteq Items
    BY <1>3 DEF Finish, Flushed
  <2>2. \A i \in Items \ Flushed(r) : item'[i] = item[i]
    BY <1>0, <1>3, FinishWrites
  <2>3. \A i \in Flushed(r) : item'[i].status \in {item[i].status, run[r].updates[i].status}
    BY <1>0, <1>3, FinishWrites
  <2> QED
    BY <1>0, <2>1, <2>2, <2>3 DEF DoneWasSent, OutcomesAreTrue
<1>4. CASE UNCHANGED <<item, sent>>
  BY <1>0, <1>4 DEF DoneWasSent
<1> QED
  BY <1>1, <1>2, <1>3, <1>4
  DEF Next, RunStep, Load, List, Flush, DeadlockAbort, CrashRun, vars

----------------------------------------------------------------------------
(* Whatever requests, runs, deadlocks and crashes there are, the inductive *)
(* invariant of action items holds.                                        *)
THEOREM Invariance == Spec => []IInv
<1>1. IInv /\ [Next]_vars => IInv'
  BY TypeStep, LocksStep, ClerksStep, ApprovalStep, OutcomesStep, DoneStep DEF IInv
<1> QED
  BY <1>1, InitEstablishes, PTL DEF Spec

(* Rows, locks, requests and runs keep their types. *)
THEOREM TypeCorrect == Spec => []TypeOK
<1>1. IInv => TypeOK
  BY DEF IInv
<1> QED
  BY <1>1, Invariance, PTL

(* The provider is called only for items somebody approved. *)
THEOREM ApprovedOnly == Spec => []OnlyApprovedIsSent
<1>1. IInv => OnlyApprovedIsSent
  BY DEF IInv
<1> QED
  BY <1>1, Invariance, PTL

(* An item the dispatcher marked done took effect at the provider. *)
THEOREM DoneIsTrue == Spec => []DoneWasSent
<1>1. IInv => DoneWasSent
  BY DEF IInv
<1> QED
  BY <1>1, Invariance, PTL

(* A run holds the lock of every row it has an outcome for, and no other. *)
THEOREM OutcomesAreLocked == Spec => []FlushedIsLocked
<1>1. IInv => FlushedIsLocked
  BY DEF IInv
<1> QED
  BY <1>1, Invariance, PTL
==============================================================================
