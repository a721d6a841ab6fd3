---------------------------- MODULE SessionProofs ----------------------------
(***************************************************************************)
(* Theorems about a call's conversation, for any finite sets of turns, any *)
(* decisions and whispers, any overlap of the turns and any faults.        *)
(***************************************************************************)
EXTENDS CallSession, FiniteSetTheorems, TLAPS

(* Where a turn has read the session, and where it has spoken. *)
Holding == {"loaded", "drained", "ranged", "prompted", "spoken", "agent", "replied", "stamped"}
Early   == {"idle", "caller", "begun", "loaded", "drained"}
Said    == {"spoken", "agent", "replied", "stamped"}

(* Turns that may have committed their first, their second fragment, have  *)
(* perhaps spoken, and have ended.                                         *)
Began == {t \in Turns : turn[t].pc \notin {"idle", "caller"}}
Ended == {t \in Turns : turn[t].pc \in {"replied", "stamped", "done", "failed"}}
Spoke == {t \in Turns : turn[t].pc \in Said \cup {"done", "failed"}}
Done  == {t \in Turns : turn[t].pc = "done"}

(* Fragments are numbered without a gap, and no turn is about to commit a  *)
(* number beyond the next one.                                             *)
NumbersHold ==
  /\ frags \in Seq(Nat)
  /\ SeqsAreGapFree
  /\ \A t \in Turns : turn[t].pc \in {"caller", "agent"} => turn[t].seq \in 1..(Len(frags) + 1)
  /\ Len(frags) <= Cardinality(Began) + Cardinality(Ended)

(* The version counts the turns recorded, and a turn with the store's      *)
(* version in its hands has the store's history.                           *)
HistoryHolds ==
  /\ store.history \subseteq Done
  /\ store.version = Cardinality(store.history)
  /\ \A t \in Turns : turn[t].pc \in Holding =>
       /\ turn[t].sess.version <= store.version
       /\ turn[t].sess.version = store.version => turn[t].sess.history = store.history

(* Nothing is counted more often than turns have spoken. *)
CountsHold ==
  /\ \A d \in Decisions : told[d] <= Cardinality(Spoke)
  /\ \A w \in Whispers : heard[w] <= Cardinality(Spoke)

(* Turns that do not overlap: nobody else is between its first and its last *)
(* step.                                                                   *)
OneAtATime == \A t, u \in InFlight : t = u
Alone == serial => OneAtATime

(* What is in Redis or in a turn's hands was pushed; what a turn has spoken *)
(* from was heard.                                                         *)
WhispersBase ==
  /\ StampedWasHeard
  /\ \A w \in inbox : whisper[w] \in {"pushed", "stamped"}
  /\ \A w \in Whispers : heard[w] > 0 => whisper[w] \in {"pushed", "stamped"}
  /\ \A t \in Turns :
       /\ turn[t].pc \in Early => turn[t].batch = {}
       /\ \A w \in turn[t].batch : whisper[w] \in {"pushed", "stamped"}
       /\ turn[t].pc \in Said => \A w \in turn[t].batch : heard[w] > 0

(* While turns do not overlap, what waits was not heard yet. *)
WaitingIsUnheard ==
  /\ \A w \in Whispers : heard[w] <= 1
  /\ \A w \in inbox : heard[w] = 0
  /\ \A t \in Turns :
       /\ turn[t].pc = "ranged" => turn[t].batch \subseteq inbox
       /\ turn[t].pc = "prompted" => \A w \in turn[t].batch : w \notin inbox /\ heard[w] = 0

WhispersHold == WhispersBase /\ (serial => WaitingIsUnheard)

(* A decision that is in anybody's hands was opened. *)
OutcomesBase ==
  /\ \A t \in Turns :
       /\ turn[t].pc \in {"idle", "caller", "begun", "loaded"} => turn[t].updates = {}
       /\ turn[t].pc \in Early \cup {"ranged", "prompted"} => turn[t].opened = {}
       /\ \A d \in turn[t].opened : decision[d] # "absent"
       /\ turn[t].pc \in Holding => \A d \in turn[t].sess.pending \cup turn[t].updates :
                                      decision[d] # "absent"
  /\ \A d \in Decisions : d \in store.pending \/ told[d] > 0 => decision[d] # "absent"

(* While nothing overlaps or fails, a turn holds the store's version, and  *)
(* its pending decisions and its updates are together the store's; what is *)
(* pending was told only by a turn that has yet to save.                   *)
PendingIsUntold ==
  /\ \A d \in Decisions : told[d] <= 1
  /\ \A t \in Turns :
       /\ turn[t].pc # "failed"
       /\ turn[t].pc = "done" => \A d \in turn[t].opened : d \in store.pending \/ told[d] > 0
       /\ turn[t].pc \in {"caller", "agent"} => turn[t].seq = Len(frags) + 1
       /\ turn[t].pc \in Holding =>
            /\ turn[t].sess.version = store.version
            /\ turn[t].sess.pending \cap turn[t].updates = {}
            /\ store.pending = turn[t].sess.pending \cup turn[t].updates
            /\ \A d \in turn[t].sess.pending \cup turn[t].opened : told[d] = 0
            /\ turn[t].pc \notin Said => \A d \in turn[t].updates : told[d] = 0
            /\ turn[t].pc \in Said => \A d \in turn[t].updates : told[d] > 0
  /\ (\A t \in Turns : turn[t].pc \notin Holding) => \A d \in store.pending : told[d] = 0

OutcomesHold == OutcomesBase /\ (Undisturbed => PendingIsUntold)

IInv == TypeOK /\ NumbersHold /\ HistoryHolds /\ CountsHold /\ Alone /\ WhispersHold /\ OutcomesHold

-----------------------------------------------------------------------------
(* Counting turns *)

LEMMA Sizes ==
  /\ Cardinality(Turns) \in Nat
  /\ \A S \in SUBSET Turns :
       /\ IsFiniteSet(S) /\ Cardinality(S) \in Nat /\ Cardinality(S) <= Cardinality(Turns)
       /\ \A t \in Turns \ S : /\ Cardinality(S \cup {t}) = Cardinality(S) + 1
                             /\ Cardinality(S) + 1 <= Cardinality(Turns)
       /\ \A R \in SUBSET S : Cardinality(R) <= Cardinality(S)
<1>1. IsFiniteSet(Turns)
  BY ConstantsAssumption, FS_Union DEF Turns
<1>2. ASSUME NEW S \in SUBSET Turns
      PROVE  IsFiniteSet(S) /\ Cardinality(S) \in Nat /\ Cardinality(S) <= Cardinality(Turns)
  BY <1>1, FS_Subset, FS_CardinalityType
<1>3. ASSUME NEW S \in SUBSET Turns, NEW t \in Turns \ S
      PROVE  /\ Cardinality(S \cup {t}) = Cardinality(S) + 1
             /\ Cardinality(S) + 1 <= Cardinality(Turns)
  <2>1. Cardinality(S \cup {t}) = Cardinality(S) + 1
    BY <1>2, FS_AddElement
  <2>2. S \cup {t} \in SUBSET Turns
    OBVIOUS
  <2>3. Cardinality(S \cup {t}) <= Cardinality(Turns)
    BY <1>2, <2>2
  <2> QED
    BY <2>1, <2>3
<1>4. ASSUME NEW S \in SUBSET Turns, NEW R \in SUBSET S
      PROVE  Cardinality(R) <= Cardinality(S)
  BY <1>2, FS_Subset
<1>5. Cardinality(Turns) \in Nat
  BY <1>1, FS_CardinalityType
<1> QED
  BY <1>2, <1>3, <1>4, <1>5

LEMMA MaxOfInterval ==
  ASSUME NEW n \in Nat
  PROVE  Max(0..n) = n
<1>1. n \in 0..n /\ \A y \in 0..n : n >= y
  OBVIOUS
<1>2. \A m \in 0..n : (\A y \in 0..n : m >= y) => m = n
  <2>1. ASSUME NEW m \in 0..n, \A y \in 0..n : m >= y PROVE m = n
    <3>1. m >= n
      BY <1>1, <2>1
    <3> QED
      BY <3>1
  <2> QED
    BY <2>1
<1> QED
  BY <1>1, <1>2 DEF Max

(* The next number is one beyond the last fragment's. *)
LEMMA NextSeq ==
  ASSUME NumbersHold
  PROVE  /\ Len(frags) \in Nat /\ LastSeq = Len(frags)
         /\ Range(frags) = 1..Len(frags)
<1>1. Len(frags) \in Nat /\ DOMAIN frags = 1..Len(frags)
  BY DEF NumbersHold
<1>2. Range(frags) = 1..Len(frags)
  BY <1>1 DEF Range, NumbersHold, SeqsAreGapFree
<1>3. {0} \cup Range(frags) = 0..Len(frags)
  BY <1>1, <1>2
<1> QED
  BY <1>1, <1>2, <1>3, MaxOfInterval DEF LastSeq

-----------------------------------------------------------------------------
(* What the steps of a turn do to the turn itself *)

Kept(t, seq, sess, updates, batch, opened) ==
  /\ seq => turn'[t].seq = turn[t].seq
  /\ sess => turn'[t].sess = turn[t].sess
  /\ updates => turn'[t].updates = turn[t].updates
  /\ batch => turn'[t].batch = turn[t].batch
  /\ opened => turn'[t].opened = turn[t].opened

Frame(t) == DOMAIN turn' = Turns /\ \A u \in Turns \ {t} : turn'[u] = turn[u]

Effect(t, from, to) == turn[t].pc = from /\ turn'[t].pc = to

(* One round trip after the other. *)
LEMMA Effects ==
  ASSUME turn \in [Turns -> Local], NEW t \in Turns
  PROVE  /\ CallerRead(t) =>
              /\ Frame(t) /\ Effect(t, "idle", "caller") /\ turn'[t].seq = LastSeq + 1
              /\ Kept(t, FALSE, TRUE, TRUE, TRUE, TRUE)
         /\ CallerCommit(t) =>
              /\ Frame(t) /\ Kept(t, TRUE, TRUE, TRUE, TRUE, TRUE)
              /\ \/ Effect(t, "caller", "failed") /\ turn[t].seq \in Range(frags) /\ UNCHANGED frags
                 \/ /\ Effect(t, "caller", "begun") /\ turn[t].seq \notin Range(frags)
                    /\ frags' = Append(frags, turn[t].seq)
         /\ LoadSession(t) =>
              /\ Frame(t) /\ Effect(t, "begun", "loaded") /\ turn'[t].sess = store
              /\ Kept(t, TRUE, FALSE, TRUE, TRUE, TRUE)
         /\ DrainDecisions(t) =>
              /\ Frame(t) /\ Effect(t, "loaded", "drained")
              /\ turn'[t].updates = {d \in turn[t].sess.pending : decision[d] \in Reportable}
              /\ turn'[t].sess.pending = turn[t].sess.pending \ turn'[t].updates
              /\ turn'[t].sess.version = turn[t].sess.version
              /\ turn'[t].sess.history = turn[t].sess.history
              /\ turn'[t].sess \in Session
              /\ turn'[t].uuidBound \in BOOLEAN
              /\ Kept(t, TRUE, FALSE, FALSE, TRUE, TRUE)
         /\ RangeWhispers(t) =>
              /\ Frame(t) /\ Kept(t, TRUE, TRUE, TRUE, FALSE, TRUE)
              /\ \/ Effect(t, "drained", "ranged") /\ turn'[t].batch = inbox
                 \/ Effect(t, "drained", "prompted") /\ inbox = {} /\ turn'[t].batch = {}
                 \/ Effect(t, "drained", "prompted") /\ turn'[t].batch = turn[t].batch
         /\ DeleteWhispers(t) =>
              /\ Frame(t) /\ Effect(t, "ranged", "prompted")
              /\ Kept(t, TRUE, TRUE, TRUE, FALSE, TRUE)
              /\ \/ inbox' = {} /\ turn'[t].batch = turn[t].batch
                 \/ inbox' = inbox /\ turn'[t].batch = {}
         /\ Speak(t) =>
              /\ Frame(t) /\ (Effect(t, "prompted", "spoken") \/ Effect(t, "loaded", "spoken"))
              /\ turn'[t].opened \in SUBSET {d \in Decisions : decision[d] = "absent"}
              /\ decision' = [d \in Decisions |->
                                IF d \in turn'[t].opened THEN "open" ELSE decision[d]]
              /\ Kept(t, TRUE, TRUE, TRUE, TRUE, FALSE)
         /\ AgentRead(t) =>
              /\ Frame(t) /\ Kept(t, FALSE, TRUE, TRUE, TRUE, TRUE)
              /\ \/ Effect(t, "spoken", "agent") /\ turn'[t].seq = LastSeq + 1
                 \/ Effect(t, "spoken", "replied") /\ turn'[t].seq = turn[t].seq
         /\ AgentCommit(t) =>
              /\ Frame(t) /\ Kept(t, TRUE, TRUE, TRUE, TRUE, TRUE)
              /\ \/ Effect(t, "agent", "failed") /\ turn[t].seq \in Range(frags) /\ UNCHANGED frags
                 \/ /\ Effect(t, "agent", "replied") /\ turn[t].seq \notin Range(frags)
                    /\ frags' = Append(frags, turn[t].seq)
         /\ Stamp(t) =>
              /\ Frame(t) /\ Effect(t, "replied", "stamped")
              /\ Kept(t, TRUE, TRUE, TRUE, TRUE, TRUE)
         /\ Save(t) =>
              /\ Frame(t) /\ Effect(t, "stamped", "done")
              /\ Kept(t, TRUE, TRUE, TRUE, TRUE, TRUE)
         /\ Abort(t) =>
              /\ Frame(t) /\ turn'[t].pc = "failed" /\ turn[t].pc \notin {"idle", "done", "failed"}
              /\ Kept(t, TRUE, TRUE, TRUE, TRUE, TRUE)
<1> USE DEF Frame, Effect, Kept, At, Local
<1>1. ASSUME CallerRead(t)
      PROVE  /\ Frame(t) /\ Effect(t, "idle", "caller") /\ turn'[t].seq = LastSeq + 1
             /\ Kept(t, FALSE, TRUE, TRUE, TRUE, TRUE)
  BY <1>1 DEF CallerRead, ReadSeq
<1>2. ASSUME CallerCommit(t)
      PROVE  /\ Frame(t) /\ Kept(t, TRUE, TRUE, TRUE, TRUE, TRUE)
             /\ \/ Effect(t, "caller", "failed") /\ turn[t].seq \in Range(frags) /\ UNCHANGED frags
                \/ /\ Effect(t, "caller", "begun") /\ turn[t].seq \notin Range(frags)
                   /\ frags' = Append(frags, turn[t].seq)
  BY <1>2 DEF CallerCommit, InsertFragment, Goto
<1>3. ASSUME LoadSession(t)
      PROVE  /\ Frame(t) /\ Effect(t, "begun", "loaded") /\ turn'[t].sess = store
             /\ Kept(t, TRUE, FALSE, TRUE, TRUE, TRUE)
  BY <1>3 DEF LoadSession
<1>4. ASSUME DrainDecisions(t)
      PROVE  /\ Frame(t) /\ Effect(t, "loaded", "drained")
             /\ turn'[t].updates = {d \in turn[t].sess.pending : decision[d] \in Reportable}
             /\ turn'[t].sess.pending = turn[t].sess.pending \ turn'[t].updates
             /\ turn'[t].sess.version = turn[t].sess.version
             /\ turn'[t].sess.history = turn[t].sess.history
             /\ turn'[t].sess \in Session
             /\ turn'[t].uuidBound \in BOOLEAN
             /\ Kept(t, TRUE, FALSE, FALSE, TRUE, TRUE)
  <2> DEFINE P == turn[t].sess.pending
             R == {d \in P : decision[d] \in Reportable}
  <2>1. /\ turn[t].pc = "loaded"
        /\ turn' = [turn EXCEPT ![t].pc = "drained", ![t].updates = R,
                                ![t].sess.pending = P \ R, ![t].uuidBound = (P # {})]
    BY <1>4 DEF DrainDecisions
  <2>2. turn[t].sess \in Session /\ P \ R \in SUBSET Decisions /\ (P # {}) \in BOOLEAN
    BY DEF Session
  <2>3. turn'[t].sess = [turn[t].sess EXCEPT !.pending = P \ R]
    BY <2>1
  <2>4. Frame(t) /\ Effect(t, "loaded", "drained") /\ Kept(t, TRUE, FALSE, FALSE, TRUE, TRUE)
        /\ turn'[t].updates = R /\ turn'[t].uuidBound = (P # {})
    BY <2>1
  <2> HIDE DEF R
  <2>5. /\ turn'[t].sess.pending = P \ R
        /\ turn'[t].sess.version = turn[t].sess.version
        /\ turn'[t].sess.history = turn[t].sess.history
        /\ turn'[t].sess \in Session
    BY <2>2, <2>3 DEF Session
  <2> QED
    BY <2>2, <2>4, <2>5 DEF R
<1>5. ASSUME RangeWhispers(t)
      PROVE  /\ Frame(t) /\ Kept(t, TRUE, TRUE, TRUE, FALSE, TRUE)
             /\ \/ Effect(t, "drained", "ranged") /\ turn'[t].batch = inbox
                \/ Effect(t, "drained", "prompted") /\ inbox = {} /\ turn'[t].batch = {}
                \/ Effect(t, "drained", "prompted") /\ turn'[t].batch = turn[t].batch
  BY <1>5 DEF RangeWhispers, Goto
<1>6. ASSUME DeleteWhispers(t)
      PROVE  /\ Frame(t) /\ Effect(t, "ranged", "prompted")
             /\ Kept(t, TRUE, TRUE, TRUE, FALSE, TRUE)
             /\ \/ inbox' = {} /\ turn'[t].batch = turn[t].batch
                \/ inbox' = inbox /\ turn'[t].batch = {}
  BY <1>6 DEF DeleteWhispers, Goto
<1>7. ASSUME Speak(t)
      PROVE  /\ Frame(t) /\ (Effect(t, "prompted", "spoken") \/ Effect(t, "loaded", "spoken"))
             /\ turn'[t].opened \in SUBSET {d \in Decisions : decision[d] = "absent"}
             /\ decision' = [d \in Decisions |->
                               IF d \in turn'[t].opened THEN "open" ELSE decision[d]]
             /\ Kept(t, TRUE, TRUE, TRUE, TRUE, FALSE)
  <2>1. PICK O \in SUBSET {d \in Decisions : decision[d] = "absent"} :
          /\ turn' = [turn EXCEPT ![t].pc = "spoken", ![t].opened = O]
          /\ decision' = [d \in Decisions |-> IF d \in O THEN "open" ELSE decision[d]]
    <3>1. PICK O \in {{}} \cup {{d} : d \in {x \in Decisions : decision[x] = "absent"}} :
            /\ turn' = [turn EXCEPT ![t].pc = "spoken", ![t].opened = O]
            /\ decision' = [d \in Decisions |-> IF d \in O THEN "open" ELSE decision[d]]
      BY <1>7 DEF Speak
    <3> QED
      BY <3>1
  <2>2. turn[t].pc \in {"prompted", "loaded"}
    BY <1>7 DEF Speak
  <2>3. turn'[t].opened = O
    BY <2>1
  <2> QED
    BY <2>1, <2>2, <2>3
<1>8. ASSUME AgentRead(t)
      PROVE  /\ Frame(t) /\ Kept(t, FALSE, TRUE, TRUE, TRUE, TRUE)
             /\ \/ Effect(t, "spoken", "agent") /\ turn'[t].seq = LastSeq + 1
                \/ Effect(t, "spoken", "replied") /\ turn'[t].seq = turn[t].seq
  BY <1>8 DEF AgentRead, ReadSeq, Goto
<1>9. ASSUME AgentCommit(t)
      PROVE  /\ Frame(t) /\ Kept(t, TRUE, TRUE, TRUE, TRUE, TRUE)
             /\ \/ Effect(t, "agent", "failed") /\ turn[t].seq \in Range(frags) /\ UNCHANGED frags
                \/ /\ Effect(t, "agent", "replied") /\ turn[t].seq \notin Range(frags)
                   /\ frags' = Append(frags, turn[t].seq)
  BY <1>9 DEF AgentCommit, InsertFragment, Goto
<1>10. ASSUME Stamp(t)
       PROVE  /\ Frame(t) /\ Effect(t, "replied", "stamped")
              /\ Kept(t, TRUE, TRUE, TRUE, TRUE, TRUE)
  BY <1>10 DEF Stamp, Goto
<1>11. ASSUME Save(t)
       PROVE  /\ Frame(t) /\ Effect(t, "stamped", "done")
              /\ Kept(t, TRUE, TRUE, TRUE, TRUE, TRUE)
  BY <1>11 DEF Save, Goto
<1>12. ASSUME Abort(t)
       PROVE  /\ Frame(t) /\ turn'[t].pc = "failed"
              /\ turn[t].pc \notin {"idle", "done", "failed"}
              /\ Kept(t, TRUE, TRUE, TRUE, TRUE, TRUE)
  BY <1>12 DEF Abort, Goto, InFlight
<1> HIDE DEF Frame, Effect, Kept, At, Local
<1> QED
  BY <1>1, <1>2, <1>3, <1>4, <1>5, <1>6, <1>7, <1>8, <1>9, <1>10, <1>11, <1>12

(* The sets of turns that count grow with every step of a turn. *)
LEMMA SetsGrow ==
  ASSUME TypeOK, NEW t \in Turns, TurnStep(t)
  PROVE  /\ Frame(t)
         /\ Began \subseteq Began' /\ Ended \subseteq Ended' /\ Spoke \subseteq Spoke'
         /\ Began' \subseteq Began \cup {t} /\ Ended' \subseteq Ended \cup {t}
         /\ Spoke' \subseteq Spoke \cup {t}
         /\ Done \subseteq Done' /\ Done' \subseteq Done \cup {t}
<1>1. turn \in [Turns -> Local]
  BY DEF TypeOK
<1>2. Frame(t)
  BY <1>1, Effects DEF TurnStep
<1>3. /\ turn[t].pc = "idle" \/ turn'[t].pc \notin {"idle", "caller"}
      /\ turn[t].pc \in {"replied", "stamped", "done", "failed"}
           => turn'[t].pc \in {"replied", "stamped", "done", "failed"}
      /\ turn[t].pc \in Said \cup {"done", "failed"} => turn'[t].pc \in Said \cup {"done", "failed"}
      /\ turn[t].pc # "done"
  BY <1>1, Effects DEF TurnStep, Effect, Said
<1> QED
  BY <1>2, <1>3 DEF Frame, Began, Ended, Spoke, Done

(* Which shared variables the steps of a turn write. *)
LEMMA Writers ==
  ASSUME NEW t \in Turns, TurnStep(t)
  PROVE  /\ CallerCommit(t) \/ AgentCommit(t) \/ UNCHANGED frags
         /\ Save(t) \/ UNCHANGED store
         /\ Stamp(t) \/ UNCHANGED whisper
         /\ DeleteWhispers(t) \/ UNCHANGED inbox
         /\ Speak(t) \/ UNCHANGED <<decision, told, heard>>
         /\ CallerRead(t) \/ UNCHANGED serial
         /\ Fault \/ UNCHANGED faults
         /\ Abort(t) => Fault
         /\ UNCHANGED live
<1>1. CASE CallerRead(t) \/ CallerCommit(t) \/ LoadSession(t) \/ DrainDecisions(t) \/ RangeWhispers(t)
  BY <1>1 DEF CallerRead, CallerCommit, LoadSession, DrainDecisions, RangeWhispers, Abort
<1>2. CASE DeleteWhispers(t) \/ Speak(t) \/ AgentRead(t) \/ AgentCommit(t)
  BY <1>2 DEF DeleteWhispers, Speak, AgentRead, AgentCommit, Abort
<1>3. CASE Stamp(t) \/ Save(t) \/ Abort(t)
  BY <1>3 DEF Stamp, Save, Abort
<1> QED
  BY <1>1, <1>2, <1>3 DEF TurnStep

(* The steps of the Manager and of the call's end leave the turns alone. *)
Aside == (\E w \in Whispers : PostWhisper(w) \/ PushWhisper(w)) \/ (\E d \in Decisions : DecisionMoves(d))
         \/ CallEnds \/ UNCHANGED vars

LEMMA AsideKeeps ==
  ASSUME Aside
  PROVE  UNCHANGED <<frags, store, turn, told, heard, serial>> /\ (Fault \/ UNCHANGED faults)
BY DEF Aside, PostWhisper, PushWhisper, DecisionMoves, CallEnds, vars

-----------------------------------------------------------------------------
(* Numbers, history and counts *)

LEMMA NumbersKeep ==
  ASSUME TypeOK, NumbersHold, NEW t \in Turns, TurnStep(t)
  PROVE  NumbersHold'
<1>0. turn \in [Turns -> Local] /\ Frame(t) /\ turn[t].seq \in Nat
  BY SetsGrow, Sizes DEF TypeOK, Local
<1>1. Len(frags) \in Nat /\ LastSeq = Len(frags) /\ Range(frags) = 1..Len(frags)
  BY NextSeq
<1>2. /\ Cardinality(Began) \in Nat /\ Cardinality(Ended) \in Nat
      /\ Cardinality(Began') \in Nat /\ Cardinality(Ended') \in Nat
      /\ Cardinality(Began) <= Cardinality(Began') /\ Cardinality(Ended) <= Cardinality(Ended')
  <2>1. Began \in SUBSET Began' /\ Ended \in SUBSET Ended'
        /\ Began' \in SUBSET Turns /\ Ended' \in SUBSET Turns
    BY SetsGrow DEF Began, Ended
  <2>2. Began \in SUBSET Turns /\ Ended \in SUBSET Turns
    BY <2>1
  <2> HIDE DEF Began, Ended
  <2> QED
    BY <2>1, <2>2, Sizes
<1>3. CASE UNCHANGED frags
  <2>1. \A u \in Turns : turn'[u].pc \in {"caller", "agent"} => turn'[u].seq \in 1..(Len(frags) + 1)
    <3>1. turn'[t].pc \in {"caller", "agent"} => turn'[t].seq = Len(frags) + 1
      BY <1>0, <1>1, Effects DEF TurnStep, Effect
    <3>2. \A u \in Turns \ {t} : turn'[u] = turn[u]
      BY <1>0 DEF Frame
    <3> QED
      BY <1>1, <3>1, <3>2 DEF NumbersHold
  <2>2. Len(frags) <= Cardinality(Began') + Cardinality(Ended')
    BY <1>1, <1>2 DEF NumbersHold
  <2> QED
    BY <1>3, <2>1, <2>2 DEF NumbersHold, SeqsAreGapFree
<1>4. ASSUME frags' = Append(frags, turn[t].seq), turn[t].seq \notin Range(frags),
             turn[t].pc \in {"caller", "agent"}, turn'[t].pc \in {"begun", "replied"},
             Cardinality(Began') + Cardinality(Ended')
               >= Cardinality(Began) + Cardinality(Ended) + 1
      PROVE  NumbersHold'
  <2>1. turn[t].seq = Len(frags) + 1
    <3>1. turn[t].seq \in 1..(Len(frags) + 1) /\ turn[t].seq \notin 1..Len(frags)
      BY <1>1, <1>4 DEF NumbersHold
    <3> QED
      BY <1>1, <3>1
  <2>2. /\ frags' \in Seq(Nat) /\ Len(frags') = Len(frags) + 1
        /\ \A i \in 1..Len(frags) : frags'[i] = frags[i]
        /\ frags'[Len(frags) + 1] = Len(frags) + 1
    BY <1>0, <1>1, <1>4, <2>1 DEF NumbersHold
  <2>3. SeqsAreGapFree'
    <3>1. \A i \in 1..(Len(frags) + 1) : i = Len(frags) + 1 \/ i \in 1..Len(frags)
      BY <1>1
    <3> QED
      BY <2>2, <3>1 DEF NumbersHold, SeqsAreGapFree
  <2>4. \A u \in Turns : turn'[u].pc \in {"caller", "agent"} => turn'[u].seq \in 1..(Len(frags') + 1)
    BY <1>0, <1>1, <1>4, <2>2 DEF NumbersHold, Frame
  <2>5. Len(frags') <= Cardinality(Began') + Cardinality(Ended')
    BY <1>1, <1>2, <1>4, <2>2 DEF NumbersHold
  <2> QED
    BY <2>2, <2>3, <2>4, <2>5 DEF NumbersHold
<1>5. CASE CallerCommit(t)
  <2>1. CASE turn'[t].pc = "begun"
    <3>0. turn[t].pc = "caller" /\ turn'[t].pc = "begun"
      BY <1>0, <1>5, <2>1, Effects DEF Effect
    <3>1. t \in Turns \ Began /\ Began' = Began \cup {t} /\ Began \in SUBSET Turns
      <4>1. Began \subseteq Began' /\ Began' \subseteq Began \cup {t}
        BY SetsGrow
      <4>2. t \notin Began /\ t \in Began' /\ Began \in SUBSET Turns
        BY <3>0 DEF Began
      <4> QED
        BY <4>1, <4>2
    <3>2. Cardinality(Began') = Cardinality(Began) + 1
      BY <3>1, Sizes
    <3>3. Cardinality(Began') + Cardinality(Ended') >= Cardinality(Began) + Cardinality(Ended) + 1
      BY <1>2, <3>2
    <3> QED
      BY <1>0, <1>4, <1>5, <2>1, <3>3, Effects DEF Effect
  <2>2. CASE turn'[t].pc # "begun"
    BY <1>0, <1>3, <1>5, <2>2, Effects DEF Effect
  <2> QED
    BY <2>1, <2>2
<1>6. CASE AgentCommit(t)
  <2>1. CASE turn'[t].pc = "replied"
    <3>0. turn[t].pc = "agent" /\ turn'[t].pc = "replied"
      BY <1>0, <1>6, <2>1, Effects DEF Effect
    <3>1. t \in Turns \ Ended /\ Ended' = Ended \cup {t} /\ Ended \in SUBSET Turns
      <4>1. Ended \subseteq Ended' /\ Ended' \subseteq Ended \cup {t}
        BY SetsGrow
      <4>2. t \notin Ended /\ t \in Ended' /\ Ended \in SUBSET Turns
        BY <3>0 DEF Ended
      <4> QED
        BY <4>1, <4>2
    <3>2. Cardinality(Ended') = Cardinality(Ended) + 1
      BY <3>1, Sizes
    <3>3. Cardinality(Began') + Cardinality(Ended') >= Cardinality(Began) + Cardinality(Ended) + 1
      BY <1>2, <3>2
    <3> QED
      BY <1>0, <1>4, <1>6, <2>1, <3>3, Effects DEF Effect
  <2>2. CASE turn'[t].pc # "replied"
    BY <1>0, <1>3, <1>6, <2>2, Effects DEF Effect
  <2> QED
    BY <2>1, <2>2
<1> QED
  BY <1>3, <1>5, <1>6, Writers

LEMMA HistoryKeeps ==
  ASSUME TypeOK, HistoryHolds, NEW t \in Turns, TurnStep(t)
  PROVE  /\ HistoryHolds'
         /\ store' # store => /\ store.history \subseteq store'.history
                             /\ store'.version = store.version + 1
<1>0. /\ turn \in [Turns -> Local] /\ Frame(t) /\ store \in Session
      /\ store.version \in Nat /\ \A u \in Turns : turn[u].sess.version \in Nat
  BY SetsGrow, Sizes DEF TypeOK, Local, Session
<1>1. CASE UNCHANGED store
  <2>1. store.history \subseteq Done'
    BY SetsGrow DEF HistoryHolds
  <2>2. turn'[t].pc \in Holding =>
          \/ turn'[t].sess = store
          \/ /\ turn[t].pc \in Holding
             /\ turn'[t].sess.version = turn[t].sess.version
             /\ turn'[t].sess.history = turn[t].sess.history
    BY <1>0, Effects DEF TurnStep, Effect, Kept, Holding
  <2>3. \A u \in Turns : turn'[u].pc \in Holding =>
          /\ turn'[u].sess.version <= store.version
          /\ turn'[u].sess.version = store.version => turn'[u].sess.history = store.history
    BY <1>0, <2>2 DEF HistoryHolds, Frame
  <2> QED
    BY <1>1, <2>1, <2>3 DEF HistoryHolds
<1>2. CASE Save(t)
  <2>1. turn[t].pc = "stamped" /\ turn'[t].pc = "done"
    BY <1>0, <1>2, Effects DEF Effect
  <2>2. CASE store' # store
    <3> DEFINE mine == turn[t].sess
    <3>1. /\ store.version = mine.version
          /\ store'.version = mine.version + 1
          /\ store'.history = mine.history \cup {t}
      BY <1>2, <2>2 DEF Save
    <3>2. mine.history = store.history
      BY <2>1, <3>1 DEF HistoryHolds, Holding
    <3>3. t \in Turns \ store.history /\ store.history \in SUBSET Turns
      BY <2>1 DEF HistoryHolds, Done
    <3>4. Cardinality(store'.history) = Cardinality(store.history) + 1
      BY <3>1, <3>2, <3>3, Sizes
    <3>5. store'.history \subseteq Done'
      BY <2>1, <3>1, <3>2, SetsGrow DEF HistoryHolds, Done
    <3>6. \A u \in Turns : turn'[u].pc \in Holding =>
            turn'[u].sess.version <= store.version /\ turn'[u].sess.version \in Nat
      BY <1>0, <2>1 DEF HistoryHolds, Frame, Holding
    <3>7. store'.version = store.version + 1
      BY <3>1
    <3>8. \A u \in Turns : turn'[u].pc \in Holding =>
            turn'[u].sess.version <= store'.version /\ turn'[u].sess.version # store'.version
      BY <1>0, <3>6, <3>7
    <3> QED
      BY <3>1, <3>2, <3>4, <3>5, <3>7, <3>8 DEF HistoryHolds
  <2> QED
    BY <1>1, <2>2
<1> QED
  BY <1>1, <1>2, Writers

LEMMA CountsKeep ==
  ASSUME TypeOK, CountsHold, NEW t \in Turns, TurnStep(t)
  PROVE  CountsHold'
<1>0. /\ turn \in [Turns -> Local] /\ Spoke \in SUBSET Spoke' /\ Spoke' \in SUBSET Turns
      /\ Spoke \in SUBSET Turns
  BY SetsGrow DEF TypeOK, Spoke
<1>1. /\ Cardinality(Spoke) \in Nat /\ Cardinality(Spoke') \in Nat
      /\ Cardinality(Spoke) <= Cardinality(Spoke')
  BY <1>0, Sizes
<1>2. /\ \A d \in Decisions : told[d] \in Nat
      /\ \A w \in Whispers : heard[w] \in Nat
  BY Sizes DEF TypeOK
<1>3. CASE UNCHANGED <<told, heard>>
  BY <1>1, <1>2, <1>3 DEF CountsHold
<1>4. CASE Speak(t)
  <2>1. t \in Turns \ Spoke /\ Spoke' = Spoke \cup {t}
    <3>1. Spoke \subseteq Spoke' /\ Spoke' \subseteq Spoke \cup {t}
      BY SetsGrow
    <3>2. turn[t].pc \in {"prompted", "loaded"} /\ turn'[t].pc = "spoken"
      BY <1>0, <1>4, Effects DEF Effect
    <3>3. t \notin Spoke /\ t \in Spoke'
      BY <3>2 DEF Spoke, Said
    <3> QED
      BY <3>1, <3>3
  <2>2. Cardinality(Spoke') = Cardinality(Spoke) + 1
    BY <1>0, <2>1, Sizes
  <2>3. /\ \A d \in Decisions : told'[d] \in {told[d], told[d] + 1}
        /\ \A w \in Whispers : heard'[w] \in {heard[w], heard[w] + 1}
    BY <1>4 DEF Speak, Once, TypeOK
  <2> QED
    BY <1>1, <1>2, <2>2, <2>3 DEF CountsHold
<1> QED
  BY <1>3, <1>4, Writers

-----------------------------------------------------------------------------
(* Types *)

(* There is room for the number a turn reads. *)
LEMMA RoomForSeq ==
  ASSUME TypeOK, NumbersHold, NEW t \in Turns, turn[t].pc \in {"idle", "spoken"}
  PROVE  LastSeq + 1 \in 0..(2 * Cardinality(Turns))
<1>1. Len(frags) \in Nat /\ LastSeq = Len(frags)
  BY NextSeq
<1>2. Began \in SUBSET Turns /\ Ended \in SUBSET Turns /\ t \in Turns \ Ended
  BY DEF Began, Ended
<1> HIDE DEF Began, Ended
<1>3. /\ Cardinality(Began) <= Cardinality(Turns) /\ Cardinality(Ended) + 1 <= Cardinality(Turns)
      /\ Cardinality(Began) \in Nat /\ Cardinality(Ended) \in Nat /\ Cardinality(Turns) \in Nat
  BY <1>2, Sizes
<1>4. Len(frags) <= Cardinality(Began) + Cardinality(Ended)
  BY DEF NumbersHold
<1> QED
  BY <1>1, <1>3, <1>4

LEMMA TurnType ==
  ASSUME TypeOK, NumbersHold, NEW t \in Turns, TurnStep(t)
  PROVE  turn' \in [Turns -> Local]
<1>1. turn \in [Turns -> Local] /\ store \in Session /\ inbox \in SUBSET Whispers
  BY DEF TypeOK
<1>2. CASE CallerRead(t) \/ AgentRead(t)
  <2>1. LastSeq + 1 \in 0..(2 * Cardinality(Turns))
    BY <1>2, RoomForSeq DEF CallerRead, AgentRead, At
  <2> QED
    BY <1>1, <1>2, <2>1 DEF CallerRead, AgentRead, ReadSeq, Goto, Local, Phases
<1>3. CASE CallerCommit(t) \/ AgentCommit(t) \/ LoadSession(t) \/ Stamp(t) \/ Save(t) \/ Abort(t)
  BY <1>1, <1>3 DEF CallerCommit, AgentCommit, LoadSession, Stamp, Save, Abort, InsertFragment,
                    Goto, Local, Phases
<1>4. CASE DrainDecisions(t)
  <2> DEFINE P == turn[t].sess.pending
             R == {d \in P : decision[d] \in Reportable}
  <2>1. turn' = [turn EXCEPT ![t].pc = "drained", ![t].updates = R,
                             ![t].sess.pending = P \ R, ![t].uuidBound = (P # {})]
    BY <1>4 DEF DrainDecisions
  <2>2. /\ turn'[t].sess \in Session /\ R \in SUBSET Decisions /\ (P # {}) \in BOOLEAN
        /\ Frame(t)
    BY <1>1, <1>4, Effects DEF Local, Session
  <2>3. turn'[t] = [turn[t] EXCEPT !.pc = "drained", !.updates = R,
                                   !.sess = turn'[t].sess, !.uuidBound = (P # {})]
    BY <1>1, <2>1 DEF Local
  <2> HIDE DEF P, R
  <2>4. turn'[t] \in Local
    BY <1>1, <2>2, <2>3 DEF Local, Phases
  <2>5. turn' = [u \in Turns |-> turn'[u]]
    BY <1>1, <2>1
  <2> QED
    BY <1>1, <2>2, <2>4, <2>5 DEF Frame
<1>5. CASE RangeWhispers(t) \/ DeleteWhispers(t)
  BY <1>1, <1>5 DEF RangeWhispers, DeleteWhispers, Goto, Local, Phases
<1>6. CASE Speak(t)
  <2>1. PICK O \in SUBSET Decisions : turn' = [turn EXCEPT ![t].pc = "spoken", ![t].opened = O]
    <3>1. PICK O \in {{}} \cup {{d} : d \in {x \in Decisions : decision[x] = "absent"}} :
            turn' = [turn EXCEPT ![t].pc = "spoken", ![t].opened = O]
      BY <1>6 DEF Speak
    <3> QED
      BY <3>1
  <2> QED
    BY <1>1, <2>1 DEF Local, Phases
<1> QED
  BY <1>2, <1>3, <1>4, <1>5, <1>6 DEF TurnStep

LEMMA TypesKeep ==
  ASSUME TypeOK, NumbersHold, NumbersHold', HistoryHolds', CountsHold',
         NEW t \in Turns, TurnStep(t)
  PROVE  TypeOK'
<1>0. /\ turn \in [Turns -> Local] /\ turn' \in [Turns -> Local]
      /\ decision \in [Decisions -> Statuses] /\ Frame(t)
  BY TurnType, SetsGrow DEF TypeOK
<1>1. frags' \in Seq(Seqs)
  <2>1. Began' \in SUBSET Turns /\ Ended' \in SUBSET Turns
    BY DEF Began, Ended
  <2> HIDE DEF Began, Ended
  <2>2. /\ frags' \in Seq(Nat) /\ Len(frags') \in Nat
        /\ Len(frags') <= Cardinality(Began') + Cardinality(Ended')
        /\ \A i \in 1..Len(frags') : frags'[i] = i
    BY DEF NumbersHold, SeqsAreGapFree
  <2>3. Len(frags') <= 2 * Cardinality(Turns) /\ Cardinality(Turns) \in Nat
    BY <2>1, <2>2, Sizes
  <2>4. \A i \in 1..Len(frags') : frags'[i] \in Seqs
    BY <2>2, <2>3 DEF Seqs
  <2> QED
    BY <2>2, <2>4
<1>2. store' \in Session
  <2>1. CASE UNCHANGED store
    BY <2>1 DEF TypeOK
  <2>2. CASE Save(t) /\ store' # store
    <3>1. store' = [version |-> turn[t].sess.version + 1,
                    pending |-> turn[t].sess.pending \cup turn[t].opened,
                    history |-> turn[t].sess.history \cup {t}]
      BY <2>2 DEF Save
    <3>2. store'.version = Cardinality(store'.history) /\ store'.history \in SUBSET Turns
      BY DEF HistoryHolds, Done
    <3>3. store'.version \in 0..Cardinality(Turns)
      BY <3>2, Sizes
    <3>4. turn[t].sess.pending \cup turn[t].opened \in SUBSET Decisions
          /\ turn[t].sess.history \cup {t} \in SUBSET Turns
      BY <1>0 DEF Local, Session
    <3> QED
      BY <3>1, <3>3, <3>4 DEF Session
  <2> QED
    BY <2>1, <2>2, Writers
<1>3. inbox' \subseteq Whispers
  BY <1>0, Effects, Writers DEF TypeOK
<1>4. decision' \in [Decisions -> Statuses]
  <2>1. CASE Speak(t)
    <3>1. decision' = [d \in Decisions |-> IF d \in turn'[t].opened THEN "open" ELSE decision[d]]
      BY <1>0, <2>1, Effects
    <3> QED
      BY <1>0, <3>1 DEF Statuses
  <2> QED
    BY <1>0, <2>1, Writers
<1>5. whisper' \in [Whispers -> Posted]
  <2>1. CASE Stamp(t)
    BY <2>1 DEF Stamp, TypeOK, Posted
  <2> QED
    BY <2>1, Writers DEF TypeOK
<1>6. /\ told' \in [Decisions -> 0..Cardinality(Turns)]
      /\ heard' \in [Whispers -> 0..Cardinality(Turns)]
  <2>1. CASE UNCHANGED <<told, heard>>
    BY <2>1 DEF TypeOK
  <2>2. CASE Speak(t)
    <3>1. /\ \A d \in Decisions : told'[d] \in Nat
          /\ \A w \in Whispers : heard'[w] \in Nat
          /\ told' = [d \in Decisions |-> told'[d]] /\ heard' = [w \in Whispers |-> heard'[w]]
      BY <2>2, Sizes DEF Speak, Once, TypeOK
    <3>2. Spoke' \in SUBSET Turns
      BY DEF Spoke
    <3> HIDE DEF Spoke
    <3>3. Cardinality(Spoke') \in Nat /\ Cardinality(Spoke') <= Cardinality(Turns)
      BY <3>2, Sizes
    <3>4. /\ \A d \in Decisions : told'[d] \in 0..Cardinality(Turns)
          /\ \A w \in Whispers : heard'[w] \in 0..Cardinality(Turns)
      BY <3>1, <3>3, Sizes DEF CountsHold
    <3> QED
      BY <3>1, <3>4
  <2> QED
    BY <2>1, <2>2, Writers
<1>7. serial' \in BOOLEAN
  BY Writers DEF TypeOK, CallerRead
<1>8. faults' \in 0..MaxFaults
  BY Writers, ConstantsAssumption DEF TypeOK, Fault
<1>9. live' \in BOOLEAN
  BY Writers DEF TypeOK
<1> QED
  BY <1>0, <1>1, <1>2, <1>3, <1>4, <1>5, <1>6, <1>7, <1>8, <1>9 DEF TypeOK

LEMMA AloneKeeps ==
  ASSUME TypeOK, Alone, NEW t \in Turns, TurnStep(t)
  PROVE  Alone'
<1>0. turn \in [Turns -> Local] /\ Frame(t)
  BY SetsGrow DEF TypeOK
<1>1. InFlight' \subseteq InFlight \cup {t}
  BY <1>0 DEF Frame, InFlight
<1>2. CASE CallerRead(t)
  BY <1>1, <1>2 DEF CallerRead, Alone, OneAtATime
<1>3. CASE ~ CallerRead(t)
  <2>1. t \in InFlight
    BY <1>0, <1>3, Effects DEF TurnStep, Effect, InFlight
  <2>2. serial' = serial
    BY <1>3, Writers
  <2> QED
    BY <1>1, <2>1, <2>2 DEF Alone, OneAtATime
<1> QED
  BY <1>2, <1>3

-----------------------------------------------------------------------------
(* Whispers *)

LEMMA WhispersKeep ==
  ASSUME TypeOK, WhispersBase, NEW t \in Turns, TurnStep(t)
  PROVE  WhispersBase'
<1>0. /\ turn \in [Turns -> Local] /\ Frame(t) /\ turn[t].batch \in SUBSET Whispers
      /\ inbox \in SUBSET Whispers /\ \A w \in Whispers : heard[w] \in Nat
  BY SetsGrow, Sizes DEF TypeOK, Local
<1>1. CASE ~ Speak(t) /\ ~ Stamp(t)
  <2>1. UNCHANGED <<whisper, heard>> /\ inbox' \subseteq inbox
    BY <1>0, <1>1, Writers, Effects
  <2>2. /\ turn'[t].pc \in Early => turn'[t].batch = {}
        /\ turn'[t].batch \in {{}, inbox, turn[t].batch}
        /\ turn'[t].pc \in Said => turn[t].pc \in Said /\ turn'[t].batch = turn[t].batch
    BY <1>0, <1>1, Effects DEF TurnStep, Effect, Kept, Early, Said, WhispersBase
  <2> QED
    BY <1>0, <2>1, <2>2 DEF WhispersBase, StampedWasHeard, Frame
<1>2. CASE Speak(t)
  <2>1. /\ UNCHANGED <<inbox, whisper>>
        /\ heard' = [w \in Whispers |-> IF w \in turn[t].batch THEN heard[w] + 1 ELSE heard[w]]
    BY <1>2 DEF Speak, Once, TypeOK
  <2>2. turn'[t].pc = "spoken" /\ turn'[t].batch = turn[t].batch
    BY <1>0, <1>2, Effects DEF Effect, Kept
  <2>3. /\ \A w \in Whispers : heard[w] > 0 => heard'[w] > 0
        /\ \A w \in turn[t].batch : heard'[w] > 0
        /\ \A w \in Whispers : heard'[w] > 0 => heard[w] > 0 \/ w \in turn[t].batch
    BY <1>0, <2>1
  <2>4. \A u \in Turns : turn[u].batch \in SUBSET Whispers
    BY <1>0 DEF Local
  <2> QED
    BY <1>0, <2>1, <2>2, <2>3, <2>4 DEF WhispersBase, StampedWasHeard, Frame, Early
<1>3. CASE Stamp(t)
  <2>1. UNCHANGED <<inbox, heard>>
    BY <1>3 DEF Stamp
  <2>2. /\ turn[t].pc = "replied" /\ turn'[t].pc = "stamped" /\ turn'[t].batch = turn[t].batch
    BY <1>0, <1>3, Effects DEF Effect, Kept
  <2>3. \A w \in turn[t].batch : heard[w] > 0
    BY <2>2 DEF WhispersBase, Said
  <2>4. \A w \in Whispers : whisper'[w] = whisper[w] \/ (w \in turn[t].batch /\ whisper'[w] = "stamped")
    BY <1>3 DEF Stamp
  <2>5. \A u \in Turns : turn[u].batch \in SUBSET Whispers
    BY <1>0 DEF Local
  <2>6. \A u \in Turns :
          /\ turn'[u].batch = turn[u].batch
          /\ turn'[u].pc \in Early => turn[u].pc \in Early
          /\ turn'[u].pc \in Said => turn[u].pc \in Said
    BY <1>0, <2>2 DEF Frame, Early, Said
  <2>7. \A w \in Whispers : whisper[w] \in {"pushed", "stamped"} => whisper'[w] \in {"pushed", "stamped"}
    BY <2>4
  <2>8. StampedWasHeard'
    BY <1>0, <2>1, <2>3, <2>4 DEF WhispersBase, StampedWasHeard
  <2>9. \A u \in Turns :
          /\ turn'[u].pc \in Early => turn'[u].batch = {}
          /\ \A w \in turn'[u].batch : whisper'[w] \in {"pushed", "stamped"}
          /\ turn'[u].pc \in Said => \A w \in turn'[u].batch : heard[w] > 0
    <3> TAKE u \in Turns
    <3>1. /\ turn[u].pc \in Early => turn[u].batch = {}
          /\ \A w \in turn[u].batch : w \in Whispers /\ whisper[w] \in {"pushed", "stamped"}
          /\ turn[u].pc \in Said => \A w \in turn[u].batch : heard[w] > 0
      BY <2>5 DEF WhispersBase
    <3>2. \A w \in turn[u].batch : whisper'[w] \in {"pushed", "stamped"}
      BY <2>7, <3>1
    <3> QED
      BY <2>6, <3>1, <3>2
  <2> QED
    BY <1>0, <2>1, <2>7, <2>8, <2>9 DEF WhispersBase
<1> QED
  BY <1>1, <1>2, <1>3

LEMMA UnheardKeeps ==
  ASSUME TypeOK, OneAtATime, WhispersBase, WaitingIsUnheard, NEW t \in Turns, TurnStep(t)
  PROVE  WaitingIsUnheard'
<1>0. /\ turn \in [Turns -> Local] /\ Frame(t) /\ turn[t].batch \in SUBSET Whispers
      /\ inbox \in SUBSET Whispers /\ \A w \in Whispers : heard[w] \in Nat
  BY SetsGrow, Sizes DEF TypeOK, Local
<1>1. CASE ~ Speak(t) /\ ~ RangeWhispers(t) /\ ~ DeleteWhispers(t)
  <2>1. UNCHANGED <<inbox, heard>>
    BY <1>1, Writers
  <2>2. turn'[t].pc \notin {"ranged", "prompted"}
    BY <1>0, <1>1, Effects DEF TurnStep, Effect
  <2> QED
    BY <1>0, <2>1, <2>2 DEF WaitingIsUnheard, Frame
<1>2. CASE RangeWhispers(t)
  <2>1. UNCHANGED <<inbox, heard>>
    BY <1>2 DEF RangeWhispers
  <2>2. \/ turn'[t].pc = "ranged" /\ turn'[t].batch = inbox
        \/ turn'[t].pc = "prompted" /\ turn'[t].batch = {}
    BY <1>0, <1>2, Effects DEF Effect, WhispersBase, Early
  <2> QED
    BY <1>0, <2>1, <2>2 DEF WaitingIsUnheard, Frame
<1>3. ASSUME DeleteWhispers(t) \/ Speak(t), NEW u \in Turns, u # t
      PROVE  turn'[u].pc \notin {"ranged", "prompted"}
  <2>1. t \in InFlight
    BY <1>0, <1>3, Effects DEF Effect, InFlight
  <2>2. turn'[u] = turn[u] /\ u \notin InFlight
    BY <1>0, <1>3, <2>1 DEF OneAtATime, Frame
  <2> QED
    BY <2>2 DEF InFlight
<1>4. CASE DeleteWhispers(t)
  <2>1. UNCHANGED heard
    BY <1>4 DEF DeleteWhispers
  <2>2. /\ turn[t].pc = "ranged" /\ turn'[t].pc = "prompted"
        /\ \/ inbox' = {} /\ turn'[t].batch = turn[t].batch
           \/ inbox' = inbox /\ turn'[t].batch = {}
    BY <1>0, <1>4, Effects DEF Effect
  <2>3. \A w \in turn'[t].batch : w \notin inbox' /\ heard[w] = 0
    BY <2>2 DEF WaitingIsUnheard
  <2> QED
    BY <1>3, <1>4, <2>1, <2>2, <2>3 DEF WaitingIsUnheard
<1>5. CASE Speak(t)
  <2>1. /\ UNCHANGED inbox
        /\ heard' = [w \in Whispers |-> IF w \in turn[t].batch THEN heard[w] + 1 ELSE heard[w]]
    BY <1>5 DEF Speak, Once, TypeOK
  <2>2. turn[t].pc \in {"prompted", "loaded"} /\ turn'[t].pc = "spoken"
    BY <1>0, <1>5, Effects DEF Effect
  <2>3. \A w \in turn[t].batch : w \notin inbox /\ heard[w] = 0
    BY <2>2 DEF WhispersBase, WaitingIsUnheard, Early
  <2>4. /\ \A w \in Whispers : heard'[w] <= 1
        /\ \A w \in inbox : heard'[w] = 0
    BY <1>0, <2>1, <2>3 DEF WaitingIsUnheard
  <2>5. turn'[t].pc \notin {"ranged", "prompted"}
    BY <2>2
  <2> QED
    BY <1>3, <1>5, <2>1, <2>4, <2>5 DEF WaitingIsUnheard
<1> QED
  BY <1>1, <1>2, <1>4, <1>5

-----------------------------------------------------------------------------
(* Outcomes *)

LEMMA OutcomesKeep ==
  ASSUME TypeOK, OutcomesBase, NEW t \in Turns, TurnStep(t)
  PROVE  OutcomesBase'
<1>0. /\ turn \in [Turns -> Local] /\ Frame(t) /\ turn[t].opened \in SUBSET Decisions
      /\ turn[t].updates \in SUBSET Decisions /\ turn[t].sess.pending \in SUBSET Decisions
      /\ store.pending \in SUBSET Decisions /\ \A d \in Decisions : told[d] \in Nat
      /\ decision \in [Decisions -> Statuses]
      /\ \A u \in Turns : turn[u].opened \cup turn[u].updates \cup turn[u].sess.pending
                            \in SUBSET Decisions
  BY SetsGrow, Sizes DEF TypeOK, Local, Session
<1>1. CASE Speak(t)
  <2>1. /\ turn[t].pc \in {"prompted", "loaded"} /\ turn'[t].pc = "spoken"
        /\ turn'[t].opened \in SUBSET {d \in Decisions : decision[d] = "absent"}
        /\ decision' = [d \in Decisions |-> IF d \in turn'[t].opened THEN "open" ELSE decision[d]]
        /\ turn'[t].sess = turn[t].sess /\ turn'[t].updates = turn[t].updates
    BY <1>0, <1>1, Effects DEF Effect, Kept
  <2>2. /\ UNCHANGED store
        /\ told' = [d \in Decisions |-> IF d \in turn[t].updates THEN told[d] + 1 ELSE told[d]]
    BY <1>1 DEF Speak, Once, TypeOK
  <2>3. /\ \A d \in Decisions : decision[d] # "absent" => decision'[d] # "absent"
        /\ \A d \in turn'[t].opened : decision'[d] # "absent"
    BY <2>1
  <2>4. \A d \in turn[t].updates : decision[d] # "absent"
    BY <2>1 DEF OutcomesBase, Holding
  <2>5. \A d \in Decisions : d \in store.pending \/ told'[d] > 0 => decision'[d] # "absent"
    BY <1>0, <2>2, <2>3, <2>4 DEF OutcomesBase
  <2>6. /\ turn'[t].pc \notin {"idle", "caller", "begun", "loaded"} /\ turn'[t].pc \notin Early \cup {"ranged", "prompted"}
        /\ \A d \in turn'[t].sess.pending \cup turn'[t].updates : decision'[d] # "absent"
    BY <1>0, <2>1, <2>3 DEF OutcomesBase, Holding, Early
  <2>7. \A u \in Turns \ {t} :
          /\ turn'[u] = turn[u]
          /\ \A d \in turn[u].opened : decision'[d] # "absent"
          /\ turn[u].pc \in Holding => \A d \in turn[u].sess.pending \cup turn[u].updates :
                                         decision'[d] # "absent"
    BY <1>0, <2>3 DEF OutcomesBase, Frame
  <2> QED
    BY <2>2, <2>3, <2>5, <2>6, <2>7 DEF OutcomesBase
<1>2. CASE ~ Speak(t)
  <2>1. UNCHANGED <<decision, told>>
    BY <1>2, Writers
  <2>2. /\ turn'[t].opened = turn[t].opened
        /\ turn'[t].pc \in Early \cup {"ranged", "prompted"}
             => turn[t].pc \in Early \cup {"ranged", "prompted"}
    BY <1>0, <1>2, Effects DEF TurnStep, Effect, Kept, Early
  <2>3. /\ turn'[t].pc \in {"idle", "caller", "begun", "loaded"}
             => turn[t].pc \in {"idle", "caller", "begun", "loaded"} /\ turn'[t].updates = turn[t].updates
        /\ turn'[t].pc \in Holding =>
             \/ turn[t].pc \in Holding
                /\ turn'[t].sess.pending \cup turn'[t].updates
                      \in SUBSET (turn[t].sess.pending \cup turn[t].updates)
             \/ turn[t].pc = "begun" /\ turn'[t].sess = store /\ turn'[t].updates = turn[t].updates
    <3>1. CASE DrainDecisions(t)
      BY <1>0, <3>1, Effects DEF Effect, Holding
    <3>2. CASE ~ DrainDecisions(t)
      BY <1>0, <1>2, <3>2, Effects DEF TurnStep, Effect, Kept, Holding
    <3> QED
      BY <3>1, <3>2
  <2>4. turn'[t].pc \in Holding => \A d \in turn'[t].sess.pending \cup turn'[t].updates :
                                    decision[d] # "absent"
    BY <1>0, <2>3 DEF OutcomesBase
  <2>5. store'.pending \in SUBSET (store.pending \cup turn[t].sess.pending \cup turn[t].opened)
        /\ (store' # store => turn[t].pc \in Holding)
    <3>1. CASE Save(t)
      BY <3>1 DEF Save, At, Holding
    <3> QED
      BY <3>1, Writers
  <2>6. \A d \in Decisions : d \in store'.pending \/ told[d] > 0 => decision[d] # "absent"
    BY <2>5 DEF OutcomesBase
  <2> QED
    BY <1>0, <2>1, <2>2, <2>3, <2>4, <2>6 DEF OutcomesBase, Frame
<1> QED
  BY <1>1, <1>2

(* A turn that is alone and meets no fault. *)
LEMMA UntoldKeeps ==
  ASSUME TypeOK, NumbersHold, OutcomesBase, PendingIsUntold, OneAtATime, OneAtATime',
         NEW t \in Turns, TurnStep(t), ~ Fault
  PROVE  PendingIsUntold'
<1>0. /\ turn \in [Turns -> Local] /\ Frame(t) /\ turn[t].opened \in SUBSET Decisions
      /\ turn[t].updates \in SUBSET Decisions /\ turn[t].sess.pending \in SUBSET Decisions
      /\ store.pending \in SUBSET Decisions /\ \A d \in Decisions : told[d] \in Nat
      /\ \A u \in Turns : turn[u].opened \in SUBSET Decisions
  BY SetsGrow, Sizes DEF TypeOK, Local, Session
<1>1. Len(frags) \in Nat /\ LastSeq = Len(frags) /\ Range(frags) = 1..Len(frags)
  BY NextSeq
<1>2. \A u \in Turns \ {t} : turn'[u] = turn[u] /\ u \notin InFlight
  <2>1. t \in InFlight \/ t \in InFlight'
    BY <1>0, Effects DEF TurnStep, Effect, InFlight
  <2>2. \A u \in Turns \ {t} : turn'[u] = turn[u] /\ (u \in InFlight <=> u \in InFlight')
    BY <1>0 DEF Frame, InFlight
  <2> QED
    BY <2>1, <2>2 DEF OneAtATime
<1>3. \A u \in Turns \ {t} : turn'[u] = turn[u] /\ turn[u].pc \in {"idle", "done"}
  BY <1>2 DEF InFlight, PendingIsUntold
<1>4. ASSUME UNCHANGED <<store, told>>,
             turn'[t].pc \notin {"done", "failed"},
             turn'[t].pc \in {"caller", "agent"} => turn'[t].seq = Len(frags') + 1,
             turn[t].pc \in Holding <=> turn'[t].pc \in Holding,
             turn[t].pc \in Said <=> turn'[t].pc \in Said,
             turn'[t].sess = turn[t].sess, turn'[t].updates = turn[t].updates,
             turn'[t].opened = turn[t].opened
      PROVE  PendingIsUntold'
  <2>1. \A u \in Turns : turn[u].pc \in Holding <=> turn'[u].pc \in Holding
    BY <1>3, <1>4
  <2>2. \A u \in Turns \ {t} : turn'[u].pc \notin Holding \cup {"caller", "agent", "failed"}
    BY <1>3 DEF Holding
  <2> QED
    BY <1>3, <1>4, <2>1, <2>2 DEF PendingIsUntold
<1>5. CASE CallerRead(t) \/ AgentRead(t)
  <2>1. UNCHANGED <<frags, store, told>>
    BY <1>5 DEF CallerRead, AgentRead
  <2>2. /\ turn'[t].pc \notin {"done", "failed"}
        /\ turn'[t].pc \in {"caller", "agent"} => turn'[t].seq = Len(frags) + 1
        /\ turn[t].pc \in Holding <=> turn'[t].pc \in Holding
        /\ turn[t].pc \in Said <=> turn'[t].pc \in Said
        /\ turn'[t].sess = turn[t].sess /\ turn'[t].updates = turn[t].updates
        /\ turn'[t].opened = turn[t].opened
    BY <1>0, <1>1, <1>5, Effects DEF Effect, Kept, Holding, Said
  <2> QED
    BY <1>4, <2>1, <2>2
<1>6. CASE CallerCommit(t) \/ AgentCommit(t)
  <2>1. UNCHANGED <<store, told>>
    BY <1>6 DEF CallerCommit, AgentCommit
  <2>2. turn[t].pc \in {"caller", "agent"}
    BY <1>0, <1>6, Effects DEF Effect
  <2>3. turn[t].seq \notin Range(frags)
    BY <1>1, <2>2 DEF PendingIsUntold
  <2>4. /\ turn'[t].pc \notin {"done", "failed", "caller", "agent"}
        /\ turn[t].pc \in Holding <=> turn'[t].pc \in Holding
        /\ turn[t].pc \in Said <=> turn'[t].pc \in Said
        /\ turn'[t].sess = turn[t].sess /\ turn'[t].updates = turn[t].updates
        /\ turn'[t].opened = turn[t].opened
    BY <1>0, <1>6, <2>3, Effects DEF Effect, Kept, Holding, Said
  <2> QED
    BY <1>4, <2>1, <2>4
<1>7. CASE RangeWhispers(t) \/ DeleteWhispers(t) \/ Stamp(t)
  <2>1. UNCHANGED <<frags, store, told>>
    BY <1>7 DEF RangeWhispers, DeleteWhispers, Stamp
  <2>2. /\ turn'[t].pc \notin {"done", "failed", "caller", "agent"}
        /\ turn[t].pc \in Holding <=> turn'[t].pc \in Holding
        /\ turn[t].pc \in Said <=> turn'[t].pc \in Said
        /\ turn'[t].sess = turn[t].sess /\ turn'[t].updates = turn[t].updates
        /\ turn'[t].opened = turn[t].opened
    BY <1>0, <1>7, Effects DEF Effect, Kept, Holding, Said
  <2> QED
    BY <1>4, <2>1, <2>2
<1>8. CASE LoadSession(t)
  <2>1. UNCHANGED <<frags, store, told>>
    BY <1>8 DEF LoadSession
  <2>2. /\ turn[t].pc = "begun" /\ turn'[t].pc = "loaded" /\ turn'[t].sess = store
        /\ turn'[t].updates = turn[t].updates /\ turn'[t].opened = turn[t].opened
    BY <1>0, <1>8, Effects DEF Effect, Kept
  <2>3. turn[t].updates = {} /\ turn[t].opened = {}
    BY <2>2 DEF OutcomesBase, Early
  <2>4. \A d \in store.pending : told[d] = 0
    BY <1>3, <2>2 DEF PendingIsUntold, Holding
  <2> QED
    BY <1>3, <2>1, <2>2, <2>3, <2>4 DEF PendingIsUntold, Holding, Said
<1>9. CASE DrainDecisions(t)
  <2>1. UNCHANGED <<frags, store, told>>
    BY <1>9 DEF DrainDecisions
  <2>2. /\ turn[t].pc = "loaded" /\ turn'[t].pc = "drained" /\ turn'[t].opened = turn[t].opened
        /\ turn'[t].sess.version = turn[t].sess.version
        /\ turn'[t].updates \subseteq turn[t].sess.pending
        /\ turn'[t].sess.pending = turn[t].sess.pending \ turn'[t].updates
    BY <1>0, <1>9, Effects DEF Effect, Kept
  <2>3. turn[t].updates = {} /\ turn[t].opened = {}
    BY <2>2 DEF OutcomesBase, Early
  <2>4. /\ store.pending = turn[t].sess.pending /\ store.version = turn[t].sess.version
        /\ \A d \in turn[t].sess.pending : told[d] = 0
    BY <2>2, <2>3 DEF PendingIsUntold, Holding
  <2> QED
    BY <1>3, <2>1, <2>2, <2>3, <2>4 DEF PendingIsUntold, Holding, Said
<1>10. CASE Speak(t)
  <2>1. /\ turn[t].pc \in {"prompted", "loaded"} /\ turn'[t].pc = "spoken"
        /\ turn'[t].opened \in SUBSET {d \in Decisions : decision[d] = "absent"}
        /\ turn'[t].sess = turn[t].sess /\ turn'[t].updates = turn[t].updates
    BY <1>0, <1>10, Effects DEF Effect, Kept
  <2>2. /\ UNCHANGED <<frags, store>>
        /\ told' = [d \in Decisions |-> IF d \in turn[t].updates THEN told[d] + 1 ELSE told[d]]
    BY <1>10 DEF Speak, Once, TypeOK
  <2>3. /\ turn[t].sess.version = store.version
        /\ turn[t].sess.pending \cap turn[t].updates = {}
        /\ store.pending = turn[t].sess.pending \cup turn[t].updates
        /\ \A d \in turn[t].sess.pending \cup turn[t].updates : told[d] = 0
    BY <2>1 DEF PendingIsUntold, Holding, Said
  <2>4. \A d \in turn'[t].opened : told[d] = 0 /\ d \notin turn[t].updates
    BY <1>0, <2>1, <2>3 DEF OutcomesBase
  <2>5. /\ \A d \in turn[t].updates : told'[d] > 0
        /\ \A d \in turn[t].sess.pending \cup turn'[t].opened : told'[d] = 0
        /\ \A d \in Decisions : told'[d] <= 1 /\ (told[d] > 0 => told'[d] > 0)
    BY <1>0, <2>1, <2>2, <2>3, <2>4 DEF PendingIsUntold
  <2>6. \A u \in Turns : turn'[u].pc = "done" =>
          \A d \in turn'[u].opened : d \in store.pending \/ told'[d] > 0
    BY <1>0, <1>3, <2>1, <2>5 DEF PendingIsUntold
  <2>7. \A u \in Turns \ {t} : turn'[u].pc \notin Holding \cup {"caller", "agent", "failed"}
    BY <1>3 DEF Holding
  <2>8. turn'[t].pc \in Holding /\ turn'[t].pc \in Said /\ turn'[t].pc \notin {"caller", "agent", "failed"}
    BY <2>1 DEF Holding, Said
  <2> QED
    BY <2>1, <2>2, <2>3, <2>5, <2>6, <2>7, <2>8 DEF PendingIsUntold
<1>11. CASE Save(t)
  <2>1. /\ turn[t].pc = "stamped" /\ turn'[t].pc = "done" /\ turn'[t].opened = turn[t].opened
    BY <1>0, <1>11, Effects DEF Effect, Kept
  <2>2. /\ turn[t].sess.version = store.version
        /\ store.pending = turn[t].sess.pending \cup turn[t].updates
        /\ \A d \in turn[t].sess.pending \cup turn[t].opened : told[d] = 0
        /\ \A d \in turn[t].updates : told[d] > 0
    BY <2>1 DEF PendingIsUntold, Holding, Said
  <2>3. /\ store'.pending = turn[t].sess.pending \cup turn[t].opened
        /\ UNCHANGED <<frags, told>>
    BY <1>11, <2>2 DEF Save
  <2>4. \A d \in store.pending : d \in store'.pending \/ told[d] > 0
    BY <2>2, <2>3
  <2>5. \A u \in Turns : turn'[u].pc = "done" =>
          \A d \in turn'[u].opened : d \in store'.pending \/ told[d] > 0
    BY <1>3, <2>1, <2>3, <2>4 DEF PendingIsUntold
  <2>6. \A u \in Turns : turn'[u].pc \notin Holding \cup {"caller", "agent", "failed"}
    BY <1>3, <2>1 DEF Holding
  <2> QED
    BY <2>2, <2>3, <2>5, <2>6 DEF PendingIsUntold
<1>12. CASE Abort(t)
  BY <1>12 DEF Abort
<1> QED
  BY <1>5, <1>6, <1>7, <1>8, <1>9, <1>10, <1>11, <1>12 DEF TurnStep

-----------------------------------------------------------------------------
(* The steps of the Manager and of the call's end *)

LEMMA AsideKeepsAll ==
  ASSUME IInv, Aside
  PROVE  IInv'
<1>0. UNCHANGED <<frags, store, turn, told, heard, serial>> /\ (Fault \/ UNCHANGED faults)
  BY AsideKeeps
<1>1. NumbersHold' /\ HistoryHolds' /\ CountsHold' /\ Alone'
  BY <1>0 DEF IInv, NumbersHold, SeqsAreGapFree, Began, Ended, HistoryHolds, Done, CountsHold,
              Spoke, Alone, OneAtATime, InFlight
<1>2. /\ TypeOK /\ inbox \in SUBSET Whispers /\ whisper \in [Whispers -> Posted]
      /\ decision \in [Decisions -> Statuses] /\ \A w \in Whispers : heard[w] \in Nat
  BY Sizes DEF IInv, TypeOK
<1>3. /\ inbox' \subseteq Whispers /\ whisper' \in [Whispers -> Posted]
      /\ decision' \in [Decisions -> Statuses] /\ live' \in BOOLEAN
  <2>1. CASE \E w \in Whispers : PostWhisper(w)
    BY <1>2, <2>1 DEF PostWhisper, TypeOK, Posted
  <2>2. CASE \E w \in Whispers : PushWhisper(w)
    BY <1>2, <2>2 DEF PushWhisper, TypeOK, Posted
  <2>3. CASE \E d \in Decisions : DecisionMoves(d)
    BY <1>2, <2>3 DEF DecisionMoves, TypeOK, Moves, Statuses, Outcomes
  <2>4. CASE CallEnds \/ UNCHANGED vars
    BY <1>2, <2>4 DEF CallEnds, vars, TypeOK
  <2> QED
    BY <2>1, <2>2, <2>3, <2>4 DEF Aside
<1>4. faults' \in 0..MaxFaults
  BY <1>0, <1>2, ConstantsAssumption DEF TypeOK, Fault
<1>5. TypeOK'
  BY <1>0, <1>2, <1>3, <1>4 DEF TypeOK
<1>6. /\ \A w \in Whispers :
           \/ whisper'[w] = whisper[w]
           \/ whisper[w] = "none" /\ whisper'[w] = "recorded"
           \/ whisper[w] = "recorded" /\ whisper'[w] \in {"pushed", "unpushed"}
      /\ \A w \in inbox' : w \in inbox \/ (whisper[w] = "recorded" /\ whisper'[w] = "pushed")
      /\ inbox \subseteq inbox'
  <2>1. CASE \E w \in Whispers : PostWhisper(w)
    BY <1>2, <2>1 DEF PostWhisper
  <2>2. CASE \E w \in Whispers : PushWhisper(w)
    BY <1>2, <2>2 DEF PushWhisper
  <2>3. CASE UNCHANGED <<whisper, inbox>>
    BY <2>3
  <2> QED
    BY <2>1, <2>2, <2>3 DEF Aside, DecisionMoves, CallEnds, vars
<1>7. WhispersBase'
  <2>1. /\ \A w \in Whispers : whisper[w] \in {"pushed", "stamped"} => whisper'[w] = whisper[w]
        /\ \A w \in Whispers : whisper'[w] = "stamped" => whisper[w] = "stamped"
    BY <1>6
  <2>2. \A w \in inbox' : whisper'[w] \in {"pushed", "stamped"}
    BY <1>2, <1>6, <2>1 DEF IInv, WhispersHold, WhispersBase
  <2>3. \A t \in Turns : turn[t].batch \in SUBSET Whispers
    BY <1>2 DEF TypeOK, Local
  <2>4. \A t \in Turns : \A w \in turn[t].batch : whisper'[w] \in {"pushed", "stamped"}
    BY <2>1, <2>3 DEF IInv, WhispersHold, WhispersBase
  <2>5. StampedWasHeard'
    BY <1>0, <2>1 DEF IInv, WhispersHold, WhispersBase, StampedWasHeard
  <2> QED
    BY <1>0, <2>1, <2>2, <2>4, <2>5 DEF IInv, WhispersHold, WhispersBase
<1>8. ASSUME WaitingIsUnheard PROVE WaitingIsUnheard'
  <2>1. \A w \in Whispers : heard[w] > 0 => whisper[w] \in {"pushed", "stamped"}
    BY DEF IInv, WhispersHold, WhispersBase
  <2>2. \A w \in inbox' : heard[w] = 0
    BY <1>2, <1>3, <1>6, <1>8, <2>1 DEF WaitingIsUnheard
  <2>3. \A t \in Turns : turn[t].pc = "prompted" =>
          \A w \in turn[t].batch : w \notin inbox' /\ heard[w] = 0
    <3>1. \A t \in Turns : \A w \in turn[t].batch : whisper[w] \in {"pushed", "stamped"}
      BY DEF IInv, WhispersHold, WhispersBase
    <3> QED
      BY <1>6, <1>8, <3>1 DEF WaitingIsUnheard
  <2> QED
    BY <1>0, <1>6, <1>8, <2>2, <2>3 DEF WaitingIsUnheard
<1>9. \A d \in Decisions : decision[d] # "absent" => decision'[d] # "absent"
  BY <1>2 DEF Aside, PostWhisper, PushWhisper, DecisionMoves, CallEnds, vars, Moves
<1>10. OutcomesBase'
  <2>1. \A t \in Turns : turn[t].opened \cup turn[t].updates \cup turn[t].sess.pending \in SUBSET Decisions
    BY <1>2 DEF TypeOK, Local, Session
  <2> QED
    BY <1>0, <1>9, <2>1 DEF IInv, OutcomesHold, OutcomesBase
<1>11. ASSUME PendingIsUntold PROVE PendingIsUntold'
  BY <1>0, <1>11 DEF PendingIsUntold
<1>12. Undisturbed' => Undisturbed
  <2>1. faults' = 0 => faults = 0
    BY <1>0, <1>2 DEF Fault, TypeOK
  <2>2. serial' = serial
    BY <1>0
  <2> QED
    BY <2>1, <2>2 DEF Undisturbed
<1>13. serial' = serial
  BY <1>0
<1> QED
  BY <1>1, <1>5, <1>7, <1>8, <1>10, <1>11, <1>12, <1>13 DEF IInv, WhispersHold, OutcomesHold

-----------------------------------------------------------------------------
(* The inductive invariant *)

LEMMA Initially == Init => IInv
<1> SUFFICES ASSUME Init PROVE IInv
  OBVIOUS
<1>1. Cardinality(Turns) \in Nat /\ Cardinality({}) = 0
  BY Sizes, FS_EmptySet
<1>2. \A t \in Turns : turn[t] = Fresh
  BY DEF Init
<1>3. Began = {} /\ Ended = {} /\ Spoke = {} /\ Done = {} /\ InFlight = {}
  BY <1>2 DEF Began, Ended, Spoke, Done, Said, InFlight, Fresh
<1>4. Fresh \in Local /\ NoSession \in Session
  BY <1>1 DEF Fresh, NoSession, Local, Session, Phases
<1>5. TypeOK
  BY <1>1, <1>4, ConstantsAssumption DEF Init, TypeOK, Statuses, Posted
<1>6. NumbersHold
  BY <1>1, <1>2, <1>3 DEF Init, NumbersHold, SeqsAreGapFree, Fresh
<1>7. HistoryHolds
  BY <1>1, <1>2 DEF Init, HistoryHolds, NoSession, Fresh, Holding
<1>8. CountsHold
  BY <1>1, <1>3 DEF Init, CountsHold
<1>9. Alone
  BY <1>3 DEF Alone, OneAtATime
<1>10. WhispersBase /\ WaitingIsUnheard
  BY <1>2 DEF Init, WhispersBase, WaitingIsUnheard, StampedWasHeard, Fresh, Said
<1>11. OutcomesBase /\ PendingIsUntold
  BY <1>2 DEF Init, OutcomesBase, PendingIsUntold, Fresh, NoSession, Holding
<1> QED
  BY <1>5, <1>6, <1>7, <1>8, <1>9, <1>10, <1>11 DEF IInv, WhispersHold, OutcomesHold

LEMMA TurnKeepsAll ==
  ASSUME IInv, NEW t \in Turns, TurnStep(t)
  PROVE  IInv'
<1> USE DEF IInv
<1>1. NumbersHold' /\ HistoryHolds' /\ CountsHold' /\ Alone'
  BY NumbersKeep, HistoryKeeps, CountsKeep, AloneKeeps
<1>2. TypeOK'
  BY <1>1, TypesKeep
<1>3. WhispersBase' /\ OutcomesBase'
  BY WhispersKeep, OutcomesKeep DEF WhispersHold, OutcomesHold
<1>4. serial' => serial
  BY Writers DEF CallerRead
<1>5. ASSUME serial' PROVE OneAtATime /\ OneAtATime' /\ WaitingIsUnheard
  BY <1>1, <1>4, <1>5 DEF Alone, WhispersHold
<1>6. serial' => WaitingIsUnheard'
  BY <1>5, UnheardKeeps DEF WhispersHold
<1>7. ASSUME Undisturbed' PROVE PendingIsUntold'
  <2>1. faults' = 0 /\ serial'
    BY <1>7 DEF Undisturbed
  <2>2. faults \in Nat
    BY ConstantsAssumption DEF TypeOK
  <2>3. ~ Fault /\ faults = 0
    <3>1. ~ Fault
      BY <2>1, <2>2 DEF Fault
    <3> QED
      BY <2>1, <3>1, Writers
  <2>4. Undisturbed
    BY <1>4, <2>1, <2>3 DEF Undisturbed
  <2>5. PendingIsUntold /\ OutcomesBase
    BY <2>4 DEF OutcomesHold
  <2> QED
    BY <1>5, <2>1, <2>3, <2>5, UntoldKeeps
<1> QED
  BY <1>1, <1>2, <1>3, <1>6, <1>7 DEF WhispersHold, OutcomesHold

(* The invariant holds in every reachable state, for any finite sets of    *)
(* turns and any decisions and whispers.                                   *)
THEOREM Invariance == Spec => []IInv
<1>1. IInv /\ [Next]_vars => IInv'
  <2> SUFFICES ASSUME IInv, [Next]_vars PROVE IInv'
    OBVIOUS
  <2>1. Aside \/ \E t \in Turns : TurnStep(t)
    BY DEF Next, Aside
  <2> QED
    BY <2>1, AsideKeepsAll, TurnKeepsAll
<1> QED
  BY <1>1, Initially, PTL DEF Spec

(* A call's fragments are numbered 1, 2, 3, ... in the order of their      *)
(* commits (TranscriptsRepo.append), however many turns overlap or die.    *)
THEOREM NumberingHolds == Spec => []SeqsAreGapFree
<1>1. IInv => SeqsAreGapFree
  BY DEF IInv, NumbersHold
<1> QED
  BY <1>1, Invariance, PTL

(* A whisper reaches one prompt while turns do not overlap, and no row is  *)
(* stamped that was in none (turn_loop.py, whispers.py).                   *)
THEOREM WhispersReach == Spec => []WhispersReachOnePrompt
<1>1. IInv => WhispersReachOnePrompt
  BY DEF IInv, WhispersHold, WhispersBase, WaitingIsUnheard, WhispersReachOnePrompt,
         HeardAtMostOnce
<1> QED
  BY <1>1, Invariance, PTL

(* An outcome is neither forgotten before it is told nor told twice, while *)
(* turns do not overlap and nothing fails (session.py, turn_loop.py).      *)
THEOREM OutcomesReach == Spec => []OutcomesReachOnePrompt
<1>1. ASSUME IInv, Undisturbed
      PROVE  /\ \A t \in Turns : At(t, "done") =>
                  \A d \in turn[t].opened : d \in store.pending \/ told[d] > 0
             /\ \A d \in Decisions : told[d] <= 1
  <2>1. PendingIsUntold
    BY <1>1 DEF IInv, OutcomesHold
  <2> QED
    BY <2>1 DEF PendingIsUntold, At
<1>2. IInv => OutcomesReachOnePrompt
  BY <1>1 DEF OutcomesReachOnePrompt, OpenedStaysTracked, ToldAtMostOnce
<1> QED
  BY <1>2, Invariance, PTL

(* Every save that takes effect extends the history it finds, for WATCH    *)
(* refuses the save of a turn that loaded an older version                 *)
(* (RedisSessionStore.save).                                               *)
THEOREM SavesHold == Spec => SavesExtendHistory
<1> DEFINE Extends == /\ store.history \subseteq store'.history
                      /\ store'.version = store.version + 1
<1>1. IInv /\ [Next]_vars => [Extends]_store
  <2> SUFFICES ASSUME IInv, [Next]_vars, store' # store PROVE Extends
    OBVIOUS
  <2>1. CASE Aside
    BY <2>1, AsideKeeps
  <2>2. ASSUME NEW t \in Turns, TurnStep(t) PROVE Extends
    BY <2>2, HistoryKeeps DEF IInv
  <2> QED
    BY <2>1, <2>2 DEF Next, Aside
<1> QED
  BY <1>1, Invariance, PTL DEF Spec, SavesExtendHistory
=============================================================================
