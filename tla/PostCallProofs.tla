--------------------------- MODULE PostCallProofs ---------------------------
(***************************************************************************)
(* Theorems about the calls a webhook keeps and about the job that follows *)
(* a call, for any deliveries, calls, SMS conversations and bounds.        *)
(*                                                                         *)
(* One row per call rests on the unique index alone: ids differ, and the   *)
(* row of a turn that carried its id has that id for good, because only a  *)
(* placeholder is ever renamed.  A scheduled row is one that an end has    *)
(* closed.  Under that, what the job has done is counted against the times *)
(* a worker died in it.                                                    *)
(***************************************************************************)
EXTENDS PostCall, FiniteSetTheorems, WellFoundedInduction, SequenceTheorems, TLAPS

(* What a delivery may insert it has inserted once it is settled, so there  *)
(* are no more rows than deliveries settled and conversations begun.        *)
Settled  == {e \in Events : hook[e].pc \notin {"idle", "claimed", "read"}}
Begun    == {s \in Threads : WithId(<<"sms", s>>) # {}}
RowsAreFew == Len(rows) <= Cardinality(Settled) + Cardinality(Begun)

IdsAreUnique == \A i, j \in DOMAIN rows : rows[i].id = rows[j].id => i = j

(* What a request has in hand fits the tables; only an end that carries its *)
(* id means to rename, and what it means to rename is no conversation.      *)
HooksFit ==
  \A e \in Events :
    /\ hook[e].row <= Len(rows)
    /\ At(e, "idle") <=> e \notin claimed
    /\ hook[e].pc \in {"idle", "claimed"} => hook[e].row = 0 /\ ~hook[e].rename
    /\ hook[e].pc \in {"committed", "answered"} => hook[e].row # 0
    /\ hook[e].rename => e \in Ended \cap Named
    /\ hook[e].rename /\ hook[e].row # 0 => rows[hook[e].row].id[1] \in {"ap", "real"}

WordsAreAnswered == \A i \in Slots : \A e \in turns[i] : At(e, "answered") /\ hook[e].row = i

EndsClose ==
  \A e \in Ended \ Unresolvable :
    hook[e].pc \in {"committed", "answered"} => rows[hook[e].row].status = "ended"

ScheduledByAnEnd == \A i \in scheduled : \E e \in Ended : At(e, "answered") /\ hook[e].row = i

(* The row of a turn that carried its id has that id.                       *)
NamedRows ==
  \A e \in Voice \cap Named :
    hook[e].row # 0 /\ Contested(hook[e].row) \subseteq {CallOf[e]}
      => rows[hook[e].row].id = ApCallId(e)

SentInOrder == \A e \in claimed : After[e] \subseteq acked

HookInv ==
  /\ TypeOK
  /\ RowsAreFew
  /\ IdsAreUnique
  /\ HooksFit
  /\ WordsAreAnswered
  /\ EndsClose
  /\ ScheduledByAnEnd
  /\ NamedRows
  /\ SentInOrder

-----------------------------------------------------------------------------
(* Numbers, sets and the operators of the model                             *)

LEMMA Least ==
  ASSUME NEW T \in SUBSET Nat, T # {}
  PROVE  \E m \in T : \A k \in T : m <= k
<1> DEFINE R == {ss \in Nat \X Nat : ss[1] < ss[2]}
<1>1. IsWellFoundedOn(R, Nat)
  BY NatLessThanWellFounded DEF OpToRel
<1>2. PICK m \in T : \A k \in T : ~ (<<k, m>> \in R)
  BY <1>1, WFMin
<1>3. \A k \in T : k \in Nat /\ m \in Nat /\ ~ (k < m)
  BY <1>2
<1> HIDE DEF R
<1> QED
  BY <1>3

(* The newest row of a set of rows is one of them; of none it is 0.         *)
LEMMA NewestIs ==
  ASSUME NEW n \in Nat, NEW S \in SUBSET (1..n)
  PROVE  /\ S = {} => Newest(S) = 0
         /\ S # {} => Newest(S) \in S
         /\ Newest(S) \in 0..n
<1> DEFINE U == {0} \cup S
           T == {k \in Nat : n - k \in U}
<1>1. \A x \in U : x \in 0..n /\ n - x \in Nat /\ n - (n - x) = x
  OBVIOUS
<1>2. T \in SUBSET Nat /\ T # {} /\ \A x \in U : n - x \in T
  BY <1>1
<1>3. \A k \in T : k \in Nat /\ n - k \in U
  OBVIOUS
<1> HIDE DEF T, U
<1>4. PICK m \in T : \A k \in T : m <= k
  BY <1>2, Least
<1>5. n - m \in U /\ m \in Nat
  BY <1>3, <1>4
<1>6. \A x \in U : n - m >= x
  BY <1>1, <1>2, <1>4, <1>5
<1>7. Newest(S) \in U /\ \A x \in U : Newest(S) >= x
  BY <1>5, <1>6 DEF Newest, Max, U
<1>8. S = {} => Newest(S) = 0
  BY <1>7 DEF U
<1>9. S # {} => Newest(S) \in S
  <2> SUFFICES ASSUME NEW x \in S PROVE Newest(S) \in S
    OBVIOUS
  <2>1. x \in U /\ Newest(S) >= x /\ Newest(S) \in 0..n /\ x \in 1..n
    BY <1>1, <1>7 DEF U
  <2>2. Newest(S) # 0
    BY <2>1
  <2> QED
    BY <1>7, <2>2 DEF U
<1> QED
  BY <1>1, <1>7, <1>8, <1>9

LEMMA SlotNumbers ==
  /\ Cardinality(Events) \in Nat /\ Cardinality(Threads) \in Nat
  /\ MaxRows = Cardinality(Events) + Cardinality(Threads)
  /\ Slots = 1..MaxRows
  BY FS_CardinalityType, ConstantsAssumption DEF MaxRows, Slots

LEMMA Rows ==
  ASSUME TypeOK
  PROVE  /\ Len(rows) \in 0..MaxRows /\ DOMAIN rows = 1..Len(rows)
         /\ \A i \in 1..Len(rows) : rows[i] \in Row /\ i \in Slots
  BY SlotNumbers DEF TypeOK

LEMMA IdsAreIds ==
  ASSUME NEW e \in Events
  PROVE  /\ IdOf(e) \in Ids /\ IdOf(e)[1] \in {"ap", "real", "empty"}
         /\ e \in Voice \/ e \in Named => IdOf(e)[1] # "empty"
         /\ e \in Named => IdOf(e) = ApCallId(e) /\ ApCallId(e) = <<"real", CallOf[e]>>
         /\ e \in Voice \ Named => IdOf(e)[1] = "ap"
  BY ConstantsAssumption DEF IdOf, ApCallId, Ids

(* Where a delivery goes.                                                   *)
LEMMA TargetIs ==
  ASSUME TypeOK, NEW e \in Events
  PROVE  /\ Target(e) \in 0..Len(rows)
         /\ Known(e) # {} => e \in Named /\ Target(e) \in Known(e) /\ rows[Target(e)].id = ApCallId(e)
         /\ Known(e) = {} /\ e \in Ended /\ Target(e) # 0
              => rows[Target(e)].id[1] = "ap" /\ rows[Target(e)].status = "in_progress"
         /\ Known(e) = {} /\ e \in Voice \cap Named => Target(e) = 0
         /\ Known(e) # {} => Newest(Known(e)) \in 1..Len(rows) /\ rows[Newest(Known(e))].id = ApCallId(e)
<1>1. DOMAIN rows = 1..Len(rows) /\ Len(rows) \in Nat
  BY Rows DEF TypeOK
<1>2. Known(e) \in SUBSET (1..Len(rows)) /\ \A i \in Known(e) : e \in Named /\ rows[i].id = ApCallId(e)
  BY <1>1 DEF Known, WithId
<1>3. Open \in SUBSET (1..Len(rows)) /\ {i \in Open : rows[i].id[1] = "ap"} \in SUBSET (1..Len(rows))
  BY <1>1 DEF Open
<1>4. CASE Known(e) # {}
  <2>1. Target(e) = Newest(Known(e)) /\ Newest(Known(e)) \in Known(e)
    BY <1>1, <1>2, <1>4, NewestIs DEF Target
  <2> QED
    BY <1>2, <1>4, <2>1
<1>5. CASE Known(e) = {} /\ e \in Ended
  <2> DEFINE S == {i \in Open : rows[i].id[1] = "ap"}
  <2>1. Target(e) = Newest(S)
    BY <1>5 DEF Target
  <2>2. Newest(S) \in 0..Len(rows) /\ (Newest(S) # 0 => Newest(S) \in S)
    BY <1>1, <1>3, NewestIs
  <2>3. \A i \in S : rows[i].id[1] = "ap" /\ rows[i].status = "in_progress"
    BY DEF Open
  <2> QED
    BY <1>5, <2>1, <2>2, <2>3, ConstantsAssumption
<1>6. CASE Known(e) = {} /\ e \notin Ended
  BY <1>1, <1>3, <1>6, NewestIs DEF Target
<1> QED
  BY <1>4, <1>5, <1>6

-----------------------------------------------------------------------------
(* What a step changes of a request and of the calls table                  *)

HookPcs == {"idle", "claimed", "read", "committed", "answered", "refused", "error", "dead"}

LEMMA Goes ==
  ASSUME TypeOK, NEW e \in Events, NEW p \in HookPcs, Goto(e, p)
  PROVE  /\ hook' \in [Events -> Hook]
         /\ hook'[e].pc = p /\ hook'[e].row = hook[e].row /\ hook'[e].rename = hook[e].rename
         /\ hook'[e].frames = hook[e].frames
         /\ \A f \in Events \ {e} : hook'[f] = hook[f]
  BY DEF TypeOK, Goto, Hook, HookPcs

LEMMA Settles ==
  ASSUME TypeOK, NEW e \in Events, NEW i \in 0..MaxRows, NEW fs \in Seq({"started", "ended"}),
         Settle(e, i, fs)
  PROVE  /\ hook' \in [Events -> Hook]
         /\ hook'[e].pc = "committed" /\ hook'[e].row = i /\ hook'[e].rename = hook[e].rename
         /\ hook'[e].frames = fs
         /\ \A f \in Events \ {e} : hook'[f] = hook[f]
  BY DEF TypeOK, Settle, Hook

LEMMA RowAdded ==
  ASSUME TypeOK, NEW r \in Row, rows' = Append(rows, r)
  PROVE  /\ rows' \in Seq(Row) /\ Len(rows') = Len(rows) + 1
         /\ DOMAIN rows' = 1..(Len(rows) + 1)
         /\ \A i \in DOMAIN rows : rows'[i] = rows[i]
         /\ rows'[Len(rows) + 1] = r
  BY DEF TypeOK

LEMMA RowInserted ==
  ASSUME TypeOK, NEW e \in Events, NEW st \in {"in_progress", "ended"}, Insert(e, st)
  PROVE  /\ rows' \in Seq(Row) /\ Len(rows') = Len(rows) + 1
         /\ DOMAIN rows' = 1..(Len(rows) + 1)
         /\ \A i \in DOMAIN rows : rows'[i] = rows[i]
         /\ rows'[Len(rows) + 1].id = IdOf(e) /\ rows'[Len(rows) + 1].status = st
<1> DEFINE r == [id |-> IdOf(e), status |-> st, recent |-> TRUE]
<1>1. r \in Row
  BY IdsAreIds DEF Row
<1>2. rows' = Append(rows, r)
  BY DEF Insert
<1>3. r.id = IdOf(e) /\ r.status = st
  OBVIOUS
<1> HIDE DEF r
<1> QED
  BY <1>1, <1>2, <1>3, RowAdded

LEMMA RowClosed ==
  ASSUME TypeOK, NEW e \in Events, NEW i \in DOMAIN rows, Close(e, i)
  PROVE  /\ rows' \in Seq(Row) /\ Len(rows') = Len(rows) /\ DOMAIN rows' = DOMAIN rows
         /\ \A j \in DOMAIN rows \ {i} : rows'[j] = rows[j]
         /\ rows'[i].status = "ended"
         /\ rows'[i].id = IF hook[e].rename THEN IdOf(e) ELSE rows[i].id
<1>1. rows \in Seq(Row) /\ rows[i] \in Row /\ IdOf(e) \in Ids
  BY Rows, IdsAreIds DEF TypeOK
<1>2. PICK r \in Row : r = [rows[i] EXCEPT !.status = "ended", !.id = IF hook[e].rename THEN IdOf(e) ELSE @]
  BY <1>1 DEF Row
<1>3. rows' = [rows EXCEPT ![i] = r]
  BY <1>1, <1>2 DEF Close
<1>4. r.status = "ended" /\ r.id = IF hook[e].rename THEN IdOf(e) ELSE rows[i].id
  BY <1>1, <1>2 DEF Row
<1>5. DOMAIN rows = 1..Len(rows)
  BY <1>1
<1>6. rows' \in Seq(Row) /\ Len(rows') = Len(rows)
  BY <1>1, <1>3, <1>5, ExceptSeq
<1> QED
  BY <1>1, <1>3, <1>4, <1>5, <1>6

LEMMA RowOutlasted ==
  ASSUME TypeOK, NEW i \in DOMAIN rows, rows' = [rows EXCEPT ![i].recent = FALSE]
  PROVE  /\ rows' \in Seq(Row) /\ Len(rows') = Len(rows) /\ DOMAIN rows' = DOMAIN rows
         /\ \A j \in DOMAIN rows : rows'[j].id = rows[j].id /\ rows'[j].status = rows[j].status
<1>1. rows \in Seq(Row) /\ rows[i] \in Row /\ DOMAIN rows = 1..Len(rows) /\ i \in 1..Len(rows)
  BY Rows DEF TypeOK
<1>2. PICK r \in Row : r = [rows[i] EXCEPT !.recent = FALSE]
  BY <1>1 DEF Row
<1>3. rows' = [rows EXCEPT ![i] = r]
  BY <1>1, <1>2
<1>4. r.status = rows[i].status /\ r.id = rows[i].id
  BY <1>1, <1>2 DEF Row
<1>5. DOMAIN rows = 1..Len(rows) /\ rows \in Seq(Row) /\ i \in 1..Len(rows)
  BY <1>1
<1>6. rows' \in Seq(Row) /\ Len(rows') = Len(rows)
  BY ONLY <1>3, <1>5, r \in Row, ExceptSeq
<1> QED
  BY <1>1, <1>3, <1>4, <1>6

(* Who has no row yet settles with one more, who has one with none.         *)
LEMMA MoreSettled ==
  ASSUME TypeOK, TypeOK', NEW e \in Events, hook[e].pc \in {"idle", "claimed", "read"},
         hook'[e].pc \notin {"idle", "claimed", "read"}, \A f \in Events \ {e} : hook'[f] = hook[f]
  PROVE  Cardinality(Settled') = Cardinality(Settled) + 1
<1>1. IsFiniteSet(Settled)
  BY FS_Subset, ConstantsAssumption DEF Settled
<1>2. Settled' = Settled \cup {e} /\ e \notin Settled
  BY DEF Settled
<1> QED
  BY <1>1, <1>2, FS_AddElement

LEMMA AsManySettled ==
  ASSUME TypeOK, NEW e \in Events,
         hook[e].pc \in {"idle", "claimed", "read"} <=> hook'[e].pc \in {"idle", "claimed", "read"},
         \A f \in Events \ {e} : hook'[f] = hook[f]
  PROVE  Settled' = Settled
  BY DEF Settled

LEMMA Counts ==
  ASSUME TypeOK
  PROVE  /\ Cardinality(Settled) \in Nat /\ Cardinality(Settled) <= Cardinality(Events)
         /\ Cardinality(Begun) \in Nat /\ Cardinality(Begun) <= Cardinality(Threads)
         /\ Settled # Events => Cardinality(Settled) < Cardinality(Events)
         /\ Begun # Threads => Cardinality(Begun) < Cardinality(Threads)
<1>1. Settled \in SUBSET Events /\ Begun \in SUBSET Threads
  BY DEF Settled, Begun
<1>2. IsFiniteSet(Settled) /\ IsFiniteSet(Begun)
  BY <1>1, FS_Subset, ConstantsAssumption
<1>3. /\ Cardinality(Settled) <= Cardinality(Events)
      /\ Cardinality(Events) = Cardinality(Settled) => Events = Settled
  BY <1>1, FS_Subset, ConstantsAssumption
<1>4. /\ Cardinality(Begun) <= Cardinality(Threads)
      /\ Cardinality(Threads) = Cardinality(Begun) => Threads = Begun
  BY <1>1, FS_Subset, ConstantsAssumption
<1>5. Cardinality(Settled) \in Nat /\ Cardinality(Begun) \in Nat
  BY <1>2, FS_CardinalityType
<1> QED
  BY <1>3, <1>4, <1>5, SlotNumbers

(* Ids that stay keep the conversations begun. *)
LEMMA BegunStays ==
  ASSUME TypeOK, DOMAIN rows' = DOMAIN rows,
         \A j \in DOMAIN rows : rows'[j].id = rows[j].id \/ (rows[j].id[1] # "sms" /\ rows'[j].id[1] # "sms")
  PROVE  Begun' = Begun
<1>1. \A s \in Threads : WithId(<<"sms", s>>)' = WithId(<<"sms", s>>)
  BY DEF WithId
<1> QED
  BY <1>1 DEF Begun

(* Rows are taken on once and rename what they read: then a named turn's    *)
(* row keeps its id.                                                        *)
LEMMA NamedRowsStay ==
  ASSUME HookInv, hook' \in [Events -> Hook],
         \A f \in Events : /\ hook'[f].row = hook[f].row \/ hook[f].row = 0
                           /\ hook[f].rename => hook'[f].rename,
         \A i \in DOMAIN rows :
           \/ rows'[i].id = rows[i].id
           \/ \E f \in Ended : /\ hook'[f].rename /\ hook'[f].row = i
                               /\ rows'[i].id = <<"real", CallOf[f]>>,
         \A e \in Voice \cap Named :
           hook'[e].row # 0 /\ hook[e].row = 0 => rows'[hook'[e].row].id = ApCallId(e)
  PROVE  NamedRows'
<1> SUFFICES ASSUME NEW e \in Voice \cap Named, NEW i, i = hook'[e].row, i # 0,
                    {CallOf[g] : g \in {f \in Ended : hook'[f].rename /\ hook'[f].row = i}}
                      \subseteq {CallOf[e]}
             PROVE  rows'[i].id = <<"real", CallOf[e]>>
  BY DEF NamedRows, ApCallId, Contested
<1>0. e \in Events /\ Ended \subseteq Events /\ ApCallId(e) = <<"real", CallOf[e]>>
  BY DEF Events, ApCallId
<1>1. CASE hook[e].row = 0
  BY <1>0, <1>1
<1>2. CASE hook[e].row # 0
  <2>1. hook[e].row = i /\ hook[e].row \in 0..MaxRows /\ hook[e].row <= Len(rows)
        /\ DOMAIN rows = 1..Len(rows) /\ Len(rows) \in Nat
    BY <1>0, <1>2, Rows DEF HookInv, HooksFit, TypeOK, Hook
  <2>2. i \in DOMAIN rows
    BY <1>2, <2>1, SlotNumbers
  <2>3. \A f \in Ended : hook[f].rename /\ hook[f].row = i => hook'[f].rename /\ hook'[f].row = i
    BY <1>0, <1>2, <2>1
  <2>4. Contested(i) \subseteq {CallOf[e]}
    <3> SUFFICES ASSUME NEW g \in Ended, hook[g].rename, hook[g].row = i PROVE CallOf[g] \in {CallOf[e]}
      BY DEF Contested
    <3> QED
      BY <2>3
  <2>5. rows[i].id = <<"real", CallOf[e]>>
    BY <1>0, <1>2, <2>1, <2>4 DEF HookInv, NamedRows
  <2>6. ASSUME NEW f \in Ended, hook'[f].rename, hook'[f].row = i, rows'[i].id = <<"real", CallOf[f]>>
        PROVE  rows'[i].id = <<"real", CallOf[e]>>
    <3>1. CallOf[f] \in {CallOf[e]}
      BY <2>6
    <3> QED
      BY <2>6, <3>1
  <2> QED
    BY <2>2, <2>5, <2>6
<1> QED
  BY <1>1, <1>2

LEMMA NamedRowsQuiet ==
  ASSUME HookInv, hook' \in [Events -> Hook], NEW e \in Events, rows' = rows,
         \A f \in Events \ {e} : hook'[f] = hook[f],
         hook'[e].row = hook[e].row \/ hook[e].row = 0,
         hook[e].rename => hook'[e].rename,
         e \in Voice \cap Named /\ hook'[e].row # 0 /\ hook[e].row = 0
           => rows[hook'[e].row].id = ApCallId(e)
  PROVE  NamedRows'
<1>1. \A f \in Events : /\ hook'[f].row = hook[f].row \/ hook[f].row = 0
                        /\ hook[f].rename => hook'[f].rename
  OBVIOUS
<1>2. \A i \in DOMAIN rows : rows'[i].id = rows[i].id
  OBVIOUS
<1>3. Voice \subseteq Events
  BY DEF Events
<1>4. \A f \in Voice \cap Named :
        hook'[f].row # 0 /\ hook[f].row = 0 => rows'[hook'[f].row].id = ApCallId(f)
  <2> SUFFICES ASSUME NEW f \in Voice \cap Named, hook'[f].row # 0, hook[f].row = 0
               PROVE  rows'[hook'[f].row].id = ApCallId(f)
    OBVIOUS
  <2>1. f = e
    BY <1>3
  <2> QED
    BY <2>1
<1> QED
  BY <1>1, <1>2, <1>4, NamedRowsStay

LEMMA OthersFit ==
  ASSUME HookInv, NEW e \in Events, \A f \in Events \ {e} : hook'[f] = hook[f],
         claimed' \cup {e} = claimed \cup {e}, Len(rows') \in Nat, Len(rows) <= Len(rows'),
         hook' \in [Events -> Hook],
         \A i \in DOMAIN rows : rows[i].id[1] \in {"ap", "real"} => rows'[i].id[1] \in {"ap", "real"},
         hook'[e].row <= Len(rows'),
         hook'[e].pc = "idle" <=> e \notin claimed',
         hook'[e].pc \in {"idle", "claimed"} => hook'[e].row = 0 /\ ~hook'[e].rename,
         hook'[e].pc \in {"committed", "answered"} => hook'[e].row # 0,
         hook'[e].rename => e \in Ended \cap Named,
         hook'[e].rename /\ hook'[e].row # 0 => rows'[hook'[e].row].id[1] \in {"ap", "real"}
  PROVE  HooksFit'
<1> SUFFICES ASSUME NEW f \in Events
             PROVE  /\ hook'[f].row <= Len(rows')
                    /\ hook'[f].pc = "idle" <=> f \notin claimed'
                    /\ hook'[f].pc \in {"idle", "claimed"} => hook'[f].row = 0 /\ ~hook'[f].rename
                    /\ hook'[f].pc \in {"committed", "answered"} => hook'[f].row # 0
                    /\ hook'[f].rename => f \in Ended \cap Named
                    /\ hook'[f].rename /\ hook'[f].row # 0
                         => rows'[hook'[f].row].id[1] \in {"ap", "real"}
  BY DEF HooksFit, At
<1>1. CASE f = e
  BY <1>1
<1>2. CASE f # e
  <2>1. hook'[f] = hook[f] /\ (f \in claimed' <=> f \in claimed)
    BY <1>2
  <2>2. /\ hook[f].row <= Len(rows) /\ hook[f].row \in 0..MaxRows
        /\ hook[f].pc = "idle" <=> f \notin claimed
        /\ hook[f].pc \in {"idle", "claimed"} => hook[f].row = 0 /\ ~hook[f].rename
        /\ hook[f].pc \in {"committed", "answered"} => hook[f].row # 0
        /\ hook[f].rename => f \in Ended \cap Named
        /\ hook[f].rename /\ hook[f].row # 0 => rows[hook[f].row].id[1] \in {"ap", "real"}
    BY DEF HookInv, HooksFit, At, TypeOK, Hook
  <2>3. DOMAIN rows = 1..Len(rows) /\ Len(rows) \in Nat /\ MaxRows \in Nat
    BY Rows, SlotNumbers DEF HookInv
  <2>4. hook[f].row # 0 => hook[f].row \in DOMAIN rows
    BY <2>2, <2>3
  <2>5. hook'[f].row <= Len(rows')
    BY <2>1, <2>2, <2>3
  <2> QED
    BY <2>1, <2>2, <2>4, <2>5
<1> QED
  BY <1>1, <1>2

(* No turn and no schedule is owed to a request that has not answered.      *)
LEMMA NoneIsOwed ==
  ASSUME HookInv, NEW e \in Events, ~At(e, "answered"), UNCHANGED <<turns, scheduled>>,
         \A f \in Events \ {e} : hook'[f] = hook[f]
  PROVE  WordsAreAnswered' /\ ScheduledByAnEnd'
<1>0. Ended \subseteq Events /\ \A i \in Slots : turns[i] \subseteq Events
  BY DEF Events, HookInv, TypeOK
<1>1. WordsAreAnswered'
  <2> SUFFICES ASSUME NEW i \in Slots, NEW f \in turns[i]
               PROVE  hook'[f].pc = "answered" /\ hook'[f].row = i
    BY DEF WordsAreAnswered, At
  <2>1. f \in Events /\ hook[f].pc = "answered" /\ hook[f].row = i
    BY <1>0 DEF HookInv, WordsAreAnswered, At
  <2> QED
    BY <2>1 DEF At
<1>2. ScheduledByAnEnd'
  <2> SUFFICES ASSUME NEW i \in scheduled
               PROVE  \E f \in Ended : hook'[f].pc = "answered" /\ hook'[f].row = i
    BY DEF ScheduledByAnEnd, At
  <2>1. PICK f \in Ended : hook[f].pc = "answered" /\ hook[f].row = i
    BY DEF HookInv, ScheduledByAnEnd, At
  <2> QED
    BY <1>0, <2>1 DEF At
<1> QED
  BY <1>1, <1>2

(* What an end has closed stays closed.                                     *)
LEMMA EndsCloseStays ==
  ASSUME HookInv, NEW e \in Events, \A f \in Events \ {e} : hook'[f] = hook[f],
         \A i \in DOMAIN rows : rows[i].status = "ended" => rows'[i].status = "ended",
         e \in Ended \ Unresolvable /\ hook'[e].pc \in {"committed", "answered"}
           => rows'[hook'[e].row].status = "ended"
  PROVE  EndsClose'
<1> SUFFICES ASSUME NEW f \in Ended \ Unresolvable, hook'[f].pc \in {"committed", "answered"}
             PROVE  rows'[hook'[f].row].status = "ended"
  BY DEF EndsClose
<1>1. CASE f = e
  BY <1>1
<1>2. CASE f # e
  <2>1. f \in Events /\ hook'[f] = hook[f] /\ hook[f].pc \in {"committed", "answered"}
    BY <1>2 DEF Events
  <2>2. hook[f].row # 0 /\ hook[f].row <= Len(rows) /\ hook[f].row \in 0..MaxRows /\ Len(rows) \in Nat
    BY <2>1 DEF HookInv, HooksFit, TypeOK, Hook
  <2>3. hook[f].row \in DOMAIN rows
    BY <2>2, Rows, SlotNumbers DEF HookInv
  <2> QED
    BY <2>1, <2>3 DEF HookInv, EndsClose
<1> QED
  BY <1>1, <1>2

(* A step of a request that leaves the table as it is. *)
LEMMA SameRows ==
  ASSUME HookInv, TypeOK', NEW e \in Events, rows' = rows, \A f \in Events \ {e} : hook'[f] = hook[f],
         hook[e].pc \in {"idle", "claimed", "read"} \/ hook'[e].pc \notin {"idle", "claimed", "read"}
  PROVE  RowsAreFew' /\ IdsAreUnique'
<1>1. Begun' = Begun
  BY DEF Begun, WithId
<1>2. Cardinality(Settled') >= Cardinality(Settled)
  <2>1. CASE /\ hook[e].pc \in {"idle", "claimed", "read"}
             /\ hook'[e].pc \notin {"idle", "claimed", "read"}
    BY <2>1, MoreSettled, Counts DEF HookInv
  <2>2. CASE ~(/\ hook[e].pc \in {"idle", "claimed", "read"}
               /\ hook'[e].pc \notin {"idle", "claimed", "read"})
    <3>1. Settled' = Settled
      BY <2>2, AsManySettled DEF HookInv
    <3> QED
      BY <3>1, Counts DEF HookInv
  <2> QED
    BY <2>1, <2>2
<1>3. Cardinality(Settled') \in Nat /\ Cardinality(Begun) \in Nat /\ Cardinality(Settled) \in Nat
  <2>1. IsFiniteSet(Settled')
    BY FS_Subset, ConstantsAssumption DEF Settled
  <2> QED
    BY <2>1, FS_CardinalityType, Counts DEF HookInv
<1>4. Len(rows) \in Nat
  BY DEF HookInv, TypeOK
<1> QED
  BY <1>1, <1>2, <1>3, <1>4 DEF HookInv, RowsAreFew, IdsAreUnique

-----------------------------------------------------------------------------
(* The steps of a request *)

LEMMA ClaimKeeps == ASSUME HookInv, NEW e \in Events, Claim(e) PROVE HookInv'
<1>1. /\ hook' \in [Events -> Hook] /\ hook'[e].pc = "claimed" /\ hook'[e].row = hook[e].row
      /\ hook'[e].rename = hook[e].rename /\ \A f \in Events \ {e} : hook'[f] = hook[f]
  BY Goes DEF Claim, HookInv, HookPcs
<1>2. e \notin claimed /\ After[e] \subseteq acked /\ claimed' = claimed \cup {e} /\ hook[e].pc = "idle"
      /\ UNCHANGED <<rows, acked, turns, frames, scheduled, faults, timeouts, aged>>
  BY DEF Claim, HookInv, HooksFit, At
<1>3. TypeOK'
  BY <1>1, <1>2 DEF HookInv, TypeOK
<1>4. RowsAreFew' /\ IdsAreUnique'
  BY <1>1, <1>2, <1>3, SameRows
<1>5. HooksFit'
  BY <1>1, <1>2 DEF HookInv, HooksFit, At
<1>6. WordsAreAnswered' /\ ScheduledByAnEnd'
  BY <1>1, <1>2, NoneIsOwed DEF At
<1>7. EndsClose' /\ SentInOrder'
  <2>1. EndsClose'
    BY <1>1, <1>2, EndsCloseStays
  <2> QED
    BY <1>2, <2>1 DEF HookInv, SentInOrder
<1>8. NamedRows'
  BY <1>1, <1>2, NamedRowsQuiet
<1> QED
  BY <1>3, <1>4, <1>5, <1>6, <1>7, <1>8 DEF HookInv

LEMMA RepeatKeeps == ASSUME HookInv, NEW e \in Events, Repeat(e) PROVE HookInv'
<1>1. /\ e \in claimed /\ acked' = acked \cup {e} /\ timeouts' \in 0..MaxTimeouts
      /\ UNCHANGED <<rows, claimed, hook, turns, frames, scheduled, faults, aged>>
  BY ConstantsAssumption DEF Repeat, HookInv, TypeOK
<1>2. TypeOK'
  BY <1>1 DEF HookInv, TypeOK
<1>3. RowsAreFew' /\ IdsAreUnique' /\ NamedRows'
  BY <1>1 DEF HookInv, RowsAreFew, IdsAreUnique, NamedRows, Settled, Begun, WithId, Contested, ApCallId
<1> QED
  BY <1>1, <1>2, <1>3 DEF HookInv, HooksFit, WordsAreAnswered, EndsClose, ScheduledByAnEnd, SentInOrder, At

(* A request that stops, or goes on without touching rows. *)
LEMMA GoneKeeps ==
  ASSUME HookInv, NEW e \in Events, NEW p \in {"refused", "error", "dead"}, Goto(e, p),
         InProcess(e), faults' \in 0..MaxFaults,
         UNCHANGED <<rows, claimed, acked, turns, frames, scheduled, timeouts, aged>>
  PROVE  HookInv'
<1>1. /\ hook' \in [Events -> Hook] /\ hook'[e].pc = p /\ hook'[e].row = hook[e].row
      /\ hook'[e].rename = hook[e].rename /\ \A f \in Events \ {e} : hook'[f] = hook[f]
  BY Goes DEF HookInv, HookPcs
<1>2. e \in claimed /\ hook[e].pc \in {"claimed", "read", "committed"}
  BY DEF InProcess, HookInv, HooksFit, At
<1>3. TypeOK'
  BY <1>1 DEF HookInv, TypeOK
<1>4. RowsAreFew' /\ IdsAreUnique'
  BY <1>1, <1>3, SameRows
<1>5. HooksFit'
  BY <1>1, <1>2 DEF HookInv, HooksFit, At
<1>6. WordsAreAnswered' /\ ScheduledByAnEnd'
  BY <1>1, <1>2, NoneIsOwed DEF At
<1>7. EndsClose' /\ SentInOrder'
  <2>1. EndsClose'
    BY <1>1, <1>2, EndsCloseStays
  <2> QED
    BY <1>2, <2>1 DEF HookInv, SentInOrder
<1>8. NamedRows'
  BY <1>1, <1>2, NamedRowsQuiet
<1> QED
  BY <1>3, <1>4, <1>5, <1>6, <1>7, <1>8 DEF HookInv

LEMMA ReadKeeps == ASSUME HookInv, NEW e \in Events, Read(e) PROVE HookInv'
<1>1. /\ hook[e].pc = "claimed" /\ e \in claimed /\ hook[e].row = 0 /\ ~hook[e].rename
      /\ UNCHANGED <<rows, claimed, acked, turns, frames, scheduled, faults, timeouts, aged>>
  BY DEF Read, HookInv, HooksFit, At
<1>2. CASE /\ e \notin Unresolvable
           /\ hook' = [hook EXCEPT ![e].pc = "read", ![e].row = Target(e),
                ![e].rename = e \in Ended \cap Named /\ Known(e) = {}]
  <2>1. Target(e) \in 0..Len(rows) /\ Target(e) \in 0..MaxRows /\ Len(rows) \in Nat
    BY TargetIs, Rows, SlotNumbers DEF HookInv
  <2>2. /\ hook' \in [Events -> Hook] /\ hook'[e].pc = "read" /\ hook'[e].row = Target(e)
        /\ hook'[e].rename = (e \in Ended \cap Named /\ Known(e) = {})
        /\ \A f \in Events \ {e} : hook'[f] = hook[f]
    BY <1>2, <2>1 DEF HookInv, TypeOK, Hook
  <2>3. TypeOK'
    BY <1>1, <2>2 DEF HookInv, TypeOK
  <2>4. RowsAreFew' /\ IdsAreUnique'
    BY <1>1, <2>2, <2>3, SameRows
  <2>5. HooksFit'
    <3>1. hook'[e].rename /\ hook'[e].row # 0 => rows'[hook'[e].row].id[1] \in {"ap", "real"}
      BY <1>1, <2>2, TargetIs DEF HookInv
    <3>2. /\ claimed' \cup {e} = claimed \cup {e} /\ rows' = rows /\ e \in claimed'
          /\ Len(rows') \in Nat /\ Len(rows) <= Len(rows') /\ hook'[e].row <= Len(rows')
          /\ \A j \in DOMAIN rows : rows[j].id[1] \in {"ap", "real"} => rows'[j].id[1] \in {"ap", "real"}
      BY <1>1, <2>1, <2>2
    <3>3. hook'[e].pc \notin {"idle", "claimed", "committed", "answered"}
          /\ (hook'[e].rename => e \in Ended \cap Named)
      BY <2>2
    <3> QED
      BY <2>2, <3>1, <3>2, <3>3, OthersFit
  <2>6. WordsAreAnswered' /\ ScheduledByAnEnd'
    BY <1>1, <2>2, NoneIsOwed DEF At
  <2>7. EndsClose' /\ SentInOrder'
    <3>1. EndsClose'
      BY <1>1, <2>2, EndsCloseStays
    <3> QED
      BY <1>1, <3>1 DEF HookInv, SentInOrder
  <2>8. e \in Voice \cap Named /\ Target(e) # 0 => rows[Target(e)].id = ApCallId(e)
    BY TargetIs DEF HookInv
  <2>9. NamedRows'
    BY <1>1, <2>2, <2>8, NamedRowsQuiet
  <2> QED
    BY <2>3, <2>4, <2>5, <2>6, <2>7, <2>9 DEF HookInv
<1>3. CASE e \in Ended /\ e \in Unresolvable /\ Known(e) # {} /\ Settle(e, Newest(Known(e)), <<>>)
  <2> DEFINE i == Newest(Known(e))
  <2>1. i \in 1..Len(rows) /\ i \in 0..MaxRows /\ <<>> \in Seq({"started", "ended"}) /\ i # 0
        /\ Len(rows) \in Nat
    BY <1>3, TargetIs, Rows, SlotNumbers DEF HookInv
  <2> HIDE DEF i
  <2>2. /\ hook' \in [Events -> Hook] /\ hook'[e].pc = "committed" /\ hook'[e].row = i
        /\ ~hook'[e].rename /\ \A f \in Events \ {e} : hook'[f] = hook[f]
    BY <1>1, <1>3, <2>1, Settles DEF HookInv, i
  <2>3. TypeOK'
    BY <1>1, <2>2 DEF HookInv, TypeOK
  <2>4. RowsAreFew' /\ IdsAreUnique'
    BY <1>1, <2>2, <2>3, SameRows
  <2>5. HooksFit'
    <3>1. i <= Len(rows) /\ i # 0
      BY <2>1
    <3>2. /\ claimed' \cup {e} = claimed \cup {e} /\ rows' = rows /\ e \in claimed'
          /\ Len(rows') \in Nat /\ Len(rows) <= Len(rows') /\ hook'[e].row <= Len(rows')
          /\ \A j \in DOMAIN rows : rows[j].id[1] \in {"ap", "real"} => rows'[j].id[1] \in {"ap", "real"}
      BY <1>1, <2>1, <2>2
    <3>3. hook'[e].pc \notin {"idle", "claimed"} /\ hook'[e].row # 0 /\ ~hook'[e].rename
      BY <2>2, <3>1
    <3>4. /\ hook'[e].pc = "idle" <=> e \notin claimed'
          /\ hook'[e].pc \in {"idle", "claimed"} => hook'[e].row = 0 /\ ~hook'[e].rename
          /\ hook'[e].pc \in {"committed", "answered"} => hook'[e].row # 0
          /\ hook'[e].rename => e \in Ended \cap Named
          /\ hook'[e].rename /\ hook'[e].row # 0 => rows'[hook'[e].row].id[1] \in {"ap", "real"}
      BY <2>2, <3>2, <3>3
    <3> QED
      BY ONLY HookInv, e \in Events, <2>2, <3>2, <3>4, OthersFit
  <2>6. WordsAreAnswered' /\ ScheduledByAnEnd'
    BY <1>1, <2>2, NoneIsOwed DEF At
  <2>7. EndsClose' /\ SentInOrder'
    <3>1. EndsClose'
      BY <1>1, <1>3, <2>2, EndsCloseStays
    <3> QED
      BY <1>1, <3>1 DEF HookInv, SentInOrder
  <2>8. e \notin Voice
    BY <1>3, ConstantsAssumption
  <2>9. NamedRows'
    BY <1>1, <2>2, <2>8, NamedRowsQuiet
  <2> QED
    BY <2>3, <2>4, <2>5, <2>6, <2>7, <2>9 DEF HookInv
<1>4. CASE Goto(e, "refused")
  <2>1. faults' \in 0..MaxFaults /\ InProcess(e)
    BY <1>1 DEF HookInv, TypeOK, InProcess
  <2> QED
    BY <1>1, <1>4, <2>1, GoneKeeps
<1> QED
  BY <1>2, <1>3, <1>4 DEF Read

LEMMA RejectKeeps == ASSUME HookInv, NEW e \in Events, Reject(e) PROVE HookInv'
<1>1. faults' \in 0..MaxFaults /\ InProcess(e)
  BY DEF Reject, At, InProcess, HookInv, TypeOK
<1> QED
  BY <1>1, GoneKeeps DEF Reject

(* A new row: its id is no other row's, and the request had none before.    *)
LEMMA InsertKeeps ==
  ASSUME HookInv, NEW e \in Events, hook[e].pc = "read", hook[e].row = 0, ~Refused(e, 0),
         NEW st \in {"in_progress", "ended"}, NEW fs \in Seq({"started", "ended"}),
         Insert(e, st), Settle(e, Len(rows) + 1, fs), e \in Ended => st = "ended",
         UNCHANGED <<claimed, acked, turns, frames, scheduled, faults, timeouts, aged>>
  PROVE  HookInv'
<1> DEFINE n == Len(rows) + 1
<1>1. /\ Cardinality(Settled) \in Nat /\ Cardinality(Begun) \in Nat
      /\ Cardinality(Settled) < Cardinality(Events) /\ Cardinality(Begun) <= Cardinality(Threads)
  BY Counts DEF HookInv, Settled
<1>2. Len(rows) \in Nat /\ n \in 1..MaxRows /\ n \in 0..MaxRows /\ DOMAIN rows = 1..Len(rows) /\ n \in Slots
  BY <1>1, SlotNumbers, Rows DEF HookInv, RowsAreFew
<1>3. /\ rows' \in Seq(Row) /\ Len(rows') = n /\ DOMAIN rows' = 1..n
      /\ \A i \in DOMAIN rows : rows'[i] = rows[i]
      /\ rows'[n].id = IdOf(e) /\ rows'[n].status = st
  BY RowInserted DEF HookInv
<1>4. /\ hook' \in [Events -> Hook] /\ hook'[e].pc = "committed" /\ hook'[e].row = n
      /\ hook'[e].rename = hook[e].rename /\ \A f \in Events \ {e} : hook'[f] = hook[f]
  BY <1>2, Settles DEF HookInv
<1>5. e \in claimed
  BY DEF HookInv, HooksFit, At
<1> HIDE DEF n
<1>6. \A i \in DOMAIN rows : rows[i].id # IdOf(e)
  <2>1. WithId(IdOf(e)) \ {0} = {} /\ 0 \notin DOMAIN rows
    BY <1>2 DEF Refused
  <2> QED
    BY <2>1 DEF WithId
<1>7. TypeOK'
  <2>1. scheduled \subseteq DOMAIN rows'
    BY <1>2, <1>3 DEF HookInv, TypeOK, n
  <2>2. Len(rows') <= MaxRows
    BY <1>2, <1>3
  <2> QED
    BY <1>3, <1>4, <2>1, <2>2 DEF HookInv, TypeOK
<1>8. RowsAreFew'
  <2>1. Cardinality(Settled') = Cardinality(Settled) + 1
    BY <1>4, <1>7, MoreSettled DEF HookInv
  <2>2. \A s \in Threads : WithId(<<"sms", s>>)' = WithId(<<"sms", s>>)
    <3> SUFFICES ASSUME NEW s \in Threads
                 PROVE {i \in DOMAIN rows' : rows'[i].id = <<"sms", s>>}
                         = {i \in DOMAIN rows : rows[i].id = <<"sms", s>>}
      BY DEF WithId
    <3>1. rows'[n].id # <<"sms", s>>
      BY <1>3, IdsAreIds
    <3>2. DOMAIN rows' = DOMAIN rows \cup {n}
      BY <1>2, <1>3 DEF n
    <3> QED
      BY <1>3, <3>1, <3>2
  <2>3. Begun' = Begun
    BY <2>2 DEF Begun
  <2> QED
    BY <1>1, <1>2, <1>3, <2>1, <2>3 DEF HookInv, RowsAreFew, n
<1>9. IdsAreUnique'
  <2>1. DOMAIN rows' = DOMAIN rows \cup {n}
    BY <1>2, <1>3 DEF n
  <2> QED
    BY <1>3, <1>6, <2>1 DEF HookInv, IdsAreUnique
<1>10. HooksFit'
  <2>1. /\ claimed' \cup {e} = claimed \cup {e} /\ e \in claimed'
        /\ Len(rows') \in Nat /\ Len(rows) <= Len(rows') /\ hook'[e].row <= Len(rows')
        /\ \A j \in DOMAIN rows : rows[j].id[1] \in {"ap", "real"} => rows'[j].id[1] \in {"ap", "real"}
    BY <1>2, <1>3, <1>4, <1>5 DEF n
  <2>2. hook'[e].pc \notin {"idle", "claimed"} /\ hook'[e].row # 0
    BY <1>2, <1>4
  <2>3. hook'[e].rename => e \in Ended \cap Named /\ rows'[hook'[e].row].id[1] \in {"ap", "real"}
    <3>1. hook'[e].rename => e \in Ended \cap Named
      BY <1>4 DEF HookInv, HooksFit
    <3>2. e \in Named => rows'[n].id[1] \in {"ap", "real"}
      BY <1>3, IdsAreIds
    <3> QED
      BY <1>4, <3>1, <3>2
  <2> QED
    BY <1>4, <2>1, <2>2, <2>3, OthersFit
<1>11. WordsAreAnswered' /\ ScheduledByAnEnd'
  BY <1>4, NoneIsOwed DEF At
<1>12. EndsClose'
  BY <1>3, <1>4, EndsCloseStays
<1>13. NamedRows'
  <2>1. \A f \in Events : /\ hook'[f].row = hook[f].row \/ hook[f].row = 0
                          /\ hook[f].rename => hook'[f].rename
    BY <1>4
  <2>2. \A f \in Voice \cap Named :
          hook'[f].row # 0 /\ hook[f].row = 0 => rows'[hook'[f].row].id = ApCallId(f)
    <3> SUFFICES ASSUME NEW f \in Voice \cap Named, hook'[f].row # 0, hook[f].row = 0
                 PROVE  rows'[hook'[f].row].id = ApCallId(f)
      OBVIOUS
    <3>1. f = e
      BY <1>4 DEF Events
    <3> QED
      BY <1>3, <1>4, <3>1, IdsAreIds
  <2> QED
    BY <1>3, <1>4, <2>1, <2>2, NamedRowsStay
<1>14. SentInOrder'
  BY DEF HookInv, SentInOrder
<1> QED
  BY <1>7, <1>8, <1>9, <1>10, <1>11, <1>12, <1>13, <1>14 DEF HookInv

(* The end of a known row: it keeps its id, or gives up a placeholder for   *)
(* an id that no other row has.                                             *)
LEMMA CloseKeeps ==
  ASSUME HookInv, NEW e \in Ended, NEW i, hook[e].row = i, i # 0, hook[e].pc = "read",
         ~Refused(e, i), Close(e, i), Settle(e, i, <<"ended">>),
         UNCHANGED <<claimed, acked, turns, frames, scheduled, faults, timeouts, aged>>
  PROVE  HookInv'
<1>1. e \in Events /\ e \in claimed
  BY DEF Events, HookInv, HooksFit, At
<1>2. i \in DOMAIN rows /\ i \in 0..MaxRows /\ DOMAIN rows = 1..Len(rows) /\ Len(rows) \in Nat
  <2>1. i <= Len(rows) /\ i \in 0..MaxRows
    BY <1>1 DEF HookInv, HooksFit, TypeOK, Hook
  <2> QED
    BY <2>1, Rows, SlotNumbers DEF HookInv
<1>3. /\ rows' \in Seq(Row) /\ Len(rows') = Len(rows) /\ DOMAIN rows' = DOMAIN rows
      /\ \A j \in DOMAIN rows \ {i} : rows'[j] = rows[j]
      /\ rows'[i].status = "ended"
      /\ rows'[i].id = IF hook[e].rename THEN IdOf(e) ELSE rows[i].id
  BY <1>1, <1>2, RowClosed DEF HookInv
<1>4. /\ hook' \in [Events -> Hook] /\ hook'[e].pc = "committed" /\ hook'[e].row = i
      /\ hook'[e].rename = hook[e].rename /\ \A f \in Events \ {e} : hook'[f] = hook[f]
  <2>1. <<"ended">> \in Seq({"started", "ended"})
    OBVIOUS
  <2> QED
    BY <1>1, <1>2, <2>1, Settles DEF HookInv
<1>5. hook[e].rename => /\ e \in Named /\ IdOf(e) = <<"real", CallOf[e]>>
                        /\ rows[i].id[1] \in {"ap", "real"}
                        /\ \A j \in DOMAIN rows \ {i} : rows[j].id # IdOf(e)
  <2>1. hook[e].rename => e \in Named /\ rows[i].id[1] \in {"ap", "real"}
    BY <1>1 DEF HookInv, HooksFit
  <2>2. hook[e].rename => \A j \in DOMAIN rows \ {i} : rows[j].id # IdOf(e)
    BY DEF Refused, WithId
  <2>3. e \in Named => IdOf(e) = <<"real", CallOf[e]>>
    BY <1>1, IdsAreIds
  <2> QED
    BY <2>1, <2>2, <2>3
<1>6. TypeOK'
  BY <1>3, <1>4 DEF HookInv, TypeOK
<1>7. RowsAreFew'
  <2>1. Cardinality(Settled') = Cardinality(Settled) + 1
    BY <1>1, <1>4, <1>6, MoreSettled DEF HookInv
  <2>2. \A j \in DOMAIN rows : rows'[j].id = rows[j].id \/ (rows[j].id[1] # "sms" /\ rows'[j].id[1] # "sms")
    BY <1>3, <1>5
  <2>3. Begun' = Begun
    BY <1>3, <2>2, BegunStays DEF HookInv
  <2> QED
    BY <1>2, <1>3, <2>1, <2>3, Counts DEF HookInv, RowsAreFew
<1>8. IdsAreUnique'
  <2>1. IdsAreUnique
    BY DEF HookInv
  <2>2. CASE hook[e].rename
    BY <1>3, <1>5, <2>1, <2>2 DEF IdsAreUnique
  <2>3. CASE ~hook[e].rename
    <3>1. \A j \in DOMAIN rows : rows'[j].id = rows[j].id
      BY <1>3, <2>3
    <3> QED
      BY <1>3, <2>1, <3>1 DEF IdsAreUnique
  <2> QED
    BY <2>2, <2>3
<1>9. HooksFit'
  <2>1. \A j \in DOMAIN rows : rows[j].id[1] \in {"ap", "real"} => rows'[j].id[1] \in {"ap", "real"}
    BY <1>3, <1>5
  <2>2. /\ claimed' \cup {e} = claimed \cup {e} /\ e \in claimed'
        /\ Len(rows') \in Nat /\ Len(rows) <= Len(rows') /\ hook'[e].row <= Len(rows')
    BY <1>1, <1>2, <1>3, <1>4
  <2>3. hook'[e].pc \notin {"idle", "claimed"} /\ hook'[e].row # 0
    BY <1>2, <1>4
  <2>4. hook'[e].rename => e \in Ended \cap Named /\ rows'[hook'[e].row].id[1] \in {"ap", "real"}
    BY <1>2, <1>4, <1>5, <2>1
  <2> QED
    BY <1>1, <1>4, <2>1, <2>2, <2>3, <2>4, OthersFit
<1>10. WordsAreAnswered' /\ ScheduledByAnEnd'
  BY <1>1, <1>4, NoneIsOwed DEF At
<1>11. EndsClose'
  <2>1. \A j \in DOMAIN rows : rows[j].status = "ended" => rows'[j].status = "ended"
    BY <1>3
  <2> QED
    BY <1>1, <1>3, <1>4, <2>1, EndsCloseStays
<1>12. NamedRows'
  <2>1. \A f \in Events : /\ hook'[f].row = hook[f].row \/ hook[f].row = 0
                          /\ hook[f].rename => hook'[f].rename
    BY <1>4
  <2>2. \A j \in DOMAIN rows :
           \/ rows'[j].id = rows[j].id
           \/ \E f \in Ended : /\ hook'[f].rename /\ hook'[f].row = j
                               /\ rows'[j].id = <<"real", CallOf[f]>>
    BY <1>3, <1>4, <1>5
  <2>3. \A f \in Voice \cap Named :
          hook'[f].row # 0 /\ hook[f].row = 0 => rows'[hook'[f].row].id = ApCallId(f)
    <3> SUFFICES ASSUME NEW f \in Voice \cap Named, hook'[f].row # 0, hook[f].row = 0
                 PROVE  FALSE
      OBVIOUS
    <3>1. f \in Events /\ f # e
      BY DEF Events
    <3> QED
      BY <1>4, <3>1
  <2> QED
    BY <1>4, <2>1, <2>2, <2>3, NamedRowsStay
<1>13. SentInOrder'
  BY DEF HookInv, SentInOrder
<1> QED
  BY <1>6, <1>7, <1>8, <1>9, <1>10, <1>11, <1>12, <1>13 DEF HookInv

(* A request that goes on and leaves its row and the table as they are.     *)
LEMMA StaysKeeps ==
  ASSUME HookInv, NEW e \in Events, ~At(e, "answered"), hook[e].pc \notin {"idle", "claimed"},
         hook' \in [Events -> Hook], hook'[e].row = hook[e].row, hook'[e].rename = hook[e].rename,
         hook'[e].pc = "committed", hook[e].row # 0, \A f \in Events \ {e} : hook'[f] = hook[f],
         e \in Ended \ Unresolvable => rows[hook[e].row].status = "ended",
         frames' \in [Slots -> Seq({"started", "ended"})],
         UNCHANGED <<rows, claimed, acked, turns, scheduled, faults, timeouts, aged>>
  PROVE  HookInv'
<1>1. e \in claimed
  BY DEF HookInv, HooksFit, At
<1>2. TypeOK'
  BY DEF HookInv, TypeOK
<1>3. RowsAreFew' /\ IdsAreUnique'
  BY <1>2, SameRows
<1>4. HooksFit'
  BY <1>1 DEF HookInv, HooksFit, At
<1>5. WordsAreAnswered' /\ ScheduledByAnEnd'
  BY NoneIsOwed
<1>6. EndsClose'
  BY EndsCloseStays
<1>7. NamedRows'
  BY NamedRowsQuiet
<1>8. SentInOrder'
  BY DEF HookInv, SentInOrder
<1> QED
  BY <1>2, <1>3, <1>4, <1>5, <1>6, <1>7, <1>8 DEF HookInv

LEMMA CommitVoiceKeeps == ASSUME HookInv, NEW e \in Events, CommitVoice(e) PROVE HookInv'
<1>0. e \in Voice /\ hook[e].pc = "read" /\ ~Refused(e, hook[e].row) /\ e \notin Ended
      /\ UNCHANGED <<claimed, acked, turns, frames, scheduled, faults, timeouts, aged>>
  BY ConstantsAssumption DEF CommitVoice, At
<1>1. CASE hook[e].row = 0
  <2>1. Insert(e, "in_progress") /\ Settle(e, Len(rows) + 1, <<"started">>)
    BY <1>1 DEF CommitVoice
  <2>2. <<"started">> \in Seq({"started", "ended"})
    OBVIOUS
  <2> QED
    BY <1>0, <1>1, <2>1, <2>2, InsertKeeps
<1>2. CASE hook[e].row # 0
  <2>1. Settle(e, hook[e].row, <<>>) /\ rows' = rows
    BY <1>2 DEF CommitVoice
  <2>2. hook[e].row \in 0..MaxRows /\ <<>> \in Seq({"started", "ended"})
        /\ frames' \in [Slots -> Seq({"started", "ended"})]
    BY <1>0 DEF HookInv, TypeOK, Hook
  <2>3. /\ hook' \in [Events -> Hook] /\ hook'[e].pc = "committed" /\ hook'[e].row = hook[e].row
        /\ hook'[e].rename = hook[e].rename /\ \A f \in Events \ {e} : hook'[f] = hook[f]
    BY <2>1, <2>2, Settles DEF HookInv
  <2> QED
    BY <1>0, <1>2, <2>1, <2>2, <2>3, StaysKeeps DEF At
<1> QED
  BY <1>1, <1>2

LEMMA CommitEndedKeeps == ASSUME HookInv, NEW e \in Events, CommitEnded(e) PROVE HookInv'
<1>0. e \in Ended /\ hook[e].pc = "read" /\ ~Refused(e, hook[e].row)
      /\ UNCHANGED <<claimed, acked, turns, frames, scheduled, faults, timeouts, aged>>
  BY DEF CommitEnded, At
<1>1. CASE hook[e].row = 0
  <2>1. Insert(e, "ended") /\ Settle(e, Len(rows) + 1, <<"started", "ended">>)
    BY <1>1 DEF CommitEnded
  <2>2. <<"started", "ended">> \in Seq({"started", "ended"})
    OBVIOUS
  <2> QED
    BY <1>0, <1>1, <2>1, <2>2, InsertKeeps
<1>2. CASE hook[e].row # 0
  BY <1>0, <1>2, CloseKeeps DEF CommitEnded
<1> QED
  BY <1>1, <1>2

LEMMA PublishNextKeeps == ASSUME HookInv, NEW e \in Events, PublishNext(e) PROVE HookInv'
<1>1. /\ hook[e].pc = "committed" /\ hook[e].frames # <<>>
      /\ frames' = [frames EXCEPT ![hook[e].row] = Append(@, Head(hook[e].frames))]
      /\ hook' = [hook EXCEPT ![e].frames = Tail(@)]
      /\ UNCHANGED <<rows, claimed, acked, turns, scheduled, faults, timeouts, aged>>
  BY DEF PublishNext, At
<1>2. hook[e] \in Hook /\ hook[e].frames \in Seq({"started", "ended"}) /\ hook \in [Events -> Hook]
      /\ frames \in [Slots -> Seq({"started", "ended"})]
  BY DEF HookInv, TypeOK, Hook
<1>3. Head(hook[e].frames) \in {"started", "ended"} /\ Tail(hook[e].frames) \in Seq({"started", "ended"})
  BY <1>1, <1>2
<1>4. frames' \in [Slots -> Seq({"started", "ended"})]
  <2>1. PICK s \in {"started", "ended"} : s = Head(hook[e].frames)
    BY <1>3
  <2>2. \A q \in Seq({"started", "ended"}) : Append(q, s) \in Seq({"started", "ended"})
    OBVIOUS
  <2>3. frames' = [frames EXCEPT ![hook[e].row] = Append(@, s)]
    BY <1>1, <2>1
  <2> QED
    BY <1>2, <2>2, <2>3
<1>5. /\ hook' \in [Events -> Hook] /\ hook'[e].pc = "committed" /\ hook'[e].row = hook[e].row
      /\ hook'[e].rename = hook[e].rename /\ \A f \in Events \ {e} : hook'[f] = hook[f]
  BY <1>1, <1>2, <1>3 DEF Hook
<1>6. hook[e].row # 0 /\ (e \in Ended \ Unresolvable => rows[hook[e].row].status = "ended")
  BY <1>1 DEF HookInv, HooksFit, EndsClose
<1> QED
  BY <1>1, <1>4, <1>5, <1>6, StaysKeeps DEF At

LEMMA DispatchKeeps == ASSUME HookInv, NEW e \in Events, Dispatch(e) PROVE HookInv'
<1>1. /\ hook[e].pc = "committed" /\ acked' = acked \cup {e} /\ Goto(e, "answered")
      /\ UNCHANGED <<rows, claimed, frames, timeouts, aged>>
  BY DEF Dispatch, At
<1>2. /\ hook' \in [Events -> Hook] /\ hook'[e].pc = "answered" /\ hook'[e].row = hook[e].row
      /\ hook'[e].rename = hook[e].rename /\ \A f \in Events \ {e} : hook'[f] = hook[f]
  BY <1>1, Goes DEF HookInv, HookPcs
<1>3. e \in claimed /\ hook[e].row # 0 /\ hook[e].row <= Len(rows) /\ hook[e].row \in 0..MaxRows
  BY <1>1 DEF HookInv, HooksFit, At, TypeOK, Hook
<1>4. hook[e].row \in DOMAIN rows /\ hook[e].row \in Slots
  BY <1>3, Rows, SlotNumbers DEF HookInv
<1>5. faults' \in 0..MaxFaults
  BY ConstantsAssumption DEF Dispatch, Fault, HookInv, TypeOK
<1>6. \/ e \in Voice /\ scheduled' = scheduled /\ turns' = [turns EXCEPT ![hook[e].row] = @ \cup {e}]
      \/ e \in Ended /\ turns' = turns /\ scheduled' \subseteq scheduled \cup {hook[e].row}
  BY DEF Dispatch
<1>7. TypeOK'
  <2>1. turns' \in [Slots -> SUBSET Voice] /\ scheduled' \subseteq DOMAIN rows'
    BY <1>1, <1>4, <1>6 DEF HookInv, TypeOK
  <2> QED
    BY <1>1, <1>2, <1>3, <1>5, <2>1 DEF HookInv, TypeOK
<1>8. RowsAreFew' /\ IdsAreUnique'
  BY <1>1, <1>2, <1>7, SameRows
<1>9. HooksFit'
  BY <1>1, <1>2, <1>3 DEF HookInv, HooksFit, At
<1>10. WordsAreAnswered'
  <2> SUFFICES ASSUME NEW i \in Slots, NEW f \in turns'[i]
               PROVE  hook'[f].pc = "answered" /\ hook'[f].row = i
    BY DEF WordsAreAnswered, At
  <2>1. CASE f = e
    <3>1. f \in turns[i] => hook[e].row = i
      BY <2>1 DEF HookInv, WordsAreAnswered
    <3>2. f \notin turns[i] => hook[e].row = i
      BY <1>4, <1>6, <2>1 DEF HookInv, TypeOK
    <3> QED
      BY <1>2, <2>1, <3>1, <3>2
  <2>2. CASE f # e
    <3>0. turns \in [Slots -> SUBSET Voice]
      BY DEF HookInv, TypeOK
    <3>1. f \in turns[i]
      BY <1>4, <1>6, <2>2, <3>0
    <3>2. f \in Events
      BY <3>0, <3>1 DEF Events
    <3> QED
      BY <1>2, <2>2, <3>1, <3>2 DEF HookInv, WordsAreAnswered, At
  <2> QED
    BY <2>1, <2>2
<1>11. ScheduledByAnEnd'
  <2> SUFFICES ASSUME NEW i \in scheduled'
               PROVE  \E f \in Ended : hook'[f].pc = "answered" /\ hook'[f].row = i
    BY DEF ScheduledByAnEnd, At
  <2>1. CASE i \in scheduled
    <3>1. PICK f \in Ended : hook[f].pc = "answered" /\ hook[f].row = i
      BY <2>1 DEF HookInv, ScheduledByAnEnd, At
    <3>2. f # e /\ f \in Events
      BY <1>1, <3>1 DEF Events
    <3> QED
      BY <1>2, <3>1, <3>2
  <2>2. CASE i \notin scheduled
    BY <1>2, <1>6, <2>2
  <2> QED
    BY <2>1, <2>2
<1>12. EndsClose'
  <2>1. e \in Ended \ Unresolvable => rows[hook[e].row].status = "ended"
    BY <1>1 DEF HookInv, EndsClose
  <2> QED
    BY <1>1, <1>2, <2>1, EndsCloseStays
<1>13. NamedRows'
  BY <1>1, <1>2, NamedRowsQuiet
<1>14. SentInOrder'
  BY <1>1 DEF HookInv, SentInOrder
<1> QED
  BY <1>7, <1>8, <1>9, <1>10, <1>11, <1>12, <1>13, <1>14 DEF HookInv

LEMMA CrashHookKeeps == ASSUME HookInv, NEW e \in Events, CrashHook(e) PROVE HookInv'
<1>1. faults' \in 0..MaxFaults
  BY ConstantsAssumption DEF CrashHook, Fault, HookInv, TypeOK
<1> QED
  BY <1>1, GoneKeeps DEF CrashHook

-----------------------------------------------------------------------------
(* The steps around the requests *)

LEMMA StartThreadKeeps == ASSUME HookInv, NEW s \in Threads, StartThread(s) PROVE HookInv'
<1> DEFINE n == Len(rows) + 1
           r == [id |-> <<"sms", s>>, status |-> "in_progress", recent |-> TRUE]
<1>1. s \notin Begun /\ \A i \in DOMAIN rows : rows[i].id # <<"sms", s>>
  BY DEF StartThread, Begun, WithId
<1>2. /\ Cardinality(Settled) \in Nat /\ Cardinality(Begun) \in Nat
      /\ Cardinality(Settled) <= Cardinality(Events) /\ Cardinality(Begun) < Cardinality(Threads)
  BY <1>1, Counts DEF HookInv
<1>3. Len(rows) \in Nat /\ n \in 1..MaxRows /\ DOMAIN rows = 1..Len(rows)
  BY <1>2, SlotNumbers, Rows DEF HookInv, RowsAreFew
<1>4. r \in Row /\ rows' = Append(rows, r) /\ r.id = <<"sms", s>>
      /\ UNCHANGED <<claimed, acked, hook, turns, frames, scheduled, faults, timeouts, aged>>
  BY DEF StartThread, Row, Ids
<1> HIDE DEF r
<1>5. /\ rows' \in Seq(Row) /\ Len(rows') = n /\ DOMAIN rows' = 1..n
      /\ \A i \in DOMAIN rows : rows'[i] = rows[i]
      /\ rows'[n].id = <<"sms", s>>
  BY <1>4, RowAdded DEF HookInv
<1>6. DOMAIN rows' = DOMAIN rows \cup {n} /\ n \notin DOMAIN rows /\ n \in Nat /\ Len(rows) <= n
  BY <1>3, <1>5
<1> HIDE DEF n
<1>7. TypeOK'
  <2>1. Len(rows') <= MaxRows /\ scheduled \subseteq DOMAIN rows'
    BY <1>3, <1>5, <1>6 DEF HookInv, TypeOK
  <2> QED
    BY <1>4, <1>5, <2>1 DEF HookInv, TypeOK
<1>8. RowsAreFew'
  <2>1. \A t \in Threads \ {s} : WithId(<<"sms", t>>)' = WithId(<<"sms", t>>)
    <3> SUFFICES ASSUME NEW t \in Threads \ {s}
                 PROVE {i \in DOMAIN rows' : rows'[i].id = <<"sms", t>>}
                         = {i \in DOMAIN rows : rows[i].id = <<"sms", t>>}
      BY DEF WithId
    <3>1. rows'[n].id # <<"sms", t>>
      BY <1>5
    <3> QED
      BY <1>5, <1>6, <3>1
  <2>2. WithId(<<"sms", s>>)' # {}
    BY <1>5, <1>6 DEF WithId
  <2>3. Begun' = Begun \cup {s}
    BY <2>1, <2>2 DEF Begun
  <2>4. IsFiniteSet(Begun)
    BY FS_Subset, ConstantsAssumption DEF Begun
  <2>5. Cardinality(Begun') = Cardinality(Begun) + 1
    BY <1>1, <2>3, <2>4, FS_AddElement
  <2>6. Settled' = Settled
    BY <1>4 DEF Settled
  <2>7. n = Len(rows) + 1
    BY DEF n
  <2> QED
    BY <1>2, <1>3, <1>5, <2>5, <2>6, <2>7 DEF HookInv, RowsAreFew
<1>9. IdsAreUnique'
  BY <1>1, <1>5, <1>6 DEF HookInv, IdsAreUnique
<1>10. \A e \in Events : /\ hook[e].row # 0 => hook[e].row \in DOMAIN rows
                         /\ hook[e].row <= Len(rows) /\ hook[e].row \in Nat
  BY <1>3, SlotNumbers DEF HookInv, HooksFit, TypeOK, Hook
<1>11. HooksFit'
  <2> SUFFICES ASSUME NEW e \in Events
               PROVE  /\ hook[e].row <= n
                      /\ hook[e].rename /\ hook[e].row # 0 => rows'[hook[e].row].id[1] \in {"ap", "real"}
    BY <1>4, <1>5 DEF HookInv, HooksFit, At
  <2>1. hook[e].row <= n
    BY <1>3, <1>6, <1>10
  <2>2. hook[e].rename /\ hook[e].row # 0 => rows'[hook[e].row].id[1] \in {"ap", "real"}
    BY <1>5, <1>10 DEF HookInv, HooksFit
  <2> QED
    BY <2>1, <2>2
<1>12. WordsAreAnswered' /\ ScheduledByAnEnd' /\ SentInOrder'
  BY <1>4 DEF HookInv, WordsAreAnswered, ScheduledByAnEnd, SentInOrder, At
<1>13. EndsClose'
  <2> SUFFICES ASSUME NEW e \in Ended \ Unresolvable, hook[e].pc \in {"committed", "answered"}
               PROVE  rows'[hook[e].row].status = "ended"
    BY <1>4 DEF EndsClose
  <2>1. hook[e].row \in DOMAIN rows /\ rows[hook[e].row].status = "ended"
    BY <1>10 DEF HookInv, HooksFit, EndsClose, Events
  <2> QED
    BY <1>5, <2>1
<1>14. NamedRows'
  <2>1. \A f \in Voice \cap Named :
          hook'[f].row # 0 /\ hook[f].row = 0 => rows'[hook'[f].row].id = ApCallId(f)
    BY <1>4
  <2>2. hook' \in [Events -> Hook]
    BY <1>4 DEF HookInv, TypeOK
  <2> QED
    BY <1>4, <1>5, <2>1, <2>2, NamedRowsStay
<1> QED
  BY <1>7, <1>8, <1>9, <1>11, <1>12, <1>13, <1>14 DEF HookInv

LEMMA OutlastKeeps == ASSUME HookInv, NEW i \in Slots, Outlast(i) PROVE HookInv'
<1>1. /\ i \in DOMAIN rows /\ rows' = [rows EXCEPT ![i].recent = FALSE] /\ aged' \in 0..MaxAged
      /\ UNCHANGED <<claimed, acked, hook, turns, frames, scheduled, faults, timeouts>>
  BY ConstantsAssumption DEF Outlast, Open, HookInv, TypeOK
<1>2. /\ rows' \in Seq(Row) /\ Len(rows') = Len(rows) /\ DOMAIN rows' = DOMAIN rows
      /\ \A j \in DOMAIN rows : rows'[j].id = rows[j].id /\ rows'[j].status = rows[j].status
  BY <1>1, RowOutlasted DEF HookInv
<1>3. TypeOK'
  BY <1>1, <1>2 DEF HookInv, TypeOK
<1>4. Settled' = Settled
  BY <1>1 DEF Settled
<1>5. Begun' = Begun
  BY <1>2, BegunStays DEF HookInv
<1>6. RowsAreFew' /\ IdsAreUnique'
  BY <1>2, <1>4, <1>5 DEF HookInv, RowsAreFew, IdsAreUnique
<1>7. \A e \in Events : hook[e].row # 0 => hook[e].row \in DOMAIN rows
  BY Rows, SlotNumbers DEF HookInv, HooksFit, TypeOK, Hook
<1>8. HooksFit'
  <2> SUFFICES ASSUME NEW e \in Events, hook[e].rename, hook[e].row # 0
               PROVE  rows'[hook[e].row].id[1] \in {"ap", "real"}
    BY <1>1, <1>2 DEF HookInv, HooksFit, At
  <2> QED
    BY <1>2, <1>7 DEF HookInv, HooksFit
<1>9. WordsAreAnswered' /\ ScheduledByAnEnd' /\ SentInOrder'
  BY <1>1 DEF HookInv, WordsAreAnswered, ScheduledByAnEnd, SentInOrder, At
<1>10. EndsClose'
  <2> SUFFICES ASSUME NEW e \in Ended \ Unresolvable, hook[e].pc \in {"committed", "answered"}
               PROVE  rows'[hook[e].row].status = "ended"
    BY <1>1 DEF EndsClose
  <2>1. hook[e].row \in DOMAIN rows /\ rows[hook[e].row].status = "ended"
    BY <1>7 DEF HookInv, HooksFit, EndsClose, Events
  <2> QED
    BY <1>2, <2>1
<1>11. NamedRows'
  <2>1. \A f \in Voice \cap Named :
          hook'[f].row # 0 /\ hook[f].row = 0 => rows'[hook'[f].row].id = ApCallId(f)
    BY <1>1
  <2>2. hook' \in [Events -> Hook]
    BY <1>1 DEF HookInv, TypeOK
  <2> QED
    BY <1>1, <1>2, <2>1, <2>2, NamedRowsStay
<1> QED
  BY <1>3, <1>6, <1>8, <1>9, <1>10, <1>11 DEF HookInv

LEMMA HookInitKeeps == HookInit => HookInv
<1> SUFFICES ASSUME HookInit PROVE HookInv
  OBVIOUS
<1>1. Cardinality(Events) \in Nat /\ MaxRows \in Nat /\ rows = <<>> /\ Len(rows) = 0 /\ DOMAIN rows = {}
  BY SlotNumbers DEF HookInit
<1>2. TypeOK
  <2>1. [pc |-> "idle", row |-> 0, rename |-> FALSE, frames |-> <<>>] \in Hook
    BY <1>1 DEF Hook
  <2>2. 0 \in 0..MaxFaults /\ 0 \in 0..MaxTimeouts /\ 0 \in 0..MaxAged
    BY ConstantsAssumption
  <2> QED
    BY <1>1, <2>1, <2>2 DEF HookInit, TypeOK
<1>3. RowsAreFew
  BY <1>1, <1>2, Counts DEF RowsAreFew
<1>4. HooksFit /\ SentInOrder
  BY <1>1 DEF HookInit, HooksFit, SentInOrder, At
<1>5. WordsAreAnswered /\ EndsClose /\ ScheduledByAnEnd /\ NamedRows
  BY DEF HookInit, WordsAreAnswered, EndsClose, ScheduledByAnEnd, NamedRows, Events
<1> QED
  BY <1>1, <1>2, <1>3, <1>4, <1>5 DEF HookInv, IdsAreUnique

LEMMA HookStepKeeps == HookInv /\ [HookNext]_hookVars => HookInv'
<1> SUFFICES ASSUME HookInv, [HookNext]_hookVars PROVE HookInv'
  OBVIOUS
<1>1. ASSUME NEW e \in Events, Claim(e) PROVE HookInv'
  BY <1>1, ClaimKeeps
<1>2. ASSUME NEW e \in Events, Repeat(e) PROVE HookInv'
  BY <1>2, RepeatKeeps
<1>3. ASSUME NEW e \in Events, Serve(e) PROVE HookInv'
  BY <1>3, ReadKeeps, RejectKeeps, CommitVoiceKeeps, CommitEndedKeeps, PublishNextKeeps,
     DispatchKeeps DEF Serve
<1>4. ASSUME NEW e \in Events, CrashHook(e) PROVE HookInv'
  BY <1>4, CrashHookKeeps
<1>5. ASSUME NEW s \in Threads, StartThread(s) PROVE HookInv'
  BY <1>5, StartThreadKeeps
<1>6. ASSUME NEW i \in Slots, Outlast(i) PROVE HookInv'
  BY <1>6, OutlastKeeps
<1>7. ASSUME UNCHANGED hookVars PROVE HookInv'
  <2>1. UNCHANGED <<rows, claimed, acked, hook, turns, frames, scheduled, faults, timeouts, aged>>
    BY <1>7 DEF hookVars
  <2>2. TypeOK' /\ RowsAreFew' /\ IdsAreUnique'
    BY <2>1 DEF HookInv, TypeOK, RowsAreFew, IdsAreUnique, Settled, Begun, WithId
  <2>3. HooksFit' /\ WordsAreAnswered' /\ EndsClose' /\ ScheduledByAnEnd' /\ SentInOrder'
    BY <2>1 DEF HookInv, HooksFit, WordsAreAnswered, EndsClose, ScheduledByAnEnd, SentInOrder, At
  <2>4. NamedRows'
    BY <2>1 DEF HookInv, NamedRows, Contested, ApCallId
  <2> QED
    BY <2>2, <2>3, <2>4 DEF HookInv
<1> QED
  BY <1>1, <1>2, <1>3, <1>4, <1>5, <1>6, <1>7 DEF HookNext

THEOREM HookInvariance == HookSpec => []HookInv
<1> QED
  BY HookInitKeeps, HookStepKeeps, PTL DEF HookSpec

LEMMA HookInvIsOneRowPerCall == HookInv => OneRowPerCall
<1> SUFFICES ASSUME HookInv PROVE OneRowPerCall
  OBVIOUS
<1>1. NamedTogether
  <2> SUFFICES ASSUME NEW i \in Slots, NEW j \in Slots, NEW e \in turns[i] \cap Named, NEW f \in turns[j] \cap Named,
                      CallOf[e] = CallOf[f], Contested(i) \cup Contested(j) \subseteq {CallOf[e]}
               PROVE  i = j
    BY DEF NamedTogether
  <2>1. e \in Voice \cap Named /\ f \in Voice \cap Named /\ e \in Events /\ f \in Events
    BY DEF HookInv, TypeOK, Events
  <2>2. hook[e].row = i /\ hook[f].row = j /\ i # 0 /\ j # 0
    BY SlotNumbers DEF HookInv, WordsAreAnswered
  <2>3. rows[i].id = ApCallId(e) /\ rows[j].id = ApCallId(f)
    BY <2>1, <2>2 DEF HookInv, NamedRows
  <2>4. ApCallId(e) = ApCallId(f)
    BY <2>1 DEF ApCallId
  <2>5. i \in DOMAIN rows /\ j \in DOMAIN rows
    BY <2>1, <2>2, Rows, SlotNumbers DEF HookInv, HooksFit, TypeOK, Hook
  <2> QED
    BY <2>3, <2>4, <2>5 DEF HookInv, IdsAreUnique
<1>2. ScheduledIsEnded
  <2> SUFFICES ASSUME NEW i \in scheduled, ~ \E e \in Ended \cap Unresolvable : hook[e].row = i
               PROVE  rows[i].status = "ended"
    BY DEF ScheduledIsEnded
  <2>1. PICK e \in Ended : hook[e].pc = "answered" /\ hook[e].row = i
    BY DEF HookInv, ScheduledByAnEnd, At
  <2> QED
    BY <2>1 DEF HookInv, EndsClose
<1> QED
  BY <1>1, <1>2 DEF HookInv, OneRowPerCall

(* However the deliveries of any number of calls interleave, repeat, die    *)
(* and are refused, the turns that carried their call's id are in one row   *)
(* (unless another call's end was about to rename it), and what is          *)
(* scheduled has ended: materialize_scope_and_call on its unique index.     *)
THEOREM RowsAreCalls == HookSpec => []OneRowPerCall
<1> QED
  BY HookInvariance, HookInvIsOneRowPerCall, PTL

-----------------------------------------------------------------------------
(* The job *)

One(p) == IF p THEN 1 ELSE 0

(* What a run of the job may have done by now it did at most once; the runs *)
(* before it each ended with a worker's death.                              *)
CountedFor(i) ==
  /\ timeline[i] <= breaks + One("brain" \in gathered[i])
  /\ memory[i] <= breaks + One("memory" \in gathered[i])
  /\ items[i] <= breaks + One(job[i] \in {"itemised", "announced", "done"})
  /\ mails[i] <= breaks + One(job[i] = "done")

HasEffects(i) ==
  timeline[i] > 0 \/ memory[i] > 0 \/ items[i] > 0 \/ ready[i] # <<>> \/ summary[i] # <<>>

(* The job runs when it is scheduled, and goes beyond its status check, or  *)
(* has gone there in an earlier run, only for a call that has ended.        *)
OverFirst(i) ==
  /\ job[i] # "idle" => i \in scheduled
  /\ job[i] \notin {"idle", "done"} \/ HasEffects(i) => i \in scheduled /\ rows[i].status = "ended"

PostInv == PostTypeOK /\ \A i \in Slots : CountedFor(i) /\ OverFirst(i)

(* What the requests do to what the job relies on.                          *)
LEMMA OverStays ==
  ASSUME HookInv, [HookNext]_hookVars
  PROVE  /\ scheduled \subseteq scheduled'
         /\ \A i \in DOMAIN rows : rows[i].status = "ended" => rows'[i].status = "ended"
<1>1. ASSUME NEW e \in Events, Claim(e) \/ Repeat(e) \/ CrashHook(e) \/ Read(e) \/ Reject(e) \/ PublishNext(e)
      PROVE  UNCHANGED <<scheduled, rows>>
  BY <1>1 DEF Claim, Repeat, CrashHook, Read, Reject, PublishNext
<1>2. ASSUME NEW e \in Events, Dispatch(e) PROVE rows' = rows /\ scheduled \subseteq scheduled'
  BY <1>2 DEF Dispatch
<1>3. ASSUME NEW e \in Events, NEW st \in {"in_progress", "ended"}, Insert(e, st)
      PROVE  \A i \in DOMAIN rows : rows'[i] = rows[i]
  BY <1>3, RowInserted DEF HookInv
<1>4. ASSUME NEW e \in Events, CommitVoice(e)
      PROVE  scheduled' = scheduled /\ \A i \in DOMAIN rows : rows'[i] = rows[i]
  BY <1>3, <1>4 DEF CommitVoice
<1>5. ASSUME NEW e \in Events, CommitEnded(e)
      PROVE  scheduled' = scheduled /\ \A i \in DOMAIN rows : rows[i].status = "ended" => rows'[i].status = "ended"
  <2>1. scheduled' = scheduled
    BY <1>5 DEF CommitEnded
  <2>2. CASE hook[e].row = 0
    BY <1>3, <1>5, <2>1, <2>2 DEF CommitEnded
  <2>3. CASE hook[e].row # 0
    <3>1. hook[e].row \in DOMAIN rows
      BY <2>3, Rows, SlotNumbers DEF HookInv, HooksFit, TypeOK, Hook
    <3>2. Close(e, hook[e].row)
      BY <1>5, <2>3 DEF CommitEnded
    <3> QED
      BY <2>1, <3>1, <3>2, RowClosed DEF HookInv
  <2> QED
    BY <2>2, <2>3
<1>6. ASSUME NEW s \in Threads, StartThread(s)
      PROVE  scheduled' = scheduled /\ \A i \in DOMAIN rows : rows'[i] = rows[i]
  <2> DEFINE r == [id |-> <<"sms", s>>, status |-> "in_progress", recent |-> TRUE]
  <2>1. r \in Row /\ rows' = Append(rows, r) /\ scheduled' = scheduled
    BY <1>6 DEF StartThread, Row, Ids
  <2> HIDE DEF r
  <2> QED
    BY <2>1, RowAdded DEF HookInv
<1>7. ASSUME NEW i \in Slots, Outlast(i)
      PROVE  scheduled' = scheduled /\ \A j \in DOMAIN rows : rows'[j].status = rows[j].status
  <2>1. i \in DOMAIN rows /\ rows' = [rows EXCEPT ![i].recent = FALSE] /\ scheduled' = scheduled
    BY <1>7 DEF Outlast, Open
  <2> QED
    BY <2>1, RowOutlasted DEF HookInv
<1>8. ASSUME UNCHANGED hookVars PROVE UNCHANGED <<scheduled, rows>>
  BY <1>8 DEF hookVars
<1> QED
  BY <1>1, <1>2, <1>4, <1>5, <1>6, <1>7, <1>8 DEF HookNext, Serve

LEMMA RequestsKeepPost ==
  ASSUME HookInv, PostInv, [HookNext]_hookVars, UNCHANGED postVars
  PROVE  PostInv'
<1>1. UNCHANGED <<job, read, summary, gathered, timeline, memory, items, ready, mails, breaks, fails>>
  BY DEF postVars
<1>2. PostTypeOK'
  BY <1>1 DEF PostInv, PostTypeOK
<1>3. ASSUME NEW i \in Slots PROVE CountedFor(i)' /\ OverFirst(i)'
  <2>1. scheduled \subseteq DOMAIN rows
    BY DEF HookInv, TypeOK
  <2>2. /\ i \in scheduled => i \in scheduled'
        /\ i \in scheduled /\ rows[i].status = "ended" => rows'[i].status = "ended"
    BY <2>1, OverStays
  <2>3. CountedFor(i)'
    BY <1>1 DEF PostInv, CountedFor
  <2>4. OverFirst(i)'
    BY <1>1, <2>2 DEF PostInv, OverFirst, HasEffects
  <2> QED
    BY <2>3, <2>4
<1> QED
  BY <1>2, <1>3 DEF PostInv

(* A step of one call's job: the others are as they were.                   *)
LEMMA OneJob ==
  ASSUME PostInv, NEW i \in Slots, PostTypeOK', CountedFor(i)', OverFirst(i)',
         breaks' \in {breaks, breaks + 1}, UNCHANGED <<rows, scheduled>>,
         \A j \in Slots \ {i} :
           /\ job'[j] = job[j] /\ gathered'[j] = gathered[j] /\ timeline'[j] = timeline[j]
           /\ memory'[j] = memory[j] /\ items'[j] = items[j] /\ mails'[j] = mails[j]
           /\ ready'[j] = ready[j] /\ summary'[j] = summary[j]
  PROVE  PostInv'
<1> SUFFICES ASSUME NEW j \in Slots, j # i PROVE CountedFor(j)' /\ OverFirst(j)'
  BY DEF PostInv
<1>1. /\ timeline[j] \in Nat /\ memory[j] \in Nat /\ items[j] \in Nat /\ mails[j] \in Nat /\ breaks \in Nat
      /\ breaks <= breaks' /\ breaks' \in Nat
  BY BoundsAssumption DEF PostInv, PostTypeOK, Runs
<1>2. CountedFor(j) /\ OverFirst(j)
  BY DEF PostInv
<1>3. CountedFor(j)'
  BY <1>1, <1>2 DEF CountedFor, One
<1>4. OverFirst(j)'
  BY <1>2 DEF OverFirst, HasEffects
<1> QED
  BY <1>3, <1>4

LEMMA Becomes ==
  ASSUME PostTypeOK, NEW i \in Slots, NEW p \in JobPhases, Become(i, p)
  PROVE  job' \in [Slots -> JobPhases] /\ job'[i] = p /\ \A j \in Slots \ {i} : job'[j] = job[j]
  BY DEF PostTypeOK, Become

LEMMA Ups ==
  ASSUME NEW f \in [Slots -> Runs], NEW i \in Slots, f[i] <= MaxBreaks, NEW g, g = Up(f, i) \/ g = f
  PROVE  g \in [Slots -> Runs] /\ g[i] \in {f[i], f[i] + 1} /\ \A j \in Slots \ {i} : g[j] = f[j]
  BY BoundsAssumption DEF Up, Runs

LEMMA PostNumbers ==
  ASSUME PostTypeOK, NEW i \in Slots
  PROVE  /\ timeline[i] \in Nat /\ memory[i] \in Nat /\ items[i] \in Nat /\ mails[i] \in Nat
         /\ breaks \in Nat /\ fails \in Nat /\ breaks <= MaxBreaks /\ MaxBreaks \in Nat /\ MaxFails \in Nat
         /\ job[i] \in JobPhases
  BY BoundsAssumption DEF PostTypeOK, Runs

LEMMA LoadKeeps == ASSUME HookInv, PostInv, NEW i \in Slots, Load(i) PROVE PostInv'
<1>1. /\ i \in scheduled /\ job[i] = "idle" /\ read' = [read EXCEPT ![i] = turns[i]]
      /\ UNCHANGED <<summary, gathered, timeline, memory, items, mails, breaks, fails, scheduled, rows>>
  BY DEF Load, hookVars
<1>2. read' \in [Slots -> SUBSET Voice]
  BY <1>1 DEF HookInv, TypeOK, PostInv, PostTypeOK
<1>3. PICK p \in {"loaded", "done"} : Become(i, p) /\ (p = "loaded" => ready' = ready /\ rows[i].status = "ended")
  BY DEF Load
<1>4. job' \in [Slots -> JobPhases] /\ job'[i] = p /\ \A j \in Slots \ {i} : job'[j] = job[j]
  BY <1>3, Becomes DEF PostInv, JobPhases
<1>5. ready' = ready \/ (rows[i].status = "ended" /\ ready' = [ready EXCEPT ![i] = Append(@, FALSE)])
  BY DEF Load, Announce
<1>6. /\ ready' \in [Slots -> Seq(BOOLEAN)] /\ \A j \in Slots \ {i} : ready'[j] = ready[j]
      /\ ready'[i] = ready[i] \/ rows[i].status = "ended"
  <2>1. \A q \in Seq(BOOLEAN) : Append(q, FALSE) \in Seq(BOOLEAN)
    OBVIOUS
  <2>2. ready \in [Slots -> Seq(BOOLEAN)]
    BY DEF PostInv, PostTypeOK
  <2> QED
    BY <1>5, <2>1, <2>2
<1>7. PostTypeOK'
  BY <1>1, <1>2, <1>4, <1>6 DEF PostInv, PostTypeOK
<1>8. CountedFor(i) /\ OverFirst(i)
  BY DEF PostInv
<1>9. CountedFor(i)'
  BY <1>1, <1>3, <1>4, <1>8, PostNumbers DEF CountedFor, One, PostInv
<1>10. OverFirst(i)'
  BY <1>1, <1>3, <1>4, <1>6, <1>8 DEF OverFirst, HasEffects
<1> QED
  BY <1>1, <1>4, <1>6, <1>7, <1>9, <1>10, OneJob

LEMMA SummariseKeeps == ASSUME PostInv, NEW i \in Slots, Summarise(i) PROVE PostInv'
<1>1. /\ job[i] = "loaded" /\ fails' \in 0..MaxFails
      /\ UNCHANGED <<read, summary, gathered, timeline, memory, items, ready, mails, breaks, scheduled, rows>>
  BY PostNumbers DEF Summarise, hookVars, Fail, PostInv, PostTypeOK
<1>2. PICK p \in {"summarised", "failed"} : Become(i, p)
  BY DEF Summarise
<1>3. job' \in [Slots -> JobPhases] /\ job'[i] = p /\ \A j \in Slots \ {i} : job'[j] = job[j]
  BY <1>2, Becomes DEF PostInv, JobPhases
<1>4. PostTypeOK'
  BY <1>1, <1>3 DEF PostInv, PostTypeOK
<1>5. CountedFor(i) /\ OverFirst(i)
  BY DEF PostInv
<1>6. CountedFor(i)' /\ OverFirst(i)'
  BY <1>1, <1>3, <1>5 DEF CountedFor, One, OverFirst, HasEffects
<1> QED
  BY <1>1, <1>3, <1>4, <1>6, OneJob

LEMMA StoreSummaryKeeps == ASSUME PostInv, NEW i \in Slots, StoreSummary(i) PROVE PostInv'
<1>1. /\ job[i] = "summarised" /\ Become(i, "stored") /\ fails' \in 0..MaxFails
      /\ summary' = summary \/ summary' = [summary EXCEPT ![i] = Append(@, read[i])]
      /\ UNCHANGED <<read, gathered, timeline, memory, items, ready, mails, breaks, scheduled, rows>>
  BY PostNumbers DEF StoreSummary, hookVars, Fail, PostInv, PostTypeOK
<1>2. job' \in [Slots -> JobPhases] /\ job'[i] = "stored" /\ \A j \in Slots \ {i} : job'[j] = job[j]
  BY <1>1, Becomes DEF PostInv, JobPhases
<1>3. summary' \in [Slots -> Seq(SUBSET Voice)] /\ \A j \in Slots \ {i} : summary'[j] = summary[j]
  <2>1. read[i] \in SUBSET Voice /\ summary \in [Slots -> Seq(SUBSET Voice)]
    BY DEF PostInv, PostTypeOK
  <2>2. \A q \in Seq(SUBSET Voice) : Append(q, read[i]) \in Seq(SUBSET Voice)
    BY <2>1
  <2> QED
    BY <1>1, <2>1, <2>2
<1>4. PostTypeOK'
  BY <1>1, <1>2, <1>3 DEF PostInv, PostTypeOK
<1>5. CountedFor(i) /\ OverFirst(i)
  BY DEF PostInv
<1>6. CountedFor(i)' /\ OverFirst(i)'
  BY <1>1, <1>2, <1>5 DEF CountedFor, One, OverFirst, HasEffects
<1> QED
  BY <1>1, <1>2, <1>3, <1>4, <1>6, OneJob

LEMMA GatherIs ==
  ASSUME PostInv, NEW i \in Slots, NEW w \in {"brain", "memory"}, Gather(i, w)
  PROVE  /\ job[i] = "stored" /\ w \notin gathered[i] /\ gathered'[i] = gathered[i] \cup {w}
         /\ gathered' \in [Slots -> SUBSET {"brain", "memory"}]
         /\ job' \in [Slots -> JobPhases] /\ job'[i] \in {"stored", "fanned"}
         /\ \A j \in Slots \ {i} : gathered'[j] = gathered[j] /\ job'[j] = job[j]
<1>1. /\ gathered'[i] = gathered[i] \cup {w} /\ gathered' \in [Slots -> SUBSET {"brain", "memory"}]
      /\ job[i] = "stored" /\ w \notin gathered[i]
      /\ \A j \in Slots \ {i} : gathered'[j] = gathered[j]
  BY DEF Gather, PostInv, PostTypeOK
<1>2. CASE Become(i, "fanned")
  BY <1>1, <1>2, Becomes DEF PostInv, JobPhases
<1>3. CASE job' = job
  BY <1>1, <1>3 DEF PostInv, PostTypeOK
<1> QED
  BY <1>2, <1>3 DEF Gather

LEMMA UpdateBrainKeeps == ASSUME PostInv, NEW i \in Slots, UpdateBrain(i) PROVE PostInv'
<1>1. /\ Gather(i, "brain") /\ (timeline' = Up(timeline, i) \/ timeline' = timeline)
      /\ UNCHANGED <<read, summary, memory, items, ready, mails, breaks, fails, scheduled, rows>>
  BY DEF UpdateBrain, hookVars
<1>2. PICK w \in {"brain", "memory"} : w = "brain"
  OBVIOUS
<1>3. /\ job[i] = "stored" /\ "brain" \notin gathered[i] /\ gathered'[i] = gathered[i] \cup {"brain"}
      /\ gathered' \in [Slots -> SUBSET {"brain", "memory"}]
      /\ job' \in [Slots -> JobPhases] /\ job'[i] \in {"stored", "fanned"}
      /\ \A j \in Slots \ {i} : gathered'[j] = gathered[j] /\ job'[j] = job[j]
  BY <1>1, <1>2, GatherIs
<1>4. CountedFor(i) /\ OverFirst(i) /\ PostTypeOK
  BY DEF PostInv
<1>5. timeline[i] <= breaks /\ timeline \in [Slots -> Runs] /\ timeline[i] <= MaxBreaks
  BY <1>3, <1>4, PostNumbers DEF CountedFor, One, PostTypeOK
<1>6. /\ timeline' \in [Slots -> Runs] /\ timeline'[i] \in {timeline[i], timeline[i] + 1}
      /\ \A j \in Slots \ {i} : timeline'[j] = timeline[j]
  BY <1>1, <1>5, Ups
<1>7. PostTypeOK'
  BY <1>1, <1>3, <1>4, <1>6 DEF PostTypeOK
<1>8. CountedFor(i)'
  BY <1>1, <1>3, <1>4, <1>5, <1>6, PostNumbers DEF CountedFor, One
<1>9. OverFirst(i)'
  BY <1>1, <1>3, <1>4 DEF OverFirst, HasEffects
<1> QED
  BY <1>1, <1>3, <1>6, <1>7, <1>8, <1>9, OneJob

LEMMA WriteMemoryKeeps == ASSUME PostInv, NEW i \in Slots, WriteMemory(i) PROVE PostInv'
<1>1. /\ Gather(i, "memory") /\ (memory' = Up(memory, i) \/ memory' = memory)
      /\ UNCHANGED <<read, summary, timeline, items, ready, mails, breaks, fails, scheduled, rows>>
  BY DEF WriteMemory, hookVars
<1>2. PICK w \in {"brain", "memory"} : w = "memory"
  OBVIOUS
<1>3. /\ job[i] = "stored" /\ "memory" \notin gathered[i] /\ gathered'[i] = gathered[i] \cup {"memory"}
      /\ gathered' \in [Slots -> SUBSET {"brain", "memory"}]
      /\ job' \in [Slots -> JobPhases] /\ job'[i] \in {"stored", "fanned"}
      /\ \A j \in Slots \ {i} : gathered'[j] = gathered[j] /\ job'[j] = job[j]
  BY <1>1, <1>2, GatherIs
<1>4. CountedFor(i) /\ OverFirst(i) /\ PostTypeOK
  BY DEF PostInv
<1>5. memory[i] <= breaks /\ memory \in [Slots -> Runs] /\ memory[i] <= MaxBreaks
  BY <1>3, <1>4, PostNumbers DEF CountedFor, One, PostTypeOK
<1>6. /\ memory' \in [Slots -> Runs] /\ memory'[i] \in {memory[i], memory[i] + 1}
      /\ \A j \in Slots \ {i} : memory'[j] = memory[j]
  BY <1>1, <1>5, Ups
<1>7. PostTypeOK'
  BY <1>1, <1>3, <1>4, <1>6 DEF PostTypeOK
<1>8. CountedFor(i)'
  BY <1>1, <1>3, <1>4, <1>5, <1>6, PostNumbers DEF CountedFor, One
<1>9. OverFirst(i)'
  BY <1>1, <1>3, <1>4 DEF OverFirst, HasEffects
<1> QED
  BY <1>1, <1>3, <1>6, <1>7, <1>8, <1>9, OneJob

LEMMA SaveItemsKeeps == ASSUME PostInv, NEW i \in Slots, SaveItems(i) PROVE PostInv'
<1>1. /\ job[i] = "fanned" /\ Become(i, "itemised") /\ (items' = Up(items, i) \/ items' = items)
      /\ UNCHANGED <<read, summary, gathered, timeline, memory, ready, mails, breaks, fails, scheduled, rows>>
  BY DEF SaveItems, hookVars
<1>2. job' \in [Slots -> JobPhases] /\ job'[i] = "itemised" /\ \A j \in Slots \ {i} : job'[j] = job[j]
  BY <1>1, Becomes DEF PostInv, JobPhases
<1>3. CountedFor(i) /\ OverFirst(i) /\ PostTypeOK
  BY DEF PostInv
<1>4. items[i] <= breaks /\ items \in [Slots -> Runs] /\ items[i] <= MaxBreaks
  BY <1>1, <1>3, PostNumbers DEF CountedFor, One, PostTypeOK
<1>5. /\ items' \in [Slots -> Runs] /\ items'[i] \in {items[i], items[i] + 1}
      /\ \A j \in Slots \ {i} : items'[j] = items[j]
  BY <1>1, <1>4, Ups
<1>6. PostTypeOK'
  BY <1>1, <1>2, <1>3, <1>5 DEF PostTypeOK
<1>7. CountedFor(i)'
  BY <1>1, <1>2, <1>3, <1>4, <1>5, PostNumbers DEF CountedFor, One
<1>8. OverFirst(i)'
  BY <1>1, <1>2, <1>3 DEF OverFirst, HasEffects
<1> QED
  BY <1>1, <1>2, <1>5, <1>6, <1>7, <1>8, OneJob

LEMMA PublishReadyKeeps == ASSUME PostInv, NEW i \in Slots, PublishReady(i) PROVE PostInv'
<1>1. /\ job[i] = "itemised" /\ Become(i, "announced") /\ ready' = [ready EXCEPT ![i] = Append(@, TRUE)]
      /\ UNCHANGED <<read, summary, gathered, timeline, memory, items, mails, breaks, fails, scheduled, rows>>
  BY DEF PublishReady, Announce, hookVars
<1>2. job' \in [Slots -> JobPhases] /\ job'[i] = "announced" /\ \A j \in Slots \ {i} : job'[j] = job[j]
  BY <1>1, Becomes DEF PostInv, JobPhases
<1>3. CountedFor(i) /\ OverFirst(i) /\ PostTypeOK
  BY DEF PostInv
<1>4. ready' \in [Slots -> Seq(BOOLEAN)] /\ \A j \in Slots \ {i} : ready'[j] = ready[j]
  <2>1. \A q \in Seq(BOOLEAN) : Append(q, TRUE) \in Seq(BOOLEAN)
    OBVIOUS
  <2> QED
    BY <1>1, <1>3, <2>1 DEF PostTypeOK
<1>5. PostTypeOK'
  BY <1>1, <1>2, <1>3, <1>4 DEF PostTypeOK
<1>6. CountedFor(i)' /\ OverFirst(i)'
  BY <1>1, <1>2, <1>3 DEF CountedFor, One, OverFirst, HasEffects
<1> QED
  BY <1>1, <1>2, <1>4, <1>5, <1>6, OneJob

LEMMA EnqueueEmailsKeeps == ASSUME PostInv, NEW i \in Slots, EnqueueEmails(i) PROVE PostInv'
<1>1. /\ job[i] = "announced" /\ Become(i, "done") /\ fails' \in 0..MaxFails
      /\ mails' = Up(mails, i) \/ mails' = mails
      /\ UNCHANGED <<read, summary, gathered, timeline, memory, items, ready, breaks, scheduled, rows>>
  BY PostNumbers DEF EnqueueEmails, hookVars, Fail, PostInv, PostTypeOK
<1>2. job' \in [Slots -> JobPhases] /\ job'[i] = "done" /\ \A j \in Slots \ {i} : job'[j] = job[j]
  BY <1>1, Becomes DEF PostInv, JobPhases
<1>3. CountedFor(i) /\ OverFirst(i) /\ PostTypeOK
  BY DEF PostInv
<1>4. mails[i] <= breaks /\ mails \in [Slots -> Runs] /\ mails[i] <= MaxBreaks
  BY <1>1, <1>3, PostNumbers DEF CountedFor, One, PostTypeOK
<1>5. /\ mails' \in [Slots -> Runs] /\ mails'[i] \in {mails[i], mails[i] + 1}
      /\ \A j \in Slots \ {i} : mails'[j] = mails[j]
  BY <1>1, <1>4, Ups
<1>6. PostTypeOK'
  BY <1>1, <1>2, <1>3, <1>5 DEF PostTypeOK
<1>7. CountedFor(i)'
  BY <1>1, <1>2, <1>3, <1>4, <1>5, PostNumbers DEF CountedFor, One
<1>8. OverFirst(i)'
  BY <1>1, <1>2, <1>3 DEF OverFirst, HasEffects
<1> QED
  BY <1>1, <1>2, <1>5, <1>6, <1>7, <1>8, OneJob

LEMMA CrashJobKeeps == ASSUME PostInv, NEW i \in Slots, CrashJob(i) PROVE PostInv'
<1>1. /\ job[i] \notin {"idle", "done", "failed"} /\ Become(i, "idle") /\ breaks < MaxBreaks
      /\ breaks' = breaks + 1 /\ gathered' = [gathered EXCEPT ![i] = {}]
      /\ UNCHANGED <<read, summary, timeline, memory, items, ready, mails, fails, scheduled, rows>>
  BY DEF CrashJob, hookVars
<1>2. job' \in [Slots -> JobPhases] /\ job'[i] = "idle" /\ \A j \in Slots \ {i} : job'[j] = job[j]
  BY <1>1, Becomes DEF PostInv, JobPhases
<1>3. CountedFor(i) /\ OverFirst(i) /\ PostTypeOK
  BY DEF PostInv
<1>4. /\ gathered' \in [Slots -> SUBSET {"brain", "memory"}] /\ gathered'[i] = {}
      /\ \A j \in Slots \ {i} : gathered'[j] = gathered[j]
  BY <1>1, <1>3 DEF PostTypeOK
<1>5. breaks' \in 0..MaxBreaks
  BY <1>1, <1>3, PostNumbers
<1>6. PostTypeOK'
  BY <1>1, <1>2, <1>3, <1>4, <1>5 DEF PostTypeOK
<1>7. CountedFor(i)'
  BY <1>1, <1>2, <1>3, <1>4, PostNumbers DEF CountedFor, One
<1>8. OverFirst(i)'
  BY <1>1, <1>2, <1>3 DEF OverFirst, HasEffects
<1> QED
  BY <1>1, <1>2, <1>4, <1>6, <1>7, <1>8, OneJob

LEMMA PostInitKeeps == PostInit => PostInv
  BY BoundsAssumption DEF PostInit, PostInv, PostTypeOK, CountedFor, OverFirst, HasEffects, One, Runs, JobPhases

LEMMA WorkLeavesRequests ==
  ASSUME HookInv, NEW i \in Slots, Work(i) \/ CrashJob(i)
  PROVE  UNCHANGED hookVars
  BY DEF Work, CrashJob, Load, Summarise, StoreSummary, UpdateBrain, WriteMemory, SaveItems,
     PublishReady, EnqueueEmails

LEMMA StepKeeps == HookInv /\ PostInv /\ [Next]_vars => HookInv' /\ PostInv'
<1> SUFFICES ASSUME HookInv, PostInv, [Next]_vars PROVE HookInv' /\ PostInv'
  OBVIOUS
<1>1. CASE [HookNext]_hookVars /\ UNCHANGED postVars
  BY <1>1, HookStepKeeps, RequestsKeepPost
<1>2. ASSUME NEW i \in Slots, Work(i) \/ CrashJob(i) PROVE HookInv' /\ PostInv'
  <2>1. HookInv'
    BY <1>2, WorkLeavesRequests, HookStepKeeps
  <2>2. PostInv'
    BY <1>2, LoadKeeps, SummariseKeeps, StoreSummaryKeeps, UpdateBrainKeeps, WriteMemoryKeeps,
       SaveItemsKeeps, PublishReadyKeeps, EnqueueEmailsKeeps, CrashJobKeeps DEF Work
  <2> QED
    BY <2>1, <2>2
<1> QED
  BY <1>1, <1>2 DEF Next, vars

THEOREM Invariance == Spec => [](HookInv /\ PostInv)
<1>1. Init => HookInv /\ PostInv
  BY HookInitKeeps, PostInitKeeps DEF Init
<1> QED
  BY <1>1, StepKeeps, PTL DEF Spec

(* However often the worker dies and whatever fails, a call's action items, *)
(* its digest in the Rep's memory and its emails come at most once for each *)
(* time post_call_job was taken up: arq knows the job's id.                 *)
THEOREM EffectsAreCounted == Spec => []EffectsOnce
<1>1. PostInv => EffectsOnce
  <2> SUFFICES ASSUME PostInv, NEW i \in Slots
               PROVE  items[i] <= 1 + breaks /\ memory[i] <= 1 + breaks /\ mails[i] <= 1 + breaks
    BY DEF EffectsOnce
  <2>1. CountedFor(i) /\ PostTypeOK
    BY DEF PostInv
  <2> QED
    BY <2>1, PostNumbers DEF CountedFor, One
<1> QED
  BY <1>1, Invariance, PTL

(* Under any interleaving of requests, jobs and deaths, nothing is derived  *)
(* from a call before it is over: the job's status check is kept by what    *)
(* an end has committed.                                                    *)
THEOREM NothingComesEarly == Spec => [](PostTypeOK /\ NothingBeforeTheEnd)
<1>1. PostInv => PostTypeOK /\ NothingBeforeTheEnd
  BY DEF PostInv, OverFirst, HasEffects, NothingBeforeTheEnd
<1> QED
  BY <1>1, Invariance, PTL

-----------------------------------------------------------------------------
(* What a step does to requests, rows and frames: one request moves, or     *)
(* something around them happens                                            *)

Others(e) == \A f \in Events \ {e} : hook'[f] = hook[f]
Keeps(e)  == /\ hook'[e].row = hook[e].row /\ hook'[e].rename = hook[e].rename
             /\ hook'[e].frames = hook[e].frames
Passes(e, p, q) == Others(e) /\ hook[e].pc = p /\ hook'[e].pc = q
Still     == rows' = rows /\ frames' = frames

Claims(e) == /\ Passes(e, "idle", "claimed") /\ Keeps(e) /\ Still
             /\ e \notin claimed /\ After[e] \subseteq acked /\ hook[e].row = 0
Reads(e)  == /\ Passes(e, "claimed", "read") /\ Still /\ hook'[e].frames = hook[e].frames
             /\ hook'[e].row = Target(e) /\ hook'[e].rename = (e \in Ended \cap Named /\ Known(e) = {})
Finds(e)  == /\ Passes(e, "claimed", "committed") /\ Still /\ hook'[e].frames = <<>> /\ ~hook'[e].rename
             /\ e \in Ended \cap Named
             /\ hook'[e].row \in DOMAIN rows /\ rows[hook'[e].row].id = ApCallId(e)
Joins(e)  == /\ Passes(e, "read", "committed") /\ Still /\ hook'[e].frames = <<>>
             /\ e \in Voice /\ hook[e].row # 0 /\ hook'[e].row = hook[e].row /\ hook'[e].rename = hook[e].rename
Stops(e)  == /\ Others(e) /\ Keeps(e) /\ Still
             /\ hook'[e].pc \notin {"idle", "claimed", "read", "committed"}
             /\ hook'[e].pc = "answered" => hook[e].pc = "committed"
Inserts(e) ==
  /\ Passes(e, "read", "committed") /\ frames' = frames
  /\ hook[e].row = 0 /\ hook'[e].row = Len(rows) + 1 /\ hook'[e].rename = hook[e].rename
  /\ hook'[e].frames = IF e \in Voice THEN <<"started">> ELSE <<"started", "ended">>
  /\ DOMAIN rows' = 1..(Len(rows) + 1) /\ \A i \in DOMAIN rows : rows'[i] = rows[i]
  /\ rows'[Len(rows) + 1].id = IdOf(e) /\ (e \in Ended => rows'[Len(rows) + 1].status = "ended")
Closes(e) ==
  /\ Passes(e, "read", "committed") /\ frames' = frames /\ e \in Ended
  /\ hook[e].row \in DOMAIN rows /\ hook'[e].row = hook[e].row /\ hook'[e].rename = hook[e].rename
  /\ hook'[e].frames = <<"ended">>
  /\ DOMAIN rows' = DOMAIN rows /\ \A i \in DOMAIN rows \ {hook[e].row} : rows'[i] = rows[i]
  /\ rows'[hook[e].row].status = "ended"
  /\ rows'[hook[e].row].id = IF hook[e].rename THEN IdOf(e) ELSE rows[hook[e].row].id
Publishes(e) ==
  /\ Passes(e, "committed", "committed") /\ rows' = rows
  /\ hook'[e].row = hook[e].row /\ hook'[e].rename = hook[e].rename
  /\ hook[e].frames # <<>> /\ hook'[e].frames = Tail(hook[e].frames)
  /\ frames' = [frames EXCEPT ![hook[e].row] = Append(@, Head(hook[e].frames))]
Around ==
  /\ hook' = hook /\ frames' = frames
  /\ \A i \in DOMAIN rows : i \in DOMAIN rows' /\ rows'[i].id = rows[i].id /\ rows'[i].status = rows[i].status
  /\ \A i \in DOMAIN rows' \ DOMAIN rows : rows'[i].id[1] = "sms"

Moves(e) == Claims(e) \/ Reads(e) \/ Finds(e) \/ Joins(e) \/ Stops(e) \/ Inserts(e) \/ Closes(e) \/ Publishes(e)

LEMMA Effects ==
  ASSUME HookInv, [HookNext]_hookVars
  PROVE  Around \/ \E e \in Events : Moves(e)
<1>1. ASSUME NEW e \in Events, Claim(e) PROVE Claims(e)
  <2>1. Goto(e, "claimed") /\ Still /\ e \notin claimed /\ After[e] \subseteq acked
    BY <1>1 DEF Claim, Still
  <2>2. Others(e) /\ Keeps(e) /\ hook'[e].pc = "claimed"
    BY <2>1, Goes DEF HookInv, HookPcs, Others, Keeps
  <2>3. hook[e].pc = "idle" /\ hook[e].row = 0
    BY <2>1 DEF HookInv, HooksFit, At
  <2> QED
    BY <2>1, <2>2, <2>3 DEF Claims, Passes
<1>2. ASSUME NEW e \in Events, Repeat(e) PROVE Around
  BY <1>2 DEF Repeat, Around
<1>3. ASSUME NEW e \in Events, NEW p \in {"answered", "refused", "error", "dead"}, Goto(e, p), Still,
             p = "answered" => hook[e].pc = "committed"
      PROVE  Stops(e)
  BY <1>3, Goes DEF HookInv, HookPcs, Stops, Others, Keeps
<1>4. ASSUME NEW e \in Events, Read(e) PROVE Reads(e) \/ Finds(e) \/ Stops(e)
  <2>1. hook[e].pc = "claimed" /\ Still /\ ~hook[e].rename
    BY <1>4 DEF Read, Still, HookInv, HooksFit, At
  <2>2. CASE hook' = [hook EXCEPT ![e].pc = "read", ![e].row = Target(e),
                          ![e].rename = e \in Ended \cap Named /\ Known(e) = {}]
    BY <2>1, <2>2 DEF HookInv, TypeOK, Hook, Reads, Passes, Others
  <2>3. CASE e \in Ended /\ Known(e) # {} /\ Settle(e, Newest(Known(e)), <<>>)
    <3>1. /\ Newest(Known(e)) \in DOMAIN rows /\ rows[Newest(Known(e))].id = ApCallId(e)
          /\ Newest(Known(e)) \in 0..MaxRows /\ e \in Named /\ <<>> \in Seq({"started", "ended"})
      BY <2>3, TargetIs, Rows, SlotNumbers DEF HookInv
    <3>2. /\ hook'[e].pc = "committed" /\ hook'[e].row = Newest(Known(e)) /\ hook'[e].rename = hook[e].rename
          /\ hook'[e].frames = <<>> /\ Others(e)
      BY <2>3, <3>1, Settles DEF HookInv, Others
    <3> QED
      BY <2>1, <2>3, <3>1, <3>2 DEF Finds, Passes
  <2>4. CASE Goto(e, "refused")
    BY <1>3, <2>1, <2>4
  <2> QED
    BY <1>4, <2>2, <2>3, <2>4 DEF Read
<1>5. ASSUME NEW e \in Events, Reject(e) \/ CrashHook(e) \/ Dispatch(e) PROVE Stops(e)
  BY <1>3, <1>5 DEF Reject, CrashHook, Dispatch, Still, At
<1>6. ASSUME NEW e \in Events, CommitVoice(e) \/ CommitEnded(e), hook[e].row = 0 PROVE Inserts(e)
  <2>1. hook[e].pc = "read" /\ frames' = frames /\ (e \in Voice <=> CommitVoice(e))
    BY <1>6, ConstantsAssumption DEF CommitVoice, CommitEnded, At
  <2>2. PICK st \in {"in_progress", "ended"}, fs \in {<<"started">>, <<"started", "ended">>} :
          /\ Insert(e, st) /\ Settle(e, Len(rows) + 1, fs) /\ (e \in Ended => st = "ended")
          /\ fs = IF e \in Voice THEN <<"started">> ELSE <<"started", "ended">>
    <3>1. CASE CommitVoice(e)
      <4>1. e \in Voice /\ e \notin Ended
        BY <3>1, ConstantsAssumption DEF CommitVoice
      <4> QED
        BY <1>6, <3>1, <4>1 DEF CommitVoice
    <3>2. CASE CommitEnded(e)
      <4>1. e \notin Voice
        BY <3>2, ConstantsAssumption DEF CommitEnded
      <4> QED
        BY <1>6, <3>2, <4>1 DEF CommitEnded
    <3> QED
      BY <1>6, <3>1, <3>2
  <2>3. fs \in Seq({"started", "ended"}) /\ Len(rows) + 1 \in 0..MaxRows
    <3>1. Cardinality(Settled) < Cardinality(Events)
      BY <2>1, Counts DEF HookInv, Settled
    <3>2. Len(rows) + 1 \in 0..MaxRows
      BY <3>1, Counts, SlotNumbers, Rows DEF HookInv, RowsAreFew
    <3>3. <<"started">> \in Seq({"started", "ended"}) /\ <<"started", "ended">> \in Seq({"started", "ended"})
      OBVIOUS
    <3>4. fs = <<"started">> \/ fs = <<"started", "ended">>
      OBVIOUS
    <3> QED
      BY <3>2, <3>3, <3>4
  <2>4. Others(e) /\ hook'[e].pc = "committed" /\ hook'[e].row = Len(rows) + 1
        /\ hook'[e].rename = hook[e].rename /\ hook'[e].frames = fs
    BY <2>2, <2>3, Settles DEF HookInv, Others
  <2>5. /\ DOMAIN rows' = 1..(Len(rows) + 1) /\ \A i \in DOMAIN rows : rows'[i] = rows[i]
        /\ rows'[Len(rows) + 1].id = IdOf(e) /\ rows'[Len(rows) + 1].status = st
    BY <2>2, RowInserted DEF HookInv
  <2> QED
    BY <1>6, <2>1, <2>2, <2>4, <2>5 DEF Inserts, Passes
<1>7. ASSUME NEW e \in Events, hook[e].row # 0 PROVE hook[e].row \in DOMAIN rows /\ hook[e].row \in 0..MaxRows
  BY <1>7, Rows, SlotNumbers DEF HookInv, HooksFit, TypeOK, Hook
<1>8. ASSUME NEW e \in Events, CommitVoice(e), hook[e].row # 0 PROVE Joins(e)
  <2>1. hook[e].pc = "read" /\ Still /\ e \in Voice /\ Settle(e, hook[e].row, <<>>)
        /\ <<>> \in Seq({"started", "ended"})
    BY <1>8 DEF CommitVoice, At, Still
  <2>2. Others(e) /\ hook'[e].pc = "committed" /\ hook'[e].row = hook[e].row
        /\ hook'[e].rename = hook[e].rename /\ hook'[e].frames = <<>>
    BY <1>7, <1>8, <2>1, Settles DEF HookInv, Others
  <2> QED
    BY <1>8, <2>1, <2>2 DEF Joins, Passes
<1>9. ASSUME NEW e \in Events, CommitEnded(e), hook[e].row # 0 PROVE Closes(e)
  <2>1. hook[e].pc = "read" /\ frames' = frames /\ e \in Ended /\ Settle(e, hook[e].row, <<"ended">>)
        /\ <<"ended">> \in Seq({"started", "ended"}) /\ Close(e, hook[e].row)
    BY <1>9 DEF CommitEnded, At
  <2>2. Others(e) /\ hook'[e].pc = "committed" /\ hook'[e].row = hook[e].row
        /\ hook'[e].rename = hook[e].rename /\ hook'[e].frames = <<"ended">>
    BY <1>7, <1>9, <2>1, Settles DEF HookInv, Others
  <2>3. hook[e].row \in DOMAIN rows
    BY <1>7, <1>9
  <2>4. /\ DOMAIN rows' = DOMAIN rows /\ \A i \in DOMAIN rows \ {hook[e].row} : rows'[i] = rows[i]
        /\ rows'[hook[e].row].status = "ended"
        /\ rows'[hook[e].row].id = IF hook[e].rename THEN IdOf(e) ELSE rows[hook[e].row].id
    BY <2>1, <2>3, RowClosed DEF HookInv
  <2> QED
    BY <2>1, <2>2, <2>3, <2>4 DEF Closes, Passes
<1>10. ASSUME NEW e \in Events, PublishNext(e) PROVE Publishes(e)
  <2>1. /\ hook[e].pc = "committed" /\ hook[e].frames # <<>> /\ rows' = rows
        /\ frames' = [frames EXCEPT ![hook[e].row] = Append(@, Head(hook[e].frames))]
        /\ hook' = [hook EXCEPT ![e].frames = Tail(@)]
    BY <1>10 DEF PublishNext, At
  <2> QED
    BY <2>1 DEF HookInv, TypeOK, Hook, Publishes, Passes, Others
<1>11. ASSUME NEW s \in Threads, StartThread(s) PROVE Around
  <2> DEFINE r == [id |-> <<"sms", s>>, status |-> "in_progress", recent |-> TRUE]
  <2>1. r \in Row /\ rows' = Append(rows, r) /\ hook' = hook /\ frames' = frames /\ r.id[1] = "sms"
    BY <1>11 DEF StartThread, Row, Ids
  <2> HIDE DEF r
  <2>2. /\ DOMAIN rows' = 1..(Len(rows) + 1) /\ \A i \in DOMAIN rows : rows'[i] = rows[i]
        /\ rows'[Len(rows) + 1] = r
    BY <2>1, RowAdded DEF HookInv
  <2>3. DOMAIN rows' = DOMAIN rows \cup {Len(rows) + 1}
    BY <2>2, Rows DEF HookInv
  <2> QED
    BY <2>1, <2>2, <2>3 DEF Around
<1>12. ASSUME NEW i \in Slots, Outlast(i) PROVE Around
  <2>1. i \in DOMAIN rows /\ rows' = [rows EXCEPT ![i].recent = FALSE] /\ hook' = hook /\ frames' = frames
    BY <1>12 DEF Outlast, Open
  <2>2. /\ DOMAIN rows' = DOMAIN rows
        /\ \A j \in DOMAIN rows : rows'[j].id = rows[j].id /\ rows'[j].status = rows[j].status
    BY <2>1, RowOutlasted DEF HookInv
  <2> QED
    BY <2>1, <2>2 DEF Around
<1>13. ASSUME UNCHANGED hookVars PROVE Around
  BY <1>13 DEF hookVars, Around
<1>14. ASSUME NEW e \in Events, Serve(e) PROVE Moves(e)
  BY <1>4, <1>5, <1>6, <1>8, <1>9, <1>10, <1>14 DEF Serve, Moves
<1> QED
  BY <1>1, <1>2, <1>5, <1>11, <1>12, <1>13, <1>14 DEF HookNext, Moves

-----------------------------------------------------------------------------
(* When every turn carries its call's id                                    *)

(* There are no placeholders then, so nothing is ever renamed.              *)
AllNamed ==
  /\ \A i \in DOMAIN rows : rows[i].id[1] # "ap"
  /\ \A e \in Ended : hook[e].rename /\ hook[e].row # 0 => hook[e].pc # "read"
  /\ \A v \in Voice : hook[v].row # 0 => rows[hook[v].row].id = ApCallId(v)

LEMMA RowInHand ==
  ASSUME HookInv, NEW e \in Events, hook[e].row # 0
  PROVE  hook[e].row \in DOMAIN rows /\ hook[e].row \in Slots
  BY Rows, SlotNumbers DEF HookInv, HooksFit, TypeOK, Hook

LEMMA AllNamedKeeps ==
  ASSUME Voice \subseteq Named, HookInv, AllNamed, [HookNext]_hookVars
  PROVE  AllNamed'
<1>0. Len(rows) \in Nat /\ DOMAIN rows = 1..Len(rows) /\ Voice \subseteq Events /\ Ended \subseteq Events
  BY Rows DEF HookInv, Events
<1>1. \A e \in Events : IdOf(e)[1] # "ap"
  BY DEF IdOf, ApCallId
<1>2. ASSUME NEW e \in Events, Closes(e) PROVE \A i \in DOMAIN rows : rows'[i].id = rows[i].id
  <2>1. ~hook[e].rename
    BY <1>0, <1>2, SlotNumbers DEF Closes, Passes, AllNamed
  <2> QED
    BY <1>2, <2>1 DEF Closes
<1>3. \A i \in DOMAIN rows : i \in DOMAIN rows' /\ rows'[i].id = rows[i].id
  BY <1>0, <1>2, Effects DEF Around, Moves, Claims, Reads, Finds, Joins, Stops, Inserts, Publishes, Still, Closes
<1>4. \A i \in DOMAIN rows' : rows'[i].id[1] # "ap"
  <2> SUFFICES ASSUME NEW i \in DOMAIN rows', i \notin DOMAIN rows PROVE rows'[i].id[1] # "ap"
    BY <1>3 DEF AllNamed
  <2>1. CASE Around
    BY <2>1 DEF Around
  <2>2. ASSUME NEW e \in Events, Inserts(e) PROVE rows'[i].id[1] # "ap"
    <3>1. i = Len(rows) + 1
      BY <1>0, <2>2 DEF Inserts
    <3> QED
      BY <1>1, <2>2, <3>1 DEF Inserts
  <2> QED
    BY <2>1, <2>2, Effects DEF Moves, Claims, Reads, Finds, Joins, Stops, Publishes, Still, Closes
<1>5. \A e \in Ended : hook'[e].rename /\ hook'[e].row # 0 => hook'[e].pc # "read"
  <2> SUFFICES ASSUME NEW e \in Ended, hook'[e].rename, hook'[e].row # 0, hook'[e].pc = "read" PROVE FALSE
    OBVIOUS
  <2>1. CASE hook'[e] = hook[e]
    BY <2>1 DEF AllNamed
  <2>2. CASE Reads(e)
    <3>1. Known(e) = {} /\ Target(e) # 0
      BY <2>2 DEF Reads
    <3>2. Target(e) \in DOMAIN rows /\ rows[Target(e)].id[1] = "ap"
      BY <1>0, <3>1, TargetIs DEF HookInv
    <3> QED
      BY <3>2 DEF AllNamed
  <2> QED
    BY <1>0, <2>1, <2>2, Effects DEF Around, Moves, Claims, Reads, Finds, Joins, Stops, Inserts, Publishes, Closes,
       Passes, Others
<1>6. \A v \in Voice : hook'[v].row # 0 => rows'[hook'[v].row].id = ApCallId(v)
  <2> SUFFICES ASSUME NEW v \in Voice, hook'[v].row # 0 PROVE rows'[hook'[v].row].id = ApCallId(v)
    OBVIOUS
  <2>0. v \in Events /\ v \in Named /\ v \notin Ended
    BY ConstantsAssumption DEF Events
  <2>1. CASE hook'[v].row = hook[v].row
    BY <1>3, <2>0, <2>1, RowInHand DEF AllNamed
  <2>2. CASE Reads(v)
    <3>1. Target(v) \in DOMAIN rows /\ rows[Target(v)].id = ApCallId(v)
      BY <1>0, <2>0, <2>2, TargetIs DEF Reads, HookInv
    <3> QED
      BY <1>3, <2>2, <3>1 DEF Reads
  <2>3. CASE Inserts(v)
    BY <2>0, <2>3, IdsAreIds DEF Inserts
  <2> QED
    BY <2>0, <2>1, <2>2, <2>3, Effects DEF Around, Moves, Claims, Finds, Joins, Stops, Publishes, Closes,
       Passes, Others, Keeps, Reads, Inserts
<1> QED
  BY <1>4, <1>5, <1>6 DEF AllNamed

LEMMA AllNamedInit == HookInit => AllNamed
  BY DEF HookInit, AllNamed, Events

LEMMA AllNamedIsTogether ==
  ASSUME Voice \subseteq Named, HookInv, AllNamed
  PROVE  TurnsTogether
<1> SUFFICES ASSUME NEW i \in Slots, NEW j \in Slots, NEW e \in turns[i], NEW f \in turns[j]
             PROVE  i = j <=> CallOf[e] = CallOf[f]
  BY DEF TurnsTogether
<1>1. e \in Voice /\ f \in Voice /\ e \in Events /\ f \in Events /\ e \in Named /\ f \in Named
  BY DEF HookInv, TypeOK, Events
<1>2. hook[e].row = i /\ hook[f].row = j /\ i # 0 /\ j # 0
  BY SlotNumbers DEF HookInv, WordsAreAnswered
<1>3. i \in DOMAIN rows /\ j \in DOMAIN rows
  BY <1>1, <1>2, RowInHand
<1>4. rows[i].id = <<"real", CallOf[e]>> /\ rows[j].id = <<"real", CallOf[f]>>
  BY <1>1, <1>2 DEF AllNamed, ApCallId
<1> QED
  BY <1>3, <1>4 DEF HookInv, IdsAreUnique

THEOREM NamedCalls ==
  ASSUME Voice \subseteq Named
  PROVE  HookSpec => [](HookInv /\ AllNamed)
<1>1. HookInit => HookInv /\ AllNamed
  BY HookInitKeeps, AllNamedInit
<1>2. HookInv /\ AllNamed /\ [HookNext]_hookVars => HookInv' /\ AllNamed'
  BY HookStepKeeps, AllNamedKeeps
<1> QED
  BY <1>1, <1>2, PTL DEF HookSpec

(* If every voice turn carries its call's id, no interleaving of deliveries *)
(* from any number of calls, with repeats, crashes and refusals, puts the   *)
(* turns of two calls in one row, or those of one in two.                   *)
THEOREM TurnsAreTogether ==
  ASSUME Voice \subseteq Named
  PROVE  HookSpec => []TurnsTogether
<1>1. HookInv /\ AllNamed => TurnsTogether
  BY AllNamedIsTogether
<1> QED
  BY <1>1, NamedCalls, PTL

-----------------------------------------------------------------------------
(* When ends come last and one at a time (Orderly)                          *)

AnsweredIsOver == \A e \in acked : ~InProcess(e)

VoiceRows == \A v \in Voice \cap Named : hook[v].row # 0 => rows[hook[v].row].id = ApCallId(v)

(* What an end has read is a row of its call, or one with a placeholder     *)
(* that is not over.                                                        *)
EndReads ==
  \A e \in Ended : At(e, "read") /\ hook[e].row # 0 =>
    IF e \in Named /\ ~hook[e].rename
      THEN rows[hook[e].row].id = ApCallId(e)
      ELSE rows[hook[e].row].id[1] = "ap" /\ rows[hook[e].row].status = "in_progress"

EndRows ==
  \A e \in Ended : hook[e].pc \in {"committed", "answered"} =>
    IF e \in Named
      THEN rows[hook[e].row].id = ApCallId(e)
      ELSE rows[hook[e].row].id[1] \in {"ap", "empty"} /\ rows[hook[e].row].status = "ended"

EndIsFinal ==
  \A e \in Ended, v \in Voice :
    hook[e].pc \in {"committed", "answered"} /\ hook[v].row = hook[e].row
      => hook[v].pc \notin {"read", "committed"}

FramesShape ==
  \A e \in Events :
    \/ hook[e].frames = <<>>
    \/ hook[e].frames = <<"started">>
    \/ e \in Ended /\ (hook[e].frames = <<"ended">> \/ hook[e].frames = <<"started", "ended">>)

Holds(e) == At(e, "committed") /\ hook[e].frames # <<>> /\ Head(hook[e].frames) = "started"

(* A call's start is announced by the request that made its row, before any *)
(* other has a frame about it.                                              *)
StartedIsFirst ==
  \A e \in Events : Holds(e) =>
    /\ frames[hook[e].row] = <<>> /\ rows[hook[e].row].id = IdOf(e)
    /\ \A f \in Events \ {e} :
         At(f, "committed") /\ hook[f].frames # <<>> => hook[f].row # hook[e].row

FreshFrames == \A i \in Slots : i \notin DOMAIN rows => frames[i] = <<>>

StartedOnce == \A i \in Slots : \A k \in DOMAIN frames[i] : frames[i][k] = "started" => k = 1

OrderInv ==
  /\ AnsweredIsOver /\ VoiceRows /\ EndReads /\ EndRows /\ EndIsFinal
  /\ FramesShape /\ StartedIsFirst /\ FreshFrames /\ StartedOnce
  /\ Voice \subseteq Named => AllNamed

(* An end is not in process while a turn of its call, one of no call, or    *)
(* another end that it could be taken for is.                               *)
LEMMA EndsAlone ==
  ASSUME Orderly, HookInv, OrderInv, NEW e \in Ended, e \in claimed
  PROVE  /\ \A v \in Voice : InProcess(v) => v \in Named /\ CallOf[v] # CallOf[e]
         /\ InProcess(e) => \A f \in Ended \ {e} : InProcess(f) =>
              Voice \subseteq Named /\ {e, f} \subseteq Named /\ CallOf[e] # CallOf[f]
<1>1. After[e] \subseteq acked
  BY DEF HookInv, SentInOrder
<1>2. ASSUME NEW v \in Voice, InProcess(v) PROVE v \in Named /\ CallOf[v] # CallOf[e]
  BY <1>1, <1>2 DEF Orderly, OrderInv, AnsweredIsOver
<1>3. ASSUME InProcess(e), NEW f \in Ended \ {e}, InProcess(f)
      PROVE  Voice \subseteq Named /\ {e, f} \subseteq Named /\ CallOf[e] # CallOf[f]
  <2>1. f \in claimed
    BY <1>3 DEF HookInv, HooksFit, At, InProcess, Events
  <2>2. e \notin acked /\ f \notin acked
    BY <1>3 DEF OrderInv, AnsweredIsOver
  <2>3. After[f] \subseteq acked
    BY <2>1 DEF HookInv, SentInOrder
  <2> QED
    BY <1>1, <1>3, <2>2, <2>3 DEF Orderly
<1> QED
  BY <1>2, <1>3

(* A request that is over stays over; one is answered when it is over.      *)
LEMMA AnsweredIsOverKeeps ==
  ASSUME Orderly, HookInv, OrderInv, [HookNext]_hookVars
  PROVE  AnsweredIsOver'
<1> USE DEF InProcess
<1>1. ASSUME NEW e \in Events, ~InProcess(e), e \in acked PROVE ~InProcess(e)'
  <2>1. e \in claimed /\ hook[e].pc # "idle"
    BY <1>1 DEF HookInv, TypeOK, HooksFit, At
  <2> QED
    BY <1>1, <2>1, Effects DEF Around, Moves, Claims, Reads, Finds, Joins, Stops, Inserts, Publishes, Closes,
       Passes, Others
<1>2. ASSUME NEW e \in acked', e \notin acked PROVE ~InProcess(e)' /\ e \in Events
  <2>1. ASSUME NEW f \in Events, Repeat(f) PROVE ~InProcess(e)' /\ e \in Events
    <3>1. e = f
      BY <1>2, <2>1 DEF Repeat
    <3>2. ~(timeouts < MaxTimeouts)
      BY ConstantsAssumption DEF Orderly, HookInv, TypeOK
    <3> QED
      BY <2>1, <3>1, <3>2 DEF Repeat
  <2>2. ASSUME NEW f \in Events, Dispatch(f) PROVE ~InProcess(e)' /\ e \in Events
    <3>1. e = f /\ Goto(f, "answered")
      BY <1>2, <2>2 DEF Dispatch
    <3> QED
      BY <3>1, Goes DEF HookInv, HookPcs
  <2>3. \/ acked' = acked
        \/ \E f \in Events : Repeat(f) \/ Dispatch(f)
    BY DEF HookNext, hookVars, Serve, Claim, Read, Reject, CommitVoice, CommitEnded, PublishNext, CrashHook,
       StartThread, Outlast
  <2> QED
    BY <1>2, <2>1, <2>2, <2>3
<1>3. acked \subseteq Events
  BY DEF HookInv, TypeOK
<1>4. \A e \in acked : ~InProcess(e)
  BY DEF OrderInv, AnsweredIsOver
<1> QED
  BY <1>1, <1>2, <1>3, <1>4 DEF AnsweredIsOver

(* Rows keep their ids but for an end that has read a placeholder.          *)
LEMMA IdsStay ==
  ASSUME HookInv, OrderInv, [HookNext]_hookVars, NEW i \in DOMAIN rows
  PROVE  /\ i \in DOMAIN rows'
         /\ rows'[i].id = rows[i].id
              \/ (rows[i].id[1] = "ap" /\ rows[i].status = "in_progress"
                  /\ \E f \in Ended : Closes(f) /\ hook[f].row = i /\ hook[f].rename)
         /\ rows[i].status = "ended" => rows'[i].status = "ended"
<1>1. Len(rows) \in Nat /\ DOMAIN rows = 1..Len(rows) /\ Ended \subseteq Events
  BY Rows DEF HookInv, Events
<1>2. CASE \E e \in Events : Closes(e)
  <2>1. PICK e \in Events : Closes(e)
    BY <1>2
  <2>2. e \in Ended /\ hook[e].pc = "read"
    BY <2>1 DEF Closes, Passes
  <2>3. CASE i = hook[e].row /\ hook[e].rename
    <3>1. rows[i].id[1] = "ap" /\ rows[i].status = "in_progress"
      BY <1>1, <2>2, <2>3 DEF OrderInv, EndReads, At
    <3> QED
      BY <2>1, <2>2, <2>3, <3>1 DEF Closes
  <2>4. CASE ~(i = hook[e].row /\ hook[e].rename)
    BY <2>1, <2>4 DEF Closes
  <2> QED
    BY <2>3, <2>4
<1>3. CASE ~ \E e \in Events : Closes(e)
  <2>1. i \in DOMAIN rows' /\ rows'[i].id = rows[i].id /\ rows'[i].status = rows[i].status
    BY <1>1, <1>3, Effects DEF Around, Moves, Claims, Reads, Finds, Joins, Stops, Inserts, Publishes, Still
  <2> QED
    BY <2>1
<1> QED
  BY <1>2, <1>3

LEMMA VoiceRowsKeeps ==
  ASSUME HookInv, OrderInv, [HookNext]_hookVars
  PROVE  VoiceRows'
<1> SUFFICES ASSUME NEW v \in Voice \cap Named, hook'[v].row # 0 PROVE rows'[hook'[v].row].id = ApCallId(v)
  BY DEF VoiceRows, ApCallId
<1>0. v \in Events /\ v \notin Ended /\ ApCallId(v)[1] # "ap"
  BY ConstantsAssumption DEF Events, ApCallId
<1>1. CASE hook'[v].row = hook[v].row
  <2>1. rows[hook[v].row].id = ApCallId(v) /\ hook[v].row \in DOMAIN rows
    BY <1>0, <1>1, RowInHand DEF OrderInv, VoiceRows
  <2> QED
    BY <1>0, <1>1, <2>1, IdsStay
<1>2. CASE Reads(v)
  <2>1. Target(v) \in DOMAIN rows /\ rows[Target(v)].id = ApCallId(v) /\ rows' = rows /\ hook'[v].row = Target(v)
    BY <1>0, <1>2, TargetIs, Rows DEF Reads, HookInv, Still
  <2> QED
    BY <2>1
<1>3. CASE Inserts(v)
  BY <1>0, <1>3, IdsAreIds DEF Inserts
<1> QED
  BY <1>0, <1>1, <1>2, <1>3, Effects DEF Around, Moves, Claims, Finds, Joins, Stops, Publishes, Closes,
     Passes, Others, Keeps, Reads, Inserts

LEMMA EndReadsKeeps ==
  ASSUME Orderly, HookInv, OrderInv, [HookNext]_hookVars
  PROVE  EndReads'
<1> SUFFICES ASSUME NEW e \in Ended, hook'[e].pc = "read", hook'[e].row # 0
             PROVE  IF e \in Named /\ ~hook'[e].rename
                      THEN rows'[hook'[e].row].id = ApCallId(e)
                      ELSE rows'[hook'[e].row].id[1] = "ap" /\ rows'[hook'[e].row].status = "in_progress"
  BY DEF EndReads, At, ApCallId
<1>0. e \in Events /\ (e \in Named => ApCallId(e) = <<"real", CallOf[e]>>)
  BY DEF Events, ApCallId
<1>1. CASE Reads(e)
  <2>1. hook'[e].row = Target(e) /\ hook'[e].rename = (e \in Named /\ Known(e) = {}) /\ rows' = rows
    BY <1>1 DEF Reads, Still
  <2> QED
    BY <1>0, <2>1, TargetIs DEF HookInv
<1>2. CASE hook'[e] = hook[e]
  <2> DEFINE i == hook[e].row
  <2>1. hook[e].pc = "read" /\ i # 0 /\ i \in DOMAIN rows
    BY <1>0, <1>2, RowInHand
  <2>2. IF e \in Named /\ ~hook[e].rename
          THEN rows[i].id = ApCallId(e)
          ELSE rows[i].id[1] = "ap" /\ rows[i].status = "in_progress"
    BY <2>1 DEF OrderInv, EndReads, At
  <2>3. e \in claimed /\ InProcess(e)
    BY <1>0, <2>1 DEF HookInv, HooksFit, At, InProcess
  <2>4. ASSUME NEW f \in Ended, Closes(f) PROVE hook[f].row # i
    <3>1. f # e /\ InProcess(f) /\ f \in Events /\ hook[f].pc = "read" /\ hook[f].row \in DOMAIN rows
      BY <1>2, <2>1, <2>4 DEF Closes, Passes, InProcess, Events
    <3>2. Voice \subseteq Named /\ e \in Named /\ f \in Named /\ CallOf[e] # CallOf[f] /\ AllNamed
      BY <2>3, <3>1, EndsAlone DEF OrderInv
    <3>3. hook[f].row # 0
      BY <3>1, Rows DEF HookInv
    <3>4. ~hook[e].rename /\ ~hook[f].rename
      BY <2>1, <3>1, <3>2, <3>3 DEF AllNamed
    <3>5. rows[i].id = ApCallId(e) /\ rows[hook[f].row].id = ApCallId(f)
      BY <2>2, <3>1, <3>2, <3>3, <3>4 DEF OrderInv, EndReads, At
    <3> QED
      BY <3>2, <3>5 DEF ApCallId
  <2>5. i \in DOMAIN rows' /\ rows'[i].id = rows[i].id /\ rows'[i].status = rows[i].status
    <3>1. Len(rows) \in Nat /\ DOMAIN rows = 1..Len(rows)
      BY Rows DEF HookInv
    <3> HIDE DEF i
    <3> QED
      BY <2>1, <2>4, <3>1, Effects DEF Around, Moves, Claims, Reads, Finds, Joins, Stops, Inserts, Publishes, Still, Closes
  <2> QED
    BY <1>2, <2>2, <2>5
<1> QED
  BY <1>0, <1>1, <1>2, Effects DEF Around, Moves, Claims, Finds, Joins, Stops, Publishes, Closes,
     Passes, Others, Keeps, Reads, Inserts

LEMMA EndRowsKeeps ==
  ASSUME HookInv, OrderInv, [HookNext]_hookVars
  PROVE  EndRows'
<1> SUFFICES ASSUME NEW e \in Ended, hook'[e].pc \in {"committed", "answered"}
             PROVE  IF e \in Named
                      THEN rows'[hook'[e].row].id = ApCallId(e)
                      ELSE rows'[hook'[e].row].id[1] \in {"ap", "empty"} /\ rows'[hook'[e].row].status = "ended"
  BY DEF EndRows, ApCallId
<1>0. e \in Events /\ e \notin Voice /\ (e \in Named => ApCallId(e)[1] = "real" /\ IdOf(e) = ApCallId(e))
      /\ (e \notin Named => IdOf(e)[1] = "empty")
  BY ConstantsAssumption DEF Events, ApCallId, IdOf
<1>1. CASE hook[e].pc \in {"committed", "answered"} /\ hook'[e].row = hook[e].row
  <2>1. hook[e].row # 0 /\ hook[e].row \in DOMAIN rows
    BY <1>0, <1>1, RowInHand DEF HookInv, HooksFit
  <2>2. IF e \in Named
          THEN rows[hook[e].row].id = ApCallId(e)
          ELSE rows[hook[e].row].id[1] \in {"ap", "empty"} /\ rows[hook[e].row].status = "ended"
    BY <1>1 DEF OrderInv, EndRows
  <2> QED
    BY <1>0, <1>1, <2>1, <2>2, IdsStay
<1>2. CASE Finds(e)
  BY <1>2 DEF Finds, Still
<1>3. CASE Inserts(e)
  BY <1>0, <1>3 DEF Inserts
<1>4. CASE Closes(e)
  <2>1. hook[e].pc = "read" /\ hook[e].row \in DOMAIN rows /\ hook[e].row # 0
    BY <1>4, Rows DEF Closes, Passes, HookInv
  <2>2. IF e \in Named /\ ~hook[e].rename
          THEN rows[hook[e].row].id = ApCallId(e)
          ELSE rows[hook[e].row].id[1] = "ap" /\ rows[hook[e].row].status = "in_progress"
    BY <2>1 DEF OrderInv, EndReads, At
  <2>3. hook[e].rename => e \in Named
    BY <1>0 DEF HookInv, HooksFit
  <2> QED
    BY <1>0, <1>4, <2>2, <2>3 DEF Closes
<1>5. CASE Publishes(e) \/ Stops(e)
  BY <1>1, <1>5 DEF Publishes, Stops, Passes, Keeps
<1>6. CASE hook'[e] = hook[e]
  BY <1>1, <1>6
<1> QED
  BY <1>0, <1>2, <1>3, <1>4, <1>5, <1>6, Effects DEF Around, Moves, Claims, Reads, Joins, Passes, Others,
     Finds, Inserts, Closes, Publishes, Stops

LEMMA EndIsFinalKeeps ==
  ASSUME Orderly, HookInv, OrderInv, OrderInv => EndRows' /\ VoiceRows', [HookNext]_hookVars
  PROVE  EndIsFinal'
<1> SUFFICES ASSUME NEW e \in Ended, NEW v \in Voice, hook'[e].pc \in {"committed", "answered"},
                    hook'[v].row = hook'[e].row, hook'[v].pc \in {"read", "committed"}
             PROVE  FALSE
  BY DEF EndIsFinal
<1>0. e \in Events /\ v \in Events /\ e # v /\ v \notin Ended /\ e \notin Voice
  BY ConstantsAssumption DEF Events
<1>1. ~(hook[e].pc \in {"committed", "answered"} /\ hook[v].row = hook[e].row /\ hook[v].pc \in {"read", "committed"})
  BY DEF OrderInv, EndIsFinal
<1>2. HookInv'
  BY HookStepKeeps
<1>3. hook'[e].row # 0 /\ hook'[e].row \in DOMAIN rows' /\ e \in claimed' /\ hook'[e].row \in Nat
  BY <1>0, <1>2, SlotNumbers DEF HookInv, HooksFit, At, TypeOK, Hook
<1>4. e \in claimed
  <2>1. hook[e].pc # "idle"
    BY <1>0, Effects DEF Around, Moves, Claims, Reads, Finds, Joins, Stops, Inserts, Publishes, Closes,
       Passes, Others
  <2> QED
    BY <1>0, <2>1 DEF HookInv, HooksFit, At
<1>5. InProcess(v)
  <2>1. hook[v].pc \in {"claimed", "read", "committed"}
    BY <1>0, Effects DEF Around, Moves, Claims, Reads, Finds, Joins, Stops, Inserts, Publishes, Closes,
       Passes, Others
  <2> QED
    BY <2>1 DEF InProcess
<1>6. v \in Named /\ CallOf[v] # CallOf[e]
  BY <1>4, <1>5, EndsAlone
<1>7. rows'[hook'[e].row].id = <<"real", CallOf[v]>>
  BY <1>3, <1>6 DEF OrderInv, VoiceRows, ApCallId
<1>8. e \in Named => rows'[hook'[e].row].id = <<"real", CallOf[e]>>
  BY DEF EndRows, ApCallId
<1>9. e \notin Named => rows'[hook'[e].row].id[1] \in {"ap", "empty"}
  BY DEF EndRows
<1> QED
  BY <1>6, <1>7, <1>8, <1>9

LEMMA FramesShapeKeeps ==
  ASSUME HookInv, OrderInv, [HookNext]_hookVars
  PROVE  FramesShape'
<1> SUFFICES ASSUME NEW e \in Events
             PROVE  \/ hook'[e].frames = <<>>
                    \/ hook'[e].frames = <<"started">>
                    \/ e \in Ended /\ (hook'[e].frames = <<"ended">> \/ hook'[e].frames = <<"started", "ended">>)
  BY DEF FramesShape
<1>1. \/ hook[e].frames = <<>>
      \/ hook[e].frames = <<"started">>
      \/ e \in Ended /\ (hook[e].frames = <<"ended">> \/ hook[e].frames = <<"started", "ended">>)
  BY DEF OrderInv, FramesShape
<1>2. CASE Publishes(e)
  <2>1. hook'[e].frames = Tail(hook[e].frames) /\ hook[e].frames # <<>>
    BY <1>2 DEF Publishes
  <2>2. Tail(<<"started">>) = <<>> /\ Tail(<<"ended">>) = <<>> /\ Tail(<<"started", "ended">>) = <<"ended">>
    OBVIOUS
  <2> QED
    BY <1>1, <2>1, <2>2
<1>3. CASE Inserts(e)
  BY <1>3 DEF Inserts, Events
<1>4. CASE Closes(e)
  BY <1>4 DEF Closes
<1>5. CASE Finds(e) \/ Joins(e)
  BY <1>5 DEF Finds, Joins
<1>6. CASE hook'[e].frames = hook[e].frames
  BY <1>1, <1>6
<1> QED
  BY <1>2, <1>3, <1>4, <1>5, <1>6, Effects DEF Around, Moves, Claims, Reads, Stops, Passes, Others, Keeps,
     Finds, Joins, Inserts, Closes, Publishes

LEMMA FreshFramesKeeps ==
  ASSUME HookInv, OrderInv, [HookNext]_hookVars
  PROVE  FreshFrames'
<1> SUFFICES ASSUME NEW i \in Slots, i \notin DOMAIN rows' PROVE frames'[i] = <<>>
  BY DEF FreshFrames
<1>1. i \notin DOMAIN rows /\ frames[i] = <<>>
  BY IdsStay DEF OrderInv, FreshFrames
<1>2. ASSUME NEW e \in Events, Publishes(e) PROVE frames'[i] = frames[i]
  <2>1. hook[e].row # 0
    BY <1>2 DEF Publishes, Passes, HookInv, HooksFit
  <2>2. hook[e].row # i
    BY <1>1, <2>1, RowInHand
  <2> QED
    BY <1>2, <2>2 DEF Publishes, HookInv, TypeOK
<1> QED
  BY <1>1, <1>2, Effects DEF Around, Moves, Claims, Reads, Finds, Joins, Stops, Inserts, Closes, Still

(* Nobody else holds a frame about the row that a start is to be announced  *)
(* of: an end that takes it over would be of another call.                  *)
LEMMA NoEndJoins ==
  ASSUME Orderly, HookInv, OrderInv, NEW e \in Events, Holds(e), NEW f \in Ended \ {e}, Closes(f)
  PROVE  hook[f].row # hook[e].row
<1> SUFFICES ASSUME hook[f].row = hook[e].row PROVE FALSE
  OBVIOUS
<1>1. f \in Events /\ hook[f].pc = "read" /\ hook[e].pc = "committed" /\ InProcess(e) /\ InProcess(f)
      /\ f \in claimed
  BY DEF Closes, Passes, Holds, At, InProcess, Events, HookInv, HooksFit
<1>2. hook[f].row # 0
  BY <1>1 DEF HookInv, HooksFit
<1>3. rows[hook[e].row].id = IdOf(e)
  BY DEF OrderInv, StartedIsFirst
<1>4. IF f \in Named /\ ~hook[f].rename
        THEN rows[hook[f].row].id = ApCallId(f)
        ELSE rows[hook[f].row].id[1] = "ap"
  BY <1>1, <1>2 DEF OrderInv, EndReads, At
<1>5. e \in Named /\ CallOf[e] # CallOf[f]
  <2>1. CASE e \in Voice
    BY <1>1, <2>1, EndsAlone
  <2>2. CASE e \in Ended
    <3>1. e \in claimed
      BY <1>1 DEF HookInv, HooksFit, At
    <3> QED
      BY <1>1, <2>2, <3>1, EndsAlone
  <2> QED
    BY <2>1, <2>2 DEF Events
<1>6. IdOf(e) = <<"real", CallOf[e]>> /\ (f \in Named => ApCallId(f) = <<"real", CallOf[f]>>)
  BY <1>5, IdsAreIds DEF ApCallId
<1> QED
  BY <1>3, <1>4, <1>5, <1>6

LEMMA StartedIsFirstKeeps ==
  ASSUME Orderly, HookInv, OrderInv, [HookNext]_hookVars
  PROVE  StartedIsFirst'
<1> SUFFICES ASSUME NEW e \in Events, hook'[e].pc = "committed", hook'[e].frames # <<>>,
                    Head(hook'[e].frames) = "started"
             PROVE  /\ frames'[hook'[e].row] = <<>> /\ rows'[hook'[e].row].id = IdOf(e)
                    /\ \A f \in Events \ {e} :
                         hook'[f].pc = "committed" /\ hook'[f].frames # <<>> => hook'[f].row # hook'[e].row
  BY DEF StartedIsFirst, Holds, At, IdOf, ApCallId
<1>0. DOMAIN rows = 1..Len(rows) /\ Len(rows) \in Nat
  BY Rows DEF HookInv
<1>1. CASE Inserts(e)
  <2> DEFINE n == Len(rows) + 1
  <2>1. hook'[e].row = n /\ rows'[n].id = IdOf(e) /\ frames' = frames /\ n \notin DOMAIN rows
    BY <1>0, <1>1 DEF Inserts
  <2>2. n \in Slots
    <3>1. HookInv'
      BY HookStepKeeps
    <3>2. hook'[e].row \in 0..MaxRows
      BY <3>1 DEF HookInv, TypeOK, Hook
    <3> QED
      BY <1>0, <2>1, <3>2, SlotNumbers
  <2>3. frames[n] = <<>>
    BY <2>1, <2>2 DEF OrderInv, FreshFrames
  <2>4. \A f \in Events \ {e} : hook'[f].row # n
    <3> SUFFICES ASSUME NEW f \in Events \ {e} PROVE hook[f].row # n
      BY <1>1 DEF Inserts, Passes, Others
    <3>1. hook[f].row <= Len(rows) /\ hook[f].row \in 0..MaxRows
      BY DEF HookInv, HooksFit, TypeOK, Hook
    <3> QED
      BY <1>0, <3>1, SlotNumbers
  <2> QED
    BY <2>1, <2>3, <2>4
<1>2. CASE hook'[e] = hook[e]
  <2>1. Holds(e) /\ hook[e].row # 0
    BY <1>2 DEF Holds, At, HookInv, HooksFit
  <2>2. /\ frames[hook[e].row] = <<>> /\ rows[hook[e].row].id = IdOf(e)
        /\ \A f \in Events \ {e} : hook[f].pc = "committed" /\ hook[f].frames # <<>> => hook[f].row # hook[e].row
    BY <2>1 DEF OrderInv, StartedIsFirst, At
  <2>3. hook[e].row \in DOMAIN rows /\ hook[e].row \in Slots
    BY <2>1, RowInHand
  <2>4. ASSUME NEW f \in Ended, Closes(f) PROVE hook[f].row # hook[e].row
    <3>1. f # e
      BY <1>2, <2>1, <2>4 DEF Closes, Passes, Holds, At
    <3> QED
      BY <2>1, <2>4, <3>1, NoEndJoins
  <2>5. rows'[hook[e].row].id = IdOf(e)
    BY <2>2, <2>3, <2>4, IdsStay
  <2>6. frames'[hook[e].row] = <<>>
    <3>1. ASSUME NEW f \in Events, Publishes(f) PROVE frames'[hook[e].row] = frames[hook[e].row]
      <4>1. f # e
        <5>1. hook[f].frames \in Seq({"started", "ended"}) /\ hook[f].frames # <<>>
              /\ hook'[f].frames = Tail(hook[f].frames)
          BY <3>1 DEF Publishes, HookInv, TypeOK, Hook
        <5>2. Len(hook'[f].frames) # Len(hook[f].frames)
          BY <5>1
        <5> QED
          BY <1>2, <5>2
      <4>2. hook[f].row # hook[e].row
        BY <2>2, <3>1, <4>1 DEF Publishes, Passes
      <4> QED
        BY <2>3, <3>1, <4>2 DEF Publishes, HookInv, TypeOK
    <3> QED
      BY <2>2, <3>1, Effects DEF Around, Moves, Claims, Reads, Finds, Joins, Stops, Inserts, Closes, Still
  <2>7. ASSUME NEW f \in Events \ {e}, hook'[f].pc = "committed", hook'[f].frames # <<>>
        PROVE  hook'[f].row # hook[e].row
    <3>1. CASE hook'[f] = hook[f]
      BY <2>2, <2>7, <3>1
    <3>2. CASE Closes(f)
      BY <2>4, <3>2 DEF Closes
    <3>3. CASE Inserts(f)
      BY <1>0, <2>3, <3>3 DEF Inserts
    <3>4. CASE Publishes(f)
      BY <2>2, <3>4 DEF Publishes, Passes
    <3> QED
      BY <2>7, <3>1, <3>2, <3>3, <3>4, Effects DEF Around, Moves, Claims, Reads, Finds, Joins, Stops,
         Inserts, Closes, Publishes, Passes, Others
  <2> QED
    BY <1>2, <2>5, <2>6, <2>7
<1>3. ASSUME Publishes(e) PROVE FALSE
  <2>1. hook'[e].frames = Tail(hook[e].frames) /\ hook[e].frames # <<>>
    BY <1>3 DEF Publishes
  <2>2. \/ hook[e].frames = <<"started">> \/ hook[e].frames = <<"ended">>
        \/ hook[e].frames = <<"started", "ended">>
    BY <2>1 DEF OrderInv, FramesShape
  <2>3. Tail(<<"started">>) = <<>> /\ Tail(<<"ended">>) = <<>> /\ Tail(<<"started", "ended">>) = <<"ended">>
        /\ Head(<<"ended">>) = "ended"
    OBVIOUS
  <2>4. hook'[e].frames = <<>> \/ hook'[e].frames = <<"ended">>
    BY <2>1, <2>2, <2>3
  <2> QED
    BY <2>3, <2>4
<1>4. ASSUME Closes(e) \/ Finds(e) \/ Joins(e) PROVE FALSE
  <2>1. Head(<<"ended">>) = "ended"
    OBVIOUS
  <2> QED
    BY <1>4, <2>1 DEF Closes, Finds, Joins
<1> QED
  BY <1>1, <1>2, <1>3, <1>4, Effects DEF Around, Moves, Claims, Reads, Stops, Passes, Others,
     Finds, Joins, Inserts, Closes, Publishes

LEMMA StartedOnceKeeps ==
  ASSUME HookInv, OrderInv, [HookNext]_hookVars
  PROVE  StartedOnce'
<1> SUFFICES ASSUME NEW i \in Slots, NEW k \in DOMAIN frames'[i], frames'[i][k] = "started" PROVE k = 1
  BY DEF StartedOnce
<1>1. CASE frames'[i] = frames[i]
  BY <1>1 DEF OrderInv, StartedOnce
<1>2. ASSUME NEW e \in Events, Publishes(e), hook[e].row = i PROVE k = 1
  <2>1. PICK s \in {"started", "ended"} : s = Head(hook[e].frames)
    <3>1. hook[e].frames \in Seq({"started", "ended"}) /\ hook[e].frames # <<>>
      BY <1>2 DEF Publishes, HookInv, TypeOK, Hook
    <3> QED
      BY <3>1
  <2>2. frames'[i] = Append(frames[i], s) /\ frames[i] \in Seq({"started", "ended"})
    BY <1>2, <2>1 DEF Publishes, HookInv, TypeOK
  <2>3. CASE s = "started"
    <3>1. frames[i] = <<>>
      BY <1>2, <2>1, <2>3 DEF OrderInv, StartedIsFirst, Holds, At, Publishes, Passes
    <3> QED
      BY <2>2, <3>1
  <2>4. CASE s = "ended"
    <3>1. k \in DOMAIN frames[i] /\ frames[i][k] = "started"
      BY <2>2, <2>4
    <3> QED
      BY <3>1 DEF OrderInv, StartedOnce
  <2> QED
    BY <2>3, <2>4
<1>3. ASSUME NEW e \in Events, Publishes(e), hook[e].row # i PROVE frames'[i] = frames[i]
  BY <1>3 DEF Publishes, HookInv, TypeOK
<1> QED
  BY <1>1, <1>2, <1>3, Effects DEF Around, Moves, Claims, Reads, Finds, Joins, Stops, Inserts, Closes, Still

LEMMA OrderKeeps ==
  ASSUME Orderly, HookInv, OrderInv, [HookNext]_hookVars
  PROVE  OrderInv'
<1>1. AnsweredIsOver'
  BY AnsweredIsOverKeeps
<1>2. VoiceRows' /\ EndReads' /\ EndRows'
  BY VoiceRowsKeeps, EndReadsKeeps, EndRowsKeeps
<1>3. EndIsFinal'
  BY <1>2, EndIsFinalKeeps
<1>4. FramesShape' /\ StartedIsFirst' /\ FreshFrames' /\ StartedOnce'
  BY FramesShapeKeeps, StartedIsFirstKeeps, FreshFramesKeeps, StartedOnceKeeps
<1>5. Voice \subseteq Named => AllNamed'
  BY AllNamedKeeps DEF OrderInv
<1> QED
  BY <1>1, <1>2, <1>3, <1>4, <1>5 DEF OrderInv

LEMMA OrderInit == HookInit => OrderInv
<1> SUFFICES ASSUME HookInit PROVE OrderInv
  OBVIOUS
<1>1. AllNamed
  BY AllNamedInit
<1>2. \A e \in Events : hook[e].pc = "idle" /\ hook[e].row = 0 /\ hook[e].frames = <<>>
  BY DEF HookInit
<1>3. StartedOnce /\ FreshFrames
  BY DEF HookInit, StartedOnce, FreshFrames
<1>4. AnsweredIsOver /\ VoiceRows /\ EndReads /\ EndRows /\ EndIsFinal
  BY <1>2 DEF HookInit, AnsweredIsOver, VoiceRows, EndReads, EndRows, EndIsFinal, At, Events
<1>5. FramesShape /\ StartedIsFirst
  BY <1>2 DEF FramesShape, StartedIsFirst, Holds, At
<1> QED
  BY <1>1, <1>3, <1>4, <1>5 DEF OrderInv

LEMMA StartedOnceIsInOrder ==
  ASSUME HookInv, OrderInv
  PROVE  FramesInOrder
<1> SUFFICES ASSUME NEW i \in Slots, NEW k \in DOMAIN frames[i], NEW l \in DOMAIN frames[i],
                    frames[i][k] = "ended", frames[i][l] = "started"
             PROVE  l < k
  BY DEF FramesInOrder
<1>1. l = 1
  BY DEF OrderInv, StartedOnce
<1>2. frames[i] \in Seq({"started", "ended"})
  BY DEF HookInv, TypeOK
<1>3. k \in Nat /\ k >= 1 /\ k # l
  BY <1>2
<1> QED
  BY <1>1, <1>3

THEOREM OrderInvariance ==
  ASSUME Orderly
  PROVE  HookSpec => [](HookInv /\ OrderInv)
<1>1. HookInit => HookInv /\ OrderInv
  BY HookInitKeeps, OrderInit
<1>2. HookInv /\ OrderInv /\ [HookNext]_hookVars => HookInv' /\ OrderInv'
  BY HookStepKeeps, OrderKeeps
<1> QED
  BY <1>1, <1>2, PTL DEF HookSpec

(* When ends come after the turns of their call and no request is repeated  *)
(* while it runs, no viewer sees a call end before it started, whatever     *)
(* dies or is refused (publish_frame after the commit).                     *)
THEOREM FramesAreInOrder ==
  ASSUME Orderly
  PROVE  HookSpec => []FramesInOrder
<1>1. HookInv /\ OrderInv => FramesInOrder
  BY StartedOnceIsInOrder
<1> QED
  BY <1>1, OrderInvariance, PTL

(* With every turn naming its call as well, calls that run side by side are *)
(* kept apart.                                                              *)
THEOREM CallsAreApart ==
  ASSUME Orderly, Voice \subseteq Named
  PROVE  HookSpec => []CallsStayApart
<1>1. HookInv /\ OrderInv => CallsStayApart
  BY StartedOnceIsInOrder, AllNamedIsTogether DEF CallsStayApart, OrderInv
<1> QED
  BY <1>1, OrderInvariance, PTL

-----------------------------------------------------------------------------
(* What the job reads is the whole call                                     *)

Whole ==
  \A i \in Slots :
    /\ job[i] # "idle" => read[i] = turns[i]
    /\ \A k \in DOMAIN summary[i] : summary[i][k] = turns[i]

(* A turn is not stored in a row whose job was scheduled.                   *)
LEMMA TurnsStay ==
  ASSUME HookInv, OrderInv, [HookNext]_hookVars, NEW i \in scheduled
  PROVE  turns'[i] = turns[i]
<1>1. PICK e \in Ended : hook[e].pc = "answered" /\ hook[e].row = i
  BY DEF HookInv, ScheduledByAnEnd, At
<1>2. ASSUME NEW v \in Events, Dispatch(v) PROVE turns'[i] = turns[i]
  <2>1. CASE turns' = turns
    BY <2>1
  <2>2. CASE v \in Voice /\ turns' = [turns EXCEPT ![hook[v].row] = @ \cup {v}]
    <3>1. hook[v].pc = "committed"
      BY <1>2 DEF Dispatch, At
    <3>2. hook[v].row # i
      BY <1>1, <2>2, <3>1 DEF OrderInv, EndIsFinal
    <3> QED
      BY <2>2, <3>2 DEF HookInv, TypeOK
  <2> QED
    BY <1>2, <2>1, <2>2 DEF Dispatch
<1>3. turns' = turns \/ \E v \in Events : Dispatch(v)
  BY DEF HookNext, hookVars, Serve, Claim, Repeat, Read, Reject, CommitVoice, CommitEnded, PublishNext, CrashHook,
     StartThread, Outlast
<1> QED
  BY <1>2, <1>3

LEMMA WholeKeeps ==
  ASSUME HookInv, OrderInv, PostInv, Whole, [Next]_vars
  PROVE  Whole'
<1> USE DEF PostInv, PostTypeOK
<1>1. ASSUME [HookNext]_hookVars, UNCHANGED postVars PROVE Whole'
  <2> SUFFICES ASSUME NEW i \in Slots
               PROVE  /\ job[i] # "idle" => read[i] = turns'[i]
                      /\ \A k \in DOMAIN summary[i] : summary[i][k] = turns'[i]
    BY <1>1 DEF Whole, postVars
  <2>1. CASE i \in scheduled
    BY <1>1, <2>1, TurnsStay DEF Whole
  <2>2. CASE i \notin scheduled
    <3>1. job[i] = "idle" /\ summary[i] = <<>>
      BY <2>2 DEF OverFirst, HasEffects
    <3> QED
      BY <3>1
  <2> QED
    BY <2>1, <2>2
<1>2. ASSUME NEW i \in Slots, Work(i) \/ CrashJob(i) PROVE Whole'
  <2>0. turns' = turns
    BY <1>2, WorkLeavesRequests DEF hookVars
  <2>1. CASE Load(i)
    <3>1. read' = [read EXCEPT ![i] = turns[i]] /\ summary' = summary /\ \E p \in JobPhases : Become(i, p)
      BY <2>1 DEF Load, JobPhases
    <3>2. \A j \in Slots \ {i} : job'[j] = job[j]
      BY <3>1, Becomes
    <3> QED
      BY <2>0, <3>1, <3>2 DEF Whole
  <2>2. CASE StoreSummary(i)
    <3>1. /\ job[i] = "summarised" /\ read' = read /\ Become(i, "stored")
          /\ summary' = summary \/ summary' = [summary EXCEPT ![i] = Append(@, read[i])]
      BY <2>2 DEF StoreSummary
    <3>2. job' \in [Slots -> JobPhases] /\ \A j \in Slots \ {i} : job'[j] = job[j]
      BY <3>1, Becomes DEF JobPhases
    <3>3. ASSUME NEW j \in Slots, NEW k \in DOMAIN summary'[j] PROVE summary'[j][k] = turns[j]
      <4>1. CASE summary'[j] = summary[j]
        BY <4>1, <3>3 DEF Whole
      <4>2. CASE j = i /\ summary'[i] = Append(summary[i], read[i])
        <5>1. summary[i] \in Seq(SUBSET Voice) /\ read[i] \in SUBSET Voice /\ read[i] = turns[i]
          BY <3>1 DEF Whole
        <5>2. k \in DOMAIN summary[i] \/ summary'[i][k] = read[i]
          BY <3>3, <4>2, <5>1
        <5>3. k \in DOMAIN summary[i] => summary'[i][k] = summary[i][k]
          BY <4>2, <5>1
        <5> QED
          BY <4>2, <5>1, <5>2, <5>3 DEF Whole
      <4> QED
        BY <3>1, <4>1, <4>2
    <3>4. \A j \in Slots : job'[j] # "idle" => read[j] = turns[j]
      BY <3>1, <3>2 DEF Whole
    <3> QED
      BY <2>0, <3>1, <3>3, <3>4 DEF Whole
  <2>3. CASE ~Load(i) /\ ~StoreSummary(i)
    <3>1. read' = read /\ summary' = summary
      BY <1>2, <2>3 DEF Work, CrashJob, Summarise, UpdateBrain, WriteMemory, SaveItems, PublishReady, EnqueueEmails
    <3>2. \A j \in Slots : job[j] = "idle" => job'[j] = "idle"
      <4>1. job[i] # "idle"
        BY <1>2, <2>3 DEF Work, CrashJob, Summarise, UpdateBrain, WriteMemory, SaveItems, PublishReady,
           EnqueueEmails, Gather
      <4>2. job' = job \/ \E p \in JobPhases : Become(i, p)
        BY <1>2, <2>3 DEF Work, CrashJob, Summarise, UpdateBrain, WriteMemory, SaveItems, PublishReady,
           EnqueueEmails, Gather, JobPhases
      <4> QED
        BY <4>1, <4>2, Becomes
    <3> QED
      BY <2>0, <3>1, <3>2 DEF Whole
  <2> QED
    BY <2>1, <2>2, <2>3
<1> QED
  BY <1>1, <1>2 DEF Next, vars

(* Under the same order, what is stored as a call's summary is of every     *)
(* turn the call has: post_call_job reads the transcript after its last     *)
(* turn, through any deaths of requests and of the worker.                  *)
THEOREM SummariesAreWhole ==
  ASSUME Orderly
  PROVE  Spec => []MadeOfTheWholeCall
<1> DEFINE WholeInv == HookInv /\ OrderInv /\ PostInv /\ Whole
<1>1. Init => WholeInv
  <2>1. PostInit => Whole
    BY DEF PostInit, Whole
  <2> QED
    BY <2>1, HookInitKeeps, OrderInit, PostInitKeeps DEF Init
<1>2. WholeInv /\ [Next]_vars => WholeInv'
  <2> SUFFICES ASSUME WholeInv, [Next]_vars PROVE WholeInv'
    OBVIOUS
  <2>1. [HookNext]_hookVars
    BY WorkLeavesRequests DEF Next, vars
  <2>2. OrderInv'
    BY <2>1, OrderKeeps
  <2> QED
    BY <2>2, StepKeeps, WholeKeeps
<1>3. WholeInv => MadeOfTheWholeCall
  BY DEF PostInv, OverFirst, HasEffects, NothingBeforeTheEnd, Whole, SummaryIsComplete, MadeOfTheWholeCall
<1> HIDE DEF WholeInv
<1> QED
  BY <1>1, <1>2, <1>3, PTL DEF Spec
==============================================================================
