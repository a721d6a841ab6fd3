--------------------------- MODULE KnowledgeProofs ---------------------------
(***************************************************************************)
(* Theorems about the brain and the intake over it, for any pages, calls,  *)
(* managers, requests, items and digests, and any number of deaths.        *)
(***************************************************************************)
EXTENDS Intake, FiniteSetTheorems, SequenceTheorems, TLAPS

(* Where a request works on its item, and where a writer has provenance.   *)
Handling   == {"upsert", "insert", "append", "settle"}
Processing == {"loaded", "extract", "classify", "gate"} \cup Handling
Writing    == {"get", "upsert", "insert", "append", "delete"}
Ends       == {"done", "failed", "refused"}
Phases     == {"idle", "dead", "provenance", "put", "row", "unrow", "supersede"}
                \cup Processing \cup Writing \cup Ends

Task == [pc: Phases, todo: Seq(Slugs), text: Text, kind: Kinds \cup Scopes \cup {"none"},
         review: SUBSET Slugs]

Types == TypeOK /\ task \in [Writers -> Task]

MentionedBy(w, s) == \E e \in EntriesOf(s) : e.by = w
DeletionNoted(s) == \E e \in EntriesOf(s) : e.what = "deleted"
OnChain(s, text) == \E v \in versions : v.slug = s /\ v.truth = text

-----------------------------------------------------------------------------
(* The brain *)

(* A page that is there is at its first version: a second one is refused.  *)
SeedsStand ==
  \A s \in Slugs :
    /\ ~pages[s].there => pages[s] = NoPage /\ \A v \in versions : v.slug # s
    /\ pages[s].there =>
         /\ pages[s].version = 1
         /\ {v \in versions : v.slug = s} =
              {[slug |-> s, number |-> 1, truth |-> pages[s].truth, superseded |-> FALSE]}
         /\ pages[s].truth \in Calls => MentionedBy(pages[s].truth, s)

(* Who writes has provenance on record and a page in hand; who appends or  *)
(* deletes found the page.                                                 *)
WriterHolds(w) ==
  /\ task[w].pc \in Writing => w \in provenance
  /\ task[w].pc \in Writing \cup {"provenance", "settle"} => task[w].todo # <<>>
  /\ task[w].pc \in {"append", "delete"} => pages[Slug(w)].there

(* A call's entities are mentioned, in review or still to do.              *)
CallHolds(c) ==
  /\ task[c].pc \in {"idle", "get", "upsert", "insert", "append", "done", "failed", "dead"}
  /\ task[c].pc # "idle" => task[c].text = c
  /\ task[c].pc = "done" => task[c].todo = <<>>
  /\ task[c].pc # "idle" =>
       \A s \in ToSet(EntitiesOf[c]) :
         s \in task[c].review \cup ToSet(task[c].todo) \/ MentionedBy(c, s)

(* A correction keeps its page in hand; one that is not a replacement found *)
(* it, one that inserts brings its own text, one that deletes has said so,  *)
(* and one that is done is on the chain.                                    *)
ManagerHolds(m) ==
  /\ task[m].pc \in {"idle", "provenance", "upsert", "insert", "append", "delete",
                     "done", "failed", "refused", "dead"}
  /\ task[m].pc # "idle" => task[m].todo # <<>>
  /\ task[m].pc \in {"upsert", "insert"} => task[m].kind = "replace_compiled_truth"
  /\ task[m].pc \in {"append", "delete"} => task[m].kind # "replace_compiled_truth"
  /\ task[m].pc = "delete" => DeletionNoted(Slug(m))
  /\ task[m].pc = "provenance" /\ task[m].kind # "replace_compiled_truth" =>
       pages[Slug(m)].there
  /\ task[m].pc \in {"provenance", "upsert", "insert"} =>
       task[m].text \in {m, Nobody} \/ pages[Slug(m)].there
  /\ task[m].pc = "done" /\ task[m].kind = "replace_compiled_truth" =>
       OnChain(Slug(m), task[m].text)

BrainHolds ==
  /\ SeedsStand /\ WritesHaveProvenance /\ DeletionsAreAudited
  /\ \A w \in Writers : WriterHolds(w)
  /\ \A c \in Calls : CallHolds(c)
  /\ \A m \in Managers : ManagerHolds(m)

-----------------------------------------------------------------------------
(* Intake *)

(* What a request knows of its item at each stage.                         *)
RunHolds(r) ==
  /\ task[r].pc \in {"idle", "dead", "put", "row", "unrow", "supersede"} \cup Processing \cup Ends
  /\ task[r].pc = "idle" => run[r] = [item |-> NoItem, knows |-> "none", out |-> "none"]
  /\ task[r].pc \in Processing => Item(r) \in Stored /\ run[r].knows \notin Terminal
  /\ task[r].pc \in Processing \ {"loaded"} => run[r].knows \in {"extracting", "classified"}
  /\ task[r].pc \in {"put", "row"} =>
       /\ Item(r) \in Items \ Stored /\ ~rows[Item(r)].text
       /\ \A q \in Runs \ {r} : Item(q) # Item(r)
  /\ task[r].pc = "row" => Item(r) \in blobs
  /\ task[r].pc = "unrow" => Item(r) \in Stored /\ run[r].out = "deleted"
  /\ task[r].pc = "supersede" => Item(r) \in Stored /\ run[r].knows # "superseded"
  /\ run[r].out = "deleted" => task[r].pc \in {"unrow", "done", "dead"}
  /\ run[r].out = "ingested" => task[r].pc = "done"
  /\ task[r].pc \in {"upsert", "insert", "append"} => task[r].text \in Contents
  /\ task[r].pc \in Handling /\ task[r].kind = "ORG_WIDE" => Len(task[r].todo) = 1
  /\ task[r].pc = "settle" /\ task[r].kind = "ORG_WIDE" /\ task[r].review = {} =>
       OnChain(Slug(r), task[r].text)
  /\ run[r].out = "ingested" /\ task[r].kind = "ORG_WIDE" => OnChain(Slug(r), task[r].text)

BlankRows == \A i \in Items \ Stored : ~rows[i].text /\ ~rows[i].key

(* An item in the pipeline has a request in the pipeline, or a dead one.   *)
ItemsAreManned ==
  \A i \in Items : rows[i].status \in {"queued", "extracting", "classified"} =>
    \E r \in On(i) : task[r].pc \in Processing \cup {"dead"}

(* What uploads of one digest, and the requests about a deleted item, may   *)
(* meet without having raced.                                              *)
Live(sha) == {i \in Stored : Sha[i] = sha /\ ~rows[i].text /\ rows[i].status # "deleted"}
UploadsHold(r) ==
  task[r].pc \in {"put", "row"} /\ Sha[Item(r)] \notin raced =>
    /\ Live(Sha[Item(r)]) = {}
    /\ \A q \in Uploading(Sha[Item(r)]) : q = r
DigestsHold ==
  /\ \A i \in Items : Sha[i] \notin raced => \A j, k \in Live(Sha[i]) : j = k
  /\ \A r \in Runs : UploadsHold(r)
  /\ \A r \in Runs : task[r].pc \in Processing /\ Sha[Item(r)] \notin raced =>
                       rows[Item(r)].status # "deleted"

IntakeHolds ==
  /\ \A r \in Runs : RunHolds(r)
  /\ BlankRows /\ ItemsAreManned /\ DigestsHold /\ BlobIsStored

IInv == Types /\ BrainHolds /\ IntakeHolds

-----------------------------------------------------------------------------
(* Sequences *)

LEMMA Appended ==
  ASSUME NEW S, NEW q \in Seq(S), NEW e \in S
  PROVE  /\ Append(q, e) \in Seq(S)
         /\ ToSet(Append(q, e)) = ToSet(q) \cup {e}
         /\ IsPrefix(q, Append(q, e))
<1>1. /\ Append(q, e) \in Seq(S) /\ Len(Append(q, e)) = Len(q) + 1 /\ Len(q) \in Nat
      /\ DOMAIN Append(q, e) = 1..(Len(q) + 1) /\ DOMAIN q = 1..Len(q)
      /\ \A i \in 1..Len(q) : Append(q, e)[i] = q[i]
      /\ Append(q, e)[Len(q) + 1] = e
  BY AppendProperties, LenProperties
<1>2. ToSet(Append(q, e)) = ToSet(q) \cup {e}
  BY <1>1 DEF ToSet
<1>3. SubSeq(q, 1, Len(q)) = SubSeq(Append(q, e), 1, Len(q))
  BY <1>1, SubSeqProperties
<1> QED
  BY <1>1, <1>2, <1>3 DEF IsPrefix

LEMMA HeadAndTail ==
  ASSUME NEW S, NEW q \in Seq(S), q # <<>>
  PROVE  /\ Head(q) \in S /\ Tail(q) \in Seq(S)
         /\ ToSet(q) = {Head(q)} \cup ToSet(Tail(q))
         /\ Len(q) \in Nat \ {0} /\ (Len(q) = 1 <=> Tail(q) = <<>>)
<1>1. /\ Head(q) \in S /\ Tail(q) \in Seq(S) /\ Len(q) \in Nat \ {0}
      /\ Len(Tail(q)) = Len(q) - 1 /\ DOMAIN q = 1..Len(q) /\ DOMAIN Tail(q) = 1..(Len(q) - 1)
      /\ Head(q) = q[1] /\ \A i \in 1..(Len(q) - 1) : Tail(q)[i] = q[i + 1]
  BY HeadTailProperties, LenProperties, EmptySeq
<1>2. Len(q) = 1 <=> Tail(q) = <<>>
  BY <1>1, EmptySeq
<1>3. ASSUME NEW x \in ToSet(q) PROVE x \in {Head(q)} \cup ToSet(Tail(q))
  <2>1. PICK i \in 1..Len(q) : x = q[i]
    BY <1>1, <1>3 DEF ToSet
  <2>2. CASE i = 1
    BY <1>1, <2>1, <2>2
  <2>3. CASE i # 1
    <3>1. i - 1 \in 1..(Len(q) - 1) /\ Tail(q)[i - 1] = q[i]
      BY <1>1, <2>1, <2>3
    <3> QED
      BY <1>1, <2>1, <3>1 DEF ToSet
  <2> QED
    BY <2>2, <2>3
<1>4. {Head(q)} \cup ToSet(Tail(q)) \subseteq ToSet(q)
  <2>1. Head(q) \in ToSet(q)
    BY <1>1 DEF ToSet
  <2>2. ASSUME NEW i \in 1..(Len(q) - 1) PROVE Tail(q)[i] \in ToSet(q)
    <3>1. i + 1 \in 1..Len(q) /\ Tail(q)[i] = q[i + 1]
      BY <1>1
    <3> QED
      BY <1>1, <3>1 DEF ToSet
  <2> QED
    BY <1>1, <2>1, <2>2 DEF ToSet
<1> QED
  BY <1>1, <1>2, <1>3, <1>4

-----------------------------------------------------------------------------
(* Pages *)

PagesTypeOK == pages \in [Slugs -> Page] /\ versions \subseteq Version

Still == UNCHANGED <<pages, versions>>

(* The three writes that a page can see.                                   *)
Inserted(w) ==
  /\ At(w, "insert") /\ ~pages[Slug(w)].there
  /\ \E ma \in BOOLEAN : pages' = [pages EXCEPT ![Slug(w)] = NewPage(w, ma)]
  /\ versions' = versions \cup {FirstVersion(w)}
Extended(w, what) ==
  /\ At(w, "append") /\ AppendTimeline(w, what) /\ UNCHANGED versions
Marked(w) ==
  /\ At(w, "delete")
  /\ pages' = [pages EXCEPT ![Slug(w)].deleted = TRUE] /\ UNCHANGED versions

(* Nobody inserts a call's text but the call.                              *)
Brings(w) ==
  At(w, "insert") /\ ~pages[Slug(w)].there /\ task[w].text \in Calls => task[w].text = w

Notes == {"note", "deleted", "conflict"}
PageStep(w) == Still \/ Inserted(w) \/ (\E what \in Notes : Extended(w, what)) \/ Marked(w)

(* Nothing that is there goes away.                                        *)
PageGrows(s) ==
  /\ ToSet(pages[s].timeline) \subseteq ToSet(pages'[s].timeline)
  /\ pages[s].there =>
       /\ pages'[s].there
       /\ pages'[s].truth = pages[s].truth /\ pages'[s].ma = pages[s].ma
       /\ pages'[s].by = pages[s].by
       /\ IsPrefix(pages[s].timeline, pages'[s].timeline)
Grows == versions \subseteq versions' /\ \A s \in Slugs : PageGrows(s)

LEMMA Pages ==
  ASSUME Types
  PROVE  /\ PagesTypeOK /\ task \in [Writers -> Task]
         /\ \A s \in Slugs : /\ pages[s] \in Page /\ pages[s].timeline \in Seq(Entry)
                             /\ IsPrefix(pages[s].timeline, pages[s].timeline)
         /\ NoPage \in Page /\ ToSet(NoPage.timeline) = {}
<1>1. /\ PagesTypeOK /\ task \in [Writers -> Task]
      /\ \A s \in Slugs : pages[s] \in Page /\ pages[s].timeline \in Seq(Entry)
  BY DEF Types, TypeOK, BrainTypeOK, PagesTypeOK, Page
<1>2. \A s \in Slugs : Len(pages[s].timeline) \in Nat
  BY <1>1, LenProperties
<1>3. \A s \in Slugs : IsPrefix(pages[s].timeline, pages[s].timeline)
  BY <1>2 DEF IsPrefix
<1>4. <<>> \in Seq(Entry) /\ DOMAIN <<>> = {}
  OBVIOUS
<1>5. NoPage \in Page
  BY <1>4 DEF NoPage, Page, Text
<1>6. NoPage.timeline = <<>>
  BY DEF NoPage
<1>7. ToSet(NoPage.timeline) = {}
  BY <1>4, <1>6 DEF ToSet
<1> QED
  BY <1>1, <1>3, <1>5, <1>7

LEMMA SlugInHand ==
  ASSUME Types, NEW w \in Writers, task[w].todo # <<>>
  PROVE  Slug(w) \in Slugs /\ task[w].todo \in Seq(Slugs)
BY HeadAndTail DEF Types, Task, Slug

(* A page is inserted with its first version and an entry of its writer.    *)
LEMMA InsertedKeeps ==
  ASSUME Types, SeedsStand, NEW w \in Writers, task[w].todo # <<>>, Inserted(w),
         task[w].text \in Calls => task[w].text = w
  PROVE  /\ PagesTypeOK' /\ SeedsStand' /\ Grows
         /\ \E v \in versions' : v.slug = Slug(w) /\ v.truth = task[w].text
         /\ pages'[Slug(w)].there /\ pages'[Slug(w)].by = w /\ ~pages'[Slug(w)].deleted
         /\ ToSet(pages'[Slug(w)].timeline) = {[by |-> w, what |-> "seed"]}
         /\ \A s \in Slugs \ {Slug(w)} : pages'[s] = pages[s]
<1> DEFINE sl == Slug(w)
           e  == [by |-> w, what |-> "seed"]
           v1 == [slug |-> sl, number |-> 1, truth |-> task[w].text, superseded |-> FALSE]
<1>0. sl \in Slugs /\ PagesTypeOK /\ task[w].text \in Text /\ ~pages[sl].there
  BY SlugInHand, Pages DEF Inserted, Task
<1>1. PICK ma \in BOOLEAN : pages' = [pages EXCEPT ![sl] = NewPage(w, ma)]
  BY DEF Inserted
<1>2. pages'[sl] = NewPage(w, ma) /\ \A s \in Slugs \ {sl} : pages'[s] = pages[s]
  BY <1>0, <1>1 DEF PagesTypeOK
<1>3. e \in Entry /\ <<e>> \in Seq(Entry) /\ ToSet(<<e>>) = {e}
  <2>1. e \in Entry
    BY DEF Entry
  <2>2. DOMAIN <<e>> = {1} /\ <<e>>[1] = e
    OBVIOUS
  <2> QED
    BY <2>1, <2>2 DEF ToSet
<1>4. /\ pages'[sl].there = TRUE /\ pages'[sl].truth = task[w].text /\ pages'[sl].by = w
      /\ pages'[sl].ma = ma /\ pages'[sl].version = 1 /\ pages'[sl].deleted = FALSE
      /\ pages'[sl].timeline = <<e>>
  BY <1>2 DEF NewPage, NoPage
<1>5. NewPage(w, ma) \in Page
  BY <1>0, <1>3 DEF NewPage, NoPage, Page, Text
<1>6. versions' = versions \cup {v1} /\ v1 \in Version
  BY <1>0 DEF Inserted, FirstVersion, Version
<1>7. PagesTypeOK'
  BY <1>0, <1>1, <1>5, <1>6 DEF PagesTypeOK
<1>8. Grows
  <2>1. ASSUME NEW s \in Slugs PROVE PageGrows(s)
    <3>1. CASE s = sl
      <4>1. pages[s] = NoPage /\ ToSet(pages[s].timeline) = {}
        BY <1>0, <3>1, Pages DEF SeedsStand
      <4> QED
        BY <1>0, <3>1, <4>1 DEF PageGrows
    <3>2. CASE s # sl
      BY <1>2, <3>2, Pages DEF PageGrows
    <3> QED
      BY <3>1, <3>2
  <2> QED
    BY <1>6, <2>1 DEF Grows
<1>9. /\ ToSet(pages'[sl].timeline) = {e} /\ e.by = w
      /\ \E v \in versions' : v.slug = sl /\ v.truth = task[w].text
  BY <1>3, <1>4, <1>6
<1>10. SeedsStand'
  <2>1. ASSUME NEW s \in Slugs
        PROVE  /\ ~pages'[s].there => pages'[s] = NoPage /\ \A v \in versions' : v.slug # s
               /\ pages'[s].there =>
                    /\ pages'[s].version = 1
                    /\ {v \in versions' : v.slug = s} =
                         {[slug |-> s, number |-> 1, truth |-> pages'[s].truth, superseded |-> FALSE]}
                    /\ pages'[s].truth \in Calls =>
                         \E x \in ToSet(pages'[s].timeline) : x.by = pages'[s].truth
    <3>1. CASE s = sl
      <4>1. {v \in versions' : v.slug = sl} = {v1}
        BY <1>0, <1>6 DEF SeedsStand
      <4>2. pages'[sl].truth \in Calls => \E x \in ToSet(pages'[sl].timeline) : x.by = pages'[sl].truth
        BY <1>4, <1>9
      <4> QED
        BY <1>4, <3>1, <4>1, <4>2
    <3>2. CASE s # sl
      <4>1. {v \in versions' : v.slug = s} = {v \in versions : v.slug = s}
        BY <1>6, <3>2
      <4>2. pages'[s] = pages[s]
        BY <1>2, <3>2
      <4> QED
        BY <4>1, <4>2 DEF SeedsStand, MentionedBy, EntriesOf
    <3> QED
      BY <3>1, <3>2
  <2> QED
    BY <2>1 DEF SeedsStand, MentionedBy, EntriesOf
<1> QED
  BY <1>2, <1>3, <1>4, <1>7, <1>8, <1>9, <1>10

(* An entry is added, or the page marked as deleted: its text stays.        *)
LEMMA TimelineKeeps ==
  ASSUME Types, SeedsStand, NEW w \in Writers, task[w].todo # <<>>, pages[Slug(w)].there,
         \/ \E what \in Notes : Extended(w, what)
         \/ Marked(w)
  PROVE  /\ PagesTypeOK' /\ SeedsStand' /\ Grows
         /\ \A what \in Notes : Extended(w, what) =>
              /\ ToSet(pages'[Slug(w)].timeline) =
                   ToSet(pages[Slug(w)].timeline) \cup {[by |-> w, what |-> what]}
              /\ pages'[Slug(w)].deleted = pages[Slug(w)].deleted
         /\ Marked(w) => ToSet(pages'[Slug(w)].timeline) = ToSet(pages[Slug(w)].timeline)
         /\ pages'[Slug(w)].by = pages[Slug(w)].by /\ pages'[Slug(w)].there
         /\ \A s \in Slugs \ {Slug(w)} : pages'[s] = pages[s]
<1> DEFINE sl == Slug(w)
<1>0. sl \in Slugs /\ PagesTypeOK /\ pages[sl] \in Page /\ pages[sl].timeline \in Seq(Entry)
  BY SlugInHand, Pages
<1>1. UNCHANGED versions
  BY DEF Extended, Marked
<1> DEFINE Same(p, q) == /\ p.there = q.there /\ p.truth = q.truth /\ p.by = q.by
                         /\ p.ma = q.ma /\ p.version = q.version
<1>2. ASSUME NEW what \in Notes, Extended(w, what)
      PROVE  /\ pages' \in [Slugs -> Page] /\ Same(pages'[sl], pages[sl])
             /\ \A s \in Slugs \ {sl} : pages'[s] = pages[s]
             /\ pages'[sl].deleted = pages[sl].deleted
             /\ ToSet(pages'[sl].timeline) = ToSet(pages[sl].timeline) \cup {[by |-> w, what |-> what]}
             /\ IsPrefix(pages[sl].timeline, pages'[sl].timeline)
  <2> DEFINE e == [by |-> w, what |-> what]
  <2>1. e \in Entry
    BY DEF Entry, Notes
  <2>2. /\ Append(pages[sl].timeline, e) \in Seq(Entry)
        /\ ToSet(Append(pages[sl].timeline, e)) = ToSet(pages[sl].timeline) \cup {e}
        /\ IsPrefix(pages[sl].timeline, Append(pages[sl].timeline, e))
    BY <1>0, <2>1, Appended
  <2>3. pages' = [pages EXCEPT ![sl].timeline = Append(@, e)]
    BY <1>2 DEF Extended, AppendTimeline
  <2>4. /\ pages'[sl] = [pages[sl] EXCEPT !.timeline = Append(@, e)]
        /\ \A s \in Slugs \ {sl} : pages'[s] = pages[s]
    BY <1>0, <2>3 DEF PagesTypeOK
  <2>5. pages'[sl].timeline = Append(pages[sl].timeline, e) /\ Same(pages'[sl], pages[sl])
        /\ pages'[sl].deleted = pages[sl].deleted
    BY <1>0, <2>4 DEF Page
  <2>6. pages'[sl] \in Page
    BY <1>0, <2>2, <2>4 DEF Page
  <2>7. pages' \in [Slugs -> Page]
    BY <1>0, <2>3, <2>4, <2>6 DEF PagesTypeOK
  <2> QED
    BY <2>2, <2>4, <2>5, <2>7
<1>3. ASSUME Marked(w)
      PROVE  /\ pages' \in [Slugs -> Page] /\ Same(pages'[sl], pages[sl])
             /\ \A s \in Slugs \ {sl} : pages'[s] = pages[s]
             /\ pages'[sl].timeline = pages[sl].timeline
  <2>1. pages' = [pages EXCEPT ![sl].deleted = TRUE]
    BY <1>3 DEF Marked
  <2>2. /\ pages'[sl] = [pages[sl] EXCEPT !.deleted = TRUE]
        /\ \A s \in Slugs \ {sl} : pages'[s] = pages[s]
    BY <1>0, <2>1 DEF PagesTypeOK
  <2>3. Same(pages'[sl], pages[sl]) /\ pages'[sl].timeline = pages[sl].timeline
    BY <1>0, <2>2 DEF Page
  <2>4. pages'[sl] \in Page
    BY <1>0, <2>2 DEF Page
  <2>5. pages' \in [Slugs -> Page]
    BY <1>0, <2>1, <2>2, <2>4 DEF PagesTypeOK
  <2> QED
    BY <2>2, <2>3, <2>5
<1>4. /\ pages' \in [Slugs -> Page] /\ Same(pages'[sl], pages[sl])
      /\ \A s \in Slugs \ {sl} : pages'[s] = pages[s]
      /\ ToSet(pages[sl].timeline) \subseteq ToSet(pages'[sl].timeline)
      /\ IsPrefix(pages[sl].timeline, pages'[sl].timeline)
  <2>1. CASE Marked(w)
    <3>1. IsPrefix(pages[sl].timeline, pages[sl].timeline)
      BY <1>0, Pages
    <3> QED
      BY <1>3, <2>1, <3>1
  <2>2. CASE \E what \in Notes : Extended(w, what)
    BY <1>2, <2>2
  <2> QED
    BY <2>1, <2>2
<1>5. PagesTypeOK'
  BY <1>0, <1>1, <1>4 DEF PagesTypeOK
<1>6. Grows
  <2>1. ASSUME NEW s \in Slugs PROVE PageGrows(s)
    <3>1. CASE s = sl
      BY <1>4, <3>1 DEF PageGrows
    <3>2. CASE s # sl
      BY <1>4, <3>2, Pages DEF PageGrows
    <3> QED
      BY <3>1, <3>2
  <2> QED
    BY <1>1, <2>1 DEF Grows
<1>7. SeedsStand'
  <2>1. ASSUME NEW s \in Slugs
        PROVE  /\ ~pages'[s].there => pages'[s] = NoPage /\ \A v \in versions' : v.slug # s
               /\ pages'[s].there =>
                    /\ pages'[s].version = 1
                    /\ {v \in versions' : v.slug = s} =
                         {[slug |-> s, number |-> 1, truth |-> pages'[s].truth, superseded |-> FALSE]}
                    /\ pages'[s].truth \in Calls =>
                         \E x \in ToSet(pages'[s].timeline) : x.by = pages'[s].truth
    <3>1. ToSet(pages[s].timeline) \subseteq ToSet(pages'[s].timeline)
      BY <1>6 DEF Grows, PageGrows
    <3>2. pages'[s].there = pages[s].there /\ pages'[s].truth = pages[s].truth
          /\ pages'[s].version = pages[s].version
      BY <1>4
    <3>3. CASE s = sl
      BY <1>1, <3>1, <3>2, <3>3 DEF SeedsStand, MentionedBy, EntriesOf
    <3>4. CASE s # sl
      <4>1. pages'[s] = pages[s]
        BY <1>4, <3>4
      <4> QED
        BY <1>1, <3>1, <3>2, <4>1 DEF SeedsStand, MentionedBy, EntriesOf
    <3> QED
      BY <3>3, <3>4
  <2> QED
    BY <2>1 DEF SeedsStand, MentionedBy, EntriesOf
<1>8. ASSUME NEW what \in Notes, Extended(w, what)
      PROVE  /\ ToSet(pages'[sl].timeline) = ToSet(pages[sl].timeline) \cup {[by |-> w, what |-> what]}
             /\ pages'[sl].deleted = pages[sl].deleted
  BY <1>2, <1>8
<1>9. Marked(w) => ToSet(pages'[sl].timeline) = ToSet(pages[sl].timeline)
  BY <1>3
<1>10. pages'[sl].by = pages[sl].by /\ pages'[sl].there
  BY <1>4
<1> QED
  BY <1>4, <1>5, <1>6, <1>7, <1>8, <1>9, <1>10

(* So with every step of a writer, and what is on a page is on record.      *)
LEMMA PageStepKeeps ==
  ASSUME Types, SeedsStand, WritesHaveProvenance, DeletionsAreAudited,
         NEW w \in Writers, WriterHolds(w), PageStep(w), provenance \subseteq provenance',
         Brings(w),
         At(w, "delete") => DeletionNoted(Slug(w))
  PROVE  PagesTypeOK' /\ SeedsStand' /\ Grows /\ WritesHaveProvenance' /\ DeletionsAreAudited'
<1> DEFINE sl == Slug(w)
<1>1. CASE Still
  <2>1. Grows
    BY <1>1, Pages DEF Still, Grows, PageGrows
  <2>3. SeedsStand'
    BY <1>1 DEF Still, SeedsStand, MentionedBy, EntriesOf
  <2>4. WritesHaveProvenance' /\ DeletionsAreAudited'
    BY <1>1 DEF Still, WritesHaveProvenance, DeletionsAreAudited, EntriesOf
  <2> QED
    BY <1>1, <2>1, <2>3, <2>4, Pages DEF Still, PagesTypeOK
<1>2. ASSUME ~ Still
      PROVE  task[w].pc \in {"insert", "append", "delete"} /\ task[w].todo # <<>> /\ w \in provenance
             /\ sl \in Slugs
  <2>1. task[w].pc \in {"insert", "append", "delete"}
    BY <1>2 DEF PageStep, Inserted, Extended, Marked, At
  <2>2. task[w].todo # <<>> /\ w \in provenance
    BY <2>1 DEF WriterHolds, Writing
  <2> QED
    BY <2>1, <2>2, SlugInHand
<1>3. CASE Inserted(w) /\ ~ Still
  <2>1. /\ PagesTypeOK' /\ SeedsStand' /\ Grows
        /\ pages'[sl].by = w /\ ~pages'[sl].deleted
        /\ ToSet(pages'[sl].timeline) = {[by |-> w, what |-> "seed"]}
        /\ \A s \in Slugs \ {sl} : pages'[s] = pages[s]
    BY <1>2, <1>3, InsertedKeeps DEF Inserted, Brings
  <2>2. WritesHaveProvenance'
    BY <1>2, <1>3, <2>1 DEF WritesHaveProvenance, EntriesOf
  <2>3. DeletionsAreAudited'
    BY <1>2, <2>1 DEF DeletionsAreAudited, EntriesOf
  <2> QED
    BY <2>1, <2>2, <2>3
<1>4. ASSUME NEW what \in Notes, Extended(w, what), ~ Still
      PROVE  PagesTypeOK' /\ SeedsStand' /\ Grows /\ WritesHaveProvenance' /\ DeletionsAreAudited'
  <2>1. pages[sl].there
    BY <1>4 DEF Extended, At, WriterHolds
  <2>2. /\ PagesTypeOK' /\ SeedsStand' /\ Grows
        /\ ToSet(pages'[sl].timeline) = ToSet(pages[sl].timeline) \cup {[by |-> w, what |-> what]}
        /\ pages'[sl].deleted = pages[sl].deleted /\ pages'[sl].by = pages[sl].by
        /\ \A s \in Slugs \ {sl} : pages'[s] = pages[s]
    BY <1>2, <1>4, <2>1, TimelineKeeps
  <2>3. WritesHaveProvenance'
    BY <1>2, <1>4, <2>1, <2>2 DEF WritesHaveProvenance, EntriesOf
  <2>4. DeletionsAreAudited'
    BY <1>2, <2>2 DEF DeletionsAreAudited, EntriesOf
  <2> QED
    BY <2>2, <2>3, <2>4
<1>5. CASE Marked(w) /\ ~ Still
  <2>1. pages[sl].there /\ \E e \in EntriesOf(sl) : e.what = "deleted"
    BY <1>5 DEF Marked, At, WriterHolds, DeletionNoted
  <2>2. /\ PagesTypeOK' /\ SeedsStand' /\ Grows
        /\ ToSet(pages'[sl].timeline) = ToSet(pages[sl].timeline)
        /\ pages'[sl].by = pages[sl].by
        /\ \A s \in Slugs \ {sl} : pages'[s] = pages[s]
    BY <1>2, <1>5, <2>1, TimelineKeeps
  <2>3. WritesHaveProvenance'
    BY <1>2, <2>1, <2>2 DEF WritesHaveProvenance, EntriesOf
  <2>4. DeletionsAreAudited'
    BY <1>2, <2>1, <2>2 DEF DeletionsAreAudited, EntriesOf
  <2> QED
    BY <2>2, <2>3, <2>4
<1> QED
  BY <1>1, <1>3, <1>4, <1>5 DEF PageStep

-----------------------------------------------------------------------------
(* Writers *)

Moves(w, k) == k \in Task /\ task' = [task EXCEPT ![w] = k]

LEMMA Moved ==
  ASSUME Types, NEW w \in Writers, NEW k, Moves(w, k)
  PROVE  /\ task' \in [Writers -> Task] /\ task'[w] = k
         /\ \A u \in Writers \ {w} : task'[u] = task[u]
BY Pages DEF Moves

LEMMA Distinct ==
  /\ Calls \cap Managers = {} /\ Runs \cap Calls = {} /\ Runs \cap Managers = {}
  /\ Contents \cap Writers = {} /\ Nobody \notin Writers
  /\ Calls \subseteq Writers /\ Managers \subseteq Writers /\ Runs \subseteq Writers
BY BrainAssumption DEF Writers

(* What one has found, appended or stored stays while another works.        *)
LEMMA OthersHold ==
  ASSUME Types, NEW w \in Writers, \A u \in Writers \ {w} : task'[u] = task[u],
         Grows, provenance \subseteq provenance'
  PROVE  /\ \A u \in Writers \ {w} : WriterHolds(u) => WriterHolds(u)'
         /\ \A c \in Calls \ {w} : CallHolds(c) => CallHolds(c)'
         /\ \A m \in Managers \ {w} : ManagerHolds(m) => ManagerHolds(m)'
<1>0. /\ \A s \in Slugs : ToSet(pages[s].timeline) \subseteq ToSet(pages'[s].timeline)
      /\ \A s \in Slugs : pages[s].there => pages'[s].there
      /\ versions \subseteq versions'
  BY DEF Grows, PageGrows
<1>1. ASSUME NEW u \in Writers \ {w}, WriterHolds(u) PROVE WriterHolds(u)'
  <2>1. task'[u] = task[u]
    OBVIOUS
  <2>2. task[u].pc \in {"append", "delete"} => Slug(u) \in Slugs
    BY <1>1, SlugInHand DEF WriterHolds, Writing
  <2> QED
    BY <1>0, <1>1, <2>1, <2>2 DEF WriterHolds, Slug
<1>2. ASSUME NEW c \in Calls \ {w}, CallHolds(c) PROVE CallHolds(c)'
  <2>1. task'[c] = task[c]
    BY <1>2, Distinct
  <2>2. ToSet(EntitiesOf[c]) \subseteq Slugs
    BY BrainAssumption DEF ToSet
  <2>3. \A s \in Slugs : MentionedBy(c, s) => MentionedBy(c, s)'
    BY <1>0 DEF MentionedBy, EntriesOf
  <2> QED
    BY <1>2, <2>1, <2>2, <2>3 DEF CallHolds
<1>3. ASSUME NEW m \in Managers \ {w}, ManagerHolds(m) PROVE ManagerHolds(m)'
  <2>1. task'[m] = task[m] /\ Slug(m)' = Slug(m)
    BY <1>3, Distinct DEF Slug
  <2>2. task[m].pc # "idle" => Slug(m) \in Slugs
    BY <1>3, Distinct, SlugInHand DEF ManagerHolds
  <2>3. \A s \in Slugs : DeletionNoted(s) => DeletionNoted(s)'
    BY <1>0 DEF DeletionNoted, EntriesOf
  <2>4. \A s, x : OnChain(s, x) => OnChain(s, x)'
    BY <1>0 DEF OnChain
  <2> DEFINE sl == Slug(m)
  <2>5. task[m].pc = "delete" => DeletionNoted(Slug(m))'
    BY <1>3, <2>1, <2>2, <2>3 DEF ManagerHolds
  <2>6. task[m].pc = "done" /\ task[m].kind = "replace_compiled_truth" =>
          OnChain(Slug(m), task[m].text)'
    BY <1>3, <2>1, <2>4 DEF ManagerHolds
  <2>7. task[m].pc # "idle" /\ pages[Slug(m)].there => pages'[Slug(m)].there
    BY <1>0, <2>2
  <2> QED
    BY <1>3, <2>1, <2>5, <2>6, <2>7 DEF ManagerHolds
<1> QED
  BY <1>1, <1>2, <1>3

(* A page that is found is left as it is: its text is the one to be        *)
(* written, its Manager's stands, or its first version's number is taken.   *)
LEMMA UpsertDoes ==
  ASSUME Types, SeedsStand, NEW w \in Writers, task[w].todo # <<>>,
         NEW ma \in BOOLEAN, NEW v, Upsert(w, ma, v)
  PROVE  /\ UNCHANGED <<provenance, deaths>>
         /\ PageStep(w)
         /\ At(w, "upsert") \/ At(w, "insert")
         /\ v \in {"same", "conflict", "failed"}
         /\ v # "same" => Still
         /\ v = "conflict" => pages[Slug(w)].there /\ At(w, "upsert")
         /\ v = "same" => \/ Inserted(w)
                          \/ /\ Still /\ pages[Slug(w)].there
                             /\ pages[Slug(w)].truth = task[w].text
<1> DEFINE sl == Slug(w)
<1>0. sl \in Slugs /\ PagesTypeOK
  BY SlugInHand, Pages
<1>1. CASE UpsertFound(w, ma, v)
  <2>1. At(w, "upsert") /\ pages[sl].there /\ v = Verdict(w, ma) /\ UNCHANGED <<provenance, deaths>>
    BY <1>1 DEF UpsertFound
  <2>2. [slug |-> sl, number |-> 1, truth |-> pages[sl].truth, superseded |-> FALSE] \in versions
        /\ pages[sl].version = 1
    BY <1>0, <2>1 DEF SeedsStand
  <2>3. pages[sl].version \in Numbers(sl)
    BY <2>2 DEF Numbers
  <2>4. \/ v = "conflict"
        \/ v = "same" /\ pages[sl].truth = task[w].text
        \/ v = "failed"
    BY <2>1, <2>3 DEF Verdict
  <2>5. Still
    BY <1>1, <2>4 DEF UpsertFound, Still
  <2> QED
    BY <2>1, <2>4, <2>5 DEF PageStep
<1>2. CASE Insert(w, ma, v)
  <2>1. /\ At(w, "insert") /\ UNCHANGED <<provenance, deaths>>
        /\ v = IF pages[sl].there THEN "failed" ELSE "same"
    BY <1>2 DEF Insert
  <2>2. CASE pages[sl].there
    <3>1. v = "failed" /\ Still
      BY <1>2, <2>1, <2>2 DEF Insert, Still
    <3> QED
      BY <2>1, <3>1 DEF PageStep
  <2>3. CASE ~pages[sl].there
    <3>1. v = "same" /\ Inserted(w)
      BY <1>2, <2>1, <2>3 DEF Insert, Inserted
    <3> QED
      BY <2>1, <3>1 DEF PageStep
  <2> QED
    BY <2>2, <2>3
<1> QED
  BY <1>1, <1>2 DEF Upsert

(* What was stored, or found stored already, is on the page's chain, and a  *)
(* call's text brings its mention.                                         *)
LEMMA SameLands ==
  ASSUME Types, SeedsStand, NEW w \in Writers, task[w].todo # <<>>,
         NEW ma \in BOOLEAN, Upsert(w, ma, "same"),
         Brings(w)
  PROVE  /\ \E v \in versions' : v.slug = Slug(w) /\ v.truth = task[w].text
         /\ w \in Calls /\ task[w].text = w =>
              \E e \in ToSet(pages'[Slug(w)].timeline) : e.by = w
<1> DEFINE sl == Slug(w)
<1>0. sl \in Slugs
  BY SlugInHand
<1>1. Inserted(w) \/ (Still /\ pages[sl].there /\ pages[sl].truth = task[w].text)
  BY UpsertDoes
<1>2. CASE Inserted(w)
  <2>1. /\ \E v \in versions' : v.slug = sl /\ v.truth = task[w].text
        /\ ToSet(pages'[sl].timeline) = {[by |-> w, what |-> "seed"]}
    BY <1>2, InsertedKeeps DEF Inserted, Brings
  <2> QED
    BY <2>1
<1>3. CASE Still /\ pages[sl].there /\ pages[sl].truth = task[w].text
  <2>1. [slug |-> sl, number |-> 1, truth |-> task[w].text, superseded |-> FALSE] \in versions
    BY <1>0, <1>3 DEF SeedsStand
  <2>2. task[w].text \in Calls => \E e \in ToSet(pages[sl].timeline) : e.by = task[w].text
    BY <1>0, <1>3 DEF SeedsStand, MentionedBy, EntriesOf
  <2> QED
    BY <1>3, <2>1, <2>2 DEF Still
<1> QED
  BY <1>1, <1>2, <1>3

LEMMA WritersBring ==
  ASSUME BrainHolds, \A r \in Runs : RunHolds(r), NEW w \in Writers
  PROVE  Brings(w) /\ (At(w, "delete") => DeletionNoted(Slug(w)))
<1>1. CASE w \in Calls
  BY <1>1 DEF BrainHolds, CallHolds, Brings, At
<1>2. CASE w \in Managers
  BY <1>2, Distinct DEF BrainHolds, ManagerHolds, Brings, At
<1>3. CASE w \in Runs
  BY <1>3, Distinct DEF RunHolds, Brings, At, Processing, Handling, Ends
<1> QED
  BY <1>1, <1>2, <1>3 DEF Writers

(* A step of a writer, with what it has in hand after it.                   *)
Turn(w, k) ==
  /\ Moves(w, k) /\ PageStep(w)
  /\ provenance \subseteq provenance' /\ provenance' \subseteq Writers
  /\ deaths' \in 0..MaxDeaths

LEMMA TurnKeeps ==
  ASSUME Types, BrainHolds, \A r \in Runs : RunHolds(r), NEW w \in Writers, NEW k, Turn(w, k)
  PROVE  /\ BrainTypeOK' /\ task' \in [Writers -> Task] /\ Grows
         /\ SeedsStand' /\ WritesHaveProvenance' /\ DeletionsAreAudited'
         /\ \A u \in Writers \ {w} : task'[u] = task[u] /\ WriterHolds(u)'
         /\ \A c \in Calls \ {w} : CallHolds(c)'
         /\ \A m \in Managers \ {w} : ManagerHolds(m)'
         /\ task'[w] = k
<1>1. /\ PagesTypeOK' /\ SeedsStand' /\ Grows /\ WritesHaveProvenance' /\ DeletionsAreAudited'
  BY WritersBring, PageStepKeeps DEF Turn, BrainHolds
<1>2. /\ task' \in [Writers -> Task] /\ task'[w] = k
      /\ \A u \in Writers \ {w} : task'[u] = task[u]
  BY Moved DEF Turn
<1>3. /\ \A u \in Writers \ {w} : WriterHolds(u)'
      /\ \A c \in Calls \ {w} : CallHolds(c)'
      /\ \A m \in Managers \ {w} : ManagerHolds(m)'
  BY <1>1, <1>2, OthersHold, Distinct DEF Turn, BrainHolds
<1>4. BrainTypeOK'
  BY <1>1, <1>2 DEF BrainTypeOK, PagesTypeOK, Turn, Task
<1> QED
  BY <1>1, <1>2, <1>3, <1>4

LEMMA Gone ==
  ASSUME Types, NEW w \in Writers, NEW p \in Phases, Goto(w, p)
  PROVE  Moves(w, [task[w] EXCEPT !.pc = p])
<1>1. [task[w] EXCEPT !.pc = p] \in Task
  BY Pages DEF Task
<1> QED
  BY <1>1 DEF Moves, Goto

-----------------------------------------------------------------------------
(* Calls *)

LEMMA CallStays ==
  ASSUME Types, BrainHolds, NEW c \in Calls,
         NEW p \in {"upsert", "insert", "append", "failed", "dead"},
         task'[c] = [task[c] EXCEPT !.pc = p], task[c].pc # "idle",
         p \in Writing => task[c].pc \in Writing,
         p = "append" => pages'[Slug(c)].there,
         Grows, provenance \subseteq provenance'
  PROVE  WriterHolds(c)' /\ CallHolds(c)'
<1>1. c \in Writers /\ task[c] \in Task /\ WriterHolds(c) /\ CallHolds(c)
  BY Pages, Distinct DEF BrainHolds
<1>2. /\ task'[c].pc = p /\ task'[c].todo = task[c].todo /\ task'[c].text = task[c].text
      /\ task'[c].review = task[c].review /\ Slug(c)' = Slug(c)
  BY <1>1 DEF Task, Slug
<1>3. ToSet(EntitiesOf[c]) \subseteq Slugs
  BY BrainAssumption DEF ToSet
<1>4. \A s \in Slugs : MentionedBy(c, s) => MentionedBy(c, s)'
  BY DEF MentionedBy, EntriesOf, Grows, PageGrows
<1>5. WriterHolds(c)'
  BY <1>1, <1>2 DEF WriterHolds, Writing
<1>6. CallHolds(c)'
  BY <1>1, <1>2, <1>3, <1>4 DEF CallHolds
<1> QED
  BY <1>5, <1>6

LEMMA CallAdvances ==
  ASSUME Types, BrainHolds, NEW c \in Calls, NEW k \in Task, task'[c] = k,
         task[c].pc \in {"upsert", "insert", "append"},
         k.todo = Tail(task[c].todo), k.text = task[c].text, task[c].review \subseteq k.review,
         k.pc = IF Len(task[c].todo) = 1 THEN "done" ELSE "get",
         \/ Slug(c) \in k.review
         \/ \E e \in ToSet(pages'[Slug(c)].timeline) : e.by = c,
         Grows, provenance \subseteq provenance'
  PROVE  WriterHolds(c)' /\ CallHolds(c)'
<1>1. c \in Writers /\ task[c] \in Task /\ WriterHolds(c) /\ CallHolds(c)
  BY Pages, Distinct DEF BrainHolds
<1>2. task[c].todo # <<>> /\ task[c].todo \in Seq(Slugs) /\ c \in provenance'
  BY <1>1 DEF WriterHolds, Writing, Task
<1>3. /\ ToSet(task[c].todo) = {Slug(c)} \cup ToSet(k.todo)
      /\ Len(task[c].todo) = 1 <=> k.todo = <<>>
  BY <1>2, HeadAndTail DEF Slug
<1>4. ToSet(EntitiesOf[c]) \subseteq Slugs
  BY BrainAssumption DEF ToSet
<1>5. \A s \in Slugs : MentionedBy(c, s) => MentionedBy(c, s)'
  BY DEF MentionedBy, EntriesOf, Grows, PageGrows
<1>6. WriterHolds(c)'
  BY <1>2, <1>3 DEF WriterHolds, Writing
<1>7. ASSUME NEW s \in ToSet(EntitiesOf[c])
      PROVE  s \in k.review \cup ToSet(k.todo) \/ MentionedBy(c, s)'
  <2>1. s \in task[c].review \cup ToSet(task[c].todo) \/ MentionedBy(c, s)
    BY <1>1, <1>7 DEF CallHolds
  <2>2. CASE s = Slug(c)
    BY <2>2 DEF MentionedBy, EntriesOf
  <2>3. CASE s # Slug(c)
    BY <1>3, <1>4, <1>5, <1>7, <2>1, <2>3
  <2> QED
    BY <2>2, <2>3
<1>8. CallHolds(c)'
  BY <1>1, <1>3, <1>7 DEF CallHolds
<1> QED
  BY <1>6, <1>8

LEMMA CallTurns ==
  ASSUME Types, BrainHolds, \A r \in Runs : RunHolds(r), NEW c \in Calls, UpdateCall(c)
  PROVE  \E k : Turn(c, k) /\ WriterHolds(c)' /\ CallHolds(c)'
<1>0. /\ c \in Writers /\ task[c] \in Task /\ WriterHolds(c) /\ CallHolds(c) /\ SeedsStand
      /\ provenance \subseteq Writers /\ deaths \in 0..MaxDeaths
  BY Pages, Distinct DEF BrainHolds, Types, TypeOK, BrainTypeOK
<1>1. CASE StartUpdate(c)
  <2> DEFINE k == [Idle EXCEPT !.pc = "get", !.todo = EntitiesOf[c], !.text = c]
  <2>1. EntitiesOf[c] \in Seq(Slugs) /\ EntitiesOf[c] # <<>> /\ c \in Text
    BY <1>0, <1>1, BrainAssumption DEF StartUpdate, Text
  <2>2. /\ k.pc = "get" /\ k.todo = EntitiesOf[c] /\ k.text = c /\ k.kind = "none"
        /\ k.review = {} /\ k \in Task
    BY <2>1 DEF Idle, Task, Phases, Writing
  <2>3. Turn(c, k)
    BY <1>0, <1>1, <2>2 DEF StartUpdate, Turn, Moves, PageStep, Still
  <2>4. task'[c] = k /\ c \in provenance'
    BY <1>0, <1>1, <2>3, TurnKeeps DEF StartUpdate
  <2>5. WriterHolds(c)' /\ CallHolds(c)'
    BY <2>1, <2>2, <2>4 DEF WriterHolds, CallHolds, Writing
  <2> QED
    BY <2>3, <2>5
<1>2. ASSUME NEW p \in {"upsert", "insert", "append", "failed"}, Goto(c, p), Still,
             UNCHANGED <<provenance, deaths>>, task[c].pc \in Writing,
             p = "append" => pages[Slug(c)].there
      PROVE  \E k : Turn(c, k) /\ WriterHolds(c)' /\ CallHolds(c)'
  <2> DEFINE k == [task[c] EXCEPT !.pc = p]
  <2>1. p \in Phases
    BY DEF Phases, Writing, Ends
  <2>2. Turn(c, k)
    BY <1>0, <1>2, <2>1, Gone DEF Turn, PageStep
  <2>3. task'[c] = k /\ Grows /\ provenance \subseteq provenance'
    BY <1>0, <2>2, TurnKeeps DEF Turn
  <2>4. pages' = pages /\ task[c].pc # "idle"
    BY <1>2 DEF Still, Writing
  <2>5. WriterHolds(c)' /\ CallHolds(c)'
    BY <1>2, <2>3, <2>4, CallStays
  <2> QED
    BY <2>2, <2>5
<1>3. CASE GetEntity(c)
  BY <1>2, <1>3 DEF GetEntity, At, Writing, Still
<1>4. CASE FindNone(c)
  BY <1>2, <1>4 DEF FindNone, At, Writing, Still
<1>5. ASSUME NEW k \in Task, task' = [task EXCEPT ![c] = k], PageStep(c),
             task[c].pc \in {"upsert", "insert", "append"},
             k.todo = Tail(task[c].todo), k.text = task[c].text, task[c].review \subseteq k.review,
             k.pc = IF Len(task[c].todo) = 1 THEN "done" ELSE "get",
             \/ Slug(c) \in k.review
             \/ \E e \in ToSet(pages'[Slug(c)].timeline) : e.by = c,
             UNCHANGED <<provenance, deaths>>
      PROVE  Turn(c, k) /\ WriterHolds(c)' /\ CallHolds(c)'
  <2>1. Turn(c, k)
    BY <1>0, <1>5 DEF Turn, Moves
  <2>2. task'[c] = k /\ Grows /\ provenance \subseteq provenance'
    BY <1>0, <2>1, TurnKeeps DEF Turn
  <2> QED
    BY <1>5, <2>1, <2>2, CallAdvances
<1> DEFINE nextPc == IF Len(task[c].todo) = 1 THEN "done" ELSE "get"
           nextTask == [task[c] EXCEPT !.todo = Tail(@), !.pc = nextPc]
<1>6. ASSUME task[c].pc \in {"upsert", "insert", "append"}
      PROVE  /\ task[c].todo # <<>> /\ Slug(c) \in Slugs
             /\ nextTask \in Task /\ nextTask.todo = Tail(task[c].todo)
             /\ nextTask.text = task[c].text /\ nextTask.review = task[c].review
             /\ nextTask.pc = nextPc
  <2>1. task[c].todo # <<>>
    BY <1>0, <1>6 DEF WriterHolds, Writing
  <2>2. Tail(task[c].todo) \in Seq(Slugs) /\ Slug(c) \in Slugs
    BY <1>0, <2>1, HeadAndTail DEF Task, Slug
  <2>3. nextPc \in Phases
    BY DEF Phases, Writing, Ends
  <2> QED
    BY <1>0, <2>1, <2>2, <2>3 DEF Task
<1>7. CASE Mention(c)
  <2>1. /\ task[c].pc = "append" /\ Extended(c, "note")
        /\ task' = [task EXCEPT ![c] = nextTask] /\ UNCHANGED <<provenance, deaths>>
    BY <1>7 DEF Mention, Extended, Advance, At
  <2>2. pages[Slug(c)].there /\ "note" \in Notes
    BY <1>0, <2>1 DEF WriterHolds, Notes
  <2>3. ToSet(pages'[Slug(c)].timeline) =
          ToSet(pages[Slug(c)].timeline) \cup {[by |-> c, what |-> "note"]}
    BY <1>0, <1>6, <2>1, <2>2, TimelineKeeps
  <2> DEFINE note == [by |-> c, what |-> "note"]
  <2>4. note \in ToSet(pages'[Slug(c)].timeline) /\ note.by = c
    BY <2>3
  <2>5. PageStep(c)
    BY <2>1, <2>2 DEF PageStep
  <2>6. Turn(c, nextTask) /\ WriterHolds(c)' /\ CallHolds(c)'
    BY <1>5, <1>6, <2>1, <2>4, <2>5
  <2> QED
    BY <2>6
<1>8. ASSUME NEW v, Upsert(c, FALSE, v)
      PROVE  /\ task[c].pc \in {"upsert", "insert"} /\ task[c].todo # <<>>
             /\ PageStep(c) /\ UNCHANGED <<provenance, deaths>>
             /\ v \in {"same", "conflict", "failed"}
             /\ v # "same" => Still
             /\ v = "same" => \E e \in ToSet(pages'[Slug(c)].timeline) : e.by = c
  <2>1. task[c].pc \in {"upsert", "insert"}
    BY <1>8 DEF Upsert, UpsertFound, Insert, At
  <2>2. task[c].todo # <<>> /\ task[c].text = c
    BY <1>0, <2>1 DEF WriterHolds, CallHolds, Writing
  <2>3. v = "same" => \E e \in ToSet(pages'[Slug(c)].timeline) : e.by = c
    BY <1>0, <1>8, <2>2, SameLands, WritersBring
  <2> QED
    BY <1>0, <1>8, <2>1, <2>2, <2>3, UpsertDoes
<1>9. ASSUME NEW v \in {"same", "changed"}, Upsert(c, FALSE, v), Advance(c)
      PROVE  \E k : Turn(c, k) /\ WriterHolds(c)' /\ CallHolds(c)'
  <2>1. v = "same" /\ task' = [task EXCEPT ![c] = nextTask]
    BY <1>8, <1>9 DEF Advance
  <2>2. Turn(c, nextTask) /\ WriterHolds(c)' /\ CallHolds(c)'
    BY <1>5, <1>6, <1>8, <1>9, <2>1
  <2> QED
    BY <2>2
<1>10. ASSUME NEW v \in {"failed"}, Upsert(c, FALSE, v), Goto(c, "failed")
       PROVE  \E k : Turn(c, k) /\ WriterHolds(c)' /\ CallHolds(c)'
  <2>1. /\ Still /\ UNCHANGED <<provenance, deaths>>
        /\ task[c].pc \in {"upsert", "insert"}
    BY ONLY <1>8, <1>10
  <2>2. task[c].pc \in Writing
    BY <2>1 DEF Writing
  <2> QED
    BY <1>2, <1>10, <2>1, <2>2
<1>11. ASSUME Upsert(c, FALSE, "conflict"),
              task' = [task EXCEPT ![c].review = @ \cup {Slug(c)}, ![c].todo = Tail(@),
                                   ![c].pc = IF Len(task[c].todo) = 1 THEN "done" ELSE "get"]
       PROVE  \E k : Turn(c, k) /\ WriterHolds(c)' /\ CallHolds(c)'
  <2> DEFINE k == [task[c] EXCEPT !.review = @ \cup {Slug(c)}, !.todo = Tail(@), !.pc = nextPc]
  <2>1. task' = [task EXCEPT ![c] = k]
    BY <1>11
  <2>2. /\ k \in Task /\ k.todo = Tail(task[c].todo) /\ k.text = task[c].text
        /\ k.review = task[c].review \cup {Slug(c)} /\ k.pc = nextPc
    BY <1>0, <1>6, <1>8, <1>11 DEF Task
  <2>3. Turn(c, k) /\ WriterHolds(c)' /\ CallHolds(c)'
    BY <1>5, <1>8, <1>11, <2>1, <2>2
  <2> QED
    BY <2>3
<1>12. CASE UpsertStub(c)
  <2>1. CASE FindNone(c)
    BY <1>4, <2>1
  <2>2. CASE \E v \in {"same", "changed"} : Upsert(c, FALSE, v) /\ Advance(c)
    BY <1>9, <2>2
  <2>3. CASE Upsert(c, FALSE, "failed") /\ Goto(c, "failed")
    BY ONLY <1>10, <2>3
  <2>4. CASE Upsert(c, FALSE, "conflict")
             /\ task' = [task EXCEPT ![c].review = @ \cup {Slug(c)}, ![c].todo = Tail(@),
                                     ![c].pc = IF Len(task[c].todo) = 1 THEN "done" ELSE "get"]
    BY ONLY <1>11, <2>4
  <2> QED
    BY <1>12, <2>1, <2>2, <2>3, <2>4 DEF UpsertStub
<1> QED
  BY <1>1, <1>3, <1>7, <1>12 DEF UpdateCall

-----------------------------------------------------------------------------
(* Managers *)

LEMMA ManagerTurns ==
  ASSUME Types, BrainHolds, \A r \in Runs : RunHolds(r), NEW m \in Managers,
         \/ Correct(m)
         \/ \E s \in Slugs, kind \in Kinds :
              \E text \in {m, Nobody, pages[s].truth} : ReadTarget(m, s, kind, text)
  PROVE  \E k : Turn(m, k) /\ WriterHolds(m)' /\ ManagerHolds(m)'
<1>0. /\ m \in Writers /\ task[m] \in Task /\ WriterHolds(m) /\ ManagerHolds(m) /\ SeedsStand
      /\ provenance \subseteq Writers /\ deaths \in 0..MaxDeaths
  BY Pages, Distinct DEF BrainHolds, Types, TypeOK, BrainTypeOK
<1>1. ASSUME NEW s \in Slugs, NEW kind \in Kinds, NEW text \in {m, Nobody, pages[s].truth},
             ReadTarget(m, s, kind, text)
      PROVE  \E k : Turn(m, k) /\ WriterHolds(m)' /\ ManagerHolds(m)'
  <2> DEFINE p == IF pages[s].there \/ kind = "replace_compiled_truth" THEN "provenance" ELSE "refused"
             k == [Idle EXCEPT !.pc = p, !.todo = <<s>>, !.kind = kind, !.text = text]
  <2>1. pages[s] \in Page /\ (pages[s].there \/ pages[s].truth = Nobody)
    BY <1>0, Pages DEF SeedsStand, NoPage
  <2>2. text \in Text /\ (text \in {m, Nobody} \/ pages[s].there)
    BY <1>0, <2>1 DEF Text, Page
  <2>3. <<s>> \in Seq(Slugs) /\ <<s>> # <<>> /\ Head(<<s>>) = s /\ p \in {"provenance", "refused"}
    OBVIOUS
  <2>4. /\ k.pc = p /\ k.todo = <<s>> /\ k.text = text /\ k.kind = kind /\ k.review = {}
        /\ k \in Task
    BY <2>2, <2>3 DEF Idle, Task, Phases, Ends
  <2>5. Turn(m, k)
    BY <1>0, <1>1, <2>4 DEF ReadTarget, Turn, Moves, PageStep, Still
  <2>6. task'[m] = k /\ pages' = pages
    BY <1>0, <1>1, <2>5, TurnKeeps DEF ReadTarget
  <2>7. Slug(m)' = s
    BY <2>3, <2>4, <2>6 DEF Slug
  <2>8. WriterHolds(m)'
    BY <2>3, <2>4, <2>6 DEF WriterHolds, Writing
  <2>9. ManagerHolds(m)'
    BY <2>2, <2>3, <2>4, <2>6, <2>7 DEF ManagerHolds
  <2> QED
    BY <2>5, <2>8, <2>9
<1>2. ASSUME NEW p \in {"upsert", "insert", "append", "delete", "done", "failed", "refused"},
             Goto(m, p), PageStep(m), provenance \subseteq provenance', provenance' \subseteq Writers,
             UNCHANGED deaths
      PROVE  LET k == [task[m] EXCEPT !.pc = p] IN
             /\ Turn(m, k) /\ task'[m] = k /\ Grows
             /\ k.pc = p /\ k.todo = task[m].todo /\ k.text = task[m].text /\ k.kind = task[m].kind
             /\ Slug(m)' = Slug(m)
  <2> DEFINE k == [task[m] EXCEPT !.pc = p]
  <2>1. p \in Phases
    BY DEF Phases, Processing, Handling, Writing, Ends
  <2>2. Turn(m, k)
    BY <1>0, <1>2, <2>1, Gone DEF Turn
  <2>3. task'[m] = k /\ Grows
    BY <1>0, <2>2, TurnKeeps
  <2>4. k.pc = p /\ k.todo = task[m].todo /\ k.text = task[m].text /\ k.kind = task[m].kind
    BY <1>0 DEF Task
  <2> QED
    BY <2>2, <2>3, <2>4 DEF Slug
<1>3. CASE RecordCorrection(m)
  <2> DEFINE p == NextOf(m)
             k == [task[m] EXCEPT !.pc = p]
  <2>1. /\ task[m].pc = "provenance" /\ Goto(m, p) /\ Still /\ provenance' = provenance \cup {m}
        /\ UNCHANGED deaths
    BY <1>3 DEF RecordCorrection, At, Still
  <2>2. \/ p = "append" /\ task[m].kind # "replace_compiled_truth" /\ pages[Slug(m)].there
        \/ p = "upsert" /\ task[m].kind = "replace_compiled_truth"
        \/ p = "refused"
    BY <1>0, <2>1 DEF NextOf, ManagerHolds
  <2>3. /\ Turn(m, k) /\ task'[m] = k
        /\ k.pc = p /\ k.todo = task[m].todo /\ k.text = task[m].text /\ k.kind = task[m].kind
        /\ Slug(m)' = Slug(m)
    BY <1>0, <1>2, <2>1, <2>2 DEF PageStep
  <2>4. pages' = pages /\ task[m].todo # <<>> /\ m \in provenance'
    BY <1>0, <2>1 DEF Still, WriterHolds
  <2>5. WriterHolds(m)'
    BY <2>2, <2>3, <2>4 DEF WriterHolds
  <2>6. ManagerHolds(m)'
    BY <1>0, <2>1, <2>2, <2>3, <2>4 DEF ManagerHolds
  <2> QED
    BY <2>3, <2>5, <2>6
<1>4. CASE ReplaceTruth(m)
  <2>1. task[m].kind = "replace_compiled_truth"
    BY <1>4 DEF ReplaceTruth
  <2>2. CASE FindNone(m)
    <3> DEFINE k == [task[m] EXCEPT !.pc = "insert"]
    <3>1. task[m].pc = "upsert" /\ Goto(m, "insert") /\ Still /\ UNCHANGED <<provenance, deaths>>
      BY <2>2 DEF FindNone, At, Still
    <3>2. /\ Turn(m, k) /\ task'[m] = k
          /\ k.pc = "insert" /\ k.todo = task[m].todo /\ k.text = task[m].text /\ k.kind = task[m].kind
          /\ Slug(m)' = Slug(m)
      BY <1>0, <1>2, <3>1 DEF PageStep
    <3>3. WriterHolds(m)'
      BY <1>0, <3>1, <3>2 DEF WriterHolds, Writing
    <3>4. ManagerHolds(m)'
      BY <1>0, <2>1, <3>1, <3>2 DEF ManagerHolds, Still
    <3> QED
      BY <3>2, <3>3, <3>4
  <2>3. ASSUME NEW v, Upsert(m, TRUE, v)
        PROVE  /\ task[m].todo # <<>> /\ PageStep(m) /\ UNCHANGED <<provenance, deaths>>
               /\ v \in {"same", "conflict", "failed"}
               /\ v = "same" => \E x \in versions' : x.slug = Slug(m) /\ x.truth = task[m].text
    <3>1. task[m].pc \in {"upsert", "insert"}
      BY <2>3 DEF Upsert, UpsertFound, Insert, At
    <3>2. task[m].todo # <<>>
      BY <1>0, <3>1 DEF WriterHolds, Writing
    <3>3. v = "same" => \E x \in versions' : x.slug = Slug(m) /\ x.truth = task[m].text
      BY <1>0, <2>3, <3>2, SameLands, WritersBring
    <3> QED
      BY <1>0, <2>3, <3>2, <3>3, UpsertDoes
  <2>4. ASSUME NEW v \in {"same", "changed"}, Upsert(m, TRUE, v), Goto(m, "done")
        PROVE  \E k : Turn(m, k) /\ WriterHolds(m)' /\ ManagerHolds(m)'
    <3> DEFINE k == [task[m] EXCEPT !.pc = "done"]
    <3>1. /\ Turn(m, k) /\ task'[m] = k
          /\ k.pc = "done" /\ k.todo = task[m].todo /\ k.text = task[m].text /\ k.kind = task[m].kind
          /\ Slug(m)' = Slug(m)
      BY <1>0, <1>2, <2>3, <2>4
    <3>2. WriterHolds(m)'
      BY <3>1 DEF WriterHolds, Writing
    <3>3. OnChain(Slug(m), task[m].text)'
      BY <2>3, <2>4, <3>1 DEF OnChain
    <3>4. ManagerHolds(m)'
      BY <2>3, <2>4, <3>1, <3>3 DEF ManagerHolds
    <3> QED
      BY <3>1, <3>2, <3>4
  <2>5. CASE Upsert(m, TRUE, "failed") /\ Goto(m, "failed")
    <3> DEFINE k == [task[m] EXCEPT !.pc = "failed"]
    <3>1. /\ Turn(m, k) /\ task'[m] = k /\ k.pc = "failed" /\ k.todo = task[m].todo
      BY <1>0, <1>2, <2>3, <2>5
    <3>2. WriterHolds(m)'
      BY <3>1 DEF WriterHolds, Writing
    <3>3. ManagerHolds(m)'
      BY <2>3, <2>5, <3>1 DEF ManagerHolds
    <3> QED
      BY <3>1, <3>2, <3>3
  <2> QED
    BY <1>4, <2>2, <2>4, <2>5 DEF ReplaceTruth
<1>5. ASSUME task[m].pc = "append"
      PROVE  /\ task[m].todo # <<>> /\ pages[Slug(m)].there /\ Slug(m) \in Slugs
             /\ task[m].kind # "replace_compiled_truth" /\ m \in provenance
  <2>1. task[m].todo # <<>> /\ pages[Slug(m)].there /\ m \in provenance
    BY <1>0, <1>5 DEF WriterHolds, Writing
  <2> QED
    BY <1>0, <1>5, <2>1, SlugInHand DEF ManagerHolds
<1>6. CASE Note(m)
  <2> DEFINE k == [task[m] EXCEPT !.pc = "done"]
  <2>1. /\ task[m].pc = "append" /\ Goto(m, "done") /\ Extended(m, "note")
        /\ UNCHANGED <<provenance, deaths>> /\ "note" \in Notes
    BY <1>6 DEF Note, At, Extended, Notes
  <2>2. /\ Turn(m, k) /\ task'[m] = k
        /\ k.pc = "done" /\ k.todo = task[m].todo /\ k.kind = task[m].kind
    BY <1>0, <1>2, <2>1 DEF PageStep
  <2>3. WriterHolds(m)'
    BY <2>2 DEF WriterHolds, Writing
  <2>4. ManagerHolds(m)'
    BY <1>5, <2>1, <2>2 DEF ManagerHolds
  <2> QED
    BY <2>2, <2>3, <2>4
<1>7. CASE AuditDelete(m)
  <2> DEFINE k == [task[m] EXCEPT !.pc = "delete"]
             e == [by |-> m, what |-> "deleted"]
  <2>1. /\ task[m].pc = "append" /\ Goto(m, "delete") /\ Extended(m, "deleted")
        /\ UNCHANGED <<provenance, deaths>> /\ "deleted" \in Notes
    BY <1>7 DEF AuditDelete, At, Extended, Notes
  <2>2. /\ Turn(m, k) /\ task'[m] = k /\ Slug(m)' = Slug(m) /\ Grows
        /\ k.pc = "delete" /\ k.todo = task[m].todo /\ k.kind = task[m].kind
    BY <1>0, <1>2, <2>1 DEF PageStep
  <2>3. /\ e \in ToSet(pages'[Slug(m)].timeline) /\ e.what = "deleted"
        /\ pages'[Slug(m)].there
    BY <1>0, <1>5, <2>1, TimelineKeeps
  <2>4. DeletionNoted(Slug(m))'
    BY <2>2, <2>3 DEF DeletionNoted, EntriesOf
  <2>5. WriterHolds(m)'
    BY <1>5, <2>1, <2>2, <2>3 DEF WriterHolds
  <2>6. ManagerHolds(m)'
    BY <1>5, <2>1, <2>2, <2>4 DEF ManagerHolds
  <2> QED
    BY <2>2, <2>5, <2>6
<1>8. CASE SoftDelete(m)
  <2> DEFINE k == [task[m] EXCEPT !.pc = "done"]
  <2>1. /\ task[m].pc = "delete" /\ Goto(m, "done") /\ Marked(m)
        /\ UNCHANGED <<provenance, deaths>>
    BY <1>8 DEF SoftDelete, At, Marked
  <2>2. /\ Turn(m, k) /\ task'[m] = k
        /\ k.pc = "done" /\ k.todo = task[m].todo /\ k.kind = task[m].kind
    BY <1>0, <1>2, <2>1 DEF PageStep
  <2>3. WriterHolds(m)'
    BY <2>2 DEF WriterHolds, Writing
  <2>4. ManagerHolds(m)'
    BY <1>0, <2>1, <2>2 DEF ManagerHolds
  <2> QED
    BY <2>2, <2>3, <2>4
<1> QED
  BY <1>1, <1>3, <1>4, <1>6, <1>7, <1>8 DEF Correct

(* A process that dies leaves its task as it was.                           *)
LEMMA DeathTurns ==
  ASSUME Types, BrainHolds, \A r \in Runs : RunHolds(r), NEW w \in Writers, Die(w)
  PROVE  /\ Turn(w, [task[w] EXCEPT !.pc = "dead"]) /\ WriterHolds(w)'
         /\ w \in Calls => CallHolds(w)'
         /\ w \in Managers => ManagerHolds(w)'
<1> DEFINE k == [task[w] EXCEPT !.pc = "dead"]
<1>0. /\ task[w] \in Task /\ provenance \subseteq Writers /\ deaths \in 0..MaxDeaths
      /\ "dead" \in Phases
  BY Pages DEF Types, TypeOK, BrainTypeOK, Phases
<1>1. /\ Goto(w, "dead") /\ Still /\ UNCHANGED provenance /\ task[w].pc \notin Over
      /\ deaths < MaxDeaths /\ deaths' = deaths + 1
  BY DEF Die, Still
<1>2. deaths' \in 0..MaxDeaths
  BY <1>0, <1>1, BrainAssumption
<1>3. Turn(w, k)
  BY <1>0, <1>1, <1>2, Gone DEF Turn, PageStep
<1>4. /\ task'[w] = k /\ k.pc = "dead" /\ k.todo = task[w].todo
      /\ task[w].pc # "idle" /\ Grows
  BY <1>0, <1>1, <1>3, TurnKeeps DEF Over, Task
<1>5. WriterHolds(w)'
  BY <1>4 DEF WriterHolds, Writing
<1>6. w \in Calls => CallHolds(w)'
  BY <1>1, <1>4, CallStays DEF Writing
<1>7. w \in Managers => ManagerHolds(w)'
  BY <1>4 DEF BrainHolds, ManagerHolds
<1> QED
  BY <1>3, <1>5, <1>6, <1>7

-----------------------------------------------------------------------------
(* Requests *)

LEMMA Rows ==
  ASSUME Types
  PROVE  /\ run \in [Runs -> Run] /\ rows \in [Items -> ItemRow] /\ blobs \subseteq Items
         /\ raced \subseteq {Sha[i] : i \in Items}
         /\ NoItem \notin Items /\ Sha \in [Items -> Contents]
         /\ \A r \in Runs : Item(r) \in Items \cup {NoItem}
         /\ \A i \in Items : i \in Stored <=> rows[i].status # "none"
BY IntakeAssumption DEF Types, TypeOK, Item, Run, Stored

IntakeTypeOK ==
  /\ rows \in [Items -> ItemRow] /\ blobs \subseteq Items
  /\ run \in [Runs -> Run]
  /\ raced \subseteq {Sha[i] : i \in Items}

(* What a step of request r leaves of the others': their items, their       *)
(* files, and the history of what raced.                                   *)
RunTurn(r) ==
  /\ IntakeTypeOK'
  /\ \A u \in Runs \ {r} : run'[u] = run[u] /\ task'[u] = task[u]
  /\ \A i \in Items : i # run'[r].item => rows'[i] = rows[i]
  /\ \A i \in Items : rows'[i].status # "none" \/ rows'[i] = rows[i]
  /\ \/ run'[r].item = Item(r)
     \/ Item(r) = NoItem /\ run'[r].item \in Stored \cup (Items \ Taken) \cup {NoItem}
  /\ \A i \in Items \ Stored : i \in blobs => i \in blobs'
  /\ raced \subseteq raced'

(* An item left in the pipeline is this request's to finish, or is as it    *)
(* was and another's.                                                      *)
Mans(r) ==
  LET i == run'[r].item IN
  i \in Items /\ rows'[i].status \in {"queued", "extracting", "classified"} =>
    \/ task'[r].pc \in Processing \cup {"dead"}
    \/ rows'[i].status = rows[i].status /\ task[r].pc \notin Processing \cup {"dead"}

(* Files are recorded once they are stored and removed once their row is    *)
(* to be deleted.                                                          *)
Files(r) ==
  /\ \A i \in Items : rows'[i].key => rows[i].key \/ i \in blobs'
  /\ \A i \in blobs \ blobs' : i = run'[r].item /\ run'[r].out = "deleted"
  /\ run[r].out = "deleted" => run'[r].out = "deleted" /\ run'[r].item = Item(r)

LEMMA OtherRuns ==
  ASSUME Types, \A u \in Runs : RunHolds(u), NEW r \in Runs, RunTurn(r), versions \subseteq versions'
  PROVE  \A u \in Runs \ {r} : RunHolds(u)'
<1>1. SUFFICES ASSUME NEW u \in Runs \ {r} PROVE RunHolds(u)'
  OBVIOUS
<1>2. run'[u] = run[u] /\ task'[u] = task[u] /\ RunHolds(u)
  BY DEF RunTurn
<1>3. Item(u)' = Item(u) /\ Slug(u)' = Slug(u)
  BY <1>2 DEF Item, Slug
<1>4. \A i \in Stored : i \in Stored'
  BY Rows DEF RunTurn, Stored
<1>5. ASSUME task[u].pc \in {"put", "row"}
      PROVE  /\ Item(u) \in Items \ Stored' /\ ~rows'[Item(u)].text
             /\ \A q \in Runs \ {u} : run'[q].item # Item(u)
             /\ Item(u) \in blobs => Item(u) \in blobs'
  <2>1. /\ Item(u) \in Items \ Stored /\ ~rows[Item(u)].text
        /\ \A q \in Runs \ {u} : Item(q) # Item(u)
    BY <1>2, <1>5 DEF RunHolds
  <2>2. Item(u) \in Taken
    BY DEF Taken, Item
  <2>3. run'[r].item # Item(u)
    BY <2>1, <2>2, Rows DEF RunTurn
  <2>4. rows'[Item(u)] = rows[Item(u)]
    BY <2>1, <2>3 DEF RunTurn
  <2>5. Item(u) \notin Stored'
    BY <2>1, <2>4 DEF Stored
  <2>6. \A q \in Runs \ {u} : run'[q].item # Item(u)
    BY <2>1, <2>3 DEF RunTurn, Item
  <2> QED
    BY <2>1, <2>4, <2>5, <2>6 DEF RunTurn
<1>6. \A s, x : OnChain(s, x) => OnChain(s, x)'
  BY DEF OnChain
<1>7. /\ task[u].pc = "settle" /\ task[u].kind = "ORG_WIDE" /\ task[u].review = {} =>
           OnChain(Slug(u), task[u].text)'
      /\ run[u].out = "ingested" /\ task[u].kind = "ORG_WIDE" => OnChain(Slug(u), task[u].text)'
  BY <1>2, <1>3, <1>6 DEF RunHolds
<1>8. task[u].pc \in {"put", "row"} =>
        /\ Item(u)' \in Items \ Stored' /\ ~rows'[Item(u)'].text
        /\ \A q \in Runs \ {u} : Item(q)' # Item(u)'
        /\ Item(u) \in blobs => Item(u)' \in blobs'
  BY <1>3, <1>5 DEF Item
<1> QED
  BY <1>2, <1>3, <1>4, <1>7, <1>8 DEF RunHolds

LEMMA MannedKeeps ==
  ASSUME Types, ItemsAreManned, NEW r \in Runs, RunTurn(r), Mans(r)
  PROVE  ItemsAreManned'
<1>1. SUFFICES ASSUME NEW i \in Items, rows'[i].status \in {"queued", "extracting", "classified"}
               PROVE  \E q \in Runs : run'[q].item = i /\ task'[q].pc \in Processing \cup {"dead"}
  BY DEF ItemsAreManned, On, Item
<1>2. CASE i = run'[r].item /\ task'[r].pc \in Processing \cup {"dead"}
  BY <1>2
<1>3. CASE ~(i = run'[r].item /\ task'[r].pc \in Processing \cup {"dead"})
  <2>1. /\ rows'[i].status = rows[i].status
        /\ i # run'[r].item \/ task[r].pc \notin Processing \cup {"dead"}
    BY <1>1, <1>3 DEF Mans, RunTurn
  <2>2. PICK q \in Runs : Item(q) = i /\ task[q].pc \in Processing \cup {"dead"}
    BY <1>1, <2>1 DEF ItemsAreManned, On
  <2>3. q # r
    BY <2>1, <2>2, Rows DEF RunTurn
  <2> QED
    BY <2>2, <2>3 DEF RunTurn, Item
<1> QED
  BY <1>2, <1>3

LEMMA FilesKeep ==
  ASSUME Types, BlobIsStored, NEW r \in Runs, RunTurn(r), Files(r)
  PROVE  BlobIsStored'
<1>1. SUFFICES ASSUME NEW i \in Items, rows'[i].key
               PROVE  i \in blobs' \/ \E q \in Runs : run'[q].item = i /\ run'[q].out = "deleted"
  BY DEF BlobIsStored, On, Item
<1>2. CASE i \in blobs'
  BY <1>2
<1>3. CASE i \notin blobs' /\ i \in blobs
  BY <1>3 DEF Files
<1>4. CASE i \notin blobs' /\ i \notin blobs
  <2>1. PICK q \in Runs : Item(q) = i /\ run[q].out = "deleted"
    BY <1>1, <1>4 DEF Files, BlobIsStored, On
  <2>2. run'[q].item = i /\ run'[q].out = "deleted"
    BY <2>1 DEF Files, RunTurn, Item
  <2> QED
    BY <2>2
<1> QED
  BY <1>2, <1>3, <1>4

(* While no row appears but the one that was uploaded and none comes back,  *)
(* and who uploads what was uploaded already has met it.                   *)
LEMMA DigestsKeep ==
  ASSUME Types, \A u \in Runs : RunHolds(u), DigestsHold, NEW r \in Runs, RunTurn(r),
         \A i \in Items : Sha[i] \notin raced' =>
           \/ Live(Sha[i])' \subseteq Live(Sha[i])
           \/ /\ task[r].pc = "row" /\ Sha[Item(r)] = Sha[i] /\ task'[r].pc = "loaded"
              /\ Live(Sha[i])' \subseteq {Item(r)},
         task'[r].pc \in {"put", "row"} =>
           \/ task[r].pc \in {"put", "row"} /\ run'[r].item = Item(r)
           \/ /\ run'[r].item \in Items
              /\ Sha[run'[r].item] \notin raced' =>
                   Live(Sha[run'[r].item]) = {} /\ Uploading(Sha[run'[r].item]) = {},
         task'[r].pc \in Processing /\ Sha[run'[r].item] \notin raced' =>
           rows'[run'[r].item].status # "deleted",
         \A u \in Runs \ {r} :
           task[u].pc \in Processing /\ Sha[Item(u)] \notin raced' /\ rows[Item(u)].status # "deleted" =>
             rows'[Item(u)].status # "deleted"
  PROVE  DigestsHold'
<1>0. raced \subseteq raced'
  BY DEF RunTurn
<1>1. ASSUME NEW i \in Items, Sha[i] \notin raced', NEW j \in Live(Sha[i])', NEW k \in Live(Sha[i])'
      PROVE  j = k
  BY <1>0, <1>1 DEF DigestsHold
<1>2. ASSUME NEW u \in Runs, task'[u].pc \in {"put", "row"}, Sha[run'[u].item] \notin raced'
      PROVE  /\ run'[u].item \in Items
             /\ Live(Sha[run'[u].item]) = {}
             /\ \A q \in Uploading(Sha[run'[u].item]) : q = u
  <2>1. CASE task[u].pc \in {"put", "row"} /\ run'[u].item = Item(u)
    BY <1>0, <1>2, <2>1 DEF DigestsHold, UploadsHold, RunHolds
  <2>2. CASE u = r /\ ~(task[r].pc \in {"put", "row"} /\ run'[r].item = Item(r))
    BY <1>2, <2>2
  <2>3. CASE u # r
    BY <1>2, <2>1, <2>3 DEF RunTurn, Item
  <2> QED
    BY <2>1, <2>2, <2>3
<1>3. ASSUME NEW u \in Runs, NEW i \in Items, run'[u].item = i,
             task'[u].pc \in {"put", "row"}, Sha[i] \notin raced'
      PROVE  /\ Live(Sha[i])' = {}
             /\ \A q \in Runs : task'[q].pc \in {"put", "row"} /\ Sha[run'[q].item] = Sha[i] => q = u
  <2>1. ASSUME NEW q \in Runs, task'[q].pc \in {"put", "row"}, Sha[run'[q].item] = Sha[i]
        PROVE  q = u
    <3>1. /\ \A x \in Uploading(Sha[i]) : x = u
          /\ \A x \in Uploading(Sha[i]) : x = q
      BY <1>2, <1>3, <2>1
    <3>2. ASSUME NEW x \in Runs \ {r}, task'[x].pc \in {"put", "row"}, Sha[run'[x].item] = Sha[i]
          PROVE  x \in Uploading(Sha[i])
      BY <3>2 DEF RunTurn, Uploading, Item
    <3>3. CASE q # r
      BY <2>1, <3>1, <3>2, <3>3
    <3>4. CASE u # r
      BY <1>3, <3>1, <3>2, <3>4
    <3> QED
      BY <3>3, <3>4
  <2>2. Live(Sha[i])' \subseteq Live(Sha[i])
    <3>1. r \in Uploading(Sha[i]) => task'[r].pc # "loaded"
      BY <1>2, <1>3
    <3> QED
      BY <1>3, <3>1 DEF Uploading
  <2> QED
    BY <1>2, <1>3, <2>1, <2>2
<1>4. \A u \in Runs : UploadsHold(u)'
  <2>1. ASSUME NEW u \in Runs, task'[u].pc \in {"put", "row"}, Sha[run'[u].item] \notin raced'
        PROVE  /\ Live(Sha[Item(u)])' = {}
               /\ \A q \in Uploading(Sha[Item(u)])' : q = u
    <3>1. PICK i \in Items : run'[u].item = i
      BY <1>2, <2>1
    <3>2. /\ Live(Sha[i])' = {}
          /\ \A q \in Runs : task'[q].pc \in {"put", "row"} /\ Sha[run'[q].item] = Sha[i] => q = u
      BY <1>3, <2>1, <3>1
    <3> QED
      BY <3>1, <3>2 DEF Live, Item, Uploading
  <2> QED
    BY <2>1 DEF UploadsHold, Item
<1>5. ASSUME NEW u \in Runs, task'[u].pc \in Processing, Sha[run'[u].item] \notin raced'
      PROVE  rows'[run'[u].item].status # "deleted"
  <2>1. CASE u = r
    BY <1>5, <2>1
  <2>2. CASE u # r
    BY <1>0, <1>5, <2>2 DEF DigestsHold, RunTurn, Item
  <2> QED
    BY <2>1, <2>2
<1> QED
  BY <1>1, <1>4, <1>5 DEF DigestsHold, Item

LEMMA BlankKeeps ==
  ASSUME Types, BlankRows, NEW r \in Runs, RunTurn(r)
  PROVE  BlankRows'
<1>1. ASSUME NEW i \in Items, rows'[i].status = "none"
      PROVE  ~rows'[i].text /\ ~rows'[i].key
  BY <1>1, Rows DEF RunTurn, BlankRows, Stored
<1> QED
  BY <1>1 DEF BlankRows, Stored

(* What a request's step must see to.                                       *)
LEMMA RunKeeps ==
  ASSUME IInv, NEW r \in Runs, NEW k, Turn(r, k), RunTurn(r),
         WriterHolds(r)', RunHolds(r)', Mans(r), Files(r), DigestsHold'
  PROVE  IInv'
<1>1. r \in Writers /\ r \notin Calls /\ r \notin Managers
  BY Distinct
<1>2. /\ BrainTypeOK' /\ task' \in [Writers -> Task] /\ Grows
      /\ SeedsStand' /\ WritesHaveProvenance' /\ DeletionsAreAudited'
      /\ \A u \in Writers : WriterHolds(u)'
      /\ \A c \in Calls : CallHolds(c)'
      /\ \A m \in Managers : ManagerHolds(m)'
  BY <1>1, TurnKeeps DEF IInv, IntakeHolds
<1>3. \A u \in Runs : RunHolds(u)'
  BY <1>2, OtherRuns DEF IInv, IntakeHolds, Grows
<1>4. BlankRows' /\ ItemsAreManned' /\ BlobIsStored'
  BY BlankKeeps, MannedKeeps, FilesKeep DEF IInv, IntakeHolds
<1>5. Types'
  BY <1>2 DEF Types, TypeOK, RunTurn, IntakeTypeOK
<1> QED
  BY <1>2, <1>3, <1>4, <1>5 DEF IInv, BrainHolds, IntakeHolds

(* A request has its task and its row of run to itself.                     *)
LEMMA Own ==
  ASSUME IInv, NEW r \in Runs
  PROVE  /\ Types /\ BrainHolds /\ IntakeHolds /\ r \in Writers
         /\ task[r] \in Task /\ run[r] \in Run /\ RunHolds(r) /\ WriterHolds(r)
         /\ SeedsStand /\ DigestsHold
         /\ provenance \subseteq Writers /\ deaths \in 0..MaxDeaths
BY Pages, Rows, Distinct DEF IInv, BrainHolds, IntakeHolds, Types, TypeOK, BrainTypeOK

(* A step that leaves the brain alone.                                      *)
LEMMA RunGoes ==
  ASSUME IInv, NEW r \in Runs, NEW p \in Phases, Goto(r, p), Keep
  PROVE  /\ Turn(r, [task[r] EXCEPT !.pc = p])
         /\ \A u \in Runs \ {r} : task'[u] = task[u]
         /\ task'[r].pc = p /\ task'[r].todo = task[r].todo /\ task'[r].text = task[r].text
         /\ task'[r].kind = task[r].kind /\ task'[r].review = task[r].review
         /\ Slug(r)' = Slug(r) /\ versions' = versions /\ pages' = pages
         /\ p \notin Writing \cup {"provenance", "settle"} => WriterHolds(r)'
<1> DEFINE k == [task[r] EXCEPT !.pc = p]
<1>1. Turn(r, k)
  BY Own, Gone DEF Turn, Keep, PageStep, Still
<1>2. task'[r] = k /\ \A u \in Runs \ {r} : task'[u] = task[u]
  BY <1>1, Own, Distinct, Moved DEF Turn
<1>3. /\ k.pc = p /\ k.todo = task[r].todo /\ k.text = task[r].text
      /\ k.kind = task[r].kind /\ k.review = task[r].review
  BY Own DEF Task
<1>4. Slug(r)' = Slug(r)
  BY <1>2, <1>3 DEF Slug
<1>5. p \notin Writing \cup {"provenance", "settle"} => WriterHolds(r)'
  BY <1>2, <1>3 DEF WriterHolds, Writing
<1> QED
  BY <1>1, <1>2, <1>3, <1>4, <1>5 DEF Keep

LEMMA RunSet ==
  ASSUME IInv, NEW r \in Runs, NEW x \in Run, run' = [run EXCEPT ![r] = x]
  PROVE  /\ run' \in [Runs -> Run] /\ run'[r] = x
         /\ \A u \in Runs \ {r} : run'[u] = run[u]
BY Own, Rows

(* One row is written.                                                      *)
LEMMA RowSet ==
  ASSUME IInv, NEW i \in Items, NEW row \in ItemRow, rows' = [rows EXCEPT ![i] = row]
  PROVE  /\ rows' \in [Items -> ItemRow] /\ rows'[i] = row
         /\ \A j \in Items \ {i} : rows'[j] = rows[j]
BY Rows DEF IInv

(* A request's first step.                                                  *)
LEMMA BeginDoes ==
  ASSUME IInv, NEW r \in Runs, NEW i \in Items \cup {NoItem}, NEW status \in Statuses \cup {"none"},
         NEW p \in Phases \ (Writing \cup {"provenance", "settle"}), Begin(r, p, i, status), Keep
  PROVE  /\ task[r].pc = "idle" /\ Item(r) = NoItem /\ run[r].out = "none"
         /\ Goto(r, p) /\ task'[r].pc = p /\ WriterHolds(r)'
         /\ Turn(r, [task[r] EXCEPT !.pc = p])
         /\ \A u \in Runs \ {r} : task'[u] = task[u] /\ run'[u] = run[u]
         /\ run' \in [Runs -> Run]
         /\ run'[r] = [item |-> i, knows |-> status, out |-> "none"]
         /\ Item(r)' = i
<1>1. task[r].pc = "idle" /\ Goto(r, p) /\ run' = [run EXCEPT ![r].item = i, ![r].knows = status]
  BY DEF Begin, At, Goto
<1>2. run[r] = [item |-> NoItem, knows |-> "none", out |-> "none"]
  BY <1>1, Own DEF RunHolds
<1> DEFINE x == [item |-> i, knows |-> status, out |-> "none"]
<1>3. x \in Run
  BY DEF Run
<1>4. run' = [run EXCEPT ![r] = x]
  <2>1. run \in [Runs -> Run] /\ run[r] \in Run
    BY Own, Rows
  <2>2. run' = [run EXCEPT ![r] = [run[r] EXCEPT !.item = i, !.knows = status]]
    BY <1>1, <2>1
  <2> DEFINE y == [run[r] EXCEPT !.item = i, !.knows = status]
  <2>3. y = x
    <3>1. run[r].out = "none"
      BY ONLY <1>2
    <3>2. y \in Run /\ y.item = i /\ y.knows = status /\ y.out = "none"
      BY ONLY <2>1, <3>1, i \in Items \cup {NoItem}, status \in Statuses \cup {"none"} DEF Run
    <3>3. x.item = i /\ x.knows = status /\ x.out = "none"
      OBVIOUS
    <3> HIDE DEF x, y
    <3> QED
      BY ONLY <1>3, <3>2, <3>3 DEF Run
  <2> QED
    BY <2>2, <2>3
<1>5. /\ run' \in [Runs -> Run] /\ run'[r] = x
      /\ \A u \in Runs \ {r} : run'[u] = run[u]
  BY <1>3, <1>4, RunSet
<1>6. Item(r) = NoItem /\ run[r].out = "none" /\ Item(r)' = i
  BY <1>2, <1>5 DEF Item
<1> QED
  BY <1>1, <1>5, <1>6, RunGoes


-----------------------------------------------------------------------------
(* The pipeline *)

(* A step that goes on with the item, or sets its status and is done.       *)
LEMMA PipelineKeeps ==
  ASSUME IInv, NEW r \in Runs, task[r].pc \in Processing, NEW k, Turn(r, k),
         NEW x \in Run, run' = [run EXCEPT ![r] = x], x.item = Item(r), x.out # "deleted",
         UNCHANGED <<blobs, raced>>,
         \/ UNCHANGED rows
         \/ \E st \in Statuses \ {"deleted"} : rows' = [rows EXCEPT ![Item(r)].status = st],
         task'[r].pc \in Processing \cup Ends,
         task'[r].pc \in Processing \/ rows'[Item(r)].status \notin {"queued", "extracting", "classified"},
         WriterHolds(r)', RunHolds(r)'
  PROVE  IInv'
<1> DEFINE i == Item(r)
<1>1. /\ i \in Stored /\ i \in Items /\ rows[i] \in ItemRow /\ rows[i].status # "none"
      /\ run[r].out # "deleted" /\ Types
  BY Own, Rows DEF RunHolds, Processing, Handling, Stored
<1>2. /\ run' \in [Runs -> Run] /\ run'[r] = x /\ \A u \in Runs \ {r} : run'[u] = run[u]
  BY RunSet
<1>3. \A u \in Runs \ {r} : task'[u] = task[u]
  BY Own, Moved, Distinct DEF Turn
<1>4. PICK row \in ItemRow :
        /\ rows' = [rows EXCEPT ![i] = row]
        /\ row.text = rows[i].text /\ row.key = rows[i].key /\ row.status # "none"
        /\ row.status = rows[i].status \/ row.status # "deleted"
  <2>1. CASE UNCHANGED rows
    <3>1. rows' = [rows EXCEPT ![i] = rows[i]]
      BY <1>1, <2>1, Rows
    <3> QED
      BY <1>1, <3>1
  <2>2. CASE \E st \in Statuses \ {"deleted"} : rows' = [rows EXCEPT ![i].status = st]
    <3>1. PICK st \in Statuses \ {"deleted"} : rows' = [rows EXCEPT ![i].status = st]
      BY <2>2
    <3> DEFINE rowS == [rows[i] EXCEPT !.status = st]
    <3>2. /\ rowS \in ItemRow /\ rowS.status = st /\ rowS.text = rows[i].text
          /\ rowS.key = rows[i].key /\ st # "none"
      BY <1>1 DEF ItemRow, Statuses
    <3>3. rows' = [rows EXCEPT ![i] = rowS]
      BY <1>1, <3>1, Rows
    <3> QED
      BY <3>2, <3>3
  <2> QED
    BY <2>1, <2>2
<1>5. rows' \in [Items -> ItemRow] /\ rows'[i] = row /\ \A j \in Items \ {i} : rows'[j] = rows[j]
  BY <1>1, <1>4, RowSet
<1>6. RunTurn(r)
  BY <1>1, <1>2, <1>3, <1>4, <1>5, Rows DEF RunTurn, IntakeTypeOK, Item
<1>7. Mans(r)
  BY <1>2 DEF Mans, Processing
<1>8. Files(r)
  BY <1>1, <1>2, <1>4, <1>5 DEF Files
<1>9. ASSUME Sha[i] \notin raced PROVE rows[i].status # "deleted" /\ row.status # "deleted"
  BY <1>1, <1>4, <1>9, Own DEF DigestsHold
<1>10. \A j \in Items : Sha[j] \notin raced' => Live(Sha[j])' \subseteq Live(Sha[j])
  BY <1>1, <1>4, <1>5, <1>9, Rows DEF Live, Stored
<1>11. task'[r].pc \notin {"put", "row"}
  BY DEF Processing, Handling, Ends
<1>12. ASSUME NEW u \in Runs \ {r}, task[u].pc \in Processing, Sha[Item(u)] \notin raced',
              rows[Item(u)].status # "deleted"
       PROVE  rows'[Item(u)].status # "deleted"
  <2>1. Item(u) \in Items
    BY <1>12, Own, Rows DEF IntakeHolds, RunHolds, Processing, Handling, Stored
  <2> QED
    BY <1>4, <1>5, <1>12, <2>1
<1>13. Sha[run'[r].item] \notin raced' => rows'[run'[r].item].status # "deleted"
  BY <1>2, <1>5, <1>9
<1>14. DigestsHold'
  BY <1>1, <1>6, <1>10, <1>11, <1>12, <1>13, Own, DigestsKeep DEF IntakeHolds
<1> QED
  BY <1>6, <1>7, <1>8, <1>14, RunKeeps

(* What a request in the pipeline must know, to go on.                      *)
LEMMA GoesOn ==
  ASSUME IInv, NEW r \in Runs, task[r].pc \in Processing,
         task'[r].pc \in Processing \ {"loaded"}, run'[r].item = Item(r), Item(r) \in Stored',
         run'[r].knows \in {"extracting", "classified"}, run'[r].out = run[r].out,
         task'[r].pc \in {"upsert", "insert", "append"} => task'[r].text \in Contents,
         task'[r].pc \in Handling /\ task'[r].kind = "ORG_WIDE" => Len(task'[r].todo) = 1,
         task'[r].pc = "settle" /\ task'[r].kind = "ORG_WIDE" /\ task'[r].review = {} =>
           OnChain(Slug(r), task[r].text)'
  PROVE  RunHolds(r)'
<1>1. run[r].out \notin {"deleted", "ingested"}
  BY Own DEF RunHolds, Processing, Handling
<1> QED
  BY <1>1 DEF RunHolds, Processing, Handling, Terminal, Item

(* The end of a run: it knows a status that is not the one it settles.      *)
LEMMA SettleKeeps ==
  ASSUME IInv, NEW r \in Runs, task[r].pc \in Processing \ {"loaded"},
         NEW st \in {"failed", "needs_review", "ingested"}, Settle(r, st),
         st = "ingested" /\ task[r].kind = "ORG_WIDE" => OnChain(Slug(r), task[r].text)
  PROVE  IInv'
<1> DEFINE x == [run[r] EXCEPT !.knows = st, !.out = st]
           k == [task[r] EXCEPT !.pc = "done"]
<1>1. /\ Goto(r, "done") /\ Keep /\ UNCHANGED <<blobs, raced>>
      /\ run' = [run EXCEPT ![r].knows = st, ![r].out = st]
  BY DEF Settle
<1>2. /\ run[r] \in Run /\ run[r].knows \in {"extracting", "classified"} /\ Item(r) \in Items
      /\ Item(r) \in Stored /\ run \in [Runs -> Run] /\ rows \in [Items -> ItemRow]
  BY Own, Rows DEF RunHolds, Stored
<1>3. rows' = [rows EXCEPT ![Item(r)].status = st]
  BY <1>2 DEF Settle
<1>4. rows'[Item(r)].status = st
  BY <1>2, <1>3 DEF ItemRow
<1>5. x \in Run /\ x.item = Item(r) /\ x.knows = st /\ x.out = st
  BY <1>2 DEF Run, Statuses, Item
<1>6. run' = [run EXCEPT ![r] = x]
  BY <1>1, <1>2
<1>7. run'[r] = x
  BY <1>5, <1>6, RunSet
<1>8. "done" \in Phases /\ "done" \notin Writing \cup {"provenance", "settle"}
  BY DEF Phases, Ends, Writing
<1>9. /\ Turn(r, k) /\ task'[r].pc = "done" /\ WriterHolds(r)'
      /\ task'[r].text = task[r].text /\ task'[r].kind = task[r].kind
      /\ Slug(r)' = Slug(r) /\ versions' = versions
  BY <1>1, <1>8, RunGoes
<1>10. RunHolds(r)'
  BY <1>5, <1>7, <1>9 DEF RunHolds, Ends, Processing, Handling, OnChain
<1>11. st \in Statuses \ {"deleted"} /\ task[r].pc \in Processing /\ task'[r].pc \in Ends
  BY <1>9 DEF Statuses, Ends
<1> QED
  BY <1>1, <1>3, <1>4, <1>5, <1>6, <1>9, <1>10, <1>11, PipelineKeeps

LEMMA GoesOnKeeps ==
  ASSUME IInv, NEW r \in Runs, task[r].pc \in Processing,
         NEW p \in {"extract", "classify", "gate"}, Goto(r, p), Keep, UNCHANGED <<blobs, raced>>,
         \/ \E st \in {"extracting", "classified"} : SetStatus(r, st)
         \/ UNCHANGED <<rows, run>> /\ task[r].pc # "loaded"
  PROVE  IInv'
<1>1. /\ run[r] \in Run /\ Item(r) \in Items /\ Item(r) \in Stored
      /\ run \in [Runs -> Run] /\ rows \in [Items -> ItemRow]
      /\ run[r].out # "deleted" /\ rows[Item(r)].status # "none"
  BY Own, Rows DEF RunHolds, Stored, Processing, Handling
<1>2. PICK x \in Run : /\ run' = [run EXCEPT ![r] = x] /\ x.item = Item(r)
                       /\ x.out = run[r].out /\ x.knows \in {"extracting", "classified"}
  <2>1. CASE \E st \in {"extracting", "classified"} : SetStatus(r, st)
    <3>1. PICK st \in {"extracting", "classified"} : SetStatus(r, st)
      BY <2>1
    <3> DEFINE x == [run[r] EXCEPT !.knows = st]
    <3>2. x \in Run /\ x.item = Item(r) /\ x.knows = st /\ x.out = run[r].out
      BY <1>1 DEF Run, Statuses, Item
    <3>3. run' = [run EXCEPT ![r] = x]
      BY <1>1, <3>1 DEF SetStatus
    <3> QED
      BY <3>2, <3>3
  <2>2. CASE UNCHANGED <<rows, run>> /\ task[r].pc # "loaded"
    <3>1. run' = [run EXCEPT ![r] = run[r]]
      BY <1>1, <2>2
    <3>2. run[r].knows \in {"extracting", "classified"}
      BY <2>2, Own DEF RunHolds
    <3> QED
      BY <1>1, <3>1, <3>2 DEF Item
  <2> QED
    BY <2>1, <2>2
<1>3. \/ UNCHANGED rows
      \/ \E st \in {"extracting", "classified"} : rows' = [rows EXCEPT ![Item(r)].status = st]
  BY DEF SetStatus
<1>4. Item(r) \in Stored'
  <2>1. CASE UNCHANGED rows
    BY <1>1, <2>1 DEF Stored
  <2>2. ASSUME NEW st \in {"extracting", "classified"}, rows' = [rows EXCEPT ![Item(r)].status = st]
        PROVE  Item(r) \in Stored'
    BY <1>1, <2>2 DEF Stored, ItemRow
  <2> QED
    BY <1>3, <2>1, <2>2
<1>5. run'[r] = x
  BY <1>2, RunSet
<1>6. p \in Phases \ (Writing \cup {"provenance", "settle"}) /\ p \in Processing \ {"loaded"}
      /\ p \notin Handling
  BY DEF Phases, Processing, Writing, Handling
<1>7. Turn(r, [task[r] EXCEPT !.pc = p]) /\ task'[r].pc = p /\ WriterHolds(r)'
  BY <1>6, RunGoes
<1>8. p \notin {"upsert", "insert", "append", "settle"}
  BY <1>6 DEF Handling
<1>9. RunHolds(r)'
  BY <1>2, <1>4, <1>5, <1>6, <1>7, <1>8, GoesOn
<1>10. \/ UNCHANGED rows
       \/ \E st \in Statuses \ {"deleted"} : rows' = [rows EXCEPT ![Item(r)].status = st]
  BY <1>3 DEF Statuses
<1> QED
  BY <1>1, <1>2, <1>6, <1>7, <1>9, <1>10, PipelineKeeps

(* A handler's step, which the intake does not see.                         *)
LEMMA HandlerKeeps ==
  ASSUME IInv, NEW r \in Runs, task[r].pc \in Handling \cup {"gate"}, NEW k, Turn(r, k),
         UNCHANGED intakeVars, k.pc \in Handling, r \in provenance', k.todo # <<>>,
         k.pc = "append" => pages'[Head(k.todo)].there,
         k.text \in Contents, k.kind = "ORG_WIDE" => Len(k.todo) = 1,
         k.pc = "settle" /\ k.kind = "ORG_WIDE" /\ k.review = {} =>
           \E v \in versions' : v.slug = Head(k.todo) /\ v.truth = k.text
  PROVE  IInv'
<1>1. /\ run[r] \in Run /\ Item(r) \in Stored /\ run \in [Runs -> Run]
      /\ run[r].out # "deleted" /\ run[r].knows \in {"extracting", "classified"}
      /\ task[r].pc \in Processing
  BY Own, Rows DEF RunHolds, Processing, Handling
<1>2. task'[r] = k
  BY Own, Moved DEF Turn
<1>3. run' = run /\ rows' = rows /\ blobs' = blobs /\ raced' = raced
  BY DEF intakeVars
<1>4. run' = [run EXCEPT ![r] = run[r]] /\ run[r].item = Item(r)
  BY <1>1, <1>3 DEF Item
<1>5. Slug(r)' = Head(k.todo)
  BY <1>2 DEF Slug
<1>6. WriterHolds(r)'
  BY <1>2, <1>5 DEF WriterHolds, Handling, Writing
<1>7. task'[r].pc \in Processing \ {"loaded"}
  BY <1>2 DEF Processing, Handling
<1>8. task'[r].pc = "settle" /\ task'[r].kind = "ORG_WIDE" /\ task'[r].review = {} =>
        \E v \in versions' : v.slug = Slug(r)' /\ v.truth = task'[r].text
  BY <1>2, <1>5
<1>9. RunHolds(r)'
  <2>1. Item(r) \in Stored'
    BY <1>1, <1>3 DEF Stored
  <2>2. run'[r].item = Item(r) /\ run'[r].knows \in {"extracting", "classified"} /\ run'[r].out = run[r].out
    BY <1>1, <1>3 DEF Item
  <2>3. run[r].out \notin {"deleted", "ingested"}
    BY <1>1, Own DEF RunHolds, Processing, Handling
  <2> QED
    BY <1>2, <1>3, <1>7, <1>8, <2>1, <2>2, <2>3
       DEF RunHolds, Processing, Handling, Terminal, Item, OnChain
<1> QED
  BY <1>1, <1>3, <1>4, <1>6, <1>7, <1>9, PipelineKeeps

LEMMA HandlerGoesOnKeeps ==
  ASSUME IInv, NEW r \in Runs, task[r].pc \in {"upsert", "insert", "append"},
         PageStep(r), UNCHANGED <<provenance, deaths, intakeVars>>,
         NEW k \in Task, task' = [task EXCEPT ![r] = k],
         k.todo = IF Len(task[r].todo) = 1 THEN task[r].todo ELSE Tail(task[r].todo),
         k.text = task[r].text, k.kind = task[r].kind,
         k.pc = IF Len(task[r].todo) = 1 THEN "settle" ELSE "upsert",
         k.kind = "ORG_WIDE" /\ k.review = {} =>
           \E v \in versions' : v.slug = Slug(r) /\ v.truth = task[r].text
  PROVE  IInv'
<1>1. /\ task[r].todo # <<>> /\ task[r].todo \in Seq(Slugs) /\ r \in provenance
      /\ task[r].text \in Contents
      /\ task[r].kind = "ORG_WIDE" => Len(task[r].todo) = 1
  BY Own DEF Task, WriterHolds, Writing, RunHolds, Handling
<1>2. k.todo # <<>> /\ (k.kind = "ORG_WIDE" => k.todo = task[r].todo)
  BY <1>1, HeadAndTail
<1>3. Turn(r, k)
  BY Own DEF Turn, Moves
<1> QED
  BY <1>1, <1>2, <1>3, HandlerKeeps DEF Handling, Slug

LEMMA GateKeeps ==
  ASSUME IInv, NEW r \in Runs, NEW scope \in Scopes, Gate(r, scope)
  PROVE  IInv'
<1> DEFINE i == Item(r)
           k == Handler(i, scope)
<1>1. task[r].pc = "gate"
  BY DEF Gate, At
<1>2. CASE Settle(r, "needs_review")
  BY <1>1, <1>2, SettleKeeps DEF Processing
<1>3. CASE /\ provenance' = provenance \cup {r} /\ task' = [task EXCEPT ![r] = k]
           /\ UNCHANGED <<pages, versions, deaths, intakeVars>>
  <2>1. i \in Items /\ i \in Contents /\ Sha[i] \in Contents
    BY <1>1, Own, Rows, IntakeAssumption DEF RunHolds, Processing, Stored
  <2>2. SlugsOf[i] \in Seq(Slugs) /\ SlugsOf[i] # <<>>
    BY <2>1, IntakeAssumption
  <2>3. /\ <<Head(SlugsOf[i])>> \in Seq(Slugs) /\ <<Head(SlugsOf[i])>> # <<>>
        /\ Len(<<Head(SlugsOf[i])>>) = 1
    BY <2>2, HeadAndTail
  <2>4. /\ k.kind = scope /\ k.review = {} /\ k.text \in Contents
        /\ k.pc = IF scope = "CALLER_SPECIFIC" THEN "settle" ELSE "upsert"
        /\ k.todo \in Seq(Slugs) /\ k.todo # <<>> /\ (scope # "RAW_SOURCE" => Len(k.todo) = 1)
    BY <2>1, <2>2, <2>3 DEF Handler, Idle
  <2>5. k \in Task
    BY <2>1, <2>2, <2>3 DEF Handler, Idle, Task, Phases, Processing, Handling, Text
  <2>6. Turn(r, k)
    BY <1>3, <2>5, Own DEF Turn, Moves, PageStep, Still
  <2> HIDE DEF k
  <2> QED
    BY <1>1, <1>3, <2>4, <2>6, HandlerKeeps DEF Handling
<1> QED
  BY <1>2, <1>3 DEF Gate

LEMMA HandlerUpsertKeeps ==
  ASSUME IInv, NEW r \in Runs, HandlerUpsert(r)
  PROVE  IInv'
<1>0. /\ Types /\ BrainHolds /\ SeedsStand /\ r \in Writers /\ task[r] \in Task
      /\ \A u \in Runs : RunHolds(u)
  BY Own DEF IntakeHolds
<1>1. /\ task[r].pc \in {"upsert", "insert"} /\ task[r].todo # <<>> /\ r \in provenance
      /\ task[r].todo \in Seq(Slugs) /\ task[r].text \in Contents
      /\ task[r].kind = "ORG_WIDE" => Len(task[r].todo) = 1
  <2>1. task[r].pc \in {"upsert", "insert"}
    BY DEF HandlerUpsert, FindNone, Upsert, UpsertFound, Insert, At
  <2> QED
    BY <2>1, Own DEF WriterHolds, Writing, Task, RunHolds, Handling
<1>2. CASE FindNone(r) /\ UNCHANGED intakeVars
  <2> DEFINE k == [task[r] EXCEPT !.pc = "insert"]
  <2>1. /\ Goto(r, "insert") /\ Keep
    BY <1>2 DEF FindNone, Keep
  <2>2. "insert" \in Phases
    BY DEF Phases, Writing
  <2>3. Turn(r, k)
    BY <2>1, <2>2, RunGoes
  <2>4. k.pc = "insert" /\ k.todo = task[r].todo /\ k.text = task[r].text /\ k.kind = task[r].kind
    BY <1>0 DEF Task
  <2>5. provenance' = provenance
    BY <2>1 DEF Keep
  <2> QED
    BY <1>1, <1>2, <2>3, <2>4, <2>5, HandlerKeeps DEF Handling
<1>3. ASSUME NEW v, Upsert(r, FALSE, v)
      PROVE  /\ PageStep(r) /\ UNCHANGED <<provenance, deaths>>
             /\ v \in {"same", "conflict", "failed"}
             /\ v = "conflict" => pages[Slug(r)].there /\ Still
             /\ v = "same" => \E x \in versions' : x.slug = Slug(r) /\ x.truth = task[r].text
  <2>1. v = "same" => \E x \in versions' : x.slug = Slug(r) /\ x.truth = task[r].text
    BY <1>0, <1>1, <1>3, SameLands, WritersBring
  <2> QED
    BY <1>0, <1>1, <1>3, <2>1, UpsertDoes
<1>4. ASSUME NEW v \in {"same", "changed"}, Upsert(r, FALSE, v), HandlerGoesOn(r), UNCHANGED intakeVars
      PROVE  IInv'
  <2> DEFINE k == [task[r] EXCEPT !.todo = IF Len(@) = 1 THEN @ ELSE Tail(@),
                                  !.pc = IF Len(task[r].todo) = 1 THEN "settle" ELSE "upsert"]
  <2>1. task' = [task EXCEPT ![r] = k]
    BY <1>0, <1>4, Pages DEF HandlerGoesOn
  <2>2. Tail(task[r].todo) \in Seq(Slugs) /\ {"settle", "upsert"} \subseteq Phases
    BY <1>1, HeadAndTail DEF Phases, Writing, Processing, Handling
  <2>3. /\ k \in Task
        /\ k.todo = IF Len(task[r].todo) = 1 THEN task[r].todo ELSE Tail(task[r].todo)
        /\ k.text = task[r].text /\ k.kind = task[r].kind
        /\ k.pc = IF Len(task[r].todo) = 1 THEN "settle" ELSE "upsert"
    BY <1>0, <2>2 DEF Task
  <2>4. /\ PageStep(r) /\ UNCHANGED <<provenance, deaths>>
        /\ \E x \in versions' : x.slug = Slug(r) /\ x.truth = task[r].text
    BY <1>3, <1>4
  <2> HIDE DEF k
  <2> QED
    BY <1>1, <1>4, <2>1, <2>3, <2>4, HandlerGoesOnKeeps
<1>5. ASSUME NEW v \in {"conflict"}, Upsert(r, FALSE, v), Goto(r, "append"), UNCHANGED intakeVars
      PROVE  IInv'
  <2> DEFINE k == [task[r] EXCEPT !.pc = "append"]
  <2>1. /\ PageStep(r) /\ UNCHANGED <<provenance, deaths>> /\ pages[Slug(r)].there /\ Still
    BY ONLY <1>3, <1>5
  <2>2. "append" \in Phases
    BY DEF Phases, Writing
  <2>3. Moves(r, k)
    BY <1>0, <1>5, <2>2, Gone
  <2>4. Turn(r, k)
    BY <2>1, <2>3, Own DEF Turn
  <2>5. k.pc = "append" /\ k.todo = task[r].todo /\ k.text = task[r].text /\ k.kind = task[r].kind
    BY <1>0 DEF Task
  <2>6. pages'[Head(k.todo)].there
    BY <2>1, <2>5 DEF Still, Slug
  <2> QED
    BY <1>1, <1>5, <2>1, <2>4, <2>5, <2>6, HandlerKeeps DEF Handling
<1>6. CASE Settle(r, "failed")
  BY <1>1, <1>6, SettleKeeps DEF Processing, Handling
<1>7. CASE Upsert(r, FALSE, "conflict") /\ Goto(r, "append") /\ UNCHANGED intakeVars
  BY ONLY <1>5, <1>7
<1> QED
  BY <1>2, <1>4, <1>6, <1>7 DEF HandlerUpsert

LEMMA HandlerConflictKeeps ==
  ASSUME IInv, NEW r \in Runs, HandlerConflict(r)
  PROVE  IInv'
<1> DEFINE review == IF task[r].kind = "ORG_WIDE" THEN {Slug(r)} ELSE {}
           k == [task[r] EXCEPT !.todo = IF Len(@) = 1 THEN @ ELSE Tail(@),
                                !.review = review,
                                !.pc = IF Len(task[r].todo) = 1 THEN "settle" ELSE "upsert"]
<1>0. Types /\ r \in Writers /\ task[r] \in Task
  BY Own
<1>1. /\ task[r].pc = "append" /\ Extended(r, "conflict") /\ "conflict" \in Notes
      /\ UNCHANGED <<provenance, deaths, intakeVars>>
  BY DEF HandlerConflict, At, Extended, Notes
<1>2. task[r].todo # <<>> /\ task[r].todo \in Seq(Slugs) /\ Slug(r) \in Slugs
  BY <1>0, <1>1, Own, SlugInHand DEF WriterHolds, Writing
<1>3. task' = [task EXCEPT ![r] = k]
  BY <1>0, Pages DEF HandlerConflict
<1>4. Tail(task[r].todo) \in Seq(Slugs) /\ {"settle", "upsert"} \subseteq Phases
  BY <1>2, HeadAndTail DEF Phases, Writing, Processing, Handling
<1>5. /\ k \in Task
      /\ k.todo = IF Len(task[r].todo) = 1 THEN task[r].todo ELSE Tail(task[r].todo)
      /\ k.text = task[r].text /\ k.kind = task[r].kind /\ k.review = review
      /\ k.pc = IF Len(task[r].todo) = 1 THEN "settle" ELSE "upsert"
  BY <1>0, <1>2, <1>4 DEF Task
<1>6. PageStep(r)
  BY <1>1 DEF PageStep
<1>7. k.kind = "ORG_WIDE" => k.review # {}
  BY <1>5
<1> HIDE DEF k
<1> QED
  BY <1>1, <1>3, <1>5, <1>6, <1>7, HandlerGoesOnKeeps

LEMMA PipelineStepsKeep ==
  ASSUME IInv, NEW r \in Runs, process_intake_item(r)
  PROVE  IInv'
<1>1. CASE MarkExtracting(r)
  BY <1>1, GoesOnKeeps DEF MarkExtracting, At, Processing
<1>2. CASE _extract_content(r)
  <2>1. task[r].pc = "extract" /\ task[r].pc \in Processing
    BY <1>2 DEF _extract_content, At, Processing
  <2>2. CASE Settle(r, "failed")
    BY <2>1, <2>2, SettleKeeps
  <2>3. CASE Settle(r, "needs_review")
    BY <2>1, <2>3, SettleKeeps
  <2>4. CASE Goto(r, "classify") /\ Keep /\ UNCHANGED <<rows, blobs, run, raced>>
    BY <2>1, <2>4, GoesOnKeeps
  <2> QED
    BY <1>2, <2>2, <2>3, <2>4 DEF _extract_content
<1>3. CASE Classify(r)
  <2>1. task[r].pc = "classify" /\ task[r].pc \in Processing
    BY <1>3 DEF Classify, At, Processing
  <2>2. CASE Settle(r, "failed")
    BY <2>1, <2>2, SettleKeeps
  <2>3. CASE Goto(r, "gate") /\ SetStatus(r, "classified") /\ Keep /\ UNCHANGED <<blobs, raced>>
    BY <2>1, <2>3, GoesOnKeeps
  <2> QED
    BY <1>3, <2>2, <2>3 DEF Classify
<1>4. CASE Finish(r)
  <2>1. task[r].pc = "settle" /\ task[r].pc \in Processing \ {"loaded"}
    BY <1>4 DEF Finish, At, Processing, Handling
  <2>2. task[r].kind = "ORG_WIDE" /\ task[r].review = {} => OnChain(Slug(r), task[r].text)
    BY <2>1, Own DEF RunHolds
  <2> QED
    BY <1>4, <2>1, <2>2, SettleKeeps DEF Finish
<1> QED
  BY <1>1, <1>2, <1>3, <1>4, GateKeeps, HandlerUpsertKeeps, HandlerConflictKeeps
     DEF process_intake_item

-----------------------------------------------------------------------------
(* Submission and deletion *)

LEMMA submit_textKeeps ==
  ASSUME IInv, NEW r \in Runs, NEW i \in Items, submit_text(r, i)
  PROVE  IInv'
<1> DEFINE row == [rows[i] EXCEPT !.status = "queued", !.text = TRUE]
<1>1. /\ i \notin Stored /\ i \notin Taken /\ Begin(r, "loaded", i, "queued") /\ Keep
      /\ rows' = [rows EXCEPT ![i].status = "queued", ![i].text = TRUE]
      /\ UNCHANGED <<blobs, raced>>
  BY DEF submit_text
<1>2. "loaded" \in Phases \ (Writing \cup {"provenance", "settle"})
  BY DEF Phases, Processing, Writing
<1>3. /\ task[r].pc = "idle" /\ Item(r) = NoItem /\ run[r].out = "none"
      /\ task'[r].pc = "loaded" /\ WriterHolds(r)' /\ Turn(r, [task[r] EXCEPT !.pc = "loaded"])
      /\ \A u \in Runs \ {r} : task'[u] = task[u] /\ run'[u] = run[u]
      /\ run' \in [Runs -> Run]
      /\ run'[r] = [item |-> i, knows |-> "queued", out |-> "none"]
  BY <1>1, <1>2, BeginDoes DEF Statuses
<1>4. rows[i] \in ItemRow /\ rows \in [Items -> ItemRow]
  BY Own, Rows
<1>5. row \in ItemRow /\ row.status = "queued" /\ row.text /\ row.key = rows[i].key
  BY <1>4 DEF ItemRow, Statuses
<1>6. rows' = [rows EXCEPT ![i] = row]
  BY <1>1, <1>4
<1> HIDE DEF row
<1>7. rows' \in [Items -> ItemRow] /\ rows'[i] = row /\ \A j \in Items \ {i} : rows'[j] = rows[j]
  BY <1>5, <1>6, RowSet
<1>8. RunTurn(r)
  BY <1>1, <1>3, <1>5, <1>7, Own, Rows DEF RunTurn, IntakeTypeOK
<1>9. Mans(r)
  BY <1>3 DEF Mans, Processing
<1>10. Files(r)
  BY <1>1, <1>3, <1>5, <1>7 DEF Files
<1>11. RunHolds(r)'
  BY <1>3, <1>5, <1>7 DEF RunHolds, Processing, Handling, Ends, Terminal, Item, Stored
<1>12. \A j \in Items : Live(Sha[j])' \subseteq Live(Sha[j])
  BY <1>5, <1>7 DEF Live, Stored
<1>13. \A u \in Runs \ {r} : task[u].pc \in Processing => Item(u) \in Items
  BY Own, Rows DEF IntakeHolds, RunHolds, Stored
<1>14. ASSUME NEW u \in Runs \ {r}, task[u].pc \in Processing, rows[Item(u)].status # "deleted"
       PROVE  rows'[Item(u)].status # "deleted"
  BY <1>5, <1>7, <1>13, <1>14
<1>15. task'[r].pc \notin {"put", "row"} /\ rows'[run'[r].item].status # "deleted"
  BY <1>3, <1>5, <1>7
<1>16. Types /\ (\A u \in Runs : RunHolds(u)) /\ DigestsHold
  BY Own DEF IntakeHolds
<1>17. DigestsHold'
  BY <1>8, <1>12, <1>14, <1>15, <1>16, DigestsKeep
<1> QED
  BY <1>3, <1>8, <1>9, <1>10, <1>11, <1>17, RunKeeps

(* A lookup, a reading of a row and a death change no row and no file.      *)
LEMMA ReadingKeeps ==
  ASSUME IInv, NEW r \in Runs, NEW k, Turn(r, k),
         IntakeTypeOK', \A u \in Runs \ {r} : run'[u] = run[u] /\ task'[u] = task[u],
         UNCHANGED <<rows, blobs>>, raced \subseteq raced',
         run'[r].item = Item(r) \/ (Item(r) = NoItem /\ run'[r].item \in Stored \cup (Items \ Taken) \cup {NoItem}),
         task[r].pc \in Processing \cup {"dead"} => task'[r].pc \in Processing \cup {"dead"},
         run[r].out = "deleted" => run'[r].out = "deleted" /\ run'[r].item = Item(r),
         task'[r].pc \in {"put", "row"} =>
           /\ run'[r].item \in Items
           /\ Sha[run'[r].item] \notin raced' =>
                Live(Sha[run'[r].item]) = {} /\ Uploading(Sha[run'[r].item]) = {},
         task'[r].pc \in Processing => rows[run'[r].item].status # "deleted",
         WriterHolds(r)', RunHolds(r)'
  PROVE  IInv'
<1>1. RunTurn(r)
  BY Own, Rows DEF RunTurn
<1>2. Mans(r)
  BY DEF Mans
<1>3. Files(r)
  BY DEF Files
<1>4. \A j \in Items : Live(Sha[j])' \subseteq Live(Sha[j])
  BY DEF Live, Stored
<1>5. DigestsHold'
  BY <1>1, <1>4, Own, DigestsKeep DEF IntakeHolds
<1> QED
  BY <1>1, <1>2, <1>3, <1>5, RunKeeps

LEMMA FindByShaKeeps ==
  ASSUME IInv, NEW r \in Runs, NEW i \in Items, FindBySha(r, i)
  PROVE  IInv'
<1>1. /\ i \notin Stored /\ i \notin Taken /\ Keep /\ UNCHANGED <<rows, blobs>>
      /\ raced' = IF Uploading(Sha[i]) = {} THEN raced ELSE raced \cup {Sha[i]}
  BY DEF FindBySha
<1>2. {"put", "done", "failed"} \subseteq Phases \ (Writing \cup {"provenance", "settle"})
  BY DEF Phases, Writing, Ends
<1>3. raced \subseteq raced' /\ raced' \subseteq {Sha[j] : j \in Items}
  BY <1>1, Own, Rows
<1>4. CASE Matches(Sha[i]) = {}
  <2>1. Begin(r, "put", i, "none")
    BY <1>4 DEF FindBySha
  <2>2. /\ task[r].pc = "idle" /\ Item(r) = NoItem /\ run[r].out = "none"
        /\ task'[r].pc = "put" /\ WriterHolds(r)' /\ Turn(r, [task[r] EXCEPT !.pc = "put"])
        /\ \A u \in Runs \ {r} : task'[u] = task[u] /\ run'[u] = run[u]
        /\ run' \in [Runs -> Run]
        /\ run'[r] = [item |-> i, knows |-> "none", out |-> "none"]
    BY <1>1, <1>2, <2>1, BeginDoes
  <2>3. ~rows[i].text /\ Live(Sha[i]) = {}
    BY <1>1, <1>4, Own DEF IntakeHolds, BlankRows, Matches, Live
  <2>4. \A q \in Runs \ {r} : Item(q) # i
    BY <1>1 DEF Taken, Item
  <2>5. RunHolds(r)'
    BY <1>1, <2>2, <2>3, <2>4 DEF RunHolds, Processing, Handling, Ends, Item, Stored
  <2>6. IntakeTypeOK'
    BY <1>1, <1>3, <2>2, Own, Rows DEF IntakeTypeOK
  <2>7. Sha[i] \notin raced' => Uploading(Sha[i]) = {}
    BY <1>1
  <2>8. "put" \notin Processing
    BY DEF Processing, Handling
  <2>9. "idle" \notin Processing \cup {"dead"}
    BY DEF Processing, Handling
  <2> QED
    BY <1>1, <1>3, <2>2, <2>3, <2>5, <2>6, <2>7, <2>8, <2>9, ReadingKeeps
<1>5. ASSUME NEW p \in {"done", "failed"}, Begin(r, p, NoItem, "none")
      PROVE  IInv'
  <2>2. /\ task[r].pc = "idle" /\ Item(r) = NoItem /\ run[r].out = "none"
        /\ task'[r].pc = p /\ WriterHolds(r)' /\ Turn(r, [task[r] EXCEPT !.pc = p])
        /\ \A u \in Runs \ {r} : task'[u] = task[u] /\ run'[u] = run[u]
        /\ run' \in [Runs -> Run]
        /\ run'[r] = [item |-> NoItem, knows |-> "none", out |-> "none"]
    BY <1>1, <1>2, <1>5, BeginDoes
  <2>5. RunHolds(r)'
    BY <1>1, <2>2 DEF RunHolds, Processing, Handling, Ends, Item, Stored
  <2>6. IntakeTypeOK'
    BY <1>1, <1>3, <2>2, Own, Rows DEF IntakeTypeOK
  <2>8. p \notin Processing /\ "idle" \notin Processing \cup {"dead"}
    BY DEF Processing, Handling
  <2> QED
    BY <1>1, <1>3, <2>2, <2>5, <2>6, <2>8, ReadingKeeps
<1>6. CASE Matches(Sha[i]) # {}
  BY <1>5, <1>6 DEF FindBySha
<1> QED
  BY <1>4, <1>6

(* A row is read: who goes on knows what it says.                           *)
LEMMA ReadRowKeeps ==
  ASSUME IInv, NEW r \in Runs, NEW i \in Stored,
         NEW p \in {"loaded", "done", "refused", "supersede"}, Begin(r, p, i, rows[i].status),
         p = "loaded" => rows[i].status \notin Terminal,
         p = "supersede" => rows[i].status # "superseded",
         Keep, UNCHANGED <<rows, blobs, raced>>
  PROVE  IInv'
<1>1. i \in Items /\ rows[i].status \in Statuses
  BY Own, Rows DEF Stored, ItemRow
<1>2. p \in Phases \ (Writing \cup {"provenance", "settle"})
  BY DEF Phases, Processing, Writing, Ends
<1>3. /\ task[r].pc = "idle" /\ Item(r) = NoItem /\ run[r].out = "none"
      /\ task'[r].pc = p /\ WriterHolds(r)' /\ Turn(r, [task[r] EXCEPT !.pc = p])
      /\ \A u \in Runs \ {r} : task'[u] = task[u] /\ run'[u] = run[u]
      /\ run' \in [Runs -> Run]
      /\ run'[r] = [item |-> i, knows |-> rows[i].status, out |-> "none"]
  BY <1>1, <1>2, BeginDoes
<1>4. IntakeTypeOK'
  BY <1>3, Own, Rows DEF IntakeTypeOK
<1>5. RunHolds(r)'
  BY <1>1, <1>3 DEF RunHolds, Processing, Handling, Ends, Item, Stored
<1>6. p \in Processing => rows[i].status # "deleted"
  BY DEF Processing, Handling, Terminal
<1>7. "idle" \notin Processing \cup {"dead"}
  BY DEF Processing, Handling
<1> QED
  BY <1>1, <1>3, <1>4, <1>5, <1>6, <1>7, ReadingKeeps

(* What a request in the pipeline works on is an item.                      *)
LEMMA WorkedOn ==
  ASSUME IInv, NEW u \in Runs, task[u].pc \in Processing \cup {"put", "row", "unrow", "supersede"}
  PROVE  Item(u) \in Items
BY Own, Rows DEF IntakeHolds, RunHolds, Stored, Processing, Handling

LEMMA PutBlobKeeps ==
  ASSUME IInv, NEW r \in Runs, PutBlob(r)
  PROVE  IInv'
<1>1. /\ task[r].pc = "put" /\ Goto(r, "row") /\ Keep /\ blobs' = blobs \cup {Item(r)}
      /\ UNCHANGED <<rows, run, raced>>
  BY DEF PutBlob, At
<1>2. "row" \in Phases /\ "row" \notin Writing \cup {"provenance", "settle"} \cup Processing
  BY DEF Phases, Writing, Processing, Handling
<1>3. /\ Turn(r, [task[r] EXCEPT !.pc = "row"]) /\ task'[r].pc = "row" /\ WriterHolds(r)'
      /\ \A u \in Runs \ {r} : task'[u] = task[u]
  BY <1>1, <1>2, RunGoes
<1>4. /\ Item(r) \in Items \ Stored /\ run'[r].item = Item(r) /\ Types
      /\ (\A u \in Runs : RunHolds(u)) /\ DigestsHold
  BY <1>1, Own DEF RunHolds, Item, IntakeHolds
<1>5. RunTurn(r)
  BY <1>1, <1>3, <1>4, Rows DEF RunTurn, IntakeTypeOK
<1>6. Mans(r)
  BY <1>1 DEF Mans, Processing, Handling
<1>7. Files(r)
  BY <1>1 DEF Files, Item
<1>8. RunHolds(r)'
  BY <1>1, <1>2, <1>3, <1>4, Own DEF RunHolds, Item, Stored, Processing, Handling, Ends
<1>9. \A j \in Items : Live(Sha[j])' \subseteq Live(Sha[j])
  BY <1>1 DEF Live, Stored
<1>10. DigestsHold'
  BY <1>1, <1>2, <1>3, <1>4, <1>5, <1>9, DigestsKeep
<1> QED
  BY <1>3, <1>5, <1>6, <1>7, <1>8, <1>10, RunKeeps

LEMMA CreateRowKeeps ==
  ASSUME IInv, NEW r \in Runs, CreateRow(r)
  PROVE  IInv'
<1> DEFINE i == Item(r)
           row == [rows[i] EXCEPT !.status = "queued", !.key = TRUE]
           x == [run[r] EXCEPT !.knows = "queued"]
<1>1. /\ task[r].pc = "row" /\ Goto(r, "loaded") /\ Keep /\ UNCHANGED <<blobs, raced>>
      /\ rows' = [rows EXCEPT ![i].status = "queued", ![i].key = TRUE]
      /\ run' = [run EXCEPT ![r].knows = "queued"]
  BY DEF CreateRow, At
<1>2. "loaded" \in Phases /\ "loaded" \notin Writing \cup {"provenance", "settle"}
  BY DEF Phases, Writing, Processing
<1>3. /\ Turn(r, [task[r] EXCEPT !.pc = "loaded"]) /\ task'[r].pc = "loaded" /\ WriterHolds(r)'
      /\ \A u \in Runs \ {r} : task'[u] = task[u]
  BY <1>1, <1>2, RunGoes
<1>4. /\ i \in Items \ Stored /\ i \in blobs /\ run[r] \in Run /\ Types /\ DigestsHold
      /\ rows[i] \in ItemRow /\ rows \in [Items -> ItemRow] /\ run \in [Runs -> Run]
      /\ (\A q \in Runs \ {r} : Item(q) # i) /\ (\A u \in Runs : RunHolds(u))
      /\ run[r].out \notin {"deleted", "ingested"}
  BY <1>1, Own, Rows DEF RunHolds, IntakeHolds
<1>5. row \in ItemRow /\ row.status = "queued" /\ row.key /\ row.text = rows[i].text
  BY <1>4 DEF ItemRow, Statuses
<1>6. x \in Run /\ x.item = i /\ x.knows = "queued" /\ x.out = run[r].out
  BY <1>4 DEF Run, Statuses, Item
<1>7. rows' = [rows EXCEPT ![i] = row] /\ run' = [run EXCEPT ![r] = x]
  BY <1>1, <1>4
<1> HIDE DEF row, x
<1>8. rows' \in [Items -> ItemRow] /\ rows'[i] = row /\ \A j \in Items \ {i} : rows'[j] = rows[j]
  BY <1>4, <1>5, <1>7, RowSet
<1>9. run' \in [Runs -> Run] /\ run'[r] = x /\ \A u \in Runs \ {r} : run'[u] = run[u]
  BY <1>6, <1>7, RunSet
<1>10. RunTurn(r)
  BY <1>1, <1>3, <1>4, <1>5, <1>6, <1>8, <1>9, Rows DEF RunTurn, IntakeTypeOK
<1>11. Mans(r)
  BY <1>3 DEF Mans, Processing
<1>12. Files(r)
  BY <1>1, <1>4, <1>6, <1>8, <1>9 DEF Files
<1>13. RunHolds(r)'
  BY <1>3, <1>4, <1>5, <1>6, <1>8, <1>9
     DEF RunHolds, Item, Stored, Processing, Handling, Ends, Terminal
<1>14. ASSUME NEW j \in Items, Sha[j] \notin raced'
       PROVE  \/ Live(Sha[j])' \subseteq Live(Sha[j])
              \/ Sha[i] = Sha[j] /\ Live(Sha[j])' \subseteq {i}
  <2>1. CASE Sha[i] = Sha[j]
    <3>1. Live(Sha[j]) = {}
      BY <1>1, <1>14, <2>1, Own DEF DigestsHold, UploadsHold
    <3>2. Live(Sha[j])' \subseteq Live(Sha[j]) \cup {i}
      BY <1>8 DEF Live, Stored
    <3> QED
      BY <2>1, <3>1, <3>2
  <2>2. CASE Sha[i] # Sha[j]
    BY <1>8, <2>2 DEF Live, Stored
  <2> QED
    BY <2>1, <2>2
<1>15. ASSUME NEW u \in Runs \ {r}, task[u].pc \in Processing, rows[Item(u)].status # "deleted"
       PROVE  rows'[Item(u)].status # "deleted"
  BY <1>4, <1>8, <1>15, WorkedOn
<1>16. task'[r].pc \notin {"put", "row"} /\ rows'[run'[r].item].status # "deleted"
  BY <1>3, <1>5, <1>6, <1>8, <1>9
<1>17. DigestsHold'
  BY <1>1, <1>3, <1>4, <1>10, <1>14, <1>15, <1>16, DigestsKeep
<1> QED
  BY <1>3, <1>10, <1>11, <1>12, <1>13, <1>17, RunKeeps

LEMMA DeleteBlobKeeps ==
  ASSUME IInv, NEW r \in Runs, NEW i \in Items, DeleteBlob(r, i)
  PROVE  IInv'
<1> DEFINE x == [item |-> i, knows |-> rows[i].status, out |-> "deleted"]
<1>1. /\ task[r].pc = "idle" /\ Goto(r, "unrow") /\ Keep /\ UNCHANGED <<rows, raced>>
      /\ i \in Stored /\ run' = [run EXCEPT ![r] = x]
      /\ blobs' \subseteq blobs /\ blobs \ {i} \subseteq blobs'
  BY DEF DeleteBlob, At
<1>2. "unrow" \in Phases /\ "unrow" \notin Writing \cup {"provenance", "settle"} \cup Processing
  BY DEF Phases, Writing, Processing, Handling
<1>3. /\ Turn(r, [task[r] EXCEPT !.pc = "unrow"]) /\ task'[r].pc = "unrow" /\ WriterHolds(r)'
      /\ \A u \in Runs \ {r} : task'[u] = task[u]
  BY <1>1, <1>2, RunGoes
<1>4. /\ Types /\ (\A u \in Runs : RunHolds(u)) /\ DigestsHold
      /\ Item(r) = NoItem /\ run[r].out = "none" /\ rows[i] \in ItemRow
  BY <1>1, Own, Rows DEF RunHolds, Item, IntakeHolds
<1>5. x \in Run
  BY <1>4 DEF Run, ItemRow, Statuses
<1>6. run' \in [Runs -> Run] /\ run'[r] = x /\ \A u \in Runs \ {r} : run'[u] = run[u]
  BY <1>1, <1>5, RunSet
<1>7. RunTurn(r)
  BY <1>1, <1>3, <1>4, <1>6, Rows DEF RunTurn, IntakeTypeOK
<1>8. Mans(r)
  BY <1>1 DEF Mans, Processing, Handling
<1>9. Files(r)
  BY <1>1, <1>4, <1>6, Rows DEF Files
<1>10. RunHolds(r)'
  BY <1>1, <1>2, <1>3, <1>6 DEF RunHolds, Item, Stored, Processing, Handling, Ends
<1>11. \A j \in Items : Live(Sha[j])' \subseteq Live(Sha[j])
  BY <1>1 DEF Live, Stored
<1>12. DigestsHold'
  BY <1>1, <1>2, <1>3, <1>4, <1>7, <1>11, DigestsKeep
<1> QED
  BY <1>3, <1>7, <1>8, <1>9, <1>10, <1>12, RunKeeps

(* The end of a request that took no part in the pipeline.                  *)
LEMMA EndingKeeps ==
  ASSUME IInv, NEW r \in Runs, task[r].pc \in {"unrow", "supersede"}, Goto(r, "done"), Keep,
         UNCHANGED blobs, raced \subseteq raced', raced' \subseteq {Sha[j] : j \in Items},
         NEW x \in Run, run' = [run EXCEPT ![r] = x], x.item = Item(r), x.out = run[r].out,
         NEW row \in ItemRow, rows' = [rows EXCEPT ![Item(r)] = row],
         row.text = rows[Item(r)].text, row.key => rows[Item(r)].key,
         \/ row.status = rows[Item(r)].status
         \/ row.status = "deleted"
         \/ row.status = "superseded" /\ rows[Item(r)].status # "deleted"
         \/ row.status = "superseded" /\ Sha[Item(r)] \in raced',
         row.status = "deleted" =>
           rows[Item(r)].status = "deleted" \/ Others(r) = {} \/ Sha[Item(r)] \in raced'
  PROVE  IInv'
<1> DEFINE i == Item(r)
<1>2. "done" \in Phases /\ "done" \notin Writing \cup {"provenance", "settle"} \cup Processing
  BY DEF Phases, Writing, Processing, Handling, Ends
<1>3. /\ Turn(r, [task[r] EXCEPT !.pc = "done"]) /\ task'[r].pc = "done" /\ WriterHolds(r)'
      /\ \A u \in Runs \ {r} : task'[u] = task[u]
  BY <1>2, RunGoes
<1>4. /\ i \in Items /\ i \in Stored /\ Types /\ DigestsHold /\ (\A u \in Runs : RunHolds(u))
      /\ run[r].out # "ingested"
  BY Own, WorkedOn DEF RunHolds, IntakeHolds
<1>5. run' \in [Runs -> Run] /\ run'[r] = x /\ \A u \in Runs \ {r} : run'[u] = run[u]
  BY RunSet
<1>6. rows' \in [Items -> ItemRow] /\ rows'[i] = row /\ \A j \in Items \ {i} : rows'[j] = rows[j]
  BY <1>4, RowSet
<1>7. rows[i].status # "none" /\ row.status # "none"
  BY <1>4 DEF Stored
<1>8. RunTurn(r)
  BY <1>3, <1>4, <1>5, <1>6, <1>7, Rows DEF RunTurn, IntakeTypeOK
<1>9. Mans(r)
  BY <1>4, <1>5, <1>6 DEF Mans, Processing, Handling
<1>10. Files(r)
  BY <1>4, <1>5, <1>6 DEF Files
<1>11. RunHolds(r)'
  BY <1>2, <1>3, <1>4, <1>5 DEF RunHolds, Item, Processing, Handling, Ends
<1>12. ASSUME NEW j \in Items, Sha[j] \notin raced' PROVE Live(Sha[j])' \subseteq Live(Sha[j])
  BY <1>4, <1>6, <1>7, <1>12 DEF Live, Stored
<1>13. ASSUME NEW u \in Runs \ {r}, task[u].pc \in Processing, Sha[Item(u)] \notin raced',
              rows[Item(u)].status # "deleted"
       PROVE  rows'[Item(u)].status # "deleted"
  <2>1. CASE Item(u) = i
    <3>1. u \in Others(r)
      BY <1>13, <2>1 DEF Others, Processing, Handling, Over
    <3> QED
      BY <1>4, <1>6, <1>13, <2>1, <3>1
  <2>2. CASE Item(u) # i
    BY <1>6, <1>13, <2>2, WorkedOn
  <2> QED
    BY <2>1, <2>2
<1>14. DigestsHold'
  BY <1>2, <1>3, <1>4, <1>8, <1>12, <1>13, DigestsKeep
<1> QED
  BY <1>3, <1>8, <1>9, <1>10, <1>11, <1>14, RunKeeps

LEMMA DeleteRowKeeps ==
  ASSUME IInv, NEW r \in Runs, DeleteRow(r)
  PROVE  IInv'
<1> DEFINE i == Item(r)
           st == IF run[r].knows = "deleted" THEN rows[i].status ELSE "deleted"
           row == [rows[i] EXCEPT !.key = FALSE, !.status = st]
           x == [run[r] EXCEPT !.knows = "deleted"]
<1>1. /\ task[r].pc = "unrow" /\ Goto(r, "done") /\ Keep /\ UNCHANGED blobs
      /\ raced' = IF Others(r) = {} THEN raced ELSE raced \cup {Sha[i]}
  BY DEF DeleteRow, At
<1>2. /\ i \in Items /\ run[r] \in Run /\ rows[i] \in ItemRow
      /\ rows \in [Items -> ItemRow] /\ run \in [Runs -> Run]
  BY <1>1, Own, Rows, WorkedOn
<1>3. row \in ItemRow /\ row.status = st /\ row.key = FALSE /\ row.text = rows[i].text
  BY <1>2 DEF ItemRow, Statuses
<1>4. x \in Run /\ x.item = i /\ x.out = run[r].out
  BY <1>2 DEF Run, Statuses, Item
<1>5. rows' = [rows EXCEPT ![i] = row]
  BY <1>2 DEF DeleteRow
<1>6. run' = [run EXCEPT ![r] = x]
  BY <1>2 DEF DeleteRow
<1>7. raced \subseteq raced' /\ raced' \subseteq {Sha[j] : j \in Items}
  BY <1>1, <1>2, Own, Rows
<1>8. row.status = rows[i].status \/ row.status = "deleted"
  BY <1>3
<1>9. row.status = "deleted" => Others(r) = {} \/ Sha[i] \in raced'
  BY <1>1
<1> HIDE DEF row, x
<1> QED
  BY <1>1, <1>3, <1>4, <1>5, <1>6, <1>7, <1>8, <1>9, EndingKeeps

LEMMA mark_supersededKeeps ==
  ASSUME IInv, NEW r \in Runs, mark_superseded(r)
  PROVE  IInv'
<1> DEFINE i == Item(r)
           row == [rows[i] EXCEPT !.status = "superseded"]
           x == [run[r] EXCEPT !.knows = "superseded"]
<1>1. /\ task[r].pc = "supersede" /\ Goto(r, "done") /\ Keep /\ UNCHANGED blobs
      /\ raced' = IF rows[i].status # "deleted" THEN raced ELSE raced \cup {Sha[i]}
      /\ SetStatus(r, "superseded")
  BY DEF mark_superseded, At
<1>2. /\ i \in Items /\ run[r] \in Run /\ rows[i] \in ItemRow /\ run[r].knows # "superseded"
      /\ rows \in [Items -> ItemRow] /\ run \in [Runs -> Run]
  BY <1>1, Own, Rows, WorkedOn DEF RunHolds
<1>3. row \in ItemRow /\ row.status = "superseded" /\ row.key = rows[i].key /\ row.text = rows[i].text
  BY <1>2 DEF ItemRow, Statuses
<1>4. x \in Run /\ x.item = i /\ x.out = run[r].out
  BY <1>2 DEF Run, Statuses, Item
<1>5. rows' = [rows EXCEPT ![i] = row]
  BY <1>1, <1>2 DEF SetStatus
<1>6. run' = [run EXCEPT ![r] = x]
  BY <1>1, <1>2 DEF SetStatus
<1>7. raced \subseteq raced' /\ raced' \subseteq {Sha[j] : j \in Items}
  BY <1>1, <1>2, Own, Rows
<1>8. rows[i].status # "deleted" \/ Sha[i] \in raced'
  BY <1>1
<1> HIDE DEF row, x
<1> QED
  BY <1>1, <1>3, <1>4, <1>5, <1>6, <1>7, <1>8, EndingKeeps

LEMMA RunDeathKeeps ==
  ASSUME IInv, NEW r \in Runs, Die(r), UNCHANGED intakeVars
  PROVE  IInv'
<1>1. /\ Types /\ BrainHolds /\ r \in Writers /\ RunHolds(r) /\ (\A u \in Runs : RunHolds(u))
      /\ task[r] \in Task
  BY Own DEF IntakeHolds
<1>2. Turn(r, [task[r] EXCEPT !.pc = "dead"]) /\ WriterHolds(r)'
  BY <1>1, DeathTurns
<1>3. /\ task'[r] = [task[r] EXCEPT !.pc = "dead"] /\ task'[r].pc = "dead"
      /\ \A u \in Runs \ {r} : task'[u] = task[u]
  BY <1>1, <1>2, Moved, Distinct DEF Turn, Task
<1>4. run' = run /\ rows' = rows /\ blobs' = blobs /\ raced' = raced
  BY DEF intakeVars
<1>5. IntakeTypeOK'
  BY <1>1, <1>4, Rows DEF IntakeTypeOK
<1>6. run[r].out # "ingested"
  BY <1>1 DEF RunHolds, Die, Over
<1>7. RunHolds(r)'
  BY <1>3, <1>4, <1>6 DEF RunHolds, Processing, Handling
<1>8. "dead" \notin Processing
  BY DEF Processing, Handling
<1> QED
  BY <1>2, <1>3, <1>4, <1>5, <1>7, <1>8, ReadingKeeps DEF Item

-----------------------------------------------------------------------------
(* All together *)

(* The intake does not see what other writers do, except that the chains    *)
(* grow.                                                                    *)
LEMMA IntakeStays ==
  ASSUME Types, IntakeHolds, versions \subseteq versions',
         \A u \in Runs : task'[u] = task[u], UNCHANGED intakeVars
  PROVE  IntakeHolds'
<1>1. run' = run /\ rows' = rows /\ blobs' = blobs /\ raced' = raced
  BY DEF intakeVars
<1>2. /\ \A u \in Runs : Item(u)' = Item(u) /\ Slug(u)' = Slug(u)
      /\ Stored' = Stored /\ \A sha : Live(sha)' = Live(sha) /\ Uploading(sha)' = Uploading(sha)
  BY <1>1 DEF Item, Slug, Stored, Live, Uploading
<1>3. ASSUME NEW u \in Runs PROVE RunHolds(u)'
  <2>1. \A s, x : OnChain(s, x) => OnChain(s, x)'
    BY DEF OnChain
  <2>2. /\ task[u].pc = "settle" /\ task[u].kind = "ORG_WIDE" /\ task[u].review = {} =>
             OnChain(Slug(u), task[u].text)'
        /\ run[u].out = "ingested" /\ task[u].kind = "ORG_WIDE" => OnChain(Slug(u), task[u].text)'
    BY <1>1, <1>2, <2>1 DEF IntakeHolds, RunHolds
  <2> QED
    BY <1>1, <1>2, <2>2 DEF IntakeHolds, RunHolds
<1>4. BlankRows' /\ BlobIsStored'
  BY <1>1, <1>2 DEF IntakeHolds, BlankRows, BlobIsStored, On
<1>5. ItemsAreManned'
  BY <1>1, <1>2 DEF IntakeHolds, ItemsAreManned, On
<1>6. DigestsHold'
  BY <1>1, <1>2 DEF IntakeHolds, DigestsHold, UploadsHold
<1> QED
  BY <1>3, <1>4, <1>5, <1>6 DEF IntakeHolds

(* A call, a manager or a death of theirs.                                  *)
LEMMA OtherWriterKeeps ==
  ASSUME IInv, NEW w \in Calls \cup Managers, NEW k, Turn(w, k), WriterHolds(w)',
         w \in Calls => CallHolds(w)', w \in Managers => ManagerHolds(w)',
         UNCHANGED intakeVars
  PROVE  IInv'
<1>1. w \in Writers /\ w \notin Runs /\ Types /\ BrainHolds /\ IntakeHolds
  BY Distinct DEF IInv
<1>2. /\ BrainTypeOK' /\ task' \in [Writers -> Task] /\ Grows
      /\ SeedsStand' /\ WritesHaveProvenance' /\ DeletionsAreAudited'
      /\ \A u \in Writers \ {w} : task'[u] = task[u] /\ WriterHolds(u)'
      /\ \A c \in Calls \ {w} : CallHolds(c)'
      /\ \A m \in Managers \ {w} : ManagerHolds(m)'
  BY <1>1, TurnKeeps DEF IntakeHolds
<1>3. IntakeHolds'
  BY <1>1, <1>2, Distinct, IntakeStays DEF Grows
<1>4. BrainHolds'
  BY <1>2, Distinct DEF BrainHolds
<1>5. Types'
  BY <1>1, <1>2, Rows DEF Types, TypeOK, intakeVars
<1> QED
  BY <1>3, <1>4, <1>5 DEF IInv

LEMMA BrainKeeps ==
  ASSUME IInv, BrainNext, UNCHANGED intakeVars
  PROVE  IInv'
<1>0. Types /\ BrainHolds /\ \A r \in Runs : RunHolds(r)
  BY DEF IInv, IntakeHolds
<1>1. ASSUME NEW c \in Calls, UpdateCall(c) PROVE IInv'
  <2>1. PICK k : Turn(c, k) /\ WriterHolds(c)' /\ CallHolds(c)'
    BY <1>0, <1>1, CallTurns
  <2> QED
    BY <2>1, Distinct, OtherWriterKeeps
<1>2. ASSUME NEW m \in Managers,
             \/ Correct(m)
             \/ \E s \in Slugs, kind \in Kinds :
                  \E text \in {m, Nobody, pages[s].truth} : ReadTarget(m, s, kind, text)
      PROVE  IInv'
  <2>1. PICK k : Turn(m, k) /\ WriterHolds(m)' /\ ManagerHolds(m)'
    BY <1>0, <1>2, ManagerTurns
  <2> QED
    BY <2>1, Distinct, OtherWriterKeeps
<1>3. ASSUME NEW w \in Writers, Die(w) PROVE IInv'
  <2>1. CASE w \in Runs
    BY <1>3, <2>1, RunDeathKeeps
  <2>2. CASE w \in Calls \cup Managers
    <3>1. /\ Turn(w, [task[w] EXCEPT !.pc = "dead"]) /\ WriterHolds(w)'
          /\ w \in Calls => CallHolds(w)'
          /\ w \in Managers => ManagerHolds(w)'
      BY <1>0, <1>3, DeathTurns
    <3> QED
      BY <2>2, <3>1, OtherWriterKeeps
  <2> QED
    BY <2>1, <2>2 DEF Writers
<1> QED
  BY <1>1, <1>2, <1>3 DEF BrainNext

LEMMA Initially == Init => IInv
<1> SUFFICES ASSUME Init PROVE IInv
  OBVIOUS
<1>1. /\ pages = [s \in Slugs |-> NoPage] /\ versions = {} /\ provenance = {} /\ deaths = 0
      /\ task = [w \in Writers |-> Idle]
      /\ rows = [i \in Items |-> [status |-> "none", text |-> FALSE, key |-> FALSE]]
      /\ blobs = {} /\ raced = {}
      /\ run = [r \in Runs |-> [item |-> NoItem, knows |-> "none", out |-> "none"]]
  BY DEF Init, BrainInit
<1>2. <<>> \in Seq(Entry) /\ <<>> \in Seq(Slugs) /\ DOMAIN <<>> = {}
  OBVIOUS
<1>3. NoPage \in Page /\ NoPage.timeline = <<>> /\ ~NoPage.there /\ ~NoPage.deleted
  BY <1>2 DEF NoPage, Page, Text
<1>4. Idle \in Task /\ Idle.pc = "idle"
  BY <1>2 DEF Idle, Task, Phases, Text
<1>5. task \in [Writers -> Task] /\ \A w \in Writers : task[w].pc = "idle"
  BY <1>1, <1>4
<1>6. BrainTypeOK
  BY <1>1, <1>3, <1>5, BrainAssumption DEF BrainTypeOK, Task
<1>7. TypeOK /\ Types
  BY <1>1, <1>5, <1>6 DEF TypeOK, Types, ItemRow, Run
<1>8. BrainHolds
  <2>1. SeedsStand /\ WritesHaveProvenance /\ DeletionsAreAudited
    BY <1>1, <1>3 DEF SeedsStand, WritesHaveProvenance, DeletionsAreAudited
  <2>2. \A w \in Writers : WriterHolds(w)
    BY <1>5 DEF WriterHolds, Writing
  <2>3. (\A c \in Calls : CallHolds(c)) /\ (\A m \in Managers : ManagerHolds(m))
    BY <1>5, Distinct DEF CallHolds, ManagerHolds
  <2> QED
    BY <2>1, <2>2, <2>3 DEF BrainHolds
<1>9. IntakeHolds
  <2>1. /\ \A r \in Runs : run[r] = [item |-> NoItem, knows |-> "none", out |-> "none"]
                           /\ task[r].pc = "idle"
        /\ Stored = {} /\ \A i \in Items : rows[i].status = "none" /\ ~rows[i].text /\ ~rows[i].key
    BY <1>1, <1>5, Distinct DEF Stored
  <2>2. \A r \in Runs : RunHolds(r)
    BY <2>1 DEF RunHolds, Processing, Handling, Ends
  <2>3. BlankRows /\ ItemsAreManned /\ BlobIsStored
    BY <2>1 DEF BlankRows, ItemsAreManned, BlobIsStored
  <2>4. DigestsHold
    BY <2>1 DEF DigestsHold, UploadsHold, Live, Processing, Handling
  <2> QED
    BY <2>2, <2>3, <2>4 DEF IntakeHolds
<1> QED
  BY <1>7, <1>8, <1>9 DEF IInv

LEMMA EveryStep == IInv /\ [Next]_vars => IInv'
<1> SUFFICES ASSUME IInv, [Next]_vars PROVE IInv'
  OBVIOUS
<1>1. CASE BrainNext /\ UNCHANGED intakeVars
  BY <1>1, BrainKeeps
<1>2. ASSUME NEW r \in Runs, RunStep(r) PROVE IInv'
  BY <1>2, PutBlobKeeps, CreateRowKeeps, PipelineStepsKeep, DeleteRowKeeps, mark_supersededKeeps
     DEF RunStep
<1>3. ASSUME NEW r \in Runs, NEW i \in Items, Submit(r, i) \/ reprocess_item(r, i) \/ DeleteBlob(r, i)
      PROVE  IInv'
  <2>1. CASE Submit(r, i)
    BY <2>1, submit_textKeeps, FindByShaKeeps DEF Submit
  <2>2. CASE reprocess_item(r, i)
    BY <2>2, ReadRowKeeps DEF reprocess_item
  <2>3. CASE DeleteBlob(r, i)
    BY <2>3, DeleteBlobKeeps
  <2> QED
    BY <1>3, <2>1, <2>2, <2>3
<1>4. ASSUME NEW r \in Runs, NEW i \in Items, NEW j \in Items, ReadSuperseded(r, i, j) PROVE IInv'
  BY <1>4, ReadRowKeeps DEF ReadSuperseded
<1>5. CASE UNCHANGED vars
  <2>1. Still /\ UNCHANGED <<provenance, task, deaths>> /\ UNCHANGED intakeVars
    BY <1>5 DEF vars, brainVars, Still
  <2>2. Types /\ IntakeHolds /\ versions \subseteq versions' /\ \A u \in Runs : task'[u] = task[u]
    BY <2>1 DEF IInv, Still
  <2>3. IntakeHolds'
    BY <2>1, <2>2, IntakeStays
  <2>4. BrainHolds'
    BY <2>1 DEF IInv, Still, BrainHolds, SeedsStand, WritesHaveProvenance, DeletionsAreAudited,
       WriterHolds, CallHolds, ManagerHolds, MentionedBy, DeletionNoted, OnChain, EntriesOf, Slug
  <2>5. Types'
    BY <2>1 DEF IInv, Types, TypeOK, BrainTypeOK, Still, intakeVars
  <2> QED
    BY <2>3, <2>4, <2>5 DEF IInv
<1> QED
  BY <1>1, <1>2, <1>3, <1>4, <1>5 DEF Next

(* The inductive invariant of the brain and the intake.                     *)
THEOREM Invariance == Spec => []IInv
BY Initially, EveryStep, PTL DEF Spec

-----------------------------------------------------------------------------
(* What follows *)

(* A page's versions are numbered from one to its own and only the last     *)
(* stands, whoever raced to create it (postgres_brain.py:195-300).          *)
THEOREM VersionsHold == Spec => []VersionsAreWhole
<1>1. ASSUME IInv, NEW s \in Slugs
      PROVE  /\ Numbers(s) = 1..pages[s].version
             /\ Cardinality({v \in versions : v.slug = s}) = pages[s].version
             /\ \A v \in {x \in versions : x.slug = s} :
                  /\ ~v.superseded <=> v.number = pages[s].version
                  /\ v.number = pages[s].version => v.truth = pages[s].truth
  <2> DEFINE mine == {v \in versions : v.slug = s}
             first == [slug |-> s, number |-> 1, truth |-> pages[s].truth, superseded |-> FALSE]
  <2>1. SeedsStand
    BY <1>1 DEF IInv, BrainHolds
  <2>2. CASE ~pages[s].there
    <3>1. pages[s].version = 0 /\ mine = {}
      BY <2>1, <2>2 DEF SeedsStand, NoPage
    <3>2. Cardinality(mine) = 0 /\ Numbers(s) = {} /\ 1..0 = {}
      BY <3>1, FS_EmptySet DEF Numbers
    <3> QED
      BY <3>1, <3>2
  <2>3. CASE pages[s].there
    <3>1. pages[s].version = 1 /\ mine = {first}
      BY <2>1, <2>3 DEF SeedsStand
    <3>2. Cardinality(mine) = 1
      BY <3>1, FS_Singleton
    <3>3. Numbers(s) = {1}
      <4>1. Numbers(s) = {v.number : v \in {first}}
        BY <3>1 DEF Numbers
      <4> QED
        BY <4>1
    <3>4. 1..1 = {1}
      OBVIOUS
    <3> QED
      BY <3>1, <3>2, <3>3, <3>4
  <2> QED
    BY <2>2, <2>3
<1>2. IInv => VersionsAreWhole
  BY <1>1 DEF VersionsAreWhole
<1> QED
  BY <1>2, Invariance, PTL

(* What is on a page is on record, a deletion is audited, a call is noted   *)
(* and a correction answered as done is applied (corrections.py:71-130,     *)
(* brain_updater.py:147-217), whoever dies in between.                      *)
THEOREM WorkHolds == Spec => []WorkLeavesItsMark
<1>1. ASSUME IInv PROVE CallsAreNoted
  <2>1. \A c \in Calls : CallHolds(c) /\ DOMAIN <<>> = {}
    BY <1>1 DEF IInv, BrainHolds
  <2>2. ToSet(<<>>) = {}
    BY DEF ToSet
  <2> QED
    BY <2>1, <2>2 DEF CallsAreNoted, CallHolds, At, MentionedBy
<1>2. ASSUME IInv PROVE AnsweredIsApplied
  BY <1>2 DEF IInv, BrainHolds, AnsweredIsApplied, ManagerHolds, At, OnChain
<1>3. IInv => WorkLeavesItsMark
  BY <1>1, <1>2 DEF IInv, BrainHolds, WorkLeavesItsMark
<1> QED
  BY <1>3, Invariance, PTL

(* The table and the object store agree on what files there are, a file on  *)
(* file once unless requests met on its digest                              *)
(* (intake_processor.py:87-116, 166-173).                                   *)
THEOREM FilesHold == Spec => []FilesAreKept
<1>1. ASSUME IInv PROVE OneRowPerFile
  <2>1. DigestsHold /\ \A i \in Stored : i \in Items
    BY <1>1 DEF IInv, IntakeHolds, Stored
  <2>2. ASSUME NEW i \in Stored, NEW j \in Stored, Sha[i] = Sha[j], Sha[i] \notin raced,
               ~rows[i].text, ~rows[j].text, "deleted" \notin {rows[i].status, rows[j].status}
        PROVE  i = j
    <3>1. i \in Live(Sha[i]) /\ j \in Live(Sha[i])
      BY <2>2 DEF Live
    <3> QED
      BY <2>1, <2>2, <3>1 DEF DigestsHold
  <2> QED
    BY <2>2 DEF OneRowPerFile
<1>2. IInv => FilesAreKept
  BY <1>1 DEF IInv, IntakeHolds, FilesAreKept
<1> QED
  BY <1>2, Invariance, PTL

(* An item reported as ingested is in the brain, and one in the pipeline    *)
(* has a request at work on it or one that died (intake_handlers.py:140-172,*)
(* intake_processing.py:118); the model's variables have their types.       *)
THEOREM StatusHolds == Spec => []StatusTellsTruth
<1>1. ASSUME IInv PROVE IngestedIsInBrain
  BY <1>1 DEF IInv, IntakeHolds, IngestedIsInBrain, RunHolds, OnChain
<1>2. ASSUME IInv PROVE PipelineIsManned
  BY <1>2 DEF IInv, IntakeHolds, PipelineIsManned, ItemsAreManned, Processing, Handling
<1>3. IInv => StatusTellsTruth
  BY <1>1, <1>2 DEF IInv, Types, StatusTellsTruth
<1> QED
  BY <1>3, Invariance, PTL

(* Each step of a writer is one of the three that a page can see, or none.  *)
LEMMA EveryStepGrows ==
  ASSUME IInv, [Next]_vars
  PROVE  Grows
<1>0. /\ Types /\ BrainHolds /\ IntakeHolds /\ (\A r \in Runs : RunHolds(r))
      /\ SeedsStand /\ WritesHaveProvenance /\ DeletionsAreAudited
  BY DEF IInv, IntakeHolds, BrainHolds
<1>1. CASE Still
  BY <1>0, <1>1, Pages DEF Still, Grows, PageGrows
<1>2. ASSUME NEW w \in Writers, NEW k, Turn(w, k) PROVE Grows
  BY <1>0, <1>2, TurnKeeps
<1>3. CASE BrainNext
  <2>1. ASSUME NEW c \in Calls, UpdateCall(c) PROVE Grows
    BY <1>0, <1>2, <2>1, CallTurns, Distinct
  <2>2. ASSUME NEW m \in Managers,
               \/ Correct(m)
               \/ \E s \in Slugs, kind \in Kinds :
                    \E text \in {m, Nobody, pages[s].truth} : ReadTarget(m, s, kind, text)
        PROVE  Grows
    BY <1>0, <1>2, <2>2, ManagerTurns, Distinct
  <2>3. ASSUME NEW w \in Writers, Die(w) PROVE Grows
    BY <1>1, <2>3 DEF Die, Still
  <2> QED
    BY <1>3, <2>1, <2>2, <2>3 DEF BrainNext
<1>4. ASSUME NEW r \in Runs, PageStep(r), provenance' = provenance PROVE Grows
  <2>1. r \in Writers /\ WriterHolds(r)
    BY Own
  <2> QED
    BY <1>0, <1>4, <2>1, PageStepKeeps, WritersBring
<1>5. ASSUME NEW r \in Runs, HandlerUpsert(r) PROVE Grows
  <2>1. CASE FindNone(r)
    BY <1>1, <2>1 DEF FindNone, Still
  <2>2. CASE Settle(r, "failed")
    BY <1>1, <2>2 DEF Settle, Keep, Still
  <2>3. ASSUME NEW v, Upsert(r, FALSE, v) PROVE Grows
    <3>1. task[r].pc \in {"upsert", "insert"}
      BY <2>3 DEF Upsert, UpsertFound, Insert, At
    <3>2. r \in Writers /\ task[r].todo # <<>>
      BY <3>1, Own DEF WriterHolds, Writing
    <3>3. PageStep(r) /\ UNCHANGED <<provenance, deaths>>
      BY <1>0, <2>3, <3>2, UpsertDoes
    <3> QED
      BY <1>4, <3>3
  <2> QED
    BY <1>5, <2>1, <2>2, <2>3 DEF HandlerUpsert
<1>6. ASSUME NEW r \in Runs, HandlerConflict(r) PROVE Grows
  BY <1>4, <1>6 DEF HandlerConflict, PageStep, Extended, Notes
<1>7. ASSUME NEW r \in Runs, RunStep(r) PROVE Grows
  BY <1>1, <1>5, <1>6, <1>7
     DEF RunStep, PutBlob, CreateRow, process_intake_item, MarkExtracting, _extract_content,
         Classify, Gate, Finish, DeleteRow, mark_superseded, Settle, Keep, Still
<1>8. ASSUME NEW r \in Runs, NEW i \in Items, Submit(r, i) \/ reprocess_item(r, i) \/ DeleteBlob(r, i)
      PROVE  Grows
  BY <1>1, <1>8 DEF Submit, submit_text, FindBySha, reprocess_item, DeleteBlob, Keep, Still
<1>9. ASSUME NEW r \in Runs, NEW i \in Items, NEW j \in Items, ReadSuperseded(r, i, j) PROVE Grows
  BY <1>1, <1>9 DEF ReadSuperseded, Keep, Still
<1>10. CASE UNCHANGED vars
  BY <1>1, <1>10 DEF vars, brainVars, Still
<1> QED
  BY <1>3, <1>7, <1>8, <1>9, <1>10 DEF Next

(* A terminal row changes by its deletion, by being superseded, or by a     *)
(* request that loaded it before it was terminal.                           *)
LEMMA TerminalStep ==
  ASSUME IInv, [Next]_vars, NEW i \in Items, rows[i].status \in Terminal,
         rows'[i].status # rows[i].status
  PROVE  \/ rows'[i].status \in {"deleted", "superseded"}
         \/ \E r \in On(i) : task'[r] # task[r] /\ run[r].knows \notin Terminal
<1>0. rows \in [Items -> ItemRow] /\ i \in Stored /\ ~UNCHANGED rows
  BY Rows DEF IInv, Stored, Terminal
<1>1. ASSUME NEW r \in Runs, RunStep(r)
      PROVE  \/ rows'[i].status \in {"deleted", "superseded"}
             \/ \E q \in On(i) : task'[q] # task[q] /\ run[q].knows \notin Terminal
  <2>1. CASE PutBlob(r)
    BY <1>0, <2>1 DEF PutBlob
  <2>2. CASE CreateRow(r)
    <3>1. Item(r) \in Items \ Stored
      BY <2>2, Own DEF CreateRow, At, RunHolds
    <3> QED
      BY <1>0, <2>2, <3>1 DEF CreateRow
  <2>3. CASE DeleteRow(r)
    BY <1>0, <2>3 DEF DeleteRow
  <2>4. CASE mark_superseded(r)
    BY <1>0, <2>4 DEF mark_superseded, SetStatus
  <2>5. CASE process_intake_item(r)
    <3> DEFINE Writes == \E st : rows' = [rows EXCEPT ![Item(r)].status = st]
               Leaves == task'[r].pc # task[r].pc
    <3>1. task[r] \in Task /\ r \in Writers /\ task \in [Writers -> Task]
      BY Own, Pages
    <3>2. ASSUME NEW st, Settle(r, st), task[r].pc \in Processing
          PROVE  Writes /\ Leaves
      BY <1>0, <3>1, <3>2 DEF Settle, Goto, Processing, Handling, Task
    <3>3. ASSUME NEW p \in {"extract", "gate"}, NEW st, Goto(r, p), SetStatus(r, st),
                 p # task[r].pc
          PROVE  Writes /\ Leaves
      BY <1>0, <3>1, <3>3 DEF SetStatus, Goto, Task
    <3>4. task[r].pc \in Processing
      BY <2>5 DEF process_intake_item, MarkExtracting, _extract_content, Classify, Gate,
         HandlerUpsert, FindNone, Upsert, UpsertFound, Insert, HandlerConflict, Finish, At,
         Processing, Handling
    <3>5. \/ \E st : Settle(r, st)
          \/ \E st : Goto(r, "extract") /\ SetStatus(r, st) /\ task[r].pc = "loaded"
          \/ \E st : Goto(r, "gate") /\ SetStatus(r, st) /\ task[r].pc = "classify"
      BY <1>0, <2>5
         DEF process_intake_item, MarkExtracting, _extract_content, Classify, Gate,
             HandlerUpsert, HandlerConflict, Finish, intakeVars, At
    <3>6. Writes /\ Leaves
      BY <3>2, <3>3, <3>4, <3>5
    <3>7. i = Item(r)
      BY <1>0, <3>6
    <3>8. run[r].knows \notin Terminal
      BY <3>4, Own DEF RunHolds
    <3> QED
      BY <3>6, <3>7, <3>8 DEF On
  <2> QED
    BY <1>1, <2>1, <2>2, <2>3, <2>4, <2>5 DEF RunStep
<1>2. ASSUME NEW r \in Runs, NEW k \in Items, Submit(r, k) \/ reprocess_item(r, k) \/ DeleteBlob(r, k)
      PROVE  FALSE
  <2>1. CASE submit_text(r, k)
    BY <1>0, <2>1 DEF submit_text
  <2>2. CASE ~submit_text(r, k)
    BY <1>0, <1>2, <2>2 DEF Submit, FindBySha, reprocess_item, DeleteBlob
  <2> QED
    BY <2>1, <2>2
<1>3. ~(BrainNext /\ UNCHANGED intakeVars) /\ ~UNCHANGED vars
  BY <1>0 DEF intakeVars, vars
<1>4. ASSUME NEW r \in Runs, NEW k \in Items, NEW j \in Items, ReadSuperseded(r, k, j)
      PROVE  FALSE
  BY <1>0, <1>4 DEF ReadSuperseded
<1> QED
  BY <1>1, <1>2, <1>3, <1>4 DEF Next

(* What is settled is not undone by who comes later: not a Manager's text   *)
(* by an extractor, not an entry of a timeline by who appends at once, not  *)
(* a terminal row by the pipeline (postgres_brain.py:236-238, 309;          *)
(* intake_processing.py:108).                                               *)
THEOREM NothingUndone == Spec => NothingIsUndone
<1>1. ASSUME IInv, [Next]_vars
      PROVE  [\A s \in Slugs : pages[s].ma =>
                /\ pages'[s].ma
                /\ pages'[s].truth # pages[s].truth => pages'[s].by \in Managers]_brainVars
  <2>1. \A s \in Slugs : pages[s].ma => pages[s].there
    BY <1>1 DEF IInv, BrainHolds, SeedsStand, NoPage
  <2> QED
    BY <1>1, <2>1, EveryStepGrows DEF Grows, PageGrows
<1>2. ASSUME IInv, [Next]_vars
      PROVE  [\A s \in Slugs : pages[s].there =>
                pages'[s].there /\ IsPrefix(pages[s].timeline, pages'[s].timeline)]_brainVars
  BY <1>2, EveryStepGrows DEF Grows, PageGrows
<1>3. ASSUME IInv, [Next]_vars
      PROVE  [\A i \in Items : rows[i].status \in Terminal /\ rows'[i].status # rows[i].status =>
                \/ rows'[i].status \in {"deleted", "superseded"}
                \/ \E r \in On(i) : task'[r] # task[r] /\ run[r].knows \notin Terminal]_vars
  BY <1>3, TerminalStep
<1> QED
  BY <1>1, <1>2, <1>3, Invariance, PTL
     DEF Spec, NothingIsUndone, NothingIsTakenBack, ManagerTextStands, TimelineGrows, TerminalStands
==============================================================================
