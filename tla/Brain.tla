------------------------------- MODULE Brain -------------------------------
(***************************************************************************)
(* A workspace's brain: pages with their timeline and version chain        *)
(* (brain/postgres_brain.py), and two kinds of writers over it, the brain  *)
(* updater that follows a call and the Manager's corrections.  Provenance  *)
(* rows live in the application database: no transaction spans both.       *)
(* A transaction on an existing page is one step, since it begins with a   *)
(* SELECT ... FOR UPDATE; where no row exists nothing is locked and the    *)
(* INSERT is a step of its own.                                            *)
(***************************************************************************)
EXTENDS Naturals, FiniteSets, Sequences, SequencesExt

CONSTANTS Slugs, Calls, Managers,
          Runs,       \* other writers, of the modules that extend this one
          EntitiesOf, \* the pages of the entities extracted from a call
          Contents,   \* texts that come from outside
          Nobody,
          MaxDeaths   \* bound on processes that die

Writers == Calls \cup Managers \cup Runs

ASSUME BrainAssumption ==
  /\ EntitiesOf \in [Calls -> Seq(Slugs)]
  /\ Calls \cap Managers = {} /\ Runs \cap (Calls \cup Managers) = {}
  /\ Contents \cap Writers = {}
  /\ Nobody \notin Writers \cup Contents /\ MaxDeaths \in Nat

VARIABLES
  pages, versions, \* brain_pages, brain_page_versions
  provenance,      \* writers whose provenance row is committed
  task,            \* what each writer has in hand
  deaths

brainVars == <<pages, versions, provenance, task, deaths>>

\* A text is named by who writes it, or by what it holds; Nobody's is empty.
Text == Writers \cup Contents \cup {Nobody}
Kinds == {"replace_compiled_truth", "soft_delete_page", "append_timeline_entry"}
Entry == [by: Writers, what: {"seed", "note", "deleted", "conflict"}]
Page == [there: BOOLEAN, truth: Text, timeline: Seq(Entry), by: Text,
         ma: BOOLEAN, deleted: BOOLEAN, version: Nat]
Version == [slug: Slugs, number: Nat \ {0}, truth: Text, superseded: BOOLEAN]
NoPage == [there |-> FALSE, truth |-> Nobody, timeline |-> <<>>, by |-> Nobody,
           ma |-> FALSE, deleted |-> FALSE, version |-> 0]
Idle == [pc |-> "idle", todo |-> <<>>, text |-> Nobody, kind |-> "none", review |-> {}]

BrainInit ==
  /\ pages = [s \in Slugs |-> NoPage]
  /\ versions = {} /\ provenance = {} /\ deaths = 0
  /\ task = [w \in Writers |-> Idle]

At(w, pc) == task[w].pc = pc
Slug(w) == Head(task[w].todo)
Goto(w, pc) == task' = [task EXCEPT ![w].pc = pc]
\* On to the next entity.
Advance(w) == task' = [task EXCEPT ![w].todo = Tail(@),
                                   ![w].pc = IF Len(task[w].todo) = 1 THEN "done" ELSE "get"]
Numbers(s) == {v.number : v \in {x \in versions : x.slug = s}}
EntriesOf(s) == ToSet(pages[s].timeline)

-----------------------------------------------------------------------------
\* Mutant: the new entry is written in place of the list.
AppendTimelineAlone(w, what) ==
  pages' = [pages EXCEPT ![Slug(w)].timeline = <<[by |-> w, what |-> what]>>]

(* The provider's writes.                                                   *)
AppendTimeline(w, what) ==
  pages' = [pages EXCEPT ![Slug(w)].timeline = Append(@, [by |-> w, what |-> what])]

NewPage(w, ma) ==
  [NoPage EXCEPT !.there = TRUE, !.truth = task[w].text, !.by = w, !.ma = ma, !.version = 1,
                 !.timeline = <<[by |-> w, what |-> "seed"]>>]
FirstVersion(w) ==
  [slug |-> Slug(w), number |-> 1, truth |-> task[w].text, superseded |-> FALSE]

\* What upsert_page makes of a page it finds.  The prior version is inserted
\* under a number that is taken since that version was written: the unique
\* constraint of brain_page_versions refuses it.
Verdict(w, ma) ==
  LET page == pages[Slug(w)] IN
  CASE page.ma /\ ~ma                             -> "conflict"
    [] page.truth = task[w].text                  -> "same"
    [] page.version \in Numbers(Slug(w))          -> "failed"
    [] OTHER                                      -> "changed"
Changed(w, ma) ==
  LET s == Slug(w)  old == pages[s]  new == old.version + 1 IN
  /\ pages' = [pages EXCEPT ![s] = [old EXCEPT !.truth = task[w].text, !.by = w,
                                               !.ma = ma \/ old.ma, !.version = new]]
  /\ versions' = versions \cup
       {[slug |-> s, number |-> old.version, truth |-> old.truth, superseded |-> TRUE],
        [slug |-> s, number |-> new, truth |-> task[w].text, superseded |-> FALSE]}

\* FOR UPDATE finds no row and locks nothing.
FindNone(w) ==
  /\ At(w, "upsert") /\ ~pages[Slug(w)].there
  /\ Goto(w, "insert")
  /\ UNCHANGED <<pages, versions, provenance, deaths>>
UpsertFound(w, ma, verdict) ==
  /\ At(w, "upsert") /\ pages[Slug(w)].there /\ verdict = Verdict(w, ma)
  /\ IF verdict = "changed" THEN Changed(w, ma) ELSE UNCHANGED <<pages, versions>>
  /\ UNCHANGED <<provenance, deaths>>
\* Mutant: INSERT ... ON CONFLICT DO UPDATE.
InsertOver(w, ma, verdict) ==
  /\ At(w, "insert") /\ verdict = "same"
  /\ pages' = [pages EXCEPT ![Slug(w)] = NewPage(w, ma)]
  /\ versions' = versions \cup {FirstVersion(w)}
  /\ UNCHANGED <<provenance, deaths>>

\* Mutant: no first version is seeded.
InsertUnversioned(w, ma, verdict) ==
  /\ At(w, "insert")
  /\ verdict = IF pages[Slug(w)].there THEN "failed" ELSE "same"
  /\ IF verdict = "failed" THEN UNCHANGED pages
     ELSE pages' = [pages EXCEPT ![Slug(w)] = NewPage(w, ma)]
  /\ UNCHANGED <<versions, provenance, deaths>>

\* The page and its first version; a page somebody else inserted refuses it.
Insert(w, ma, verdict) ==
  /\ At(w, "insert")
  /\ verdict = IF pages[Slug(w)].there THEN "failed" ELSE "same"
  /\ IF verdict = "failed" THEN UNCHANGED <<pages, versions>>
     ELSE /\ pages' = [pages EXCEPT ![Slug(w)] = NewPage(w, ma)]
          /\ versions' = versions \cup {FirstVersion(w)}
  /\ UNCHANGED <<provenance, deaths>>
Upsert(w, ma, verdict) == UpsertFound(w, ma, verdict) \/ Insert(w, ma, verdict)

-----------------------------------------------------------------------------
(* run_brain_updater: a stub for an unknown entity, an entry for a known one. *)
StartUpdate(c) ==
  /\ At(c, "idle") /\ EntitiesOf[c] # <<>>
  /\ provenance' = provenance \cup {c}
  /\ task' = [task EXCEPT ![c] = [Idle EXCEPT !.pc = "get", !.todo = EntitiesOf[c], !.text = c]]
  /\ UNCHANGED <<pages, versions, deaths>>
GetEntity(c) ==
  /\ At(c, "get")
  /\ Goto(c, IF pages[Slug(c)].there THEN "append" ELSE "upsert")
  /\ UNCHANGED <<pages, versions, provenance, deaths>>
\* Mutant: the conflict of a stub is passed over.
UpsertStubSilent(c) ==
  \/ FindNone(c)
  \/ \E v \in {"same", "changed", "conflict"} : Upsert(c, FALSE, v) /\ Advance(c)
  \/ Upsert(c, FALSE, "failed") /\ Goto(c, "failed")

UpsertStub(c) ==
  \/ FindNone(c)
  \/ \E v \in {"same", "changed"} : Upsert(c, FALSE, v) /\ Advance(c)
  \/ Upsert(c, FALSE, "failed") /\ Goto(c, "failed")
  \/ /\ Upsert(c, FALSE, "conflict")
     /\ task' = [task EXCEPT ![c].review = @ \cup {Slug(c)}, ![c].todo = Tail(@),
                             ![c].pc = IF Len(task[c].todo) = 1 THEN "done" ELSE "get"]
Mention(c) ==
  /\ At(c, "append")
  /\ AppendTimeline(c, "note") /\ Advance(c)
  /\ UNCHANGED <<versions, provenance, deaths>>

UpdateCall(c) == StartUpdate(c) \/ GetEntity(c) \/ UpsertStub(c) \/ Mention(c)

-----------------------------------------------------------------------------
(* CorrectionService.apply: the page is read, the provenance row committed, *)
(* the brain written.                                                       *)
ReadTarget(m, s, kind, text) ==
  /\ At(m, "idle")
  /\ task' = [task EXCEPT ![m] =
       [Idle EXCEPT !.pc = IF pages[s].there \/ kind = "replace_compiled_truth"
                           THEN "provenance" ELSE "refused",
                    !.todo = <<s>>, !.kind = kind, !.text = text]]
  /\ UNCHANGED <<pages, versions, provenance, deaths>>

\* An empty text is refused only now.
NextOf(m) ==
  CASE task[m].kind = "soft_delete_page"       -> "append"
    [] task[m].text = Nobody                   -> "refused"
    [] task[m].kind = "replace_compiled_truth" -> "upsert"
    [] OTHER                                   -> "append"
\* Mutant: the row is flushed and its commit left to the end.
RecordCorrectionLate(m) ==
  /\ At(m, "provenance")
  /\ Goto(m, NextOf(m))
  /\ UNCHANGED <<pages, versions, provenance, deaths>>

RecordCorrection(m) ==
  /\ At(m, "provenance")
  /\ provenance' = provenance \cup {m}
  /\ Goto(m, NextOf(m))
  /\ UNCHANGED <<pages, versions, deaths>>

\* Mutant: a failing write is logged and answered as done.
ReplaceTruthAnyway(m) ==
  /\ task[m].kind = "replace_compiled_truth"
  /\ \/ FindNone(m)
     \/ \E v \in {"same", "changed", "failed"} : Upsert(m, TRUE, v) /\ Goto(m, "done")

ReplaceTruth(m) ==
  /\ task[m].kind = "replace_compiled_truth"
  /\ \/ FindNone(m)
     \/ \E v \in {"same", "changed"} : Upsert(m, TRUE, v) /\ Goto(m, "done")
     \/ Upsert(m, TRUE, "failed") /\ Goto(m, "failed")
Note(m) ==
  /\ m \in Managers /\ At(m, "append") /\ task[m].kind = "append_timeline_entry"
  /\ AppendTimeline(m, "note") /\ Goto(m, "done")
  /\ UNCHANGED <<versions, provenance, deaths>>
\* Mutant: the audit entry is left to the cascade.
AuditDeleteLater(m) ==
  /\ m \in Managers /\ At(m, "append") /\ task[m].kind = "soft_delete_page"
  /\ Goto(m, "delete")
  /\ UNCHANGED <<pages, versions, provenance, deaths>>

\* The audit entry and the deletion are two transactions.
AuditDelete(m) ==
  /\ m \in Managers /\ At(m, "append") /\ task[m].kind = "soft_delete_page"
  /\ AppendTimeline(m, "deleted") /\ Goto(m, "delete")
  /\ UNCHANGED <<versions, provenance, deaths>>
SoftDelete(m) ==
  /\ At(m, "delete")
  /\ pages' = [pages EXCEPT ![Slug(m)].deleted = TRUE]
  /\ Goto(m, "done")
  /\ UNCHANGED <<versions, provenance, deaths>>

Correct(m) ==
  \/ RecordCorrection(m) \/ ReplaceTruth(m) \/ Note(m) \/ AuditDelete(m) \/ SoftDelete(m)

Over == {"idle", "done", "failed", "refused", "dead"}
Die(w) ==
  /\ task[w].pc \notin Over /\ deaths < MaxDeaths
  /\ deaths' = deaths + 1
  /\ Goto(w, "dead")
  /\ UNCHANGED <<pages, versions, provenance>>

BrainNext ==
  \/ \E c \in Calls : UpdateCall(c)
  \/ \E m \in Managers : \/ Correct(m)
                         \/ \E s \in Slugs, k \in Kinds :
                              \E text \in {m, Nobody, pages[s].truth} : ReadTarget(m, s, k, text)
  \/ \E w \in Writers : Die(w)

BrainSpec == BrainInit /\ [][BrainNext]_brainVars

-----------------------------------------------------------------------------
BrainTypeOK ==
  /\ pages \in [Slugs -> Page] /\ versions \subseteq Version
  /\ provenance \subseteq Writers /\ deaths \in 0..MaxDeaths
  /\ \A w \in Writers : /\ task[w].todo \in Seq(Slugs) /\ task[w].text \in Text
                        /\ task[w].review \subseteq Slugs

(* A page's versions are numbered from one to its own without gap or        *)
(* repetition, the last carries its text and only that one stands           *)
(* (postgres_brain.py:58-69, 195-300), whoever raced to create it.          *)
VersionsAreWhole ==
  \A s \in Slugs :
    LET mine == {v \in versions : v.slug = s} IN
    /\ Numbers(s) = 1..pages[s].version
    /\ Cardinality(mine) = pages[s].version
    /\ \A v \in mine : ~v.superseded <=> v.number = pages[s].version
    /\ \A v \in mine : v.number = pages[s].version => v.truth = pages[s].truth

(* No write of an extractor replaces what a Manager wrote, not even one     *)
(* that found no page and inserts it after the Manager did                  *)
(* (base.py:107-115, postgres_brain.py:236-238).                            *)
ManagerTextStands ==
  [][\A s \in Slugs : pages[s].ma =>
       /\ pages'[s].ma
       /\ pages'[s].truth # pages[s].truth => pages'[s].by \in Managers]_brainVars

(* A timeline only grows, whoever appends at once (postgres_brain.py:309).  *)
TimelineGrows ==
  [][\A s \in Slugs : pages[s].there =>
       pages'[s].there /\ IsPrefix(pages[s].timeline, pages'[s].timeline)]_brainVars

(* Together: no writer takes back what another is entitled to keep.         *)
NothingIsTakenBack == ManagerTextStands /\ TimelineGrows

(* What a page, its timeline and its versions were written from is on       *)
(* record in the other database, though a process dies between the two      *)
(* (corrections.py:71-80, brain_updater.py:147-158).                        *)
WritesHaveProvenance ==
  \A s \in Slugs : pages[s].there =>
    {pages[s].by} \cup {e.by : e \in EntriesOf(s)} \subseteq provenance

(* A deleted page says in its timeline by whom (corrections.py:116-130).    *)
DeletionsAreAudited ==
  \A s \in Slugs : pages[s].deleted => \E e \in EntriesOf(s) : e.what = "deleted"

(* A brain update that ended without an error mentions its call on every    *)
(* entity's page or names the page for review (brain_updater.py:160-217).   *)
CallsAreNoted ==
  \A c \in Calls : At(c, "done") =>
    \A s \in ToSet(EntitiesOf[c]) \ task[c].review : \E e \in EntriesOf(s) : e.by = c

(* A replacement answered as done is on the page's version chain            *)
(* (corrections.py:97-113; request_correction.py's "I've updated that").    *)
AnsweredIsApplied ==
  \A m \in Managers : At(m, "done") /\ task[m].kind = "replace_compiled_truth" =>
    \E v \in versions : v.slug = Slug(m) /\ v.truth = task[m].text

(* Together: what was done is on the page, what is on the page on record.   *)
WorkLeavesItsMark ==
  WritesHaveProvenance /\ DeletionsAreAudited /\ CallsAreNoted /\ AnsweredIsApplied

-----------------------------------------------------------------------------
(* What the code's documents say and the code does not keep.                *)

(* "A Manager correction always wins" (services/corrections.py:3): a        *)
(* replacement of an existing page's text fails on its version row.         *)
CorrectionWins ==
  \A m \in Managers : task[m].kind = "replace_compiled_truth" => ~At(m, "failed")

(* "The page becomes manager_authoritative - the auto-extractor will not    *)
(* overwrite it" (request_correction.py:54): not if the text was the same.  *)
CorrectedIsProtected ==
  \A m \in Managers :
    At(m, "done") /\ task[m].kind = "replace_compiled_truth" => pages[Slug(m)].ma
=============================================================================
