------------------------------- MODULE Intake -------------------------------
(***************************************************************************)
(* Intake items: submission of texts and files, the extraction pipeline    *)
(* and its handlers, reprocessing, superseding and deletion                *)
(* (services/intake_*.py, api/workspaces/intake.py), over the brain that   *)
(* the handlers write to.  A run is one HTTP request.  What a run loaded   *)
(* of a row it keeps to its end (expire_on_commit is off): its updates     *)
(* write a status that differs from the one it knows, whatever the row has *)
(* become since.                                                           *)
(***************************************************************************)
EXTENDS Brain

CONSTANTS Items,
          Sha,      \* content_sha256 of an item
          SlugsOf,  \* the pages an item's classification leads to
          NoItem

ASSUME IntakeAssumption ==
  /\ NoItem \notin Items
  /\ SlugsOf \in [Items -> Seq(Slugs) \ {<<>>}]
  /\ Sha \in [Items -> Contents] /\ Items \subseteq Contents

VARIABLES
  rows,  \* intake_buffer_items
  blobs, \* the items whose file the object store holds
  run,   \* per request: its item and the status it knows of it
  raced  \* history: digests whose lookup or deletion met another request

intakeVars == <<rows, blobs, run, raced>>
vars == <<brainVars, intakeVars>>

Statuses == {"queued", "extracting", "classified", "ingested", "needs_review",
             "failed", "superseded", "deleted"}
Terminal == {"ingested", "failed", "deleted", "superseded"}
Scopes == {"ORG_WIDE", "CALLER_SPECIFIC", "BOTH", "RAW_SOURCE"}
\* text: content_text is set; key: content_blob_key is.
ItemRow == [status: Statuses \cup {"none"}, text: BOOLEAN, key: BOOLEAN]
Run == [item: Items \cup {NoItem}, knows: Statuses \cup {"none"}, out: Statuses \cup {"none"}]

Init ==
  /\ BrainInit
  /\ rows = [i \in Items |-> [status |-> "none", text |-> FALSE, key |-> FALSE]]
  /\ blobs = {} /\ raced = {}
  /\ run = [r \in Runs |-> [item |-> NoItem, knows |-> "none", out |-> "none"]]

Item(r) == run[r].item
Stored == {i \in Items : rows[i].status # "none"}
Taken == {run[r].item : r \in Runs}
Uploading(sha) == {r \in Runs : task[r].pc \in {"put", "row"} /\ Sha[Item(r)] = sha}
\* Mutant: the lookup passes over what was ingested already.
MatchesPending(sha) == {i \in Stored : Sha[i] = sha /\ rows[i].status \notin {"deleted", "ingested"}}

Matches(sha) == {i \in Stored : Sha[i] = sha /\ rows[i].status # "deleted"}

Others(r) == {q \in Runs \ {r} : Item(q) = Item(r) /\ task[q].pc \notin Over}

Begin(r, pc, i, status) ==
  /\ At(r, "idle")
  /\ task' = [task EXCEPT ![r].pc = pc]
  /\ run' = [run EXCEPT ![r].item = i, ![r].knows = status]

\* update_status: the column is written if it differs from what is known of it.
SetStatus(r, status) ==
  /\ rows' = IF run[r].knows = status THEN rows ELSE [rows EXCEPT ![Item(r)].status = status]
  /\ run' = [run EXCEPT ![r].knows = status]
Keep == UNCHANGED <<pages, versions, provenance, deaths>>

-----------------------------------------------------------------------------
(* Submission.  A text has no dedupe; a file is looked up, put and recorded. *)
submit_text(r, i) ==
  /\ i \in Items \ (Stored \cup Taken)
  /\ Begin(r, "loaded", i, "queued")
  /\ rows' = [rows EXCEPT ![i].status = "queued", ![i].text = TRUE]
  /\ Keep /\ UNCHANGED <<blobs, raced>>

\* scalar_one_or_none raises when several rows match.
FindBySha(r, i) ==
  /\ i \in Items \ (Stored \cup Taken)
  /\ IF Matches(Sha[i]) = {} THEN Begin(r, "put", i, "none")
     ELSE Begin(r, IF Cardinality(Matches(Sha[i])) = 1 THEN "done" ELSE "failed", NoItem, "none")
  /\ raced' = IF Uploading(Sha[i]) = {} THEN raced ELSE raced \cup {Sha[i]}
  /\ Keep /\ UNCHANGED <<rows, blobs>>
\* Mutant: the row is recorded and its file put afterwards, in the background.
PutBlobLater(r) ==
  /\ At(r, "put") /\ Goto(r, "row")
  /\ Keep /\ UNCHANGED <<rows, blobs, run, raced>>

PutBlob(r) ==
  /\ At(r, "put") /\ Goto(r, "row")
  /\ blobs' = blobs \cup {Item(r)}
  /\ Keep /\ UNCHANGED <<rows, run, raced>>
CreateRow(r) ==
  /\ At(r, "row") /\ Goto(r, "loaded")
  /\ rows' = [rows EXCEPT ![Item(r)].status = "queued", ![Item(r)].key = TRUE]
  /\ run' = [run EXCEPT ![r].knows = "queued"]
  /\ Keep /\ UNCHANGED <<blobs, raced>>

\* Mutant: a failed item may be tried again.
ReprocessFailed(r, i) ==
  /\ i \in Stored
  /\ Begin(r, IF rows[i].status \in Terminal \ {"failed"} THEN "done" ELSE "loaded", i, rows[i].status)
  /\ Keep /\ UNCHANGED <<rows, blobs, raced>>

\* POST /items/{id}/process.
reprocess_item(r, i) ==
  /\ i \in Stored
  /\ Begin(r, IF rows[i].status \in Terminal THEN "done" ELSE "loaded", i, rows[i].status)
  /\ Keep /\ UNCHANGED <<rows, blobs, raced>>

-----------------------------------------------------------------------------
(* process_intake_item: every status is committed on its own.               *)
Settle(r, status) ==
  /\ Goto(r, "done")
  /\ rows' = IF run[r].knows = status THEN rows ELSE [rows EXCEPT ![Item(r)].status = status]
  /\ run' = [run EXCEPT ![r].knows = status, ![r].out = status]
  /\ Keep /\ UNCHANGED <<blobs, raced>>

MarkExtracting(r) ==
  /\ At(r, "loaded") /\ Goto(r, "extract")
  /\ SetStatus(r, "extracting")
  /\ Keep /\ UNCHANGED <<blobs, raced>>
\* An unsupported format, a file that is gone or no content end it here.
_extract_content(r) ==
  /\ At(r, "extract")
  /\ \/ Settle(r, "failed")
     \/ /\ rows[Item(r)].text \/ Item(r) \in blobs
        /\ \/ Settle(r, "needs_review")
           \/ Goto(r, "classify") /\ Keep /\ UNCHANGED <<rows, blobs, run, raced>>
Classify(r) ==
  /\ At(r, "classify")
  /\ \/ Settle(r, "failed")
     \/ Goto(r, "gate") /\ SetStatus(r, "classified") /\ Keep /\ UNCHANGED <<blobs, raced>>

\* What is left to do once a handler has made its provenance row: a caller's
\* has no page to write, a cross reference is filed as an org-wide item.
Handler(i, scope) ==
  [Idle EXCEPT !.kind = scope,
               !.text = IF scope = "RAW_SOURCE" THEN i ELSE Sha[i],
               !.pc = IF scope = "CALLER_SPECIFIC" THEN "settle" ELSE "upsert",
               !.todo = IF scope = "RAW_SOURCE" THEN SlugsOf[i] ELSE <<Head(SlugsOf[i])>>]

\* Below the confidence threshold a Manager must look.
Gate(r, scope) ==
  /\ At(r, "gate")
  /\ \/ Settle(r, "needs_review")
     \/ /\ provenance' = provenance \cup {r}
        /\ task' = [task EXCEPT ![r] = Handler(Item(r), scope)]
        /\ UNCHANGED <<pages, versions, deaths, intakeVars>>

\* The page is written: the next entity of a document, or the end.
HandlerGoesOn(r) ==
  task' = [task EXCEPT ![r].todo = IF Len(@) = 1 THEN @ ELSE Tail(@),
                       ![r].pc = IF Len(task[r].todo) = 1 THEN "settle" ELSE "upsert"]
\* Mutant: the handler's exception is logged and the item counted as ingested.
HandlerUpsertAnyway(r) ==
  /\ r \in Runs
  /\ \/ FindNone(r) /\ UNCHANGED intakeVars
     \/ /\ \E v \in {"same", "changed", "failed"} : Upsert(r, FALSE, v)
        /\ HandlerGoesOn(r) /\ UNCHANGED intakeVars
     \/ Upsert(r, FALSE, "conflict") /\ Goto(r, "append") /\ UNCHANGED intakeVars

HandlerUpsert(r) ==
  /\ r \in Runs
  /\ \/ FindNone(r) /\ UNCHANGED intakeVars
     \/ /\ \E v \in {"same", "changed"} : Upsert(r, FALSE, v)
        /\ HandlerGoesOn(r) /\ UNCHANGED intakeVars
     \/ Upsert(r, FALSE, "conflict") /\ Goto(r, "append") /\ UNCHANGED intakeVars
     \/ At(r, "upsert") /\ UpsertFound(r, FALSE, "failed") /\ Settle(r, "failed")
     \/ At(r, "insert") /\ Insert(r, FALSE, "failed") /\ Settle(r, "failed")

HandlerConflict(r) ==
  /\ r \in Runs /\ At(r, "append")
  /\ AppendTimeline(r, "conflict")
  /\ task' = [task EXCEPT ![r].todo = IF Len(@) = 1 THEN @ ELSE Tail(@),
                          ![r].review = IF task[r].kind = "ORG_WIDE" THEN {Slug(r)} ELSE {},
                          ![r].pc = IF Len(task[r].todo) = 1 THEN "settle" ELSE "upsert"]
  /\ UNCHANGED <<versions, provenance, deaths, intakeVars>>

\* Mutant: the status is left to the review.
FinishUnreviewed(r) ==
  /\ At(r, "settle")
  /\ IF task[r].review = {} THEN Settle(r, "ingested")
     ELSE Goto(r, "done") /\ Keep /\ UNCHANGED intakeVars

\* needs_review is read at the top of the result; cross_ref nests it one
\* level down and raw_source does not report it.
Finish(r) ==
  /\ At(r, "settle")
  /\ Settle(r, IF task[r].review # {} THEN "needs_review" ELSE "ingested")

process_intake_item(r) ==
  \/ MarkExtracting(r) \/ _extract_content(r) \/ Classify(r)
  \/ \E scope \in Scopes : Gate(r, scope)
  \/ HandlerUpsert(r) \/ HandlerConflict(r) \/ Finish(r)

-----------------------------------------------------------------------------
\* The file goes first, and only if its removal fails does it stay.
DeleteBlob(r, i) ==
  /\ i \in Stored
  /\ At(r, "idle") /\ Goto(r, "unrow")
  /\ run' = [run EXCEPT ![r] = [item |-> i, knows |-> rows[i].status, out |-> "deleted"]]
  /\ blobs' \in IF rows[i].key THEN {blobs, blobs \ {i}} ELSE {blobs}
  /\ Keep /\ UNCHANGED <<rows, raced>>
DeleteRow(r) ==
  /\ At(r, "unrow") /\ Goto(r, "done")
  /\ rows' = [rows EXCEPT ![Item(r)].key = FALSE,
                           ![Item(r)].status = IF run[r].knows = "deleted" THEN @ ELSE "deleted"]
  /\ run' = [run EXCEPT ![r].knows = "deleted"]
  /\ raced' = IF Others(r) = {} THEN raced ELSE raced \cup {Sha[Item(r)]}
  /\ Keep /\ UNCHANGED blobs

\* A deleted item may be superseded, and is then on file again.
ReadSuperseded(r, i, j) ==
  /\ i \in Stored /\ j \in Stored
  /\ Begin(r, IF rows[i].status = "superseded" THEN "refused" ELSE "supersede", i, rows[i].status)
  /\ Keep /\ UNCHANGED <<rows, blobs, raced>>
mark_superseded(r) ==
  /\ At(r, "supersede") /\ Goto(r, "done")
  /\ SetStatus(r, "superseded")
  /\ raced' = IF rows[Item(r)].status # "deleted" THEN raced ELSE raced \cup {Sha[Item(r)]}
  /\ Keep /\ UNCHANGED blobs

Submit(r, i) == submit_text(r, i) \/ FindBySha(r, i)
RunStep(r) == PutBlob(r) \/ CreateRow(r) \/ process_intake_item(r) \/ DeleteRow(r) \/ mark_superseded(r)

Next ==
  \/ BrainNext /\ UNCHANGED intakeVars
  \/ \E r \in Runs : RunStep(r)
  \/ \E r \in Runs, i \in Items : Submit(r, i) \/ reprocess_item(r, i) \/ DeleteBlob(r, i)
  \/ \E r \in Runs, i, j \in Items : ReadSuperseded(r, i, j)

Spec == Init /\ [][Next]_vars

-----------------------------------------------------------------------------
TypeOK ==
  /\ BrainTypeOK
  /\ rows \in [Items -> ItemRow] /\ blobs \subseteq Items
  /\ run \in [Runs -> Run]
  /\ raced \subseteq {Sha[i] : i \in Items}

On(i) == {r \in Runs : Item(r) = i}

(* A file is on file once: two live rows have one digest only if its lookup *)
(* met another upload of it, its deletion met another request, or a deleted *)
(* row was superseded (intake_processor.py:87-89).                          *)
OneRowPerFile ==
  \A i, j \in Stored :
    i # j /\ Sha[i] = Sha[j] /\ Sha[i] \notin raced /\ ~rows[i].text /\ ~rows[j].text =>
      "deleted" \in {rows[i].status, rows[j].status}

(* A row with a blob key has its file, unless a deletion of it began        *)
(* (intake_processor.py:97-116, 166-173).                                   *)
BlobIsStored ==
  \A i \in Items : rows[i].key => i \in blobs \/ \E r \in On(i) : run[r].out = "deleted"

(* Together: the table and the object store agree on what files there are.  *)
FilesAreKept == OneRowPerFile /\ BlobIsStored

(* An org-wide item reported as ingested is on its page's version chain: a  *)
(* conflict with the Manager, a lost race to create the page or a failed    *)
(* write is never reported so (intake_handlers.py:140-172).                 *)
IngestedIsInBrain ==
  \A r \in Runs : run[r].out = "ingested" /\ task[r].kind = "ORG_WIDE" =>
    \E v \in versions : v.slug = Slug(r) /\ v.truth = task[r].text

(* A terminal item changes only by deletion, by being superseded, or by a   *)
(* request that loaded it before it was terminal                            *)
(* (intake_processing.py:108, api/workspaces/intake.py:219).                *)
TerminalStands ==
  [][\A i \in Items : rows[i].status \in Terminal /\ rows'[i].status # rows[i].status =>
       \/ rows'[i].status \in {"deleted", "superseded"}
       \/ \E r \in On(i) : task'[r] # task[r] /\ run[r].knows \notin Terminal]_vars

(* Together with the brain's: what is settled is not undone by who comes    *)
(* later.                                                                   *)
NothingIsUndone == NothingIsTakenBack /\ TerminalStands

(* An item in the pipeline has a request at work on it, or one that died:   *)
(* the endpoint runs the pipeline itself and no worker would take the item  *)
(* up again (intake_processing.py:118).                                     *)
PipelineIsManned ==
  \A i \in Items : rows[i].status \in {"queued", "extracting", "classified"} =>
    \E r \in On(i) : task[r].pc \notin {"done", "failed", "refused"}

(* Together: an item's status tells what has become of it.                  *)
StatusTellsTruth == TypeOK /\ IngestedIsInBrain /\ PipelineIsManned

-----------------------------------------------------------------------------
(* What the code's documents say and the code does not keep.                *)

(* "If the handler signaled a conflict, surface as needs_review instead of  *)
(* ingested" (intake_processing.py:189): a cross-reference nests the signal *)
(* and a document does not give it.                                         *)
ConflictsAreReviewed ==
  \A r \in Runs : run[r].out = "ingested" =>
    \A s \in Slugs : [by |-> r, what |-> "conflict"] \notin EntriesOf(s)

(* Deletion is final for the pipeline (TERMINAL_STATUSES,                   *)
(* intake_processing.py:31): a request in progress overwrites it.           *)
DeletionStands ==
  [][\A i \in Items : rows[i].status = "deleted" => rows'[i].status = "deleted"]_vars
=============================================================================
