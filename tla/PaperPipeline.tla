---------------------------- MODULE PaperPipeline ----------------------------
(***************************************************************************)
(* One PDF on its way from the upload to a searchable paper: the requests  *)
(* that upload it (IngestionService), its PaperVersion, the ingestion Run  *)
(* that parses it (IngestionExecutor) and the indexing Run that cuts it    *)
(* into chunks and embeds them (IndexingExecutor).                         *)
(*                                                                         *)
(* Parser and models are called between transactions that lock the Run;    *)
(* these ask for a requested cancellation and, at the end, for RUNNING,    *)
(* never for the Attempt. The ParseRevision and the ChunkSet are rows that *)
(* all Attempts share and that some transactions write before they look at *)
(* the Run.                                                                *)
(***************************************************************************)
EXTENDS RunRow, FiniteSets

CONSTANTS
  Workers,    \* the places in which a Run may be executed at once: 1 .. n
  Requests,   \* the HTTP requests that upload the file: 1 .. n
  Lengths     \* the numbers of chunks the document may have

ASSUME PipelineAssumption ==
  Workers \subseteq Nat /\ Requests \subseteq Nat \ {0} /\ Lengths \subseteq Nat

VARIABLES
  setup,    \* the Idempotency-Key of each request, and the length of the document
  upload,   \* what each request does
  record,   \* the idempotency records by key
  paper,    \* the rows of PaperVersion, ParseRevision, elements, ChunkSet and chunks
  run,      \* the rows of the ingestion and the indexing Run
  work      \* what each worker does

vars == <<setup, upload, record, paper, run, work>>

-----------------------------------------------------------------------------
Kinds == {"ingestion", "indexing"}
Chunks == 1 .. setup.chunks
AllChunks == UNION {1 .. n : n \in Lengths}

\* versions and indexings count rows; elements says that those of the revision
\* are stored; current is current_parse_revision_id.
Revision == {"none", "running", "failed", "succeeded"}
ChunkSet == {"none", "running", "failed", "ready"}
Paper == [versions: Nat, current: BOOLEAN, revision: Revision, elements: BOOLEAN,
          indexings: Nat, chunkset: ChunkSet, chunks: SUBSET AllChunks,
          embedded: SUBSET AllChunks]
NoPaper == [versions |-> 0, current |-> FALSE, revision |-> "none", elements |-> FALSE,
            indexings |-> 0, chunkset |-> "none", chunks |-> {}, embedded |-> {}]

\* A request reads, and then creates a version or takes the one that it found.
Upload == {"new", "create", "reuse", "answered"}
\* The Project of a record got its relation to the paper at the latest with it.
Record == {"none", "created", "reused"}

IngestionPcs == {"read", "prepare", "parse", "progress", "commit", "spoil"}
IndexingPcs == {"index", "count", "build", "chunk", "pending", "save", "ready", "reject"}
\* seen: the status of the revision that _prepare read before it locked the Run;
\* batch: the chunks that list_pending_embedding returned.
Work == [pc: {"idle", "raise", "return"} \cup IngestionPcs \cup IndexingPcs,
         kind: Kinds, attempt: Nat, seen: Revision, batch: SUBSET AllChunks,
         permanent: BOOLEAN]
Idle == [pc |-> "idle", kind |-> "ingestion", attempt |-> 0, seen |-> "none", batch |-> {},
         permanent |-> FALSE]

TypeOK ==
  /\ setup \in [key: [Requests -> Requests], chunks: Lengths]
  /\ upload \in [Requests -> Upload]
  /\ record \in [Requests -> Record]
  /\ paper \in Paper
  /\ run \in [Kinds -> RunRow]
  /\ work \in [Workers -> Work]

\* A key names the first request that uses it: a double click uses one twice.
Init ==
  /\ setup \in [key: {k \in [Requests -> Requests] : \A r \in Requests : k[r] <= r /\ k[k[r]] = k[r]},
                chunks: Lengths]
  /\ upload = [r \in Requests |-> "new"]
  /\ record = [k \in Requests |-> "none"]
  /\ paper = NoPaper
  /\ run = [k \in Kinds |-> NewRun]
  /\ work = [w \in Workers |-> Idle]

-----------------------------------------------------------------------------
(* IngestionService.upload_paper_file *)

\* The reads of the transaction: a stored answer is replayed, a version with the
\* same hash is reused; neither read takes a lock.
ReadUpload(r) ==
  /\ upload[r] = "new"
  /\ upload' = [upload EXCEPT ![r] = IF record[setup.key[r]] # "none" THEN "answered"
                                     ELSE IF paper.versions > 0 THEN "reuse" ELSE "create"]
  /\ UNCHANGED <<setup, record, paper, run, work>>

\* Mutant: no unique constraint on owner and hash.
CreateVersionTwice(r) ==
  /\ upload[r] = "create"
  /\ IF record[setup.key[r]] = "none"
     THEN /\ record' = [record EXCEPT ![setup.key[r]] = "created"]
          /\ paper' = [paper EXCEPT !.versions = @ + 1]
          /\ upload' = [upload EXCEPT ![r] = "answered"]
     ELSE upload' = [upload EXCEPT ![r] = "new"] /\ UNCHANGED <<record, paper>>
  /\ UNCHANGED <<setup, run, work>>

\* Paper, version, ingestion Run, relation, Event, Outbox, file and idempotency
\* record in one commit. The unique constraints on the key and on owner and hash
\* refuse a second one, and the client repeats the request. (An import by a
\* Review, ReviewSources.RegisterDownload, does the same under a lock.)
CreateVersion(r) ==
  /\ upload[r] = "create"
  /\ IF record[setup.key[r]] = "none" /\ paper.versions = 0
     THEN /\ record' = [record EXCEPT ![setup.key[r]] = "created"]
          /\ paper' = [paper EXCEPT !.versions = @ + 1]
          /\ upload' = [upload EXCEPT ![r] = "answered"]
     ELSE upload' = [upload EXCEPT ![r] = "new"] /\ UNCHANGED <<record, paper>>
  /\ UNCHANGED <<setup, run, work>>

\* The relation to the Project and the record; no Run, whatever became of the
\* first one. Both are unique: a record, or a relation that was missing when the
\* request read it, may be there by now, and the client repeats the request.
ReuseVersion(r) ==
  /\ upload[r] = "reuse"
  /\ \/ /\ record[setup.key[r]] = "none"
        /\ record' = [record EXCEPT ![setup.key[r]] = "reused"]
        /\ upload' = [upload EXCEPT ![r] = "answered"]
     \/ upload' = [upload EXCEPT ![r] = "new"] /\ UNCHANGED record
  /\ UNCHANGED <<setup, paper, run, work>>

-----------------------------------------------------------------------------
(* The Runs *)

At(w, pc) == work[w].pc = pc
\* What a worker read is forgotten with the next step.
GotoWith(w, pc, permanent) ==
  work' = [work EXCEPT ![w] = [Idle EXCEPT !.pc = pc, !.kind = work[w].kind,
                                 !.attempt = work[w].attempt, !.permanent = permanent]]
Goto(w, pc) == GotoWith(w, pc, FALSE)
Raise(w, permanent) == GotoWith(w, "raise", permanent)
Retry(w) == Raise(w, FALSE)
Row(w) == run[work[w].kind]
SetRow(w, row) == run' = [run EXCEPT ![work[w].kind] = row]
Exists(kind) == IF kind = "ingestion" THEN paper.versions > 0 ELSE paper.indexings > 0

Start(w, kind) ==
  /\ At(w, "idle") /\ \A v \in Workers : At(v, "idle") => w <= v
  /\ Exists(kind) /\ run[kind].status = "queued"
  /\ run' = [run EXCEPT ![kind] = Started(@)]
  /\ work' = [work EXCEPT ![w] = [Idle EXCEPT !.pc = IF kind = "ingestion" THEN "read" ELSE "index",
                                              !.kind = kind, !.attempt = run[kind].attempts + 1]]
  /\ UNCHANGED <<setup, upload, record, paper>>

Cancel(kind) ==
  /\ Exists(kind) /\ Cancellable(run[kind])
  /\ run' = [run EXCEPT ![kind] = Cancelled(@)]
  /\ UNCHANGED <<setup, upload, record, paper, work>>

Reclaim(kind) ==
  /\ Reclaimable(run[kind])
  /\ \E final \in BOOLEAN : run' = [run EXCEPT ![kind] = Reclaimed(@, final)]
  /\ UNCHANGED <<setup, upload, record, paper, work>>

Crash(w) ==
  /\ ~At(w, "idle")
  /\ work' = [work EXCEPT ![w] = Idle]
  /\ UNCHANGED <<setup, upload, record, paper, run>>

\* A transaction fails: _prepare and _mark_failed lock the revision before the
\* Run, _commit_success the Run before the revision, and PostgreSQL ends the
\* deadlock that follows by aborting one of them.
Abort(w) ==
  /\ work[w].pc \in {"prepare", "commit", "spoil", "chunk", "ready", "reject"}
  /\ Retry(w)
  /\ UNCHANGED <<setup, upload, record, paper, run>>

Fail(w) ==
  /\ At(w, "raise")
  /\ \E final \in Finality(work[w].permanent) :
       SetRow(w, FailedRun(Row(w), work[w].attempt, final))
  /\ work' = [work EXCEPT ![w] = Idle]
  /\ UNCHANGED <<setup, upload, record, paper>>

Return(w) ==
  /\ At(w, "return")
  /\ SetRow(w, Closed(Row(w), work[w].attempt))
  /\ work' = [work EXCEPT ![w] = Idle]
  /\ UNCHANGED <<setup, upload, record, paper>>

\* _finalize_if_cancelled, with whatever the same transaction wrote before.
Requested(w) == Row(w).status = "cancel_requested"
Finalize(w) == SetRow(w, [Row(w) EXCEPT !.status = "cancelled"]) /\ Goto(w, "return")

\* _finish_run: transition_to refuses a Run that is not RUNNING any more.
Finish(w, rows) ==
  IF Running(Row(w)) THEN SetRow(w, Succeeded(Row(w))) /\ paper' = rows /\ Goto(w, "return")
  ELSE Retry(w) /\ UNCHANGED <<paper, run>>

-----------------------------------------------------------------------------
(* IngestionExecutor *)

ReadRevision(w) ==
  /\ At(w, "read")
  /\ work' = [work EXCEPT ![w].pc = "prepare", ![w].seen = paper.revision]
  /\ UNCHANGED <<setup, upload, record, paper, run>>

\* _create_indexing_run, in the transaction that commits the revision.
Indexed(rows) == [rows EXCEPT !.indexings = @ + 1]

\* The row that _prepare creates, resets or uses as it is. A row that was FAILED
\* when it was read is saved as RUNNING, whatever it is now.
RevisionRow(w) == IF work[w].seen \in {"none", "failed"} THEN "running" ELSE paper.revision

\* _prepare. A Run that is not RUNNING goes on as well: the progress Event
\* keeps any status.
Prepare(w) ==
  /\ At(w, "prepare")
  /\ LET rows == [paper EXCEPT !.revision = RevisionRow(w)]
     IN CASE work[w].seen = "succeeded" ->
               IF Requested(w) THEN Finalize(w) /\ UNCHANGED paper
               ELSE Finish(w, Indexed([paper EXCEPT !.current = TRUE]))
          [] work[w].seen = "none" /\ paper.revision # "none" -> Retry(w) /\ UNCHANGED <<paper, run>>
          [] OTHER ->
               /\ paper' = rows
               /\ IF Requested(w) THEN Finalize(w) ELSE Goto(w, "parse") /\ UNCHANGED run
  /\ UNCHANGED <<setup, upload, record>>

\* The Parser, outside of any transaction: a result, an error or the timeout.
Parse(w, permanent) ==
  /\ At(w, "parse")
  /\ \/ Goto(w, "progress")
     \/ GotoWith(w, "spoil", permanent)
  /\ UNCHANGED <<setup, upload, record, paper, run>>

\* _emit_progress_batch.
Progress(w) ==
  /\ At(w, "progress")
  /\ IF Requested(w) THEN Finalize(w) ELSE Goto(w, "commit") /\ UNCHANGED run
  /\ UNCHANGED <<setup, upload, record, paper>>

\* Mutant: elements and revision are committed although the Run has moved on.
CommitUnchecked(w) ==
  /\ At(w, "commit")
  /\ LET rows == [paper EXCEPT !.elements = TRUE, !.revision = "succeeded", !.current = TRUE]
     IN IF Requested(w) THEN Finalize(w) /\ UNCHANGED paper
        ELSE paper' = Indexed(rows) /\ SetRow(w, Succeeded(Row(w))) /\ Goto(w, "return")
  /\ UNCHANGED <<setup, upload, record>>

\* _commit_success: elements, revision, pointer, Run and indexing Run.
CommitSuccess(w) ==
  /\ At(w, "commit")
  /\ LET rows == [paper EXCEPT !.elements = TRUE, !.revision = "succeeded", !.current = TRUE]
     IN IF Requested(w) THEN Finalize(w) /\ UNCHANGED paper ELSE Finish(w, Indexed(rows))
  /\ UNCHANGED <<setup, upload, record>>

\* _mark_failed saves the revision before it looks at the Run, and leaves a Run
\* that is not RUNNING alone.
MarkParseFailed(w) ==
  /\ At(w, "spoil")
  /\ paper' = [paper EXCEPT !.revision = "failed"]
  /\ \E final \in Finality(work[w].permanent) : SetRow(w, AfterFailure(Row(w), final))
  /\ Goto(w, "return")
  /\ UNCHANGED <<setup, upload, record>>

-----------------------------------------------------------------------------
(* IndexingExecutor *)

\* _prepare: a revision that is not SUCCEEDED is a permanent error, a READY
\* ChunkSet is used again, any other one is created or reset.
PrepareIndex(w) ==
  /\ At(w, "index")
  /\ CASE Requested(w) -> Finalize(w) /\ UNCHANGED paper
       [] ~Requested(w) /\ paper.revision # "succeeded" -> Raise(w, TRUE) /\ UNCHANGED <<paper, run>>
       [] ~Requested(w) /\ paper.revision = "succeeded" ->
            IF paper.chunkset = "ready" THEN Finish(w, paper)
            ELSE /\ paper' = [paper EXCEPT !.chunkset = "running"]
                 /\ Goto(w, "count")
                 /\ UNCHANGED run
  /\ UNCHANGED <<setup, upload, record>>

\* _count_chunks: stored chunks are kept.
CountChunks(w) ==
  /\ At(w, "count")
  /\ Goto(w, IF paper.chunks # {} THEN "pending" ELSE "build")
  /\ UNCHANGED <<setup, upload, record, paper, run>>

\* _load_elements, which may fail for a while, and build_chunks, outside of any
\* transaction. Elements that were committed never change, so that it does not
\* matter when they are read.
BuildChunks(w, permanent) ==
  /\ At(w, "build")
  /\ Goto(w, "chunk") \/ GotoWith(w, "reject", permanent) \/ Retry(w)
  /\ UNCHANGED <<setup, upload, record, paper, run>>

\* _commit_chunks: ChunkSet and sequence are unique.
CommitChunks(w) ==
  /\ At(w, "chunk")
  /\ IF Requested(w) THEN Finalize(w) /\ UNCHANGED paper
     ELSE IF paper.chunks \cap Chunks # {} THEN Retry(w) /\ UNCHANGED <<paper, run>>
     ELSE paper' = [paper EXCEPT !.chunks = Chunks] /\ Goto(w, "pending") /\ UNCHANGED run
  /\ UNCHANGED <<setup, upload, record>>

\* The locked read of a batch, here one chunk; no batch, no more work.
ListPending(w) ==
  /\ At(w, "pending")
  /\ LET pending == paper.chunks \ paper.embedded
     IN CASE Requested(w) -> Finalize(w)
          [] ~Requested(w) /\ pending = {} -> Goto(w, "ready") /\ UNCHANGED run
          [] ~Requested(w) /\ pending # {} ->
               /\ work' = [work EXCEPT ![w].pc = "save",
                             ![w].batch = {CHOOSE c \in pending : \A d \in pending : c <= d}]
               /\ UNCHANGED run
  /\ UNCHANGED <<setup, upload, record, paper>>

\* Mutant: a failed batch is skipped.
SkipBatch(w, permanent) ==
  /\ At(w, "save")
  /\ \/ paper' = [paper EXCEPT !.embedded = @ \cup work[w].batch] /\ Goto(w, "pending")
     \/ Goto(w, "ready") /\ UNCHANGED paper
  /\ UNCHANGED <<setup, upload, record, run>>

\* The model and save_embeddings, in a transaction of its own that asks for
\* nothing.
SaveEmbeddings(w, permanent) ==
  /\ At(w, "save")
  /\ \/ paper' = [paper EXCEPT !.embedded = @ \cup work[w].batch] /\ Goto(w, "pending")
     \/ GotoWith(w, "reject", permanent) /\ UNCHANGED paper
  /\ UNCHANGED <<setup, upload, record, run>>

\* _commit_ready: ChunkSet and Run.
CommitReady(w) ==
  /\ At(w, "ready")
  /\ IF Requested(w) THEN Finalize(w) /\ UNCHANGED paper
     ELSE Finish(w, [paper EXCEPT !.chunkset = "ready"])
  /\ UNCHANGED <<setup, upload, record>>

\* Mutant: the Run stays RUNNING when the ChunkSet failed.
MarkSetFailed(w) ==
  /\ At(w, "reject")
  /\ paper' = [paper EXCEPT !.chunkset = "failed"]
  /\ Goto(w, "return")
  /\ UNCHANGED <<setup, upload, record, run>>

\* _mark_failed of the ChunkSet, which is saved before the Run is looked at.
MarkIndexFailed(w) ==
  /\ At(w, "reject")
  /\ paper' = [paper EXCEPT !.chunkset = "failed"]
  /\ \E final \in Finality(work[w].permanent) : SetRow(w, AfterFailure(Row(w), final))
  /\ Goto(w, "return")
  /\ UNCHANGED <<setup, upload, record>>

-----------------------------------------------------------------------------
Step(w) ==
  \/ ReadRevision(w) \/ Prepare(w) \/ Progress(w) \/ CommitSuccess(w) \/ MarkParseFailed(w)
  \/ PrepareIndex(w) \/ CountChunks(w) \/ CommitChunks(w) \/ ListPending(w) \/ CommitReady(w) \/ MarkIndexFailed(w)
  \/ \E permanent \in BOOLEAN : \/ Parse(w, permanent) \/ BuildChunks(w, permanent)
                                \/ SaveEmbeddings(w, permanent)
  \/ Fail(w) \/ Return(w)

UploadStep(r) == ReadUpload(r) \/ CreateVersion(r) \/ ReuseVersion(r)

Next ==
  \/ \E r \in Requests : UploadStep(r)
  \/ \E kind \in Kinds : Cancel(kind) \/ Reclaim(kind) \/ \E w \in Workers : Start(w, kind)
  \/ \E w \in Workers : Step(w) \/ Crash(w) \/ Abort(w)

\* Workers go on until they crash, and overdue Attempts are reclaimed. Clients do
\* as they like, and the queue may forget a Run: there is no fairness of Start.
Fairness ==
  /\ \A kind \in Kinds : WF_vars(Reclaim(kind))
  /\ \A w \in Workers : WF_vars(Step(w))

Spec == Init /\ [][Next]_vars /\ Fairness

-----------------------------------------------------------------------------
(* Properties *)

\* However often and however concurrently one file is uploaded, it is one
\* PaperVersion, made by exactly one of them; requests that share a key
\* share the answer (the unique constraints against reads without a lock).
OneVersion ==
  /\ paper.versions <= 1
  /\ Cardinality({k \in DOMAIN record : record[k] = "created"}) = paper.versions
  /\ \A r \in Requests : upload[r] = "answered" => record[setup.key[r]] # "none"

\* The ingestion of a paper succeeds once: its Run is SUCCEEDED exactly when
\* the elements are stored, the pointer is set and one indexing Run exists,
\* however many workers parse it (_commit_success and _commit_reuse).
IngestedOnce ==
  LET done == run["ingestion"].status = "succeeded"
  IN done = paper.current /\ done = paper.elements /\ paper.indexings = IF done THEN 1 ELSE 0

\* A ChunkSet that is READY, or whose Run succeeded, has all chunks of the
\* document with their embeddings, also when workers took turns.
ReadyIsComplete ==
  paper.chunkset = "ready" \/ run["indexing"].status = "succeeded"
    => paper.chunks = Chunks /\ paper.embedded = Chunks

\* _mark_failed found a requested cancellation: it left the Run alone, the Attempt
\* was closed, and nobody looks at the Run again.
Abandoned(kind) ==
  /\ run[kind].status = "cancel_requested" /\ ~run[kind].open
  /\ "failed" = IF kind = "ingestion" THEN paper.revision ELSE paper.chunkset

\* Whatever crashes, errors and reclaimed Attempts happen, only two things keep a
\* Run of a paper from its end: the queue forgets it, or its executor failed after
\* a cancellation had been requested. No Run stays RUNNING, and no other requested
\* cancellation stays one (_mark_failed and _finalize_if_cancelled of both
\* executors against RunReconcileService).
PipelineEnds ==
  \A kind \in Kinds :
    \/ Exists(kind) ~> run[kind].status \in Terminal
    \/ <>[](run[kind].status = "queued")
    \/ <>[]Abandoned(kind)

=============================================================================
