-------------------------- MODULE PaperPipelineProofs --------------------------
(***************************************************************************)
(* Proofs about PaperPipeline, for any number of workers and requests and  *)
(* for documents of any number of chunks.                                  *)
(***************************************************************************)
EXTENDS PaperPipeline, FiniteSetTheorems, WellFoundedInduction, TLAPS

-----------------------------------------------------------------------------
(* The inductive invariant *)

\* The version exists exactly when one key has created it, and a request is
\* answered from the record of its key.
VersionFollows ==
  /\ paper.versions \in {0, 1}
  /\ \A k \in Requests : record[k] = "created" => paper.versions = 1
  /\ paper.versions = 1 => \E k \in Requests : record[k] = "created"
  /\ \A k, l \in Requests : record[k] = "created" /\ record[l] = "created" => k = l
  /\ \A r \in Requests : upload[r] = "answered" => record[setup.key[r]] # "none"

\* A revision is SUCCEEDED only after the ingestion Run is.
RevisionFollows == paper.revision = "succeeded" => run["ingestion"].status = "succeeded"

\* No chunk is stored without all the others, and no embedding without its chunk.
ChunksFollow ==
  /\ paper.chunks \in {{}, Chunks}
  /\ paper.embedded \subseteq paper.chunks

\* A worker executes the Run of its executor; what _prepare read stays true
\* enough, and IndexingExecutor embeds and commits on top of all the chunks.
WorkFollows(w) ==
  /\ work[w].pc \in IngestionPcs => work[w].kind = "ingestion"
  /\ work[w].pc \in IndexingPcs => work[w].kind = "indexing"
  /\ work[w].pc = "prepare" /\ work[w].seen = "succeeded" => run["ingestion"].status = "succeeded"
  /\ work[w].pc \in {"pending", "save", "ready"} => paper.chunks = Chunks
  /\ work[w].pc = "save" => work[w].batch \subseteq Chunks
  /\ work[w].pc = "ready" => paper.embedded = Chunks

PipelineInv ==
  /\ TypeOK /\ VersionFollows /\ RevisionFollows /\ IngestedOnce /\ ChunksFollow /\ ReadyIsComplete
  /\ \A w \in Workers : WorkFollows(w)

-----------------------------------------------------------------------------
(* Effects of the steps *)

\* A move of a row outside the transaction that lets the Run succeed.
Moved(old, new) ==
  /\ new \in RunRow
  /\ new.status = "succeeded" <=> old.status = "succeeded"

RowsMove == run' \in [Kinds -> RunRow] /\ \A kind \in Kinds : Moved(run[kind], run'[kind])

\* What a step on the rows of the ingestion may do: nothing but a revision that
\* does not succeed, or the commit of an ingestion that was still RUNNING.
IngestionStep ==
  \/ /\ paper'.revision = paper.revision \/ paper'.revision \in {"running", "failed"}
     /\ paper'.current = paper.current /\ paper'.elements = paper.elements
     /\ paper'.indexings = paper.indexings
     /\ run'["ingestion"].status = "succeeded" <=> run["ingestion"].status = "succeeded"
  \/ /\ run["ingestion"].status = "running" /\ run'["ingestion"].status = "succeeded"
     /\ paper'.current = TRUE /\ paper'.elements = TRUE
     /\ paper'.indexings = paper.indexings + 1

\* The document's chunks are stored all at once, embeddings come one by one, and
\* ChunkSet and Run are completed over the embeddings of all of them.
IndexingStep ==
  /\ \/ paper'.chunks = paper.chunks
     \/ paper'.chunks = Chunks /\ paper.chunks \cap Chunks = {}
  /\ paper.embedded \subseteq paper'.embedded /\ paper'.embedded \subseteq paper.embedded \cup Chunks
  /\ paper'.embedded = paper.embedded \/ paper.chunks = Chunks
  /\ paper'.chunkset = "ready" \/ run'["indexing"].status = "succeeded" =>
       \/ paper.chunkset = "ready" \/ run["indexing"].status = "succeeded"
       \/ paper.chunks = Chunks /\ paper.embedded = Chunks

\* A worker changes neither the requests nor the version.
WorkerStep ==
  /\ UNCHANGED <<setup, upload, record>> /\ paper'.versions = paper.versions
  /\ IngestionStep /\ IndexingStep

\* The workers other than w go on from where they were.
Others(w) == \A v \in Workers : v # w => work'[v] = work[v]

-----------------------------------------------------------------------------
(* The row of a Run *)

\* Every move of a row but Succeeded is of that kind.
LEMMA RowMoves ==
  ASSUME NEW row \in RunRow
  PROVE  /\ Moved(row, row)
         /\ row.status = "queued" => Moved(row, Started(row))
         /\ Cancellable(row) => Moved(row, Cancelled(row))
         /\ \A final \in BOOLEAN : Reclaimable(row) => Moved(row, Reclaimed(row, final))
         /\ \A final \in BOOLEAN : Moved(row, AfterFailure(row, final))
         /\ \A attempt : Moved(row, Closed(row, attempt))
         /\ \A attempt : \A final \in BOOLEAN : Moved(row, FailedRun(row, attempt, final))
         /\ row.status = "cancel_requested" => Moved(row, [row EXCEPT !.status = "cancelled"])
         /\ Succeeded(row) \in RunRow /\ Succeeded(row).status = "succeeded"
<1> USE DEF RunRow, RowStatus, Terminal, Moved
<1>1. Moved(row, row) /\ (row.status = "queued" => Moved(row, Started(row)))
  BY DEF Started
<1>2. Cancellable(row) => Moved(row, Cancelled(row))
  BY DEF Cancellable, Cancelled, Running
<1>3. \A final \in BOOLEAN : Moved(row, AfterFailure(row, final))
  BY DEF AfterFailure, Running
<1>4. ASSUME NEW old \in RunRow, NEW attempt
      PROVE  Closed(old, attempt) \in RunRow /\ Closed(old, attempt).status = old.status
  BY DEF Closed
<1>5. \A attempt : Moved(row, Closed(row, attempt))
  BY <1>4
<1>6. \A attempt : \A final \in BOOLEAN : Moved(row, FailedRun(row, attempt, final))
  BY <1>1, <1>3, <1>4 DEF FailedRun
<1>7. \A final \in BOOLEAN : Reclaimable(row) => Moved(row, Reclaimed(row, final))
  <2>1. \A final \in BOOLEAN : AfterFailure(row, final) \in RunRow
    BY <1>3
  <2> QED
    BY <1>3, <2>1 DEF Reclaimable, Reclaimed, Running
<1>8. /\ row.status = "cancel_requested" => Moved(row, [row EXCEPT !.status = "cancelled"])
      /\ Succeeded(row) \in RunRow /\ Succeeded(row).status = "succeeded"
  BY DEF Succeeded
<1> QED
  BY <1>1, <1>2, <1>3, <1>5, <1>6, <1>7, <1>8

-----------------------------------------------------------------------------
(* The chunks *)

\* Some chunks, if there are any, have a first one.
LEMMA FirstExists ==
  ASSUME NEW n \in Nat, NEW S \in SUBSET (1..n), S # {}
  PROVE  \E i \in S : \A j \in S : i <= j
<1> DEFINE Before(i) == {j \in 1..n : j < i}
           T == {Before(i) : i \in S}
           R == StrictSubsetOrdering(1..n)
<1>1. T \subseteq FiniteSubsetsOf(1..n) /\ T # {}
  <2>1. ASSUME NEW i \in S PROVE Before(i) \in FiniteSubsetsOf(1..n)
    <3>1. Before(i) \in SUBSET (1..n) /\ IsFiniteSet(1..n)
      BY FS_Interval
    <3> HIDE DEF Before
    <3> QED
      BY <3>1, FS_Subset DEF FiniteSubsetsOf
  <2> HIDE DEF Before
  <2> QED
    BY <2>1
<1>2. PICK x \in T : \A y \in T : ~(<<y, x>> \in R)
  <2>1. IsWellFoundedOn(R, FiniteSubsetsOf(1..n))
    BY FS_Interval, FS_StrictSubsetOrderingWellFounded
  <2> HIDE DEF T, R
  <2> QED
    BY <1>1, <2>1, WFMin
<1>3. PICK i \in S : x = Before(i)
  BY <1>2
<1>4. ASSUME NEW j \in S, j < i PROVE FALSE
  <2>1. Before(j) \in T /\ Before(j) \subseteq Before(i) /\ j \in Before(i) /\ j \notin Before(j)
    BY <1>4
  <2>2. <<Before(j), x>> \in R
    BY <1>3, <2>1 DEF StrictSubsetOrdering
  <2> QED
    BY <1>2, <2>1, <2>2
<1> QED
  BY <1>4

-----------------------------------------------------------------------------
(* Types *)

\* The empty records are typed.
LEMMA EmptyType == NoPaper \in Paper /\ Idle \in Work /\ NewRun \in RunRow
<1>1. NoPaper \in Paper
  BY DEF NoPaper, Paper, Revision, ChunkSet
<1>2. Idle \in Work
  BY DEF Idle, Work, Kinds, Revision
<1>3. NewRun \in RunRow
  BY DEF NewRun, RunRow, RowStatus
<1> QED
  BY <1>1, <1>2, <1>3

\* The initial state satisfies the invariant.
LEMMA InitInv == Init => PipelineInv
<1> SUFFICES ASSUME Init PROVE PipelineInv
  OBVIOUS
<1>1. TypeOK
  <2>1. setup \in [key: [Requests -> Requests], chunks: Lengths]
    BY DEF Init
  <2>2. upload \in [Requests -> Upload] /\ record \in [Requests -> Record]
    BY DEF Init, Upload, Record
  <2> QED
    BY <2>1, <2>2, EmptyType DEF Init, TypeOK
<1>2. VersionFollows
  BY DEF Init, VersionFollows, NoPaper
<1>3. RevisionFollows /\ IngestedOnce /\ ChunksFollow /\ ReadyIsComplete
  BY DEF Init, RevisionFollows, IngestedOnce, ChunksFollow, ReadyIsComplete, NoPaper, NewRun, Kinds
<1>4. \A w \in Workers : WorkFollows(w)
  BY DEF Init, WorkFollows, Idle, IngestionPcs, IndexingPcs
<1> QED
  BY <1>1, <1>2, <1>3, <1>4 DEF PipelineInv

\* What a worker that goes on takes with it.
LEMMA GotoMoves ==
  ASSUME TypeOK, NEW w \in Workers, NEW permanent \in BOOLEAN,
         NEW pc \in {"raise", "return"} \cup IngestionPcs \cup IndexingPcs,
         GotoWith(w, pc, permanent)
  PROVE  /\ work' \in [Workers -> Work] /\ Others(w)
         /\ work'[w].pc = pc /\ work'[w].kind = work[w].kind /\ work'[w].seen = "none"
<1> DEFINE next == [Idle EXCEPT !.pc = pc, !.kind = work[w].kind, !.attempt = work[w].attempt,
                                !.permanent = permanent]
<1>1. work[w] \in Work /\ work \in [Workers -> Work]
  BY DEF TypeOK
<1>2. next \in Work
  BY <1>1 DEF Idle, Work, Kinds, Revision
<1>3. work' = [work EXCEPT ![w] = next]
  BY DEF GotoWith
<1>4. next.pc = pc /\ next.kind = work[w].kind /\ next.seen = "none"
  BY DEF Idle
<1> HIDE DEF next
<1> QED
  BY <1>1, <1>2, <1>3, <1>4 DEF Others

\* A step that changes rows of Runs and no row of the paper.
LEMMA RowsOnly ==
  ASSUME TypeOK, RowsMove, UNCHANGED <<setup, upload, record, paper>>
  PROVE  WorkerStep
BY DEF RowsMove, Moved, TypeOK, WorkerStep, IngestionStep, IndexingStep, Kinds

\* Moves of one row.
LEMMA SetRowMoves ==
  ASSUME TypeOK, NEW w \in Workers, NEW row, Moved(Row(w), row), SetRow(w, row)
  PROVE  RowsMove
<1>1. run \in [Kinds -> RunRow] /\ work[w].kind \in Kinds
  BY DEF TypeOK, Work
<1>2. \A kind \in Kinds : Moved(run[kind], run[kind])
  BY <1>1, RowMoves
<1> QED
  BY <1>1, <1>2 DEF SetRow, Row, RowsMove, Moved

\* A requested cancellation is carried out.
LEMMA FinalizeMoves ==
  ASSUME TypeOK, NEW w \in Workers, Requested(w), Finalize(w)
  PROVE  /\ RowsMove /\ Others(w) /\ work' \in [Workers -> Work]
         /\ work'[w].pc = "return" /\ work'[w].kind = work[w].kind
<1>1. Row(w) \in RunRow
  BY DEF TypeOK, Work, Row
<1>2. RowsMove
  BY <1>1, RowMoves, SetRowMoves DEF Finalize, Requested
<1> QED
  BY <1>2, GotoMoves DEF Finalize, Goto

\* The end of an execution: the Run succeeds with the rows, or nothing happens.
LEMMA FinishMoves ==
  ASSUME TypeOK, NEW w \in Workers, NEW rows, Finish(w, rows)
  PROVE  /\ Others(w) /\ work' \in [Workers -> Work]
         /\ work'[w].pc \in {"return", "raise"} /\ work'[w].kind = work[w].kind
         /\ run' \in [Kinds -> RunRow]
         /\ \/ /\ run[work[w].kind].status = "running" /\ run'[work[w].kind].status = "succeeded"
               /\ paper' = rows
               /\ \A kind \in Kinds : kind # work[w].kind => run'[kind] = run[kind]
            \/ UNCHANGED <<paper, run>>
<1>1. run \in [Kinds -> RunRow] /\ work[w].kind \in Kinds /\ Row(w) \in RunRow
  BY DEF TypeOK, Work, Row
<1>2. CASE Running(Row(w))
  <2>1. run' = [run EXCEPT ![work[w].kind] = Succeeded(Row(w))] /\ paper' = rows /\ Goto(w, "return")
    BY <1>2 DEF Finish, SetRow
  <2>2. Succeeded(Row(w)) \in RunRow /\ Succeeded(Row(w)).status = "succeeded"
    BY <1>1, RowMoves
  <2>3. Others(w) /\ work' \in [Workers -> Work] /\ work'[w].pc = "return"
        /\ work'[w].kind = work[w].kind
    BY <2>1, GotoMoves DEF Goto
  <2>4. run[work[w].kind].status = "running"
    BY <1>2 DEF Running, Row
  <2> QED
    BY <1>1, <2>1, <2>2, <2>3, <2>4
<1>3. CASE ~Running(Row(w))
  <2>1. UNCHANGED <<paper, run>> /\ Retry(w)
    BY <1>3 DEF Finish
  <2>2. Others(w) /\ work' \in [Workers -> Work] /\ work'[w].pc = "raise"
        /\ work'[w].kind = work[w].kind
    BY <2>1, GotoMoves DEF Retry, Raise
  <2> QED
    BY <1>1, <2>1, <2>2
<1> QED
  BY <1>2, <1>3

-----------------------------------------------------------------------------
(* The steps of a worker *)

\* What every step of worker w does to the invariant's parts.
Preserves(w) == TypeOK' /\ WorkerStep /\ Others(w) /\ WorkFollows(w)'

\* A worker that leaves its executor has nothing left to keep true.
LEMMA Leaves ==
  ASSUME NEW w \in Workers, work'[w].pc \in {"idle", "raise", "return", "spoil", "reject"},
         work'[w].pc = "spoil" => work'[w].kind = "ingestion",
         work'[w].pc = "reject" => work'[w].kind = "indexing"
  PROVE  WorkFollows(w)'
BY DEF WorkFollows, IngestionPcs, IndexingPcs

\* A step that leaves the paper alone.
LEMMA QuietType ==
  ASSUME TypeOK, RowsMove, UNCHANGED <<setup, upload, record, paper>>, work' \in [Workers -> Work]
  PROVE  TypeOK'
BY DEF TypeOK, RowsMove

\* Nothing of the rows changes.
LEMMA NoRowMoves == ASSUME TypeOK, UNCHANGED run PROVE RowsMove
BY RowMoves DEF TypeOK, RowsMove

\* The ends of an Attempt: Fail, Return, and a crash.
LEMMA AttemptEnds ==
  ASSUME PipelineInv, NEW w \in Workers, Fail(w) \/ Return(w) \/ Crash(w)
  PROVE  Preserves(w)
<1>1. TypeOK /\ UNCHANGED <<setup, upload, record, paper>>
  BY DEF PipelineInv, Fail, Return, Crash
<1>2. work' = [work EXCEPT ![w] = Idle]
  BY DEF Fail, Return, Crash
<1>3. work' \in [Workers -> Work] /\ Others(w) /\ work'[w] = Idle
  BY <1>1, <1>2, EmptyType DEF TypeOK, Others
<1>4. Row(w) \in RunRow /\ work[w].permanent \in BOOLEAN
  BY <1>1 DEF TypeOK, Work, Row
<1>5. RowsMove
  <2>1. CASE Fail(w)
    <3>1. PICK final \in BOOLEAN : SetRow(w, FailedRun(Row(w), work[w].attempt, final))
      BY <1>4, <2>1 DEF Fail, Finality
    <3> QED
      BY <3>1, <1>1, <1>4, RowMoves, SetRowMoves
  <2>2. CASE Return(w)
    BY <2>2, <1>1, <1>4, RowMoves, SetRowMoves DEF Return
  <2>3. CASE Crash(w)
    BY <2>3, <1>1, NoRowMoves DEF Crash
  <2> QED
    BY <2>1, <2>2, <2>3
<1>6. WorkFollows(w)'
  BY <1>3, Leaves DEF Idle
<1> QED
  BY <1>1, <1>3, <1>5, <1>6, RowsOnly, QuietType DEF Preserves

\* A worker goes on without a write: an aborted transaction, the Parser, and
\* build_chunks with what it read before.
LEMMA QuietSteps ==
  ASSUME PipelineInv, NEW w \in Workers, NEW permanent \in BOOLEAN,
         Abort(w) \/ ReadRevision(w) \/ Parse(w, permanent) \/ CountChunks(w)
         \/ BuildChunks(w, permanent)
  PROVE  Preserves(w)
<1>1. TypeOK /\ UNCHANGED <<setup, upload, record, paper, run>> /\ WorkFollows(w)
  BY DEF PipelineInv, Abort, ReadRevision, Parse, CountChunks, BuildChunks
<1>2. RowsMove
  BY <1>1, NoRowMoves
<1>3. work' \in [Workers -> Work] /\ Others(w) /\ WorkFollows(w)'
  <2>1. CASE Abort(w)
    <3>1. work' \in [Workers -> Work] /\ Others(w) /\ work'[w].pc = "raise"
      BY <2>1, <1>1, GotoMoves DEF Abort, Retry, Raise
    <3> QED
      BY <3>1, Leaves
  <2>2. CASE ReadRevision(w)
    <3>1. work' = [work EXCEPT ![w] = [work[w] EXCEPT !.pc = "prepare", !.seen = paper.revision]]
      BY <2>2, <1>1 DEF ReadRevision, TypeOK
    <3>2. [work[w] EXCEPT !.pc = "prepare", !.seen = paper.revision] \in Work
      BY ZenonT(30), <1>1 DEF TypeOK, Work, Paper, IngestionPcs
    <3>3. work' \in [Workers -> Work] /\ Others(w)
      BY <3>1, <3>2, <1>1 DEF TypeOK, Others
    <3>4. work'[w].pc = "prepare" /\ work'[w].seen = paper.revision /\ work'[w].kind = work[w].kind
      BY <3>1, <1>1 DEF TypeOK, Work
    <3>5. work[w].kind = "ingestion"
      BY <2>2, <1>1 DEF ReadRevision, At, WorkFollows, IngestionPcs
    <3>6. paper.revision = "succeeded" => run["ingestion"].status = "succeeded"
      BY DEF PipelineInv, RevisionFollows
    <3> QED
      BY <3>3, <3>4, <3>5, <3>6, <1>1 DEF WorkFollows, IndexingPcs
  <2>3. CASE Parse(w, permanent)
    <3>1. work' \in [Workers -> Work] /\ Others(w) /\ work'[w].pc \in {"progress", "spoil"}
          /\ work'[w].kind = work[w].kind
      BY <2>3, <1>1, GotoMoves DEF Parse, Goto, IngestionPcs
    <3>2. work[w].kind = "ingestion"
      BY <2>3, <1>1 DEF Parse, At, WorkFollows, IngestionPcs
    <3> QED
      BY <3>1, <3>2 DEF WorkFollows, IndexingPcs
  <2>4. CASE CountChunks(w)
    <3>1. /\ work' \in [Workers -> Work] /\ Others(w) /\ work'[w].kind = work[w].kind
          /\ \/ work'[w].pc = "pending" /\ paper.chunks # {}
             \/ work'[w].pc = "build"
      BY <2>4, <1>1, GotoMoves DEF CountChunks, Goto, IndexingPcs
    <3>2. work[w].kind = "indexing"
      BY <2>4, <1>1 DEF CountChunks, At, WorkFollows, IndexingPcs
    <3>3. paper.chunks # {} => paper.chunks = Chunks
      BY DEF PipelineInv, ChunksFollow
    <3> QED
      BY <3>1, <3>2, <3>3, <1>1 DEF WorkFollows, IngestionPcs, Chunks
  <2>5. CASE BuildChunks(w, permanent)
    <3>1. /\ work' \in [Workers -> Work] /\ Others(w) /\ work'[w].kind = work[w].kind
          /\ work'[w].pc \in {"chunk", "reject", "raise"}
      BY <2>5, <1>1, GotoMoves DEF BuildChunks, Goto, Retry, Raise, IndexingPcs
    <3>2. work[w].kind = "indexing"
      BY <2>5, <1>1 DEF BuildChunks, At, WorkFollows, IndexingPcs
    <3> QED
      BY <3>1, <3>2, <1>1 DEF WorkFollows, IngestionPcs
  <2> QED
    BY <2>1, <2>2, <2>3, <2>4, <2>5
<1> QED
  BY <1>1, <1>2, <1>3, RowsOnly, QuietType DEF Preserves

\* The ingestion Run ends with a success that the rows commit, or with nothing.
LEMMA IngestionFinish ==
  ASSUME PipelineInv, NEW w \in Workers, work[w].kind = "ingestion", NEW rows \in Paper,
         rows.current = TRUE, rows.elements = TRUE, rows.indexings = paper.indexings + 1,
         rows.versions = paper.versions, rows.chunkset = paper.chunkset,
         rows.chunks = paper.chunks, rows.embedded = paper.embedded,
         Finish(w, rows), UNCHANGED <<setup, upload, record>>
  PROVE  Preserves(w)
<1>1. TypeOK
  BY DEF PipelineInv
<1>2. /\ Others(w) /\ work' \in [Workers -> Work] /\ work'[w].pc \in {"return", "raise"}
      /\ run' \in [Kinds -> RunRow]
      /\ \/ /\ run["ingestion"].status = "running" /\ run'["ingestion"].status = "succeeded"
            /\ paper' = rows /\ run'["indexing"] = run["indexing"]
         \/ UNCHANGED <<paper, run>>
  BY <1>1, FinishMoves DEF Kinds
<1>3. TypeOK'
  BY <1>1, <1>2 DEF TypeOK
<1>4. IngestionStep /\ IndexingStep
  BY <1>2 DEF IngestionStep, IndexingStep
<1>5. paper'.versions = paper.versions
  BY <1>2
<1>6. WorkFollows(w)'
  BY <1>2, Leaves
<1> QED
  BY <1>2, <1>3, <1>4, <1>5, <1>6 DEF Preserves, WorkerStep

\* A new status of the revision, other than SUCCEEDED, is an ingestion step.
LEMMA RevisionMoves ==
  ASSUME TypeOK, NEW w \in Workers, RowsMove, UNCHANGED <<setup, upload, record>>,
         NEW revision \in Revision,
         revision = paper.revision \/ revision \in {"running", "failed"},
         paper' = [paper EXCEPT !.revision = revision]
  PROVE  WorkerStep /\ paper' \in Paper
<1>1. paper \in Paper
  BY DEF TypeOK
<1>2. paper' \in Paper /\ paper'.revision = revision /\ paper'.versions = paper.versions
      /\ paper'.current = paper.current /\ paper'.elements = paper.elements
      /\ paper'.indexings = paper.indexings /\ paper'.chunkset = paper.chunkset
      /\ paper'.chunks = paper.chunks /\ paper'.embedded = paper.embedded
  BY <1>1 DEF Paper
<1>3. \A kind \in Kinds : run'[kind].status = "succeeded" <=> run[kind].status = "succeeded"
  BY DEF RowsMove, Moved
<1>4. paper.embedded \subseteq paper.embedded \cup Chunks
  OBVIOUS
<1> QED
  BY <1>2, <1>3, <1>4 DEF WorkerStep, IngestionStep, IndexingStep, Kinds

\* _prepare of the ingestion: a revision that had succeeded meets a Run that had.
LEMMA PrepareSteps ==
  ASSUME PipelineInv, NEW w \in Workers, Prepare(w)
  PROVE  Preserves(w)
<1>1. TypeOK /\ WorkFollows(w) /\ UNCHANGED <<setup, upload, record>> /\ At(w, "prepare")
  BY DEF PipelineInv, Prepare
<1>2. work[w].kind = "ingestion" /\ work[w] \in Work /\ paper \in Paper
  BY <1>1 DEF TypeOK, WorkFollows, At, IngestionPcs
<1>3. ASSUME work[w].seen = "succeeded" PROVE Preserves(w)
  <2>1. run["ingestion"].status = "succeeded"
    BY <1>1, <1>3 DEF WorkFollows, At
  <2>2. ~Requested(w) /\ ~Running(Row(w))
    BY <1>2, <2>1 DEF Requested, Row, Running
  <2>3. Retry(w) /\ UNCHANGED <<paper, run>>
    BY <1>3, <2>2 DEF Prepare, Finish
  <2>4. work' \in [Workers -> Work] /\ Others(w) /\ work'[w].pc = "raise"
    BY <1>1, <2>3, GotoMoves DEF Retry, Raise
  <2> QED
    BY <1>1, <2>3, <2>4, NoRowMoves, RowsOnly, QuietType, Leaves DEF Preserves
<1>4. ASSUME work[w].seen = "none", paper.revision # "none" PROVE Preserves(w)
  <2>1. Retry(w) /\ UNCHANGED <<paper, run>>
    BY <1>4 DEF Prepare
  <2>2. work' \in [Workers -> Work] /\ Others(w) /\ work'[w].pc = "raise"
    BY <1>1, <2>1, GotoMoves DEF Retry, Raise
  <2> QED
    BY <1>1, <2>1, <2>2, NoRowMoves, RowsOnly, QuietType, Leaves DEF Preserves
<1>5. ASSUME work[w].seen # "succeeded", ~(work[w].seen = "none" /\ paper.revision # "none")
      PROVE  Preserves(w)
  <2>1. /\ paper' = [paper EXCEPT !.revision = RevisionRow(w)]
        /\ IF Requested(w) THEN Finalize(w) ELSE Goto(w, "parse") /\ UNCHANGED run
    BY <1>5 DEF Prepare
  <2>2. RevisionRow(w) \in Revision
        /\ (RevisionRow(w) = paper.revision \/ RevisionRow(w) \in {"running", "failed"})
    BY <1>2 DEF RevisionRow, Revision, Paper
  <2>3. /\ RowsMove /\ work' \in [Workers -> Work] /\ Others(w)
        /\ work'[w].pc \in {"return", "parse"} /\ work'[w].kind = "ingestion"
    <3>1. CASE Requested(w)
      BY <3>1, <1>1, <1>2, <2>1, FinalizeMoves
    <3>2. CASE ~Requested(w)
      BY <3>2, <1>1, <1>2, <2>1, NoRowMoves, GotoMoves DEF Goto, IngestionPcs
    <3> QED
      BY <3>1, <3>2
  <2>4. WorkerStep /\ paper' \in Paper
    BY <1>1, <2>1, <2>2, <2>3, RevisionMoves
  <2>5. TypeOK'
    BY <1>1, <2>3, <2>4 DEF TypeOK, RowsMove
  <2>6. WorkFollows(w)'
    BY <2>3 DEF WorkFollows, IndexingPcs
  <2> QED
    BY <2>3, <2>4, <2>5, <2>6 DEF Preserves
<1> QED
  BY <1>3, <1>4, <1>5

\* _emit_progress_batch, _commit_success and _mark_failed of the ingestion.
LEMMA IngestionSteps ==
  ASSUME PipelineInv, NEW w \in Workers, Progress(w) \/ CommitSuccess(w) \/ MarkParseFailed(w)
  PROVE  Preserves(w)
<1>1. TypeOK /\ WorkFollows(w) /\ UNCHANGED <<setup, upload, record>>
  BY DEF PipelineInv, Progress, CommitSuccess, MarkParseFailed
<1>2. work[w].kind = "ingestion"
  BY <1>1 DEF WorkFollows, At, IngestionPcs, Progress, CommitSuccess, MarkParseFailed
<1>3. work[w] \in Work /\ paper \in Paper /\ Row(w) \in RunRow
  BY <1>1 DEF TypeOK, Row, Work
<1>4. ASSUME Requested(w), Finalize(w), UNCHANGED paper PROVE Preserves(w)
  BY <1>1, <1>4, FinalizeMoves, RowsOnly, QuietType, Leaves DEF Preserves
<1>5. ASSUME Progress(w) PROVE Preserves(w)
  <2>1. CASE Requested(w)
    BY <2>1, <1>4, <1>5 DEF Progress
  <2>2. CASE ~Requested(w)
    <3>1. Goto(w, "commit") /\ UNCHANGED <<run, paper>>
      BY <1>5, <2>2 DEF Progress
    <3>2. work' \in [Workers -> Work] /\ Others(w) /\ work'[w].pc = "commit"
          /\ work'[w].kind = "ingestion"
      BY <1>1, <1>2, <3>1, GotoMoves DEF Goto, IngestionPcs
    <3>3. WorkFollows(w)'
      BY <3>2 DEF WorkFollows, IndexingPcs
    <3> QED
      BY <1>1, <3>1, <3>2, <3>3, NoRowMoves, RowsOnly, QuietType DEF Preserves
  <2> QED
    BY <2>1, <2>2
<1>6. ASSUME CommitSuccess(w) PROVE Preserves(w)
  <2> DEFINE rows == Indexed([paper EXCEPT !.elements = TRUE, !.revision = "succeeded",
                                           !.current = TRUE])
  <2>1. rows \in Paper
    <3>1. [paper EXCEPT !.elements = TRUE, !.revision = "succeeded", !.current = TRUE] \in Paper
      BY <1>3 DEF Paper, Revision
    <3>2. \A old \in Paper : Indexed(old) \in Paper
      BY DEF Paper, Indexed
    <3> QED
      BY <3>1, <3>2
  <2>2. /\ rows.current = TRUE /\ rows.elements = TRUE /\ rows.indexings = paper.indexings + 1
        /\ rows.versions = paper.versions /\ rows.chunkset = paper.chunkset
        /\ rows.chunks = paper.chunks /\ rows.embedded = paper.embedded
    BY <1>3 DEF Paper, Indexed
  <2>3. CASE Requested(w)
    BY <2>3, <1>4, <1>6 DEF CommitSuccess
  <2>4. CASE ~Requested(w)
    <3>1. Finish(w, rows)
      BY <1>6, <2>4 DEF CommitSuccess
    <3> HIDE DEF rows
    <3> QED
      BY <1>1, <1>2, <2>1, <2>2, <3>1, IngestionFinish
  <2> QED
    BY <2>3, <2>4
<1>7. ASSUME MarkParseFailed(w) PROVE Preserves(w)
  <2>1. /\ paper' = [paper EXCEPT !.revision = "failed"] /\ Goto(w, "return")
        /\ \E final \in Finality(work[w].permanent) : SetRow(w, AfterFailure(Row(w), final))
    BY <1>7 DEF MarkParseFailed
  <2>2. RowsMove
    <3>1. PICK final \in BOOLEAN : SetRow(w, AfterFailure(Row(w), final))
      BY <1>3, <2>1 DEF Work, Finality
    <3> QED
      BY <1>1, <1>3, <3>1, RowMoves, SetRowMoves
  <2>3. work' \in [Workers -> Work] /\ Others(w) /\ work'[w].pc = "return"
    BY <1>1, <2>1, GotoMoves DEF Goto
  <2>4. WorkerStep /\ paper' \in Paper
    BY <1>1, <2>1, <2>2, RevisionMoves DEF Revision
  <2>5. TypeOK'
    BY <1>1, <2>2, <2>3, <2>4 DEF TypeOK, RowsMove
  <2> QED
    BY <2>3, <2>4, <2>5, Leaves DEF Preserves
<1> QED
  BY <1>5, <1>6, <1>7

\* The indexing Run ends over a complete ChunkSet, or nothing happens.
LEMMA IndexingFinish ==
  ASSUME PipelineInv, NEW w \in Workers, work[w].kind = "indexing",
         paper.chunks = Chunks, paper.embedded = Chunks,
         NEW chunkset \in ChunkSet, Finish(w, [paper EXCEPT !.chunkset = chunkset]),
         UNCHANGED <<setup, upload, record>>
  PROVE  Preserves(w)
<1> DEFINE rows == [paper EXCEPT !.chunkset = chunkset]
<1>1. TypeOK /\ paper \in Paper
  BY DEF PipelineInv, TypeOK
<1>2. /\ rows \in Paper /\ rows.versions = paper.versions /\ rows.current = paper.current
      /\ rows.revision = paper.revision /\ rows.elements = paper.elements
      /\ rows.indexings = paper.indexings /\ rows.chunks = paper.chunks
      /\ rows.embedded = paper.embedded
  BY <1>1 DEF Paper
<1>3. Finish(w, rows)
  OBVIOUS
<1> HIDE DEF rows
<1>4. /\ Others(w) /\ work' \in [Workers -> Work] /\ work'[w].pc \in {"return", "raise"}
      /\ run' \in [Kinds -> RunRow] /\ run'["ingestion"] = run["ingestion"]
      /\ paper' \in {rows, paper}
  BY <1>1, <1>3, FinishMoves DEF Kinds
<1>5. TypeOK'
  BY <1>1, <1>2, <1>4 DEF TypeOK
<1>6. IngestionStep /\ IndexingStep /\ paper'.versions = paper.versions
  BY <1>2, <1>4 DEF IngestionStep, IndexingStep
<1> QED
  BY <1>4, <1>5, <1>6, Leaves DEF Preserves, WorkerStep

\* A ChunkSet that is created, reset or spoiled.
LEMMA ChunkSetMoves ==
  ASSUME TypeOK, NEW w \in Workers, RowsMove, UNCHANGED <<setup, upload, record>>,
         NEW chunkset \in {"running", "failed"}, paper' = [paper EXCEPT !.chunkset = chunkset]
  PROVE  WorkerStep /\ paper' \in Paper
<1>1. paper \in Paper
  BY DEF TypeOK
<1>2. paper' \in Paper /\ paper'.revision = paper.revision /\ paper'.versions = paper.versions
      /\ paper'.current = paper.current /\ paper'.elements = paper.elements
      /\ paper'.indexings = paper.indexings /\ paper'.chunkset = chunkset
      /\ paper'.chunks = paper.chunks /\ paper'.embedded = paper.embedded
  BY <1>1 DEF Paper, ChunkSet
<1>3. \A kind \in Kinds : run'[kind].status = "succeeded" <=> run[kind].status = "succeeded"
  BY DEF RowsMove, Moved
<1> QED
  BY <1>2, <1>3 DEF WorkerStep, IngestionStep, IndexingStep, Kinds

\* Chunks and embeddings that are stored while the Run goes on.
LEMMA ChunkMoves ==
  ASSUME TypeOK, NEW chunks \in {paper.chunks, Chunks}, NEW embedded,
         paper.embedded \subseteq embedded, embedded \subseteq paper.embedded \cup Chunks,
         chunks = paper.chunks \/ paper.chunks \cap Chunks = {},
         embedded = paper.embedded \/ paper.chunks = Chunks,
         paper' = [paper EXCEPT !.chunks = chunks, !.embedded = embedded],
         UNCHANGED <<setup, upload, record, run>>
  PROVE  /\ WorkerStep /\ paper' \in Paper
         /\ paper'.chunks = chunks /\ paper'.embedded = embedded
<1>1. paper \in Paper /\ setup.chunks \in Lengths
  BY DEF TypeOK
<1>2. Chunks \subseteq AllChunks
  BY <1>1 DEF Chunks, AllChunks
<1>3. chunks \in SUBSET AllChunks /\ embedded \in SUBSET AllChunks
  BY <1>1, <1>2 DEF Paper
<1>4. paper' \in Paper /\ paper'.revision = paper.revision /\ paper'.versions = paper.versions
      /\ paper'.current = paper.current /\ paper'.elements = paper.elements
      /\ paper'.indexings = paper.indexings /\ paper'.chunkset = paper.chunkset
      /\ paper'.chunks = chunks /\ paper'.embedded = embedded
  BY <1>1, <1>3 DEF Paper
<1> QED
  BY <1>4 DEF WorkerStep, IngestionStep, IndexingStep

\* _prepare, _commit_ready and _mark_failed of the indexing.
LEMMA IndexingEnds ==
  ASSUME PipelineInv, NEW w \in Workers, PrepareIndex(w) \/ CommitReady(w) \/ MarkIndexFailed(w)
  PROVE  Preserves(w)
<1>1. TypeOK /\ WorkFollows(w) /\ UNCHANGED <<setup, upload, record>>
  BY DEF PipelineInv, PrepareIndex, CommitReady, MarkIndexFailed
<1>2. work[w].kind = "indexing"
  BY <1>1 DEF WorkFollows, At, IndexingPcs, PrepareIndex, CommitReady, MarkIndexFailed
<1>3. work[w] \in Work /\ paper \in Paper /\ Row(w) \in RunRow
  BY <1>1 DEF TypeOK, Row, Work
<1>4. ASSUME Requested(w), Finalize(w), UNCHANGED paper PROVE Preserves(w)
  BY <1>1, <1>4, FinalizeMoves, RowsOnly, QuietType, Leaves DEF Preserves
<1>5. ASSUME PrepareIndex(w), ~Requested(w), paper.revision # "succeeded" PROVE Preserves(w)
  <2>1. Raise(w, TRUE) /\ UNCHANGED <<paper, run>>
    BY <1>5 DEF PrepareIndex
  <2>2. work' \in [Workers -> Work] /\ Others(w) /\ work'[w].pc = "raise"
    BY <1>1, <2>1, GotoMoves DEF Raise
  <2> QED
    BY <1>1, <2>1, <2>2, NoRowMoves, RowsOnly, QuietType, Leaves DEF Preserves
<1>6. ASSUME PrepareIndex(w), ~Requested(w), paper.revision = "succeeded" PROVE Preserves(w)
  <2>1. CASE paper.chunkset = "ready"
    <3>1. Finish(w, paper)
      BY <1>6, <2>1 DEF PrepareIndex
    <3>2. paper = [paper EXCEPT !.chunkset = "ready"]
      BY <1>3, <2>1 DEF Paper
    <3>3. Finish(w, [paper EXCEPT !.chunkset = "ready"])
      BY <3>1, <3>2
    <3>4. paper.chunks = Chunks /\ paper.embedded = Chunks
      BY <2>1 DEF PipelineInv, ReadyIsComplete
    <3>5. "ready" \in ChunkSet
      BY DEF ChunkSet
    <3> QED
      BY <1>1, <1>2, <3>3, <3>4, <3>5, IndexingFinish
  <2>2. CASE paper.chunkset # "ready"
    <3>1. paper' = [paper EXCEPT !.chunkset = "running"] /\ Goto(w, "count") /\ UNCHANGED run
      BY <1>6, <2>2 DEF PrepareIndex
    <3>2. work' \in [Workers -> Work] /\ Others(w) /\ work'[w].pc = "count"
          /\ work'[w].kind = "indexing"
      BY <1>1, <1>2, <3>1, GotoMoves DEF Goto, IndexingPcs
    <3>3. RowsMove
      BY <1>1, <3>1, NoRowMoves
    <3>4. WorkerStep /\ paper' \in Paper
      BY <1>1, <3>1, <3>3, ChunkSetMoves
    <3>5. TypeOK'
      BY <1>1, <3>1, <3>2, <3>4 DEF TypeOK
    <3>6. WorkFollows(w)'
      BY <3>2 DEF WorkFollows, IngestionPcs
    <3> QED
      BY <3>2, <3>4, <3>5, <3>6 DEF Preserves
  <2> QED
    BY <2>1, <2>2
<1>7. ASSUME CommitReady(w), ~Requested(w) PROVE Preserves(w)
  <2>1. Finish(w, [paper EXCEPT !.chunkset = "ready"])
    BY <1>7 DEF CommitReady
  <2>2. paper.chunks = Chunks /\ paper.embedded = Chunks
    BY <1>1, <1>7 DEF WorkFollows, CommitReady, At
  <2>3. "ready" \in ChunkSet
    BY DEF ChunkSet
  <2> QED
    BY <1>1, <1>2, <2>1, <2>2, <2>3, IndexingFinish
<1>8. ASSUME MarkIndexFailed(w) PROVE Preserves(w)
  <2>1. /\ paper' = [paper EXCEPT !.chunkset = "failed"] /\ Goto(w, "return")
        /\ \E final \in Finality(work[w].permanent) : SetRow(w, AfterFailure(Row(w), final))
    BY <1>8 DEF MarkIndexFailed
  <2>2. RowsMove
    <3>1. PICK final \in BOOLEAN : SetRow(w, AfterFailure(Row(w), final))
      BY <1>3, <2>1 DEF Work, Finality
    <3> QED
      BY <1>1, <1>3, <3>1, RowMoves, SetRowMoves
  <2>3. work' \in [Workers -> Work] /\ Others(w) /\ work'[w].pc = "return"
    BY <1>1, <2>1, GotoMoves DEF Goto
  <2>4. WorkerStep /\ paper' \in Paper
    BY <1>1, <2>1, <2>2, ChunkSetMoves
  <2>5. TypeOK'
    BY <1>1, <2>2, <2>3, <2>4 DEF TypeOK, RowsMove
  <2> QED
    BY <2>3, <2>4, <2>5, Leaves DEF Preserves
<1>9. CASE PrepareIndex(w)
  <2>1. Requested(w) => Finalize(w) /\ UNCHANGED paper
    BY <1>9 DEF PrepareIndex
  <2> QED
    BY <1>4, <1>5, <1>6, <1>9, <2>1
<1>10. CASE CommitReady(w)
  BY <1>4, <1>7, <1>10 DEF CommitReady
<1> QED
  BY <1>8, <1>9, <1>10

\* _commit_chunks, list_pending_embedding and save_embeddings.
LEMMA EmbeddingSteps ==
  ASSUME PipelineInv, NEW w \in Workers, NEW permanent \in BOOLEAN,
         CommitChunks(w) \/ ListPending(w) \/ SaveEmbeddings(w, permanent)
  PROVE  Preserves(w)
<1>1. TypeOK /\ WorkFollows(w) /\ UNCHANGED <<setup, upload, record>>
  BY DEF PipelineInv, CommitChunks, ListPending, SaveEmbeddings
<1>2. work[w].kind = "indexing"
  BY <1>1 DEF WorkFollows, At, IndexingPcs, CommitChunks, ListPending, SaveEmbeddings
<1>3. work[w] \in Work /\ paper \in Paper /\ work \in [Workers -> Work]
  BY <1>1 DEF TypeOK
<1>4. paper.chunks \in {{}, Chunks} /\ paper.embedded \subseteq paper.chunks
  BY DEF PipelineInv, ChunksFollow
<1>5. ASSUME Requested(w), Finalize(w), UNCHANGED paper PROVE Preserves(w)
  BY <1>1, <1>5, FinalizeMoves, RowsOnly, QuietType, Leaves DEF Preserves
<1>6. ASSUME CommitChunks(w), ~Requested(w) PROVE Preserves(w)
  <2>1. CASE paper.chunks \cap Chunks # {}
    <3>1. Retry(w) /\ UNCHANGED <<paper, run>>
      BY <1>6, <2>1 DEF CommitChunks
    <3>2. work' \in [Workers -> Work] /\ Others(w) /\ work'[w].pc = "raise"
      BY <1>1, <3>1, GotoMoves DEF Retry, Raise
    <3> QED
      BY <1>1, <3>1, <3>2, NoRowMoves, RowsOnly, QuietType, Leaves DEF Preserves
  <2>2. CASE paper.chunks \cap Chunks = {}
    <3>1. paper' = [paper EXCEPT !.chunks = Chunks] /\ Goto(w, "pending") /\ UNCHANGED run
      BY <1>6, <2>2 DEF CommitChunks
    <3>2. paper' = [paper EXCEPT !.chunks = Chunks, !.embedded = paper.embedded]
      BY <1>3, <3>1 DEF Paper
    <3>3. WorkerStep /\ paper' \in Paper /\ paper'.chunks = Chunks
      BY <1>1, <2>2, <3>1, <3>2, ChunkMoves
    <3>4. work' \in [Workers -> Work] /\ Others(w) /\ work'[w].pc = "pending"
          /\ work'[w].kind = "indexing"
      BY <1>1, <1>2, <3>1, GotoMoves DEF Goto, IndexingPcs
    <3>5. TypeOK'
      BY <1>1, <3>1, <3>3, <3>4 DEF TypeOK
    <3>6. WorkFollows(w)'
      BY <1>1, <3>3, <3>4 DEF WorkFollows, IngestionPcs, Chunks
    <3> QED
      BY <3>3, <3>4, <3>5, <3>6 DEF Preserves
  <2> QED
    BY <2>1, <2>2
<1>7. ASSUME ListPending(w), ~Requested(w) PROVE Preserves(w)
  <2>1. UNCHANGED <<setup, upload, record, paper, run>> /\ paper.chunks = Chunks
    BY <1>1, <1>7 DEF ListPending, WorkFollows, At
  <2>2. work' \in [Workers -> Work] /\ Others(w) /\ WorkFollows(w)'
    <3>1. CASE paper.chunks \ paper.embedded = {}
      <4>1. Goto(w, "ready")
        BY <1>7, <3>1 DEF ListPending
      <4>2. work' \in [Workers -> Work] /\ Others(w) /\ work'[w].pc = "ready"
            /\ work'[w].kind = "indexing"
        BY <1>1, <1>2, <4>1, GotoMoves DEF Goto, IndexingPcs
      <4>3. paper.embedded = Chunks
        BY <1>4, <2>1, <3>1
      <4> QED
        BY <2>1, <4>2, <4>3 DEF WorkFollows, IngestionPcs, Chunks
    <3>2. CASE paper.chunks \ paper.embedded # {}
      <4> DEFINE first == CHOOSE c \in paper.chunks \ paper.embedded :
                            \A d \in paper.chunks \ paper.embedded : c <= d
      <4>1. work' = [work EXCEPT ![w].pc = "save", ![w].batch = {first}]
        BY <1>7, <3>2 DEF ListPending
      <4>2. first \in paper.chunks
        <5>1. \E c \in paper.chunks \ paper.embedded :
                \A d \in paper.chunks \ paper.embedded : c <= d
          <6>1. paper.chunks \ paper.embedded \in SUBSET (1 .. setup.chunks)
                /\ setup.chunks \in Nat
            BY <1>1, <2>1, PipelineAssumption DEF Chunks, TypeOK
          <6> QED
            BY <3>2, <6>1, FirstExists
        <5> QED
          BY <5>1
      <4> HIDE DEF first
      <4>3. {first} \subseteq Chunks /\ {first} \in SUBSET AllChunks
        BY <1>3, <2>1, <4>2 DEF Paper
      <4>4. [work[w] EXCEPT !.pc = "save", !.batch = {first}] \in Work
        BY <1>3, <4>3 DEF Work, IndexingPcs
      <4>5. /\ work' = [work EXCEPT ![w] = [work[w] EXCEPT !.pc = "save", !.batch = {first}]]
        BY <1>3, <4>1
      <4>6. work' \in [Workers -> Work] /\ Others(w)
        BY <1>3, <4>4, <4>5 DEF Others
      <4>7. work'[w].pc = "save" /\ work'[w].batch = {first} /\ work'[w].kind = "indexing"
        BY <1>2, <1>3, <4>5 DEF Work
      <4> QED
        BY <2>1, <4>3, <4>6, <4>7 DEF WorkFollows, IngestionPcs, Chunks
    <3> QED
      BY <3>1, <3>2
  <2> QED
    BY <1>1, <2>1, <2>2, NoRowMoves, RowsOnly, QuietType DEF Preserves
<1>8. ASSUME SaveEmbeddings(w, permanent) PROVE Preserves(w)
  <2>1. paper.chunks = Chunks /\ work[w].batch \subseteq Chunks /\ UNCHANGED run
    BY <1>1, <1>8 DEF SaveEmbeddings, WorkFollows, At
  <2>2. ASSUME paper' = [paper EXCEPT !.embedded = @ \cup work[w].batch], Goto(w, "pending")
        PROVE  Preserves(w)
    <3>1. paper' = [paper EXCEPT !.chunks = paper.chunks,
                                 !.embedded = paper.embedded \cup work[w].batch]
      BY <1>3, <2>2 DEF Paper
    <3>2. WorkerStep /\ paper' \in Paper /\ paper'.chunks = Chunks
      BY <1>1, <2>1, <3>1, ChunkMoves
    <3>3. work' \in [Workers -> Work] /\ Others(w) /\ work'[w].pc = "pending"
          /\ work'[w].kind = "indexing"
      BY <1>1, <1>2, <2>2, GotoMoves DEF Goto, IndexingPcs
    <3>4. TypeOK'
      BY <1>1, <2>1, <3>2, <3>3 DEF TypeOK
    <3>5. WorkFollows(w)'
      BY <1>1, <3>2, <3>3 DEF WorkFollows, IngestionPcs, Chunks
    <3> QED
      BY <3>2, <3>3, <3>4, <3>5 DEF Preserves
  <2>3. ASSUME GotoWith(w, "reject", permanent), UNCHANGED paper PROVE Preserves(w)
    <3>1. work' \in [Workers -> Work] /\ Others(w) /\ work'[w].pc = "reject"
          /\ work'[w].kind = "indexing"
      BY <1>1, <1>2, <2>3, GotoMoves DEF IndexingPcs
    <3> QED
      BY <1>1, <2>1, <2>3, <3>1, NoRowMoves, RowsOnly, QuietType, Leaves DEF Preserves
  <2> QED
    BY <1>8, <2>2, <2>3 DEF SaveEmbeddings
<1>9. CASE CommitChunks(w)
  BY <1>5, <1>6, <1>9 DEF CommitChunks
<1>10. CASE ListPending(w)
  <2>1. Requested(w) => Finalize(w) /\ UNCHANGED paper
    BY <1>10 DEF ListPending
  <2> QED
    BY <1>5, <1>7, <1>10, <2>1
<1> QED
  BY <1>8, <1>9, <1>10

-----------------------------------------------------------------------------
(* The invariant *)

\* The start of an Attempt.
LEMMA StartSteps ==
  ASSUME PipelineInv, NEW w \in Workers, NEW kind \in Kinds, Start(w, kind)
  PROVE  Preserves(w)
<1> DEFINE next == [Idle EXCEPT !.pc = IF kind = "ingestion" THEN "read" ELSE "index",
                                !.kind = kind, !.attempt = run[kind].attempts + 1]
<1>1. TypeOK /\ UNCHANGED <<setup, upload, record, paper>> /\ work' = [work EXCEPT ![w] = next]
  BY DEF PipelineInv, Start
<1>2. run \in [Kinds -> RunRow] /\ work \in [Workers -> Work]
  BY <1>1 DEF TypeOK
<1>3. RowsMove
  <2>1. run' = [run EXCEPT ![kind] = Started(run[kind])] /\ run[kind].status = "queued"
    BY DEF Start
  <2>2. Moved(run[kind], Started(run[kind])) /\ \A k \in Kinds : Moved(run[k], run[k])
    BY <1>2, <2>1, RowMoves
  <2> QED
    BY <1>2, <2>1, <2>2 DEF RowsMove, Moved
<1>4. next \in Work
  <2>1. run[kind].attempts + 1 \in Nat
    BY <1>2 DEF RunRow
  <2> QED
    BY <2>1 DEF Idle, Work, Revision, IngestionPcs, IndexingPcs
<1>5. next.pc = (IF kind = "ingestion" THEN "read" ELSE "index") /\ next.kind = kind
  BY DEF Idle
<1> HIDE DEF next
<1>6. work' \in [Workers -> Work] /\ Others(w) /\ work'[w] = next
  BY <1>1, <1>2, <1>4 DEF Others
<1>7. WorkFollows(w)'
  BY <1>5, <1>6 DEF WorkFollows, IngestionPcs, IndexingPcs, Kinds
<1> QED
  BY <1>1, <1>3, <1>6, <1>7, RowsOnly, QuietType DEF Preserves

\* A cancellation and the reconciler move a row while the workers go on.
LEMMA OutsideSteps ==
  ASSUME PipelineInv, NEW kind \in Kinds, Cancel(kind) \/ Reclaim(kind)
  PROVE  TypeOK' /\ WorkerStep /\ UNCHANGED work
<1>1. TypeOK /\ UNCHANGED <<setup, upload, record, paper, work>>
  BY DEF PipelineInv, Cancel, Reclaim
<1>2. run \in [Kinds -> RunRow]
  BY <1>1 DEF TypeOK
<1>3. PICK row : run' = [run EXCEPT ![kind] = row] /\ Moved(run[kind], row)
  <2>1. CASE Cancel(kind)
    BY <1>2, <2>1, RowMoves DEF Cancel
  <2>2. CASE Reclaim(kind)
    BY <1>2, <2>2, RowMoves DEF Reclaim
  <2> QED
    BY <2>1, <2>2
<1>4. RowsMove
  <2>1. \A k \in Kinds : Moved(run[k], run[k])
    BY <1>2, RowMoves
  <2> QED
    BY <1>2, <1>3, <2>1 DEF RowsMove, Moved
<1>5. work' \in [Workers -> Work]
  BY <1>1 DEF TypeOK
<1> QED
  BY <1>1, <1>4, <1>5, RowsOnly, QuietType

\* What a step of the Runs keeps of the invariant's parts about the rows.
LEMMA RowsFollow ==
  ASSUME PipelineInv, TypeOK', WorkerStep
  PROVE  /\ VersionFollows' /\ RevisionFollows' /\ IngestedOnce' /\ ChunksFollow'
         /\ ReadyIsComplete'
<1>1. TypeOK /\ VersionFollows /\ RevisionFollows /\ IngestedOnce /\ ChunksFollow /\ ReadyIsComplete
  BY DEF PipelineInv
<1>2. VersionFollows'
  BY <1>1 DEF VersionFollows, WorkerStep
<1>3. RevisionFollows' /\ IngestedOnce'
  <2>1. paper \in Paper /\ paper' \in Paper
    BY <1>1 DEF TypeOK
  <2> QED
    BY <1>1, <2>1 DEF RevisionFollows, IngestedOnce, WorkerStep, IngestionStep, Paper
<1>4. Chunks' = Chunks
  BY DEF WorkerStep, Chunks
<1>5. ChunksFollow'
  BY <1>1, <1>4 DEF ChunksFollow, WorkerStep, IndexingStep
<1>6. ReadyIsComplete'
  <2>1. paper.chunks = Chunks /\ paper.embedded = Chunks =>
          paper'.chunks = Chunks /\ paper'.embedded = Chunks
    BY DEF WorkerStep, IndexingStep
  <2>2. paper'.chunkset = "ready" \/ run'["indexing"].status = "succeeded" =>
          paper.chunks = Chunks /\ paper.embedded = Chunks
    BY <1>1 DEF ReadyIsComplete, WorkerStep, IndexingStep
  <2> QED
    BY <1>4, <2>1, <2>2 DEF ReadyIsComplete
<1> QED
  BY <1>2, <1>3, <1>5, <1>6

\* What a worker relies on stays true when another one takes a step.
LEMMA StillFollows ==
  ASSUME PipelineInv, WorkerStep, NEW v \in Workers, work'[v] = work[v]
  PROVE  WorkFollows(v)'
<1>1. WorkFollows(v) /\ ChunksFollow
  BY DEF PipelineInv
<1>2. Chunks' = Chunks
  BY DEF WorkerStep, Chunks
<1>3. run["ingestion"].status = "succeeded" => run'["ingestion"].status = "succeeded"
  BY DEF WorkerStep, IngestionStep
<1>4. paper.chunks = Chunks => paper'.chunks = Chunks
  BY DEF WorkerStep, IndexingStep
<1>5. paper.embedded = Chunks => paper'.embedded = Chunks
  BY DEF WorkerStep, IndexingStep
<1> QED
  BY <1>1, <1>2, <1>3, <1>4, <1>5 DEF WorkFollows

\* A request changes nothing that a Run commits.
UploadKeeps ==
  /\ TypeOK' /\ VersionFollows'
  /\ paper'.revision = paper.revision /\ paper'.current = paper.current
  /\ paper'.elements = paper.elements /\ paper'.indexings = paper.indexings
  /\ paper'.chunkset = paper.chunkset /\ paper'.chunks = paper.chunks
  /\ paper'.embedded = paper.embedded

\* The requests: the two unique constraints let one commit create the version.
LEMMA UploadSteps ==
  ASSUME PipelineInv, NEW r \in Requests, UploadStep(r)
  PROVE  PipelineInv'
<1>1. TypeOK /\ VersionFollows /\ UNCHANGED <<setup, run, work>>
  BY DEF PipelineInv, UploadStep, ReadUpload, CreateVersion, ReuseVersion
<1>2. /\ upload \in [Requests -> Upload] /\ record \in [Requests -> Record] /\ paper \in Paper
      /\ setup.key \in [Requests -> Requests]
  BY <1>1 DEF TypeOK
<1> DEFINE K == setup.key[r]
<1>3. K \in Requests
  BY <1>2
<1>4. ASSUME paper' = paper, record' = record,
             NEW next \in Upload, upload' = [upload EXCEPT ![r] = next],
             next = "answered" => record[K] # "none"
      PROVE  UploadKeeps
  <2>1. TypeOK'
    BY <1>1, <1>2, <1>4 DEF TypeOK
  <2>2. \A q \in Requests : upload'[q] = "answered" => record'[setup'.key[q]] # "none"
    BY <1>1, <1>2, <1>4 DEF VersionFollows
  <2> QED
    BY <1>1, <1>4, <2>1, <2>2 DEF VersionFollows, UploadKeeps
<1>5. ASSUME ReadUpload(r) PROVE UploadKeeps
  <2> DEFINE next == IF record[K] # "none" THEN "answered"
                     ELSE IF paper.versions > 0 THEN "reuse" ELSE "create"
  <2>1. /\ next \in Upload /\ upload' = [upload EXCEPT ![r] = next]
        /\ paper' = paper /\ record' = record
        /\ next = "answered" => record[K] # "none"
    BY <1>5 DEF ReadUpload, Upload
  <2> HIDE DEF next
  <2> QED
    BY <2>1, <1>4
<1>6. ASSUME NEW answer \in {"created", "reused"}, record[K] = "none",
             record' = [record EXCEPT ![K] = answer],
             upload' = [upload EXCEPT ![r] = "answered"],
             NEW n \in {0, 1}, paper' = [paper EXCEPT !.versions = n],
             answer = "created" => paper.versions = 0 /\ n = 1,
             answer = "reused" => n = paper.versions
      PROVE  UploadKeeps
  <2>1. /\ paper' \in Paper /\ paper'.versions = n
        /\ paper'.revision = paper.revision /\ paper'.current = paper.current
        /\ paper'.elements = paper.elements /\ paper'.indexings = paper.indexings
        /\ paper'.chunkset = paper.chunkset /\ paper'.chunks = paper.chunks
        /\ paper'.embedded = paper.embedded
    BY <1>2, <1>6 DEF Paper
  <2>2. record' \in [Requests -> Record] /\ upload' \in [Requests -> Upload]
    BY <1>2, <1>3, <1>6 DEF Record, Upload
  <2>3. TypeOK'
    BY <1>1, <2>1, <2>2 DEF TypeOK
  <2>4. /\ record'[K] = answer /\ \A k \in Requests : k # K => record'[k] = record[k]
        /\ upload'[r] = "answered" /\ \A q \in Requests : q # r => upload'[q] = upload[q]
    BY <1>2, <1>3, <1>6
  <2>5. \A q \in Requests : upload'[q] = "answered" => record'[setup'.key[q]] # "none"
    BY <1>1, <1>2, <1>6, <2>4 DEF VersionFollows
  <2>6. ASSUME answer = "created" PROVE VersionFollows'
    <3>1. \A k \in Requests : record[k] # "created"
      BY <1>1, <1>6, <2>6 DEF VersionFollows
    <3> QED
      BY <1>3, <1>6, <2>1, <2>4, <2>5, <2>6, <2>3, <3>1 DEF VersionFollows
  <2>7. ASSUME answer = "reused" PROVE VersionFollows'
    <3>1. \A k \in Requests : record'[k] = "created" <=> record[k] = "created"
      BY <1>3, <1>6, <2>4, <2>7
    <3> QED
      BY <1>1, <1>6, <2>1, <2>3, <2>5, <2>7, <3>1 DEF VersionFollows
  <2> QED
    BY <2>1, <2>3, <2>6, <2>7 DEF UploadKeeps
<1>7. ASSUME ReuseVersion(r) PROVE UploadKeeps
  <2>1. CASE /\ record[K] = "none" /\ record' = [record EXCEPT ![K] = "reused"]
             /\ upload' = [upload EXCEPT ![r] = "answered"]
    <3>1. paper' = [paper EXCEPT !.versions = paper.versions]
      BY <1>2, <1>7 DEF ReuseVersion, Paper
    <3> QED
      BY <1>1, <1>6, <1>7, <2>1, <3>1 DEF ReuseVersion, VersionFollows
  <2>2. CASE upload' = [upload EXCEPT ![r] = "new"] /\ UNCHANGED record
    BY <1>4, <1>7, <2>2 DEF ReuseVersion, Upload
  <2> QED
    BY <1>7, <2>1, <2>2 DEF ReuseVersion
<1>8. ASSUME CreateVersion(r) PROVE UploadKeeps
  <2>1. CASE record[K] = "none" /\ paper.versions = 0
    <3>1. paper' = [paper EXCEPT !.versions = 1]
      BY <1>2, <1>8, <2>1 DEF CreateVersion, Paper
    <3> QED
      BY <1>6, <1>8, <2>1, <3>1 DEF CreateVersion
  <2>2. CASE ~(record[K] = "none" /\ paper.versions = 0)
    BY <1>4, <1>8, <2>2 DEF CreateVersion, Upload
  <2> QED
    BY <2>1, <2>2
<1>9. UploadKeeps
  BY <1>5, <1>7, <1>8 DEF UploadStep
<1>10. Chunks' = Chunks
  BY <1>1 DEF Chunks
<1>11. RevisionFollows' /\ IngestedOnce' /\ ChunksFollow' /\ ReadyIsComplete'
  BY <1>1, <1>9, <1>10 DEF UploadKeeps, PipelineInv, RevisionFollows, IngestedOnce,
                           ChunksFollow, ReadyIsComplete
<1>12. ASSUME NEW w \in Workers PROVE WorkFollows(w)'
  BY <1>1, <1>9, <1>10 DEF UploadKeeps, PipelineInv, WorkFollows
<1> QED
  BY <1>9, <1>11, <1>12 DEF UploadKeeps, PipelineInv

\* Every step of the specification preserves the invariant.
LEMMA PipelineInductive == PipelineInv /\ [Next]_vars => PipelineInv'
<1> SUFFICES ASSUME PipelineInv, [Next]_vars PROVE PipelineInv'
  OBVIOUS
<1>1. ASSUME NEW w \in Workers, Preserves(w) PROVE PipelineInv'
  <2>1. ASSUME NEW v \in Workers PROVE WorkFollows(v)'
    <3>1. CASE v = w
      BY <1>1, <3>1 DEF Preserves
    <3>2. CASE v # w
      <4>1. work'[v] = work[v] /\ WorkerStep
        BY <1>1, <3>2 DEF Preserves, Others
      <4> QED
        BY <4>1, StillFollows
    <3> QED
      BY <3>1, <3>2
  <2> QED
    BY <1>1, <2>1, RowsFollow DEF Preserves, PipelineInv
<1>2. ASSUME NEW w \in Workers, Step(w) PROVE Preserves(w)
  BY <1>2, PrepareSteps, IngestionSteps, IndexingEnds, EmbeddingSteps, QuietSteps, AttemptEnds
  DEF Step
<1>3. ASSUME NEW w \in Workers, Crash(w) \/ Abort(w) PROVE Preserves(w)
  BY <1>3, AttemptEnds, QuietSteps
<1>4. ASSUME NEW kind \in Kinds, Cancel(kind) \/ Reclaim(kind) PROVE PipelineInv'
  <2>1. TypeOK' /\ WorkerStep /\ UNCHANGED work
    BY <1>4, OutsideSteps
  <2> QED
    BY <2>1, RowsFollow, StillFollows DEF PipelineInv
<1>5. ASSUME UNCHANGED vars PROVE PipelineInv'
  BY <1>5 DEF vars, PipelineInv, TypeOK, VersionFollows, RevisionFollows, IngestedOnce, ChunksFollow,
              ReadyIsComplete, WorkFollows, Chunks
<1> QED
  BY <1>1, <1>2, <1>3, <1>4, <1>5, StartSteps, UploadSteps DEF Next

-----------------------------------------------------------------------------
(* Theorems *)

\* The invariant over requests, rows and workers holds throughout.
THEOREM PipelineInvariant == Spec => []PipelineInv
BY InitInv, PipelineInductive, PTL DEF Spec

\* One file is one PaperVersion, and every answer is on record: the records that
\* say "created" are one as soon as the version exists, and none before.
THEOREM OneFileOneVersion == Spec => []OneVersion
<1>1. ASSUME PipelineInv PROVE OneVersion
  <2> DEFINE created == {k \in DOMAIN record : record[k] = "created"}
  <2>1. TypeOK /\ VersionFollows
    BY <1>1 DEF PipelineInv
  <2>2. DOMAIN record = Requests
    BY <2>1 DEF TypeOK
  <2>3. ASSUME paper.versions = 0 PROVE Cardinality(created) = 0
    <3>1. created = {}
      BY <2>1, <2>2, <2>3 DEF VersionFollows
    <3> QED
      BY <3>1, FS_EmptySet
  <2>4. ASSUME paper.versions = 1 PROVE Cardinality(created) = 1
    <3>1. PICK k \in Requests : created = {k}
      BY <2>1, <2>2, <2>4 DEF VersionFollows
    <3> HIDE DEF created
    <3> QED
      BY <3>1, FS_Singleton
  <2> QED
    BY <2>1, <2>3, <2>4 DEF VersionFollows, OneVersion
<1> QED
  BY <1>1, PipelineInvariant, PTL

\* However many workers parse the paper, the ingestion succeeds once, with its
\* elements, its pointer and one indexing Run.
THEOREM IngestionIsOnce == Spec => []IngestedOnce
<1>1. PipelineInv => IngestedOnce
  BY DEF PipelineInv
<1> QED
  BY <1>1, PipelineInvariant, PTL

\* What counts as ready has all of its chunks and embeddings.
THEOREM ReadyMeansComplete == Spec => []ReadyIsComplete
<1>1. PipelineInv => ReadyIsComplete
  BY DEF PipelineInv
<1> QED
  BY <1>1, PipelineInvariant, PTL


-----------------------------------------------------------------------------
(* The two Runs are Runs of RunLifecycle *)

\* The row of one kind of Run as RunMoves moves it.
Moves(kind) == INSTANCE RunMoves WITH row <- run[kind]

\* A step makes a move of RunMoves, or leaves the row alone.
RowMove(kind) == Moves(kind)!Next \/ UNCHANGED run[kind]

LEMMA ClosedMove ==
  ASSUME NEW kind \in Kinds, run[kind] \in RunRow, NEW attempt,
         run'[kind] = Closed(run[kind], attempt)
  PROVE  RowMove(kind)
<1>1. CASE attempt = run[kind].attempts
  BY <1>1 DEF Closed, Moves!Close, Moves!Closed, Moves!Next, RowMove
<1>2. CASE attempt # run[kind].attempts
  BY <1>2 DEF Closed, RunRow, RowMove
<1> QED
  BY <1>1, <1>2

LEMMA AfterFailureMove ==
  ASSUME NEW kind \in Kinds, run[kind] \in RunRow, NEW final \in BOOLEAN,
         run'[kind] = AfterFailure(run[kind], final)
  PROVE  RowMove(kind)
<1>1. Moves(kind)!MarkFailed
  BY DEF AfterFailure, Running, Moves!MarkFailed, Moves!AfterFailure, Moves!Running
<1> QED
  BY <1>1 DEF Moves!Next, RowMove

\* A worker whose Attempt is not the latest any more may fail the Run, and leaves
\* the latest Attempt open.
LEMMA FailedMove ==
  ASSUME NEW kind \in Kinds, run[kind] \in RunRow, NEW attempt, NEW final \in BOOLEAN,
         run'[kind] = FailedRun(run[kind], attempt, final)
  PROVE  RowMove(kind)
<1>1. CASE attempt = run[kind].attempts
  <2>1. Moves(kind)!Fail
    BY <1>1 DEF FailedRun, AfterFailure, Closed, Running, Moves!Fail, Moves!FailedRun,
       Moves!AfterFailure, Moves!Closed, Moves!Running
  <2> QED
    BY <2>1 DEF Moves!Next, RowMove
<1>2. CASE run[kind].status = "cancel_requested"
  BY <1>2 DEF FailedRun, RowMove
<1>3. CASE attempt # run[kind].attempts /\ run[kind].status # "cancel_requested"
  <2>1. /\ AfterFailure(run[kind], final) \in RunRow
        /\ AfterFailure(run[kind], final).attempts = run[kind].attempts
    BY DEF AfterFailure, RunRow, RowStatus
  <2>2. run'[kind] = AfterFailure(run[kind], final)
    BY <1>3, <2>1 DEF FailedRun, Closed, RunRow
  <2> QED
    BY <2>2, AfterFailureMove
<1> QED
  BY <1>1, <1>2, <1>3

LEMMA CancelledMove ==
  ASSUME NEW kind \in Kinds, run[kind] \in RunRow,
         \/ Cancellable(run[kind]) /\ run'[kind] = Cancelled(run[kind])
         \/ /\ run[kind].status = "cancel_requested"
            /\ run'[kind] = [run[kind] EXCEPT !.status = "cancelled"]
  PROVE  RowMove(kind)
<1>1. Moves(kind)!Cancel
  BY DEF Cancellable, Cancelled, Running, Terminal, Moves!Cancel, Moves!Cancellable,
     Moves!Cancelled, Moves!Running, Moves!Terminal
<1> QED
  BY <1>1 DEF Moves!Next, RowMove

\* What happens to a row around its executors.
LEMMA ServiceMove ==
  ASSUME TypeOK, NEW kind \in Kinds,
         Cancel(kind) \/ Reclaim(kind) \/ \E w \in Workers : Start(w, kind)
  PROVE  RowMove(kind)
<1>1. run[kind] \in RunRow /\ run \in [Kinds -> RunRow]
  BY DEF TypeOK
<1>2. CASE Cancel(kind)
  BY <1>1, <1>2, CancelledMove DEF Cancel
<1>3. CASE Reclaim(kind)
  <2>1. Moves(kind)!Reclaim
    BY <1>1, <1>3 DEF Reclaim, Reclaimable, Reclaimed, AfterFailure, Running, Moves!Reclaim,
       Moves!Reclaimable, Moves!Reclaimed, Moves!AfterFailure, Moves!Running
  <2> QED
    BY <2>1 DEF Moves!Next, RowMove
<1>4. ASSUME NEW w \in Workers, Start(w, kind) PROVE RowMove(kind)
  <2>1. Moves(kind)!Claim
    BY <1>1, <1>4 DEF Start, Started, Moves!Claim, Moves!Started
  <2> QED
    BY <2>1 DEF Moves!Next, RowMove
<1> QED
  BY <1>2, <1>3, <1>4

\* What a worker does to its row.
LEMMA WorkerMove ==
  ASSUME TypeOK, NEW w \in Workers, NEW kind \in Kinds, kind = work[w].kind,
         \/ Fail(w) \/ Return(w) \/ MarkParseFailed(w) \/ MarkIndexFailed(w)
         \/ Requested(w) /\ Finalize(w)
         \/ \E rows : Finish(w, rows)
  PROVE  RowMove(kind)
<1>1. run[kind] \in RunRow /\ run \in [Kinds -> RunRow]
      /\ work[w].permanent \in BOOLEAN
  BY DEF TypeOK, Work
<1>2. ASSUME NEW row, SetRow(w, row) PROVE run'[kind] = row
  BY <1>1, <1>2 DEF SetRow
<1>3. CASE Fail(w)
  <2>1. PICK final \in BOOLEAN : SetRow(w, FailedRun(Row(w), work[w].attempt, final))
    BY <1>1, <1>3 DEF Fail, Finality
  <2> QED
    BY <1>1, <1>2, <2>1, FailedMove DEF Row
<1>4. CASE Return(w)
  BY <1>1, <1>2, <1>4, ClosedMove DEF Return, Row
<1>5. CASE MarkParseFailed(w) \/ MarkIndexFailed(w)
  <2>1. PICK final \in BOOLEAN : SetRow(w, AfterFailure(Row(w), final))
    BY <1>1, <1>5 DEF MarkParseFailed, MarkIndexFailed, Finality
  <2> QED
    BY <1>1, <1>2, <2>1, AfterFailureMove DEF Row
<1>6. CASE Requested(w) /\ Finalize(w)
  BY <1>1, <1>2, <1>6, CancelledMove DEF Requested, Finalize, Row
<1>7. ASSUME NEW rows, Finish(w, rows) PROVE RowMove(kind)
  <2>1. CASE Running(Row(w))
    <3>1. run'[kind] = Succeeded(run[kind])
      BY <1>2, <1>7, <2>1 DEF Finish, Row
    <3>2. Moves(kind)!Succeed
      BY <2>1, <3>1 DEF Running, Row, Succeeded, Moves!Succeed, Moves!Running, Moves!Succeeded
    <3> QED
      BY <3>2 DEF Moves!Next, RowMove
  <2>2. CASE ~Running(Row(w))
    BY <1>7, <2>2 DEF Finish, RowMove
  <2> QED
    BY <2>1, <2>2
<1> QED
  BY <1>3, <1>4, <1>5, <1>6, <1>7

\* Every step of a worker is of that kind, or leaves the rows of the Runs alone.
LEMMA StepMovesOwnRun ==
  ASSUME NEW w \in Workers, Step(w)
  PROVE  \/ UNCHANGED run
         \/ Fail(w) \/ Return(w) \/ MarkParseFailed(w) \/ MarkIndexFailed(w)
         \/ Requested(w) /\ Finalize(w)
         \/ \E rows : Finish(w, rows)
<1>1. CASE CommitSuccess(w) \/ CommitReady(w)
  BY <1>1 DEF CommitSuccess, CommitReady
<1>2. CASE Prepare(w) \/ Progress(w) \/ PrepareIndex(w) \/ CommitChunks(w) \/ ListPending(w)
  BY <1>2 DEF Prepare, Progress, PrepareIndex, CommitChunks, ListPending
<1>3. CASE \/ ReadRevision(w) \/ CountChunks(w) \/ \E permanent \in BOOLEAN :
              Parse(w, permanent) \/ BuildChunks(w, permanent) \/ SaveEmbeddings(w, permanent)
  BY <1>3 DEF ReadRevision, Parse, CountChunks, BuildChunks, SaveEmbeddings
<1> QED
  BY <1>1, <1>2, <1>3 DEF Step

\* A step of the pipeline changes the row of one Run at most.
LEMMA NextMovesRuns ==
  ASSUME TypeOK, [Next]_vars, NEW kind \in Kinds
  PROVE  RowMove(kind)
<1>1. ASSUME NEW other \in Kinds, RowMove(other),
             \E row : run' = [run EXCEPT ![other] = row]
      PROVE  RowMove(kind)
  BY <1>1 DEF RowMove, TypeOK
<1>2. ASSUME UNCHANGED run PROVE RowMove(kind)
  BY <1>2 DEF RowMove
<1>3. ASSUME NEW other \in Kinds,
             Cancel(other) \/ Reclaim(other) \/ \E w \in Workers : Start(w, other)
      PROVE  RowMove(kind)
  <2>1. \E row : run' = [run EXCEPT ![other] = row]
    BY <1>3 DEF Cancel, Reclaim, Start
  <2> QED
    BY <1>1, <1>3, <2>1, ServiceMove
<1>4. ASSUME NEW w \in Workers, Step(w), ~UNCHANGED run PROVE RowMove(kind)
  <2>1. \/ Fail(w) \/ Return(w) \/ MarkParseFailed(w) \/ MarkIndexFailed(w)
        \/ Requested(w) /\ Finalize(w)
        \/ \E rows : Finish(w, rows)
    BY <1>4, StepMovesOwnRun
  <2>2. PICK other \in Kinds : other = work[w].kind
    BY DEF TypeOK, Work
  <2>3. \E row : run' = [run EXCEPT ![other] = row]
    BY <2>2, <1>4, <2>1 DEF Fail, Return, MarkParseFailed, MarkIndexFailed, Finalize, Finish, SetRow
  <2>4. RowMove(other)
    BY <2>1, <2>2, WorkerMove
  <2> QED
    BY <1>1, <2>3, <2>4
<1>5. \/ UNCHANGED run
      \/ \E other \in Kinds : Cancel(other) \/ Reclaim(other) \/ \E w \in Workers : Start(w, other)
      \/ \E w \in Workers : Step(w)
  BY DEF Next, vars, UploadStep, ReadUpload, CreateVersion, ReuseVersion, Crash, Abort
<1> QED
  BY <1>2, <1>3, <1>4, <1>5

\* The ingestion Run and the indexing Run make the moves of RunMoves only, as the
\* machinery of RunLifecycle does, whatever two workers of one Run write.
THEOREM PipelineRunMoves == Spec => \A kind \in Kinds : Moves(kind)!Spec
<1> SUFFICES ASSUME NEW kind \in Kinds PROVE Spec => Moves(kind)!Spec
  OBVIOUS
<1>1. Init => Moves(kind)!Init
  BY DEF Init, NewRun, Moves!Init, Moves!NewRun
<1>2. PipelineInv /\ [Next]_vars => [Moves(kind)!Next]_(run[kind])
  BY NextMovesRuns DEF PipelineInv, RowMove
<1> QED
  BY <1>1, <1>2, PipelineInvariant, PTL DEF Spec, Moves!Spec

=============================================================================
