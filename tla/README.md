# Literature research agent: TLA+ models and proofs

This directory holds TLA+ models of the backend of the literature research agent
(`src/backend/src/literature_agent`), the TLC configurations that check them, and
TLAPS proofs about the core. `PROJECT.json` lists the components, the runs, the map
from definitions to source lines, the hazards and the theorems.

Contents: [the system](#the-system), [modules](#modules-and-how-they-correspond-to-the-code),
[runs](#runs), [bounds](#bounds), [fairness](#fairness), [proofs](#proofs),
[disagreements](#where-the-code-and-its-documents-disagree),
[not modelled](#not-modelled), [plan](#plan).

## The system

A web API (FastAPI), PostgreSQL, a Valkey queue driven by ARQ, and any number of
worker processes. Everything long-running (ingesting a paper, indexing it, answering a
question, writing a review, one turn of the research agent) is a **Run**. The API
creates Runs and reads them; workers execute them; background loops in each worker
process dispatch, reconcile and clean up. All shared state is in PostgreSQL except the
ARQ jobs, the LangGraph checkpoints (own transactions in the same database) and the
sandboxes of the Provider.

### Inventory

| Component | State | Operations | What makes it correct |
|---|---|---|---|
| Run and Events (`domain/run.py`, `event.py`, `run_service.py`) | `runs` row (status, `event_sequence`), `events` rows | create, transition + append one Event, cancel | only legal transitions; Events numbered without gaps; the log replays to the status |
| Execution and Attempts (`run_execution_service.py`, `failure_policy.py`) | `run_attempts` rows with a heartbeat | `_start`, `_fail`, `_close_attempt`, heartbeat | one Attempt per start; every Attempt ends; retries within a budget |
| Outbox and dispatch (`outbox_dispatch_service.py`, `arq_run_queue.py`) | `queue_outbox` row, the ARQ job `run:<id>` | list, prepare (requeue), enqueue, mark, record failure | a Run that should be executed has a delivery pending or a job |
| Reconciliation (`run_reconcile_service.py`) | none of its own | recover expired leases, close orphaned Attempts | classifies an orphan as its worker would have |
| Waiting Runs (`waiting_run_resume_service.py`, `review_dependency_service.py`) | `review_run_dependencies` | pause, resume, fail | a waiting Run goes on when its dependencies ended |
| Agent turn (`agent_turn_executor.py`, `runtime_execution_control.py`, Deep Agents adapter) | `agent_runtime_executions` row (lease, fencing token, checkpoint), LangGraph thread | reconcile, claim, step, checkpoint, finish, cancel, commit | one owner writes; one answer; a cancellation ends |
| Tool calls and effects (`agent_usage_service.py`, `mcp_tool_execution_service.py`, `project_research_context_service.py`) | `agent_tool_calls`, `tool_executions`, counters of the usage row | reserve, start, begin, succeed, fail | no repeated side effect; budgets; the ledgers agree |
| Sandbox workspace and cleanup (`infrastructure/agent/sandbox_*.py`) | Lease row, Snapshots, cleanup rows, sandboxes | acquire, renew, rotate, restore, stage, publish, mark dirty, clean | only committed files reach the next Turn; no sandbox leaks or is destroyed in use |
| Agent Sessions (`agent_session_service.py`) | session row (active Turn, message sequence), messages, idempotency records, frozen context and policy | create, post message, end of a Turn, cancel | one active Turn; a history without gaps; one Turn per key |
| Browser control (`browser_control_service.py`, `browser_gateway.py`) | control row with fence and expiry, view slot, connections | start, read, end, claim view, release, guard | one viewer; no Turn while a person controls; stale views end |
| Artifacts and attachments (`agent_artifact_*.py`, `agent_attachment_*.py`) | candidates, artifacts, attachments, blobs | submit, reject, publish; upload, refer, materialize, delete | published with the answer or not at all; a promised file can be read |
| Review (`review_*.py`, `workflows/review_graph.py`) | sources, Steps, outputs, requests to a person, LangGraph checkpoint, Artifact | strategy, search, selection, import, wait; matrix, outline, review by a person, sections, checks, export | only what a person selected and approved goes on; nothing twice; it ends or asks |
| Ingestion and indexing (`ingestion_*.py`, `indexing_executor.py`) | version, parse revision, elements, chunk set, chunks, vectors | upload, parse, cut, embed | one version per file; READY means complete |
| Conversations and RAG (`conversation_service.py`, `rag_answer_executor.py`) | active Run, messages, snapshot, Evidence, ClaimSet | post, retrieve, generate, validate, commit | one question at a time; citations of what was asked about |
| arXiv import, library (`arxiv_import_service.py` ...) | papers, versions, project membership | import, add, remove | importing twice gives one paper |
| Event stream (`api/runs.py`, `valkey_event_notifier.py`, `frontend`) | cursor of a client | replay, wait, merge | every Event delivered once, in order |
| Pure algorithms (chunk builder, rank fusion, citation validation, backoff) | none | | agree with a reference definition |
| Model gateway, parsers, storage, MCP and Skill configuration, HTTP adapters | none shared | | see [not modelled](#not-modelled) |

### How the parts interact

A service writes the Run, its first Event and an Outbox record in one transaction. A
dispatch loop lists due records, moves a Run that waits for its retry back to QUEUED,
enqueues a job with a fixed id and marks the record. ARQ hands the job to a worker;
`RunExecutionService` claims the Run with a new Attempt, starts a heartbeat and calls the
executor of the Run's type, which reports progress and commits its result in transactions
of its own. An error is either committed by the executor (ingestion, indexing, RAG) or
raised and then classified by `apply_run_failure`, which schedules a retry by resetting
the Outbox record. Every action of a user (cancel, resume) is one transaction with the row
lock. The reconcilers look for what crashes leave behind. An agent Turn adds a second
level of ownership: the RuntimeExecution with its own lease and fencing token, below it
the tool ledgers, beside it the Lease of the Session's sandbox.

### What is hard

* `_start` and `_prepare_run` read the Run without its lock and write what they read later.
* A worker whose lease ran out is not stopped: it goes on until some check refuses it.
* Several writers (worker, two reconcilers, dispatcher, user) end the same Attempt or Run.
* A crash can fall between any two transactions, and between a transaction and a side
  effect outside the database (queue, tool, sandbox).
* A delivery may meet the still active job of the previous Attempt.
* Two ledgers, or a ledger and an effect, are written in separate transactions.
* Some things must happen in the end: Attempts close, cancellations end, sandboxes go.
* No transaction of the review, paper and RAG executors asks which Attempt it belongs to: a
  reclaimed worker goes on beside its successor while the Run is RUNNING.
* A LangGraph node commits before its checkpoint is saved, and runs again after a crash.
* People act at the same time: two posts, two uploads, a selection, an approval, an archive.

The hazards, each at its line and with the properties aimed at it, are in `PROJECT.json`.

## Modules and how they correspond to the code

| Module | Models |
|---|---|
| `RunStates` | the tables of `domain/run.py`, `run_attempt.py`, `queue_outbox.py`, and which Event announces which status |
| `RunDomain` | abstract: what a client of one Run sees, its status and its log |
| `RunMoves` | abstract: the row of one Run, which makes the moves of `RunRow` and no others |
| `RunLifecycle`, `RunLifecycleProofs` | one Run with workers, dispatch loops, reconcilers, queue and users |
| `AgentRuntime`, `AgentRuntimeProofs` | one agent Turn: executor, adapter, RuntimeExecution |
| `AgentToolCalls`, `AgentToolCallsProofs` | the tool calls of one model message and both ledgers |
| `SandboxWorkspace`, `SandboxWorkspaceProofs` | the workspace of one Session and its cleanup |
| `AgentSession`, `AgentSessionProofs` | one Session as its users see it: messages and Turns, browser control, attachments, profiles |
| `RunRow` | the moves of the row of a Run as the business executors see it, shared by `RunMoves` and the next four |
| `ReviewSources` | a Review from its request to READY sources; its proofs are at the end of `ReviewGraphProofs` |
| `ReviewGraph`, `ReviewGraphProofs` | a Review from READY sources to the exported Artifact |
| `PaperPipeline`, `PaperPipelineProofs` | one PDF from its upload to a searchable paper |
| `RagConversation`, `RagConversationProofs` | a conversation, its questions and their answers, beside a changing library |
| `MC*` | instances for TLC: constant definitions and symmetry |

**One action per transaction.** A transaction that takes the row lock is one action with
everything it writes. A method with several transactions, or with an external call between
them, is several actions linked by the `pc` of its worker, and values read by the one and
used by the other are kept in the worker's record. A definition followed by the comment
"Mutant" is a changed copy of the next one, used only by the mutants of `PROJECT.json`.

### RunLifecycle

`run`, `events`, `outbox`, `attempts` are rows; `job` is the ARQ job with its in-progress and retry keys
(external, modelled from how `arq_run_queue.py` and the worker settings use it); `worker` and
`dispatcher` are coroutines. Requests: `CreateRun`, `CancelRun`, `Resume`, and what the reconciler of a
Review does to its Run (`FailWaiting`, `CancelReview`, `NoteSource`). Dispatch: `ListDuePending`,
`PrepareRun`, `Requeue`, `EnqueueRun`, `MarkDispatched`, `RecordFailure`. Execution: `PickJob`,
`StartRead` and `StartClaim` (the two halves of `_start`), the executor's transactions (`ExecProgress`,
`ExecSucceed`, `ExecPause`, `ExecFinalizeCancelled`, `ExecMarkFailed`, `ExecGiveUp`, `ExecRaise`), then
`Fail`, `GetStatus`, `CloseAttempt`, `FinishJob`. Reconciliation: `Recover`, `CloseOrphan`. Faults:
queue errors, job timeout, graceful shutdown, hard crash, a failing close. Time: `LeaseLapses`,
`Heartbeat`, `InProgressExpires`.

Rows of different Runs share nothing, so one Run is modelled. Two constants describe the
executor: `MarksOwnFailure` (ingestion, indexing and RAG commit failures in `_mark_failed`;
review and agent raise) and `MayPause` (review). Backoff delays are left out: a pending
record may be due at any time. `_orphan_terminal_status` compares timestamps of Events and Attempts;
the model compares the numbers of the Events instead (`Interval`). That is the same as long as all
processes read one clock, because each of the timestamps is read by the transaction that holds the
lock of the Run or writes conditionally on it; clocks that disagree are not modelled.

### AgentRuntime

The Run is reduced to its status and its latest Attempt; RETRY_WAIT and the Outbox are
folded into "queued". `exec` is the `agent_runtime_executions` row, `thread` the list of
checkpoints in the order in which they were written, `answers` counts committed assistant
messages. `Enter` and `Reconcile` are the entry of `AgentTurnExecutor`; `GetRecord`, `Claim`,
`FindOwn` that of `execute_turn` (the record is read without a lock, claimed, and only then are the
checkpoints looked at), `Claim` and `Locate` that of `resume_turn`, `RunFresh` the start of the graph.
`BeginCall`, `EndCall`, `CallFails`, `RecordCheckpoint` are one step of the graph, with `assert_active`
before the call and the checkpoint of LangGraph after it; `EndStream`, `Finalize`, `Watch` (the
cancellation watcher), `CommitCancellation`, `Commit` end the Turn, and `ReadFails` is a checkpoint
that cannot be read, an error the record is not told.

### AgentToolCalls

`turn` is the input: the calls of the message with their kind and signature, and the limits of the
policy snapshot; it is chosen once. `call` and `reserved` are the `agent_tool_calls` rows and the
counter of the usage row, `effect` the `tool_executions` rows, `executed` counts how often a tool really
ran, `done` the results that are in a checkpoint. `Reserve`, `Start`, `Guard`, `RecordResult`,
`SaveResult`, `RecordFailure` are the middleware with `AgentUsageService`; `Begin`, `Check`, `Execute`,
`Outcome`, `EffectSucceeds`, `EffectFails` the effect of an MCP or Project tool. An "artifact" tool
submits a file: the candidate row, its rejection, and the publication with the answer
(`AgentArtifactSubmissionService`, `AgentArtifactPublisher`). A "plain" tool (files, shell) has no
effect row. The calls of a message interleave, in one worker and with those of a worker that lost its
lease.

### SandboxWorkspace

`lease`, `snapshot`, `cleanup` are rows, `sandbox` the Provider's state. The files of a
sandbox are the set of Turns that wrote to it, and `base` the version it was restored from. `ReadLease`
to `Discarded` are `acquire` with its compare-and-set on the Lease row. A Lease is "disowned" if its
row was written but the worker that wrote it met a cancellation or a lost connection after the commit
and destroys the sandbox: the row is ACTIVE for everybody else. `Claim` to `Commit` are the run of the
wrapped runtime, with the first event (from which on an error leaves the Lease DIRTY) in `Begin`,
`Stage` in `prepare_completion`, `Succeed` in the RuntimeExecution and `Commit` in the
transaction of the answer; `MarkDirty` the exit path; `EnqueueDue` to `FinishCleanup` the
cleanup service. `ExecLapses` takes the RuntimeExecution from its owner. A Session that is CLOSED, one
of the reasons to clean up, is left out: no code under `src` closes a Session.

### AgentSession

`session`, `turn`, `messages`, `record`, `profile`, `lease`, `control`, `attachment` are rows;
`request`, `upload` and `viewer` are HTTP requests and WebSocket connections. `ReadKey` and `Post`
are the two transactions of a posted message, `Attempt` to `ReleaseIfTerminal` what becomes of its
Turn, `StartControl` to `ExpireControl` the browser control, `ClaimView` to `CrashView` one
connection with its `fence_guard`, `ReadUpload` to `DeleteAttachment` the attachment. The execution
of a Turn itself is `AgentRuntime`, the Lease is `SandboxWorkspace`.

### RunRow and the four business modules

`RunRow` folds the mechanism of `RunLifecycle` into moves of one row: start with a new Attempt,
pause, resume, success, failure by the policy, cancellation, reclaim of an overdue Attempt. RETRY_WAIT
and QUEUED are one status, because nothing these executors do tells them apart. A second
request to cancel ends a Run whatever its executor does. Each module has workers that may be given a
queued Run, may crash anywhere, and go on after their Attempt was reclaimed.
An error may be final although the policy would retry it (`Finality`): `reset_for_retry` gives up
when the dispatcher has not yet marked the Outbox record of the current Attempt.

That this is a fair summary of `RunLifecycle` is not left to the reader. `RunMoves` is the
specification whose steps are the moves of `RunRow`, with nothing else around them; `RunLifecycle`
implements it (`ImplementsMoves`, with `RowOfRun` as the refinement mapping: RETRY_WAIT is mapped to
"queued", both waits to "waiting", the list of Attempts to its last member), and so does the Run of
each business module and of an agent Turn. `AgentToolCalls` and `SandboxWorkspace` reduce the Run
further, to its status, and are not refined.

* `ReviewSources`: `setup` is what the request fixed (version, selected papers, whether arXiv is
  searched, which candidate is a file the Project has); `review` the rows of the Review, `library`
  the ingestion of each file. Actions: the strategy, `Search`, `PauseForSelection` and `Submit`, the
  download and registration of each source, the wait for ingestion, and both branches of the
  dependency reconciler. `PassCheck` is the unlocked look at the Run before each source; what is written
  after it does not look again. `Reconcile` has the conditions on Step and stage and the minimum of
  READY papers (`MinimumReady`), and a child Run may stay CANCEL_REQUESTED for ever.
* `ReviewGraph`: `ckpt` is the latest checkpoint, `work[w].state` the graph state of a worker. A node is
  a few transactions; `SaveCheckpoint` follows in a transaction of its own (external: LangGraph).
  `ReadInput`, `ReadStage` and `FindThread` are the three reads that decide whether the graph gets a
  Command with the answer, goes on from its checkpoint or starts; the answer is the latest of any kind,
  which in review.v2 may be the selection of the sources. `LoadContext` and `EnsureStep` are the
  unlocked and the locked half of a section's beginning; `Submit` is the person. The matrix, the
  outlines, the sections, both checks and the export are written as their services write them, with
  replays found by idempotency key.
* `PaperPipeline`: `upload` and `record` are requests and their keys, `paper` the rows of one file,
  `run` the ingestion and the indexing Run. `ReadUpload`, `ReuseVersion`, `CreateVersion`, each with the
  unique constraints it may meet;
  `ReadRevision` and `Prepare` (which read and write the revision on both sides of the lock),
  `Parse`, `Progress`, `CommitSuccess`, `MarkParseFailed`; `PrepareIndex`, `CountChunks`,
  `CommitChunks`, `ListPending`, `SaveEmbeddings`, `CommitReady`, `MarkIndexFailed`; `Abort` is the
  end of a database deadlock (external).
* `RagConversation`: `post` is a request with what it read, `conversation`, `messages`, `record` and
  `result` are rows, `project` the library. `ReadPost` and `WritePost` are the reads and the writes of
  `post_message`; `Search`, `CommitEvidence`, `Generate`, `InvalidOutput`, `CommitAnswer` the executor.
  A version stands for its one chunk, its Evidence and the citations of it. `_begin_retrieval` and
  `_begin_generation` write an Event and end a cancelled Run, exactly as the transaction after them
  does, and are part of its action. `Index` gives a version its READY ChunkSet and takes it back, as a
  late indexing worker may.

## Runs

| Run | Checks | Instance (distinct states) |
|---|---|---|
| `run_safety` | `TypeOK`; `LogContiguous`; `LogDeterminesStatus`; `AttemptsMatchLog` (Attempts and `run_started` Events correspond in order, an Attempt left RUNNING can be classified from the log, and the claims stay within the budget of Attempts and pauses); `RetryWillBeDelivered` (a Run in RETRY_WAIT has a pending record); `ImplementsDomain` and `ImplementsMoves` (the machinery implements `RunDomain` and `RunMoves`) | 2 workers, 1 dispatcher, 2 attempts, 1 pause, 1 fault (392k) |
| `run_liveness` | `AttemptsClose`, `CancelConverges` for executors that raise | 1 worker, 1 dispatcher, 1 pause, 1 progress Event, 1 fault (130k) |
| `agent_runtime` | `PermitsDistinct` (two workers never hold the same token), `OnlyHolderWrites`, `AnswerIsRuntimeResult`, `TurnEnds` (unless it stays queued because no worker is given it; a cancelled one ends as cancelled) | 2 workers, 2 Attempts, 2 steps, 1 crash (253k) |
| `tool_calls` | `ToolsRunOnce` (a plain tool once, any other only on a committed attempt of its effect), `SuccessIsStored`, `BudgetKept` (replays cost nothing, no limit is passed), `ArtifactsDelivered` (a committed answer comes with its files) | 2 workers, 2 Attempts; six Turns to choose from (2.4M) |
| `sandbox_turns` | `OnlyCommittedFiles`, `StableVersions` (gapless; a Snapshot keeps the files of an earlier one that was staged in its sandbox or from which that was restored; the Snapshot of a finished Turn is publishable) across Turns and Attempts | 2 workers, 2 Turns, 3 starts, 2 sandboxes (5.6M) |
| `sandbox_cleanup` | `SandboxesMatchRows` (a valid Lease that is not disowned has a living sandbox, a finished cleanup none), `CleanupConverges` | 1 worker, 2 cleaners, 1 sandbox, 3 claims (427k) |
| `agent_session` | `ControlExcludesTurns` (and one unfinished Turn), `HistoryInOrder` (with one Turn per key), `AttachmentsReadable`, `OneViewer` (and one closing Event), `ControlEnds` (and the connections with it) | 3 requests, 2 uploads, 2 viewers, 2 Turns, 2 controls, in three kinds of behaviour (641k) |
| `review_sources` | `OnlySelectedImported`, `SettledIsFinal`, `WaitsEnd` (and the sources of a cancelled Review are settled), unless the ingestion of a source never ends | 2 workers, 2 Attempts, 2 candidates, 1 paper of the Project, both versions (1.0M) |
| `review_graph` | `SectionsFromApproved`, `OneQuestion`, `EventsMatchFacts` (and a successful Review is complete), `ReviewProceeds` (ends or asks, unless it stays queued) | 2 workers, 2 Attempts, 1 paper, 1 section, 2 outlines and an edit, both versions (1.2M) |
| `paper_pipeline` | `OneVersion`, `IngestedOnce`, `ReadyIsComplete`, `PipelineEnds` (unless a Run stays queued, or its executor failed after a cancellation was requested) | 2 uploads with one key or two, 2 workers, 2 Attempts, documents of 0 and 2 batches (790k) |
| `rag_answers` | `AnswersFollow` (with one active Run), `CitationsInScope`, `OneQuestionPerKey` | 2 posts with one key or two, 2 workers, 2 Attempts, 1 paper with 2 versions, 1 change of the library and its undoing (4.4M) |
| `review_feedback` | `FeedbackIsServed`, expected to be violated; see [below](#where-the-code-and-its-documents-disagree) | 1 worker, review.v2 |

Every module states its types in `TypeOK`. Only that of `RunLifecycle` is among the properties of a
run; the others are part of the inductive invariants, and were confirmed on the same instances.

`RetryWillBeDelivered` holds with one dispatch loop and not with two; `CancelConverges` holds for
executors that raise and not for those that commit their own failure. The instances that show it
are described with the disagreements.

Deadlock is not checked: a Run that is final, a Turn that ended or a Session without a
further Turn really stops.

## Bounds

* **Two workers** are what it takes for a stale and a current one; **two dispatchers** only
  appear in the run that shows their race, because with them the code does not keep
  `RetryWillBeDelivered`.
* **MaxRunAttempts = 2** reaches the first Attempt, a retry and the exhausted budget;
  `MaxOutboxAttempts = 2` a delivery failure that is retried and one that is final.
* **MaxPauses, MaxProgress, MaxFaults** bound what users, executors and the environment may
  repeat. A fault comes on top of the errors an executor may raise in every Attempt, so one is
  enough for a failed Attempt followed by a crashed one. Progress Events are left out of
  `run_safety` (with one the instance has 2.4 million states and satisfies the same properties);
  the theorems cover any number.
* **Steps = 2** has a confirmed step before the last one, and two Attempts an owner that lost its
  lease beside one that took over.
* **MaxSandboxes** bounds creation; when it is used up, acquisition stops. Two allow a
  rotation or a loser of the compare-and-set. **MaxClaims** bounds claims of one cleanup; the
  last one is not disturbed by a crash or an error of the Provider.
* **MaxStarts** is 3 in `sandbox_turns` and bounds the number of a Turn plus its Attempts so far: the
  first Turn may be tried twice, the second, which follows whatever the first left, once. A third Turn or
  a retry of the second is beyond the instance; the theorems cover them.
* **MCBounds** (`agent_session`) lets one behaviour use either two controls with two moves of the
  Lease, or three messages (one a double click) with a revision of each profile, or two uploads:
  the parts meet in the Turn, which all of them have.
* **Contents**, **MaxArtifacts** (`tool_calls`): two contents tell a replaced file from a repeated
  one, and one Artifact is a limit that a second candidate meets.
* **MaxOutlines = 2** has a first outline, one after feedback, and room for an edit of either; **one
  paper and one section** keep the graph small, because papers and sections are handled by a loop
  whose iterations are keyed apart. **SourceLimit = 2** can be passed by two candidates and a paper.
* **Lengths = {0, 2}** (`paper_pipeline`) has a document without text and one of two batches, so that
  a worker can die between them.
* **MaxChanges = 1** (`rag_answers`) counts what leaves (a paper, a Project, a version that gets its
  index); coming back is free, so that a paper can be replaced by its other version during a Run.
* In the business modules a new Attempt takes the first idle worker, which removes the symmetry of
  workers without a SYMMETRY set, and **MaxAttempts = 2** is the retry budget.
* Symmetry over workers is used only where no liveness property is checked.

## Fairness

Nothing obliges a worker to take a queued Run. `arq_run_queue.py` counts a delivery that meets the
ending job of the previous Attempt as accepted, and an Outbox record may use up its attempts (see
[disagreements](#where-the-code-and-its-documents-disagree)), so no specification assumes that a Run
is delivered: `RunLifecycle` has a worker pick a job that exists, the other modules have no fairness of
the start of an Attempt, and a liveness property that depends on a delivery says so in its formula:
`TurnEnds`, `ReviewProceeds` and `PipelineEnds` hold "unless the Run stays queued for ever".

* `RunLifecycle`: weak fairness of `Reconcile`, because `worker.py` polls for ever; of each
  `Execute(w)`, because ARQ runs a picked job to its end or cancels it after `job_timeout`;
  of the lapse of a lease that no worker renews, because a clock goes on. Nothing is assumed
  of users, of dispatch, of the executor's choices, of progress or of faults.
* `AgentRuntime`: weak fairness of each `Work(w)`, what a worker does with the Run it has taken, for
  the same reason, and of reclaiming a Run whose Attempt no worker is executing.
* `SandboxWorkspace`: weak fairness of each `Clean(k)`, the cleanup loop. A crash or an error
  of the Provider is a step of its own, bounded by `MaxClaims`: without the bound the Provider
  may fail for ever, and nothing in the code helps against that.
* `AgentSession`: weak fairness of each `FenceGuard(v)`, a loop of the gateway, and of `GetControl`,
  which the page polls and which closes an expired control. Nothing is assumed of people or Turns.
* `ReviewSources`, `ReviewGraph`, `PaperPipeline`: weak fairness of each worker's steps until it
  crashes and of reclaiming an overdue Attempt; `ReviewSources` also of the two dependency
  reconcilers. Crashes are not bounded: the Attempts are. Nobody has to answer a request, and no
  ingestion has to end: `WaitsEnd` has the ingestion that never ends as its exception, because
  `PipelineEnds` shows two ways in which one may not (a lost delivery, and a failure after the
  cancellation was requested).
* `RagConversation` is checked for safety only.

## Proofs

The theorems hold for every value of the constants that satisfies the assumption of the module:
any number of workers, requests, calls, Turns, attempts, crashes and so on. The bounds of the
instances are gone; what is left of them are the limits the code itself has.

| Module | Theorem | States |
|---|---|---|
| `RunLifecycleProofs` | `TypeCorrect` | `Spec => []TypeOK` |
| | `LogIsContiguous` | `Spec => []LogContiguous` |
| | `RefinesDomain` | `Spec => ImplementsDomain` |
| | `RefinesMoves` | `Spec => ImplementsMoves` |
| | `RunKeepsPromises` | `Spec => Moves!PromisesKept`: a final status is final, a requested cancellation never becomes a result or a retry, Attempts are numbered without a gap, a retry is within the budget |
| | `LogReplaysStatus` | `Spec => []LogDeterminesStatus` |
| | `AttemptsAreLogged` | `Spec => []AttemptsMatchLog` |
| | `RetryIsDelivered` | `Spec => []RetryWillBeDelivered`, from `OneDispatcher` |
| `AgentRuntimeProofs` | `RuntimeInvariant` | `Spec => []RuntimeInv` |
| | `NoSharedPermit` | `Spec => []PermitsDistinct` |
| | `AnswerIsResult` | `Spec => []AnswerIsRuntimeResult` |
| | `HolderWrites` | `Spec => OnlyHolderWrites`, an action property |
| | `TurnRunMoves` | `Spec => Moves!Spec` |
| `AgentToolCallsProofs` | `CallsInvariant` | `Spec => []CallsInv` |
| | `ToolsNeverRepeat` | `Spec => []ToolsRunOnce` |
| | `BudgetHolds` | `Spec => []BudgetKept` |
| | `SuccessesAreStored` | `Spec => []SuccessIsStored` |
| | `AllArtifactsOrNone` | `Spec => []ArtifactsDelivered` |
| `SandboxWorkspaceProofs` | `WorkspaceInvariant` | `Spec => []WorkspaceInv` |
| | `LeasedSandboxExists` | `Spec => []SandboxesMatchRows` |
| | `FailedTurnsLeaveNothing` | `Spec => []OnlyCommittedFiles` |
| | `PublishedInOrder` | `Spec => []StableVersions` |
| `AgentSessionProofs` | `SessionInvariant` | `Spec => []SessionInv` |
| | `PersonOrAgent` | `Spec => []ControlExcludesTurns` |
| | `PromisesKept` | `Spec => []AttachmentsReadable` |
| | `OneConnection` | `Spec => []OneViewer` |
| | `HistoryReads` | `Spec => []HistoryInOrder` |
| `ReviewGraphProofs` | `ReviewInvariant` | `Spec => []ReviewInv` |
| | `DraftedAsApproved` | `Spec => []SectionsFromApproved` |
| | `OneOpenQuestion` | `Spec => []OneQuestion` |
| | `EventsTellFacts` | `Spec => []EventsMatchFacts` |
| | `NothingTakenBack` | `Spec => [][Grows]_vars` |
| | `SourcesInvariant` | `Src!Spec => []SourcesInv`, if `SourcesConstants` |
| | `SelectedOnly` | `Src!Spec => []Src!OnlySelectedImported`, if `SourcesConstants` |
| | `SettledStays` | `Src!Spec => Src!SettledIsFinal`, if `SourcesConstants` |
| | `ReviewRunMoves` | `Spec => Row!Spec`, `Row` being `RunMoves` |
| | `SourcesRunMoves` | `Src!Spec => Row!Spec`, if `SourcesConstants` |
| `PaperPipelineProofs` | `PipelineInvariant` | `Spec => []PipelineInv` |
| | `OneFileOneVersion` | `Spec => []OneVersion` |
| | `IngestionIsOnce` | `Spec => []IngestedOnce` |
| | `ReadyMeansComplete` | `Spec => []ReadyIsComplete` |
| | `PipelineRunMoves` | `Spec => \A kind \in Kinds : Moves(kind)!Spec` |
| `RagConversationProofs` | `ConversationInvariant` | `Spec => []ConversationInv` |
| | `KeysAreOneQuestion` | `Spec => []OneQuestionPerKey` |
| | `CitationsStayInScope` | `Spec => []CitationsInScope` |
| | `AnswersFollowQuestions` | `Spec => []AnswersFollow` |
| | `AnswerRunMoves` | `Spec => \A r \in Requests : Moves(r)!Spec` |

Every module follows one plan: an inductive invariant as a conjunction of named parts, which TLC
confirmed on the instance of the run; lemmas on what an update of one row or one record leaves
alone; one lemma per action (or per group of actions that write the same things); and one lemma that
puts them together along `Next`. The fairness of `Spec` is never used.

### The assumptions

The `ASSUME`s of the modules ask that the limits are natural numbers, that "nobody" is not a worker,
and that what a Turn asks for is a finite set of calls. Four are worth a word.

* `CallsAssumption`: calls with one signature have one kind, because
  `count_tool_calls_by_signature` compares the name of the tool and the hash of its arguments, and
  the name fixes the kind.
* `GraphAssumption` and the others that number workers or requests do so to let the first idle one
  act; nothing else depends on the numbers.
* `OneDispatcher` is no assumption of a module but a hypothesis of `RetryIsDelivered`: one process with
  one dispatch loop, which is how `deploy/compose/compose.yml` starts the worker (one container). With a
  second loop the property is false (see [disagreements](#where-the-code-and-its-documents-disagree)).
* `SourcesConstants` repeats `SourcesAssumption`: `ReviewGraphProofs` instantiates `ReviewSources` as
  `Src`, and the assumption of an instance is not a fact where it is instantiated. TLC evaluates the
  original on the run `review_sources`.

### RunLifecycle

Of all the actions, only a few kinds of write reach the rows `runs` and `events`: nothing, the
creation, a transition with its Event under the lock, a note under the lock, the claim of `_start`
and the requeue of `_prepare_run`. The lemma `NextIsRowStep` shows it by going through every action
once; everything about the log is then proved for these six kinds.

`LogContiguous` is not inductive: `_start` and `_prepare_run` write a sequence number they read
earlier. `LogInv` adds what makes the write harmless: `ReadsNotAhead` says the number may be stale
but never lies ahead of the row. A stale number is below `event_sequence`, hence by contiguity
already taken, and the unique constraint on `(run_id, sequence)` refuses the insert; so an insert
that passes has the number that is due (`EmitIsNext`). `NothingBeforeCreation` says that no
worker, dispatcher or job refers to a Run that was not created, which the claim needs.
`RefineInv` adds that `events` is a sequence, so that an insert is an `Append`; `StatusInv` adds
`LogDeterminesStatus`.

`AttemptsMatchLog` needs the history between two starts: `ReleasesExplained` keeps, for every Attempt
that has a successor, an Event that explains its end, and `LatestExplained` the same for the last one
as soon as the Run may be claimed again. A claim turns the second into the first. The budget in it
follows from the failure policy, which compares the number of Attempts before it puts a Run back, so
that a Run that can be claimed has an Attempt left or was paused. For
`RetryWillBeDelivered`, `DeliveryFollows` says that a loop which is under way holds a pending record
and is not past the requeueing while the Run waits for a retry; only another loop could break it.

What the theorems rest on is therefore visible: the unique constraint, the conditional updates on
the status, and that every transition writes the Event of its status. Dropping one of them is a
mutant that TLC refutes.

### RunMoves and the modules that implement it

`RefinesMoves` needs no more than the types: every write of the status is conditional on the status
read in the same transaction, or, for the two stale reads, on the one read before, so each action is
a move of `RunMoves` or leaves the row alone, one lemma per kind of write. `RunKeepsPromises` is then
a consequence of `RunMoves` by itself (`MovesPromise`: each move keeps `Promise`) and of the
refinement. The promises are the part of the failure policy, the cancellation and the claim that users
and the other modules rely on, whichever interleaving of workers, dispatchers and reconcilers leads there.

The theorems `TurnRunMoves`, `ReviewRunMoves`, `SourcesRunMoves`, `PipelineRunMoves` and
`AnswerRunMoves` close the circle. The business modules do not instantiate `RunLifecycle` but a row
that "somebody" starts, cancels and reclaims; these theorems show that such a row never does what
`RunMoves` does not allow, as `RunLifecycle` does not. In `PipelineRunMoves` the two Runs of a file
are two rows; in `AnswerRunMoves` a Run that a request has not yet created counts as a new one. In an
agent Turn the own Attempt of an executor may not be the latest one: an executor that raises then fails
the Run and leaves the newer Attempt open (`MarkFailed`), and one that returns closes nothing.

### AgentRuntime

`PermitsDistinct` alone says nothing about the token that is handed out next. `FencesBelowRow` says
that no permit is ahead of the row and that a permit with the fence of the row belongs to the owner
of the row, so a claim that changes the owner makes a number nobody has. `StepsFollow` says that what a
worker is about to finalize is a complete checkpoint of the thread, wherever it was found:
`AnswerIsRuntimeResult` is then proved about the checkpoint that the RuntimeExecution names, not about the
latest. `HolderWrites` goes through the actions once more: whoever passes `assert_active` is the
holder itself.

### AgentToolCalls

`PcsFollow` keeps the tasks of each kind of tool apart. `PlainFollows` says of a tool without a stored
result that at most one task is between the claim of its row and its call; `EffectsFollow` that the
task which began an attempt of an effect is alone in it, and that a task about to call the tool has an
attempt that is not used up: a resumed Turn begins a new attempt only after the old one has left
RUNNING. `BudgetKept` is inductive by itself once a reservation is known to be new. `ResultsFollow`
carries a result from the effect row to the usage ledger, past the transaction in between.
`CandidatesFollow` says that a file is in Storage before its Candidate exists, and
`ArtifactsDelivered` that Candidates change their status with the Run and at no other time.

### SandboxWorkspace

`LeaseFollows` and `CleanupsFollow` keep a sandbox that is to be cleaned up apart from the one in the
Lease row. The difficulty is the worker that holds neither: it creates a sandbox, loses the
compare-and-set and destroys what it made, or wins and destroys what it replaced, both on the strength
of a row it read before. `AcquireFollows` says what such a worker knows (`Known`: a fence stands for one
sandbox and one holder and never comes back) and that nobody else touches what it has created;
`DiscardFollows` that what a worker gives up is not leased, or only by a Lease it disowned itself;
`HoldFollows` that a worker which still writes to the leased sandbox works for its holder or for a Turn
that was published. `SnapshotsFollow` numbers the Snapshots: that of the latest Turn continues the
STABLE ones until it is one of them.

That a Snapshot keeps the files of those it descends from needs a second layer on top (`KeepsInv`): a
sandbox keeps the files of the version it was restored from, a Snapshot was made of what is still in
its sandbox, and so was the list of a worker that is about to stage one. It is preserved because
sandboxes only gain files and a version is published only as the next one.

### AgentSession

`HistoryGrows` says that the last message belongs to the unfinished Turn, so that an answer lands
directly behind its question, and that posted Turns and idempotency records come in pairs.
`SlotHeld` ties a connection that was let in to the slot in the control row; `BlobWritten` orders an
upload before its row.

### ReviewGraph

No transaction asks for its Attempt, so the proof cannot say who may write; it says what no write
takes back. `Grows` lists it: Steps that succeeded, the approved outline, sections, report, files.
Whatever a worker relies on (`WorkFollows`) is of this kind and so survives the steps of all other
workers (`WorkStays`), and one lemma per action is left, about the worker that acts. Most actions are
`Quiet`: they write no Event and complete no Step. Those that complete one are `Silent`: they leave
alone what a person is asked or has decided. Only `PauseForReview` and `Submit` are about the outline.
`NothingTakenBack` states `Grows` for every step of the system: no replayed node, stale worker or later
decision undoes a Step that succeeded, an approval, a section, the report or a file.

`RequestsFollow` says that a person decides once. The Step of the review succeeds with the decision,
and a request is made only while that Step may still pause; so the outline that is current when the
Step has succeeded is the approved one, which is what `_load_context` of the sections compares with.
`StepsFollow` is the chain of the Steps that `EventsMatchFacts` needs at its end: a Step succeeds on
top of the one before it, also when a stale worker completes it. `GraphFollows` carries the fact that
bounds the rounds: in review.v1 the round of a proposal is the version of the outline it answers, which
a person may send back only below the bound, and in review.v2 no feedback passes the comparison of
`_load_context` at all (the disagreement `review_feedback` shows). `FirstOfFinite`, that finitely many numbers
have a first one, is derived from the well-foundedness of finite subsets, because an induction over
their number is out of reach.

### ReviewSources

No transaction of the import asks whether its candidate was selected; that must follow from the order
of things. `Found` says that no search is to come any more, `Listed` that in addition every candidate
not yet started was selected. Neither is ever taken back: only `PersistSearch` adds candidates, and
the worker that is about to do so in a Review of version 2 contradicts `Found` unless the search was
completed by another one, in which case it adds nothing. `TaskFollows` then says of every worker on
its way to a download that `Listed` holds, however old its list is, and `SelectionFollows` the same
of a Run that waits for papers, because the reconciler fails what nobody has started. All actions but
the search, the pause and the selection are `Drifts`: they move sources one way only, which is also
`SettledIsFinal`. The bound on the sources is carried from the moment of the selection, where `submit`
counts the chosen candidates and the selected papers together (`SelectionFollows`, last line).

### PaperPipeline

`VersionFollows` is the pair of unique constraints: a version exists as soon as some record says
"created", and only one does. `RevisionFollows`, `ChunksFollow` and `WorkFollows` say what a worker
may still believe of what `_prepare` read before the lock: that chunks are stored all or none, and
that a worker about to mark the ChunkSet READY has seen every embedding.

### RagConversation

`OneActive` says that a post which saw a finished Run in the conversation was right for good, so its
compare-and-set replaces nothing that is active. `ThreadFollows` says that the thread ends with the
question of the active Run, which is why the answer stands behind it; `WorkFollows` that what a
worker is about to commit cites Evidence of its own Run, whichever Attempt retrieved it.

### Only model-checked

* `FeedbackIsServed`, which is false in review.v2.
* All liveness properties, and with them the parts of the models that exist for liveness: fairness
  and ENABLED are out of the prover's reach.

## Where the code and its documents disagree

One is a run of its own; `PROJECT.json` quotes the document.

| Run | Property | What TLC shows |
|---|---|---|
| `review_feedback` | `FeedbackIsServed` | in review.v2 the outline requests are numbered from 2 (the selection of sources was request 1), feedback rounds from 1; `_load_context` compares them (`review_outline_service.py:366`) and refuses every feedback permanently, where `phase-03-review-workflow.md:112` says that the outline is generated again |

The following behaviours are in the models as the code has them. Each was confirmed with TLC by
stating the sentence of the document as a property of the module (for the first four, instances of
`RunLifecycle` with two attempts; the third needs two dispatchers, the fourth
`MarksOwnFailure = TRUE` and fairness).

* A delivery that meets the ending job of the previous Attempt counts as accepted: the Outbox is
  dispatched, the Run QUEUED, and no job will execute it (`queue-outbox.md:103`).
* A worker whose Attempt was reclaimed commits once a newer Attempt has made the Run RUNNING again
  (`queue-outbox.md:110`).
* With two dispatch loops a late `try_mark_dispatched` marks the record of the next delivery; the Run
  stays in RETRY_WAIT (`queue-outbox.md:79`).
* `_mark_failed` and `_apply_failure` of the ingestion, indexing and RAG executors return when a
  cancellation was requested; the Attempt is closed and nobody ends the Run (`document-parsing.md:37`).
  A conversation with such a Run stays busy.
* The effect of a failed tool call is retried and succeeds, and the usage ledger refuses the success
  (`agent-mcp-configuration.md:79`).
* A Review whose worker dies after all selected candidates were registered and before it waits fails
  as one without papers (`review_executor.py:154`); `domain/exceptions.py:76` and
  `review-artifact-generation.md:90` reserve that for no result or only failed sources.
* A late `_prepare` or `_mark_failed` of the indexing executor turns a READY ChunkSet into one that is
  not; `chunk-and-indexing.md:29` makes READY final. Uploading a file whose ingestion failed
  returns its version and starts nothing.
* A published version of the workspace can lose the files of an earlier one, though a WorkspaceSnapshot
  is to keep them across Turns (`literature-review-agent-system-implementation-guide.md:721`): an
  Attempt stages the Snapshot of its Turn and crashes; its retry gets another sandbox, restored from
  the version before, resumes from a checkpoint that has the answer already, and `stage_snapshot`
  returns the Snapshot that is there (`sandbox_workspace.py:496`). The next Turn takes the new sandbox
  for the published version, because `_previous_holder_is_stable` (`:465`) does not compare its
  generation with the one of the Snapshot, and works and publishes without those files. TLC shows it
  in `SandboxWorkspace` with one worker, two Turns and three starts; with the comparison the
  instance of `sandbox_turns` has no such behaviour. `StableVersions` therefore promises the files of
  an earlier version only where the sandbox descends from it.
* A wait for papers may last for ever, though `review-dependency-reconciliation.md:59` wants no endless wait: a
  child whose Run stays CANCEL_REQUESTED, or whose delivery was lost, counts as one that is still going
  on (`review_dependency_service.py:48-53, 539-540, 569-570`). `WaitsEnd` without its first disjunct is
  violated.
* In review.v2 a worker may feed the selection of the sources to the outline's Interrupt:
  `_latest_input` returns the resolved HumanInput of any kind (`review_repository.py:905-927`), and a
  worker whose Attempt was reclaimed reads the stage after its successor has paused at the outline
  (`review_executor.py:213-221`). The node refuses it for good, but its checkpoint is saved: the answer
  of the person is applied to a thread that no longer waits for one, and the Run fails.
* If a worker dies after it has committed the pause at the outline and before LangGraph has saved the
  checkpoint, the Run cannot go on: with the answer of the person the proposing node runs again, and
  `_load_context` refuses it for good because there is an outline already
  (`review_outline_service.py:344-364`: round 0 wants none, a later round the one it answers).
  `human-outline-review.md:68` has that crash among those the Run survives. TLC needs one worker. The
  same end awaits a Run whose thread a late worker restarts: one that found no checkpoint
  (`has_checkpoint` is a read of its own) writes the initial state over that of its successor.
* A worker of an agent Turn that read no RuntimeExecution claims it after another one has begun and lost
  its lease. It looks for a checkpoint of its own new fence only
  (`deep_agents_research_agent_runtime.py:754-771`), finds none and starts the graph again behind the
  checkpoints that exist; the docstring of `_run_fresh_graph` (`:779`) says only without any.
* If the commit of a new Lease succeeds but the worker is cancelled or loses the connection before it
  knows, `acquire` destroys the sandbox of the Lease it has just committed (`sandbox_workspace.py:403-422`).
  The ACTIVE Lease names a sandbox that is gone, and the Session's Turns fail until it expires.
* The reconciler settles the sources of a Review that is CANCELLED already and appends
  `review_source_ready` or `review_source_failed` behind `run_cancelled`
  (`review_dependency_service.py:225-229, 287-311`); a client that closes its stream at the final Event
  (`run-event.md:85`) does not see them.
* When the fence of the sandbox moved after a file was submitted, the publisher rejects the candidate
  on every retry (`agent_artifact_publisher.py:53`).
* `archive_project` looks for active Runs and writes without a lock that `post_message` takes: a
  question posted in between runs in an archived Project (`project.md:31`).

Three more differences of this kind:

* `apply_run_failure` compares the budget with the number of all Attempts, paused ones included
  (`failure_policy.py:82`); `queue-outbox.md` and `human-outline-review.md` say pauses do not count.
* `_latest_checkpoint_for_record` takes the latest checkpoint whatever its fencing token
  (`deep_agents_research_agent_runtime.py:1330`). With three Attempts, a late checkpoint of the
  first owner makes the third resume before a step that the record confirms;
  `agent-runtime-execution-recovery.md` says confirmed steps are not replayed.
* A retry of a Turn whose Lease is DIRTY rotates generation and fence
  (`sandboxed_research_agent_runtime.py:296`); `agent-sandbox-workspace.md` says a retry keeps them.

## Not modelled

* **Data.** Prompts, answers, citations, schemas, file names, hashes, sizes and wording; a limit
  that is violated is a nondeterministic permanent error.
* **Time.** A lease is fresh or not; backoff, timeouts and due times are nondeterministic choices.
* **Read-only queries, creation of single rows** (projects, evidence queries, listings): no state that
  several actors change.
* **Adapters** (parsers, storage, model providers, HTTP): I/O; their failures are choices of the
  modules that call them. Static catalogues of Skills and MCP servers.
* **Row locks.** A transaction is one action, so waiting for a lock does not show; where two
  transactions lock in different orders, the abort of one is an action (`PaperPipeline`) or changes
  nothing (`AgentSession`).
* **Finer file writes**: a late write of a stale worker of the same Turn into a sandbox whose
  Snapshot is staged is not told apart from an earlier write of that Turn.
* **Model calls of an agent Turn**: reservations and token counts of the usage ledger.
* **arXiv import without a Review**, the **event stream** and its merge in the browser, and the pure
  algorithms (chunk building, rank fusion, retry delays).

## Plan

1. `EventStream`: replay and live Events with lost notifications, and the merge in the browser,
   against an abstract in-order delivery.
2. `ModelCalls`: reservations and token counts of the usage ledger.
3. Pure algorithms against reference definitions: rank fusion, chunk building, retry delays.
