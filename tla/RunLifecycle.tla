----------------------------- MODULE RunLifecycle -----------------------------
(***************************************************************************)
(* One Run, from the request that creates it to its final status: the Run  *)
(* row and its Events, the Outbox record, the Attempts, the ARQ job, the   *)
(* workers that execute it, the dispatch loops, the reconcilers and the    *)
(* user's requests. Rows of different Runs never share state in this code, *)
(* so one Run is enough.                                                   *)
(*                                                                         *)
(* A transaction that takes the row lock (SELECT ... FOR UPDATE) is one    *)
(* action. RunExecutionService._start and OutboxDispatchService            *)
(* ._prepare_run read the Run WITHOUT the lock and then issue a            *)
(* conditional UPDATE: each of those is two actions, and the values read   *)
(* by the first are kept, possibly stale, for the second.                  *)
(***************************************************************************)
EXTENDS RunStates, Sequences

CONSTANTS
  Workers,            \* concurrent executions of ARQ jobs
  Dispatchers,        \* dispatch loops, one per worker process
  MaxRunAttempts,     \* AGENT_MAX_RUN_ATTEMPTS
  MaxOutboxAttempts,  \* AGENT_OUTBOX_MAX_ATTEMPTS
  MarksOwnFailure,    \* does the executor commit failures itself (_mark_failed)?
  MayPause,           \* does the executor wait for dependencies or input?
  MaxPauses,          \* bound: pauses of one Run
  MaxProgress,        \* bound: progress Events of one Run
  MaxFaults           \* bound: crashes, timeouts, shutdowns and queue errors

ASSUME ConstantsAssumption ==
  /\ MaxRunAttempts \in Nat \ {0}
  /\ MaxOutboxAttempts \in Nat \ {0}
  /\ MarksOwnFailure \in BOOLEAN /\ MayPause \in BOOLEAN
  /\ MaxPauses \in Nat /\ MaxProgress \in Nat /\ MaxFaults \in Nat

VARIABLES
  run,         \* the runs row: status and event_sequence
  events,      \* the events rows: a function from sequence to type
  outbox,      \* the queue_outbox row: status and attempt_count
  attempts,    \* the run_attempts rows in attempt_number order
  job,         \* the ARQ job with the stable id "run:<run_id>"
  worker,      \* what each worker is doing
  dispatcher,  \* what each dispatch loop is doing
  faults       \* faults so far, only to bound the model

vars == <<run, events, outbox, attempts, job, worker, dispatcher, faults>>

-----------------------------------------------------------------------------
(* Types *)

\* present: the job and its place in the queue exist; inProgress: the
\* in-progress key exists; tried: the retry counter is at least 1.
Job == [present: BOOLEAN, inProgress: BOOLEAN, tried: BOOLEAN]
NoJob == [present |-> FALSE, inProgress |-> FALSE, tried |-> FALSE]
NewJob == [present |-> TRUE, inProgress |-> FALSE, tried |-> FALSE]

\* fresh: heartbeat_at lies within the lease; start: the sequence of the
\* run_started Event written in the same transaction as the Attempt.
Attempt == [status: AttemptStatus, fresh: BOOLEAN, start: Nat]

WorkerPc == {"idle", "picked", "claiming", "executing", "raised", "returned",
             "closing", "finishing"}
Worker == [pc: WorkerPc, attempt: Nat, seq: Nat, close: AttemptStatus]
IdleWorker == [pc |-> "idle", attempt |-> 0, seq |-> 0, close |-> "running"]

DispatcherPc == {"idle", "listed", "requeueing", "enqueueing", "marking", "failing"}
Dispatcher == [pc: DispatcherPc, count: Nat, seq: Nat]
IdleDispatcher == [pc |-> "idle", count |-> 0, seq |-> 0]

TypeOK ==
  /\ run \in [status: RunRowStatus, seq: Nat \ {0}]
  /\ DOMAIN events \subseteq Nat
  /\ \A s \in DOMAIN events : events[s] \in EventType
  /\ outbox \in [status: OutboxStatus \cup {"absent"}, count: Nat]
  /\ attempts \in Seq(Attempt)
  /\ job \in Job
  /\ worker \in [Workers -> Worker]
  /\ dispatcher \in [Dispatchers -> Dispatcher]
  /\ faults \in Nat

Init ==
  /\ run = [status |-> "absent", seq |-> 1]
  /\ events = << >>
  /\ outbox = [status |-> "absent", count |-> 0]
  /\ attempts = << >>
  /\ job = NoJob
  /\ worker = [w \in Workers |-> IdleWorker]
  /\ dispatcher = [d \in Dispatchers |-> IdleDispatcher]
  /\ faults = 0

-----------------------------------------------------------------------------
(* Rows *)

\* Mutant: the constraint is missing.
NoConstraint(s) == TRUE

\* The unique constraint on (run_id, sequence).
Unique(s) == s \notin DOMAIN events

Insert(s, type) ==
  [x \in DOMAIN events \cup {s} |-> IF x = s THEN type ELSE events[x]]

\* UPDATE runs SET status, event_sequence = s + 1; INSERT INTO events (s).
Emit(s, status, type) ==
  /\ Unique(s)
  /\ run' = [status |-> status, seq |-> s + 1]
  /\ events' = Insert(s, type)

\* transition_to, update_status and one Event, in a transaction with the lock.
MoveTo(status, type) ==
  /\ <<run.status, status>> \in Transitions
  /\ Emit(run.seq, status, type)

Count(type) == Cardinality({s \in DOMAIN events : events[s] = type})
Pauses == Count("dependency_wait_started") + Count("human_input_requested")

Latest == Len(attempts)
UpdateRunning(k, status, fresh) ==
  [i \in 1..Latest |-> IF i = k /\ attempts[i].status = "running"
                       THEN [status |-> status, fresh |-> fresh, start |-> attempts[i].start]
                       ELSE attempts[i]]
FinishIfRunning(k, status) == UpdateRunning(k, status, TRUE)

UnchangedRun == UNCHANGED <<run, events>>

\* Locals that are not read again are cleared.
Step(w, pc) == worker' = [worker EXCEPT ![w].pc = pc]
CloseAs(w, status) ==
  worker' = [worker EXCEPT ![w] = [pc |-> "closing", attempt |-> worker[w].attempt,
                                   seq |-> 0, close |-> status]]
Leave(w) == worker' = [worker EXCEPT ![w] = [IdleWorker EXCEPT !.pc = "finishing"]]
DStep(d, pc) ==
  dispatcher' = [dispatcher EXCEPT ![d] =
    [pc |-> pc, count |-> IF pc = "marking" THEN 0 ELSE dispatcher[d].count, seq |-> 0]]
DIdle(d) == dispatcher' = [dispatcher EXCEPT ![d] = IdleDispatcher]

\* The named bound on faults.
Fault == faults < MaxFaults /\ faults' = faults + 1

-----------------------------------------------------------------------------
(* Requests, and the reconciler of a waiting Review *)

\* A service creates a Run to be delivered, here _create_indexing_run: one
\* transaction with the Run, run_created and the pending Outbox record.
CreateRun ==
  /\ run.status = "absent"
  /\ Emit(run.seq, "queued", "run_created")
  /\ outbox' = [status |-> "pending", count |-> 0]
  /\ UNCHANGED <<attempts, job, worker, dispatcher, faults>>

CancelTarget == IF run.status = "running" THEN "cancel_requested" ELSE "cancelled"

\* Mutant: the status is saved without its Event.
CancelSilently ==
  /\ run.status \notin FinalRunStatus \cup {"absent"}
  /\ <<run.status, CancelTarget>> \in Transitions
  /\ run' = [run EXCEPT !.status = CancelTarget]
  /\ UNCHANGED <<events, outbox, attempts, job, worker, dispatcher, faults>>

\* RunService.cancel_run.
CancelRun ==
  /\ run.status \notin FinalRunStatus \cup {"absent"}
  /\ MoveTo(CancelTarget, IF CancelTarget = "cancelled" THEN "run_cancelled"
                          ELSE "run_cancel_requested")
  /\ UNCHANGED <<outbox, attempts, job, worker, dispatcher, faults>>

\* WaitingRunResumeService.resume_in_session: without a dispatched Outbox
\* record schedule_again fails and the transaction is rolled back.
Resume ==
  /\ \/ run.status = "waiting_dependency" /\ MoveTo("queued", "dependency_wait_completed")
     \/ run.status = "waiting_input" /\ MoveTo("queued", "human_input_submitted")
  /\ outbox.status = "dispatched"
  /\ outbox' = [outbox EXCEPT !.status = "pending"]
  /\ UNCHANGED <<attempts, job, worker, dispatcher, faults>>

\* ReviewDependencyReconciler.reconcile_run: too few papers became ready, or a
\* requested cancellation has been waiting for it.
FailWaiting ==
  /\ run.status = "waiting_dependency"
  /\ MoveTo("failed", "run_failed")
  /\ UNCHANGED <<outbox, attempts, job, worker, dispatcher, faults>>

CancelReview ==
  /\ MayPause
  /\ run.status = "cancel_requested"
  /\ MoveTo("cancelled", "run_cancelled")
  /\ UNCHANGED <<outbox, attempts, job, worker, dispatcher, faults>>

\* The same: review_source_ready or review_source_failed of one source, in a
\* transaction with those of other sources and with what follows from them. A
\* cancelled Review has its sources settled, too.
NoteSource ==
  /\ MayPause
  /\ run.status \in {"waiting_dependency", "cancel_requested", "cancelled"}
  /\ Count(Note) < MaxProgress
  /\ Emit(run.seq, run.status, Note)
  /\ UNCHANGED <<outbox, attempts, job, worker, dispatcher, faults>>

-----------------------------------------------------------------------------
(* OutboxDispatchService *)

ListDuePending(d) ==
  /\ dispatcher[d].pc = "idle"
  /\ outbox.status = "pending"
  /\ dispatcher' = [dispatcher EXCEPT ![d].pc = "listed", ![d].count = outbox.count]
  /\ UNCHANGED <<run, events, outbox, attempts, job, worker, faults>>

\* _prepare_run, the unlocked read. A Run without a future is marked as
\* dispatched without being enqueued; a retry is requeued first.
PrepareRun(d) ==
  /\ dispatcher[d].pc = "listed"
  /\ \/ run.status \in FinalRunStatus \cup {"cancel_requested"} /\ DStep(d, "marking")
     \/ /\ run.status = "retry_wait"
        /\ dispatcher' = [dispatcher EXCEPT ![d].pc = "requeueing", ![d].seq = run.seq]
     \/ /\ run.status \notin FinalRunStatus \cup {"cancel_requested", "retry_wait"}
        /\ DStep(d, "enqueueing")
  /\ UNCHANGED <<run, events, outbox, attempts, job, worker, faults>>

\* _prepare_run, the conditional update RETRY_WAIT -> QUEUED with run_requeued.
\* A lost race is skipped; a duplicate sequence aborts the whole pass.
Requeue(d) ==
  /\ dispatcher[d].pc = "requeueing"
  /\ \/ /\ run.status = "retry_wait"
        /\ Emit(dispatcher[d].seq, "queued", "run_requeued")
        /\ DStep(d, "enqueueing")
     \/ /\ run.status # "retry_wait" \/ ~Unique(dispatcher[d].seq)
        /\ UnchangedRun
        /\ DIdle(d)
  /\ UNCHANGED <<outbox, attempts, job, worker, faults>>

\* ArqRunQueue.enqueue_run: an active job with the same id counts as accepted.
EnqueuedJob == IF job.present THEN job ELSE NewJob

EnqueueRun(d) ==
  /\ dispatcher[d].pc = "enqueueing"
  /\ job' = EnqueuedJob
  /\ DStep(d, "marking")
  /\ UNCHANGED <<run, events, outbox, attempts, worker, faults>>

\* enqueue_run raised: the queue was unreachable before or after the write.
EnqueueError(d) ==
  /\ dispatcher[d].pc = "enqueueing"
  /\ job' \in {job, EnqueuedJob}
  /\ DStep(d, "failing")
  /\ Fault
  /\ UNCHANGED <<run, events, outbox, attempts, worker>>

\* try_mark_dispatched, conditional on PENDING.
MarkDispatched(d) ==
  /\ dispatcher[d].pc = "marking"
  /\ outbox' = IF outbox.status = "pending" THEN [outbox EXCEPT !.status = "dispatched"]
               ELSE outbox
  /\ DIdle(d)
  /\ UNCHANGED <<run, events, attempts, job, worker, faults>>

\* _record_failure: record_dispatch_failure of the snapshot, saved
\* unconditionally.
RecordFailure(d) ==
  /\ dispatcher[d].pc = "failing"
  /\ LET count == dispatcher[d].count + 1
     IN outbox' = [status |-> IF count >= MaxOutboxAttempts THEN "failed" ELSE "pending",
                   count |-> count]
  /\ DIdle(d)
  /\ UNCHANGED <<run, events, attempts, job, worker, faults>>

\* The process dies, or the pass is aborted by an exception.
DispatcherCrash(d) ==
  /\ dispatcher[d].pc # "idle"
  /\ DIdle(d)
  /\ Fault
  /\ UNCHANGED <<run, events, outbox, attempts, job, worker>>

-----------------------------------------------------------------------------
(* ARQ (external) *)

\* A worker takes a queued job that is not in progress. max_tries = 1: a job
\* that was started before is discarded.
PickJob(w) ==
  /\ worker[w].pc = "idle"
  /\ job.present /\ ~job.inProgress
  /\ IF job.tried
     THEN job' = NoJob /\ UNCHANGED worker
     ELSE job' = [job EXCEPT !.inProgress = TRUE, !.tried = TRUE] /\ Step(w, "picked")
  /\ UNCHANGED <<run, events, outbox, attempts, dispatcher, faults>>

\* The coroutine returned or raised: every key of the job id is deleted.
FinishJob(w) ==
  /\ worker[w].pc = "finishing"
  /\ job' = NoJob
  /\ worker' = [worker EXCEPT ![w] = IdleWorker]
  /\ UNCHANGED <<run, events, outbox, attempts, dispatcher, faults>>

\* The task stops without running any further code of RunExecutionService:
\* after job_timeout the job is deleted, on a graceful shutdown it stays
\* queued, after a hard crash even the in-progress key stays.
JobTimeout(w) ==
  /\ worker[w].pc # "idle"
  /\ job' = NoJob
  /\ worker' = [worker EXCEPT ![w] = IdleWorker]
  /\ Fault
  /\ UNCHANGED <<run, events, outbox, attempts, dispatcher>>

Shutdown(w) ==
  /\ worker[w].pc # "idle"
  /\ job' = [job EXCEPT !.inProgress = FALSE]
  /\ worker' = [worker EXCEPT ![w] = IdleWorker]
  /\ Fault
  /\ UNCHANGED <<run, events, outbox, attempts, dispatcher>>

HardCrash(w) ==
  /\ worker[w].pc # "idle"
  /\ worker' = [worker EXCEPT ![w] = IdleWorker]
  /\ Fault
  /\ UNCHANGED <<run, events, outbox, attempts, job, dispatcher>>

\* The in-progress key lives for job_timeout + 10 s, longer than the lease. It
\* runs out when its holder is gone, or blocked for so long that the
\* heartbeat of its Attempt is stale.
Blocked(w) ==
  /\ worker[w].pc = "executing"
  /\ attempts[worker[w].attempt].status # "running" \/ ~attempts[worker[w].attempt].fresh

InProgressExpires ==
  /\ job.inProgress
  /\ \A w \in Workers : worker[w].pc = "idle" \/ Blocked(w)
  /\ job' = [job EXCEPT !.inProgress = FALSE]
  /\ UNCHANGED <<run, events, outbox, attempts, worker, dispatcher, faults>>

-----------------------------------------------------------------------------
(* RunExecutionService *)

\* _start, the unlocked read: anything but QUEUED is skipped.
StartRead(w) ==
  /\ worker[w].pc = "picked"
  /\ \/ /\ run.status = "queued"
        /\ worker' = [worker EXCEPT ![w].pc = "claiming", ![w].seq = run.seq]
     \/ run.status # "queued" /\ Leave(w)
  /\ UNCHANGED <<run, events, outbox, attempts, job, dispatcher, faults>>

\* Mutant: the Attempt is inserted before the conditional update.
ClaimAttemptFirst(w) ==
  /\ worker[w].pc = "claiming"
  /\ attempts' = Append(attempts, [status |-> "running", fresh |-> TRUE,
                                   start |-> worker[w].seq])
  /\ \/ /\ run.status = "queued"
        /\ Emit(worker[w].seq, "running", "run_started")
        /\ worker' = [worker EXCEPT ![w] = [pc |-> "executing", attempt |-> Latest + 1,
                                            seq |-> 0, close |-> "running"]]
     \/ run.status # "queued" /\ Leave(w) /\ UnchangedRun
  /\ UNCHANGED <<outbox, job, dispatcher, faults>>

\* _start, the conditional update QUEUED -> RUNNING with the Attempt and
\* run_started. A lost race is skipped; a duplicate sequence raises and ends
\* the job.
StartClaim(w) ==
  /\ worker[w].pc = "claiming"
  /\ \/ /\ run.status = "queued"
        /\ Emit(worker[w].seq, "running", "run_started")
        /\ attempts' = Append(attempts, [status |-> "running", fresh |-> TRUE,
                                         start |-> worker[w].seq])
        /\ worker' = [worker EXCEPT ![w] = [pc |-> "executing", attempt |-> Latest + 1,
                                            seq |-> 0, close |-> "running"]]
     \/ /\ run.status # "queued" \/ ~Unique(worker[w].seq)
        /\ Leave(w)
        /\ UNCHANGED <<run, events, attempts>>
  /\ UNCHANGED <<outbox, job, dispatcher, faults>>

\* _heartbeat_loop: record_heartbeat of a RUNNING Attempt.
Beats(w, k) == worker[w].pc \in {"executing", "raised"} /\ worker[w].attempt = k

Heartbeat(w) ==
  /\ \E k \in 1..Latest : Beats(w, k)
  /\ attempts[worker[w].attempt].status = "running"
  /\ ~attempts[worker[w].attempt].fresh
  /\ attempts' = UpdateRunning(worker[w].attempt, "running", TRUE)
  /\ UNCHANGED <<run, events, outbox, job, worker, dispatcher, faults>>

\* A lease's worth of time passes without a heartbeat.
LeaseLapses(k) ==
  /\ attempts[k].status = "running" /\ attempts[k].fresh
  /\ attempts' = UpdateRunning(k, "running", FALSE)
  /\ UNCHANGED <<run, events, outbox, job, worker, dispatcher, faults>>

(* The executor, between its first and its last transaction. *)

\* _emit_progress: a note under the lock. The executors check for a
\* requested cancellation before, not for RUNNING.
ExecProgress(w) ==
  /\ worker[w].pc = "executing"
  /\ run.status # "cancel_requested"
  /\ Count(Note) < MaxProgress
  /\ Emit(run.seq, run.status, Note)
  /\ UNCHANGED <<outbox, attempts, job, worker, dispatcher, faults>>

\* Mutant: the status is not read again before the commit.
CommitUnchecked(w) ==
  /\ worker[w].pc = "executing"
  /\ Emit(run.seq, "succeeded", "result_committed")
  /\ Step(w, "returned")
  /\ UNCHANGED <<outbox, attempts, job, dispatcher, faults>>

\* The last transaction of a successful execution (_commit_success).
ExecSucceed(w) ==
  /\ worker[w].pc = "executing"
  /\ run.status = "running"
  /\ MoveTo("succeeded", "result_committed")
  /\ Step(w, "returned")
  /\ UNCHANGED <<outbox, attempts, job, dispatcher, faults>>

\* ReviewDependencyWaitService.pause and the outline's human_input_requested.
ExecPause(w) ==
  /\ worker[w].pc = "executing"
  /\ MayPause /\ Pauses < MaxPauses
  /\ run.status = "running"
  /\ \/ MoveTo("waiting_dependency", "dependency_wait_started")
     \/ MoveTo("waiting_input", "human_input_requested")
  /\ Step(w, "returned")
  /\ UNCHANGED <<outbox, attempts, job, dispatcher, faults>>

\* _finalize_if_cancelled, at the start of each of the executor's transactions.
ExecFinalizeCancelled(w) ==
  /\ worker[w].pc = "executing"
  /\ run.status = "cancel_requested"
  /\ MoveTo("cancelled", "run_cancelled")
  /\ Step(w, "returned")
  /\ UNCHANGED <<outbox, attempts, job, dispatcher, faults>>

\* The executor finds the Run no longer RUNNING and returns.
ExecGiveUp(w) ==
  /\ worker[w].pc = "executing"
  /\ run.status \notin ExecutingStatus
  /\ Step(w, "returned")
  /\ UNCHANGED <<run, events, outbox, attempts, job, dispatcher, faults>>

\* Mutant: the Outbox record is not reset.
RetryWithoutReset(permanent) ==
  /\ IF ~permanent /\ Latest < MaxRunAttempts
     THEN MoveTo("retry_wait", "run_retry_scheduled")
     ELSE MoveTo("failed", "run_failed")
  /\ UNCHANGED outbox

\* Mutant: the budget is compared with <= instead of <.
RetryOnceMore(permanent) ==
  IF ~permanent /\ Latest <= MaxRunAttempts /\ outbox.status = "dispatched"
  THEN /\ MoveTo("retry_wait", "run_retry_scheduled")
       /\ outbox' = [status |-> "pending", count |-> outbox.count + 1]
  ELSE /\ MoveTo("failed", "run_failed")
       /\ UNCHANGED outbox

\* apply_run_failure: a transient error is retried while the budget lasts and
\* reset_for_retry finds the Outbox record dispatched.
ApplyRunFailure(permanent) ==
  IF ~permanent /\ Latest < MaxRunAttempts /\ outbox.status = "dispatched"
  THEN /\ MoveTo("retry_wait", "run_retry_scheduled")
       /\ outbox' = [status |-> "pending", count |-> outbox.count + 1]
  ELSE /\ MoveTo("failed", "run_failed")
       /\ UNCHANGED outbox

\* _mark_failed of the ingestion, indexing and answer executors: unless the
\* Run is RUNNING they return without touching it.
ExecMarkFailed(w) ==
  /\ worker[w].pc = "executing"
  /\ MarksOwnFailure
  /\ IF run.status = "running"
     THEN \E permanent \in BOOLEAN : ApplyRunFailure(permanent)
     ELSE UNCHANGED <<run, events, outbox>>
  /\ Step(w, "returned")
  /\ UNCHANGED <<attempts, job, dispatcher, faults>>

\* The executor raises.
ExecRaise(w) ==
  /\ worker[w].pc = "executing"
  /\ Step(w, "raised")
  /\ UNCHANGED <<run, events, outbox, attempts, job, dispatcher, faults>>

\* _fail: with a pending cancellation the Attempt stays RUNNING, for the
\* lease reconciler.
Fail(w) ==
  /\ worker[w].pc = "raised"
  /\ \/ /\ run.status = "running"
        /\ \E permanent \in BOOLEAN : ApplyRunFailure(permanent)
        /\ CloseAs(w, "failed")
     \/ /\ run.status = "cancel_requested"
        /\ Leave(w)
        /\ UNCHANGED <<run, events, outbox>>
     \/ /\ run.status \notin ExecutingStatus
        /\ CloseAs(w, "cancelled")
        /\ UNCHANGED <<run, events, outbox>>
  /\ UNCHANGED <<attempts, job, dispatcher, faults>>

\* Mutant: the Attempt takes the status of the Run.
CopyStatus(status) == status

\* The status _close_attempt gives an Attempt, by the status of the Run.
CloseStatus(status) ==
  CASE status = "succeeded" -> "succeeded"
    [] status = "cancelled" -> "cancelled"
    [] status \in {"waiting_input", "waiting_dependency"} -> "paused"
    [] OTHER -> "failed"

\* _get_status after a normal return, in a transaction of its own.
GetStatus(w) ==
  /\ worker[w].pc = "returned"
  /\ CloseAs(w, CloseStatus(run.status))
  /\ UNCHANGED <<run, events, outbox, attempts, job, dispatcher, faults>>

\* finish_if_running at the end of _close_attempt and of _fail.
CloseAttempt(w) ==
  /\ worker[w].pc = "closing"
  /\ attempts' = FinishIfRunning(worker[w].attempt, worker[w].close)
  /\ Leave(w)
  /\ UNCHANGED <<run, events, outbox, job, dispatcher, faults>>

\* The same, when the database fails: the error is logged and swallowed.
CloseAttemptError(w) ==
  /\ worker[w].pc = "closing"
  /\ Leave(w)
  /\ Fault
  /\ UNCHANGED <<run, events, outbox, attempts, job, dispatcher>>

-----------------------------------------------------------------------------
(* RunReconcileService *)

\* Mutant: a pending cancellation is not recovered.
RecoverRunningOnly ==
  /\ run.status = "running"
  /\ Latest > 0
  /\ attempts[Latest].status = "running" /\ ~attempts[Latest].fresh
  /\ ApplyRunFailure(FALSE)
  /\ attempts' = FinishIfRunning(Latest, "failed")
  /\ UNCHANGED <<job, worker, dispatcher, faults>>

\* _recover: the latest Attempt's lease ran out.
Recover ==
  /\ run.status \in ExecutingStatus
  /\ Latest > 0
  /\ attempts[Latest].status = "running" /\ ~attempts[Latest].fresh
  /\ IF run.status = "cancel_requested"
     THEN /\ MoveTo("cancelled", "run_cancelled")
          /\ attempts' = FinishIfRunning(Latest, "cancelled")
          /\ UNCHANGED outbox
     ELSE /\ ApplyRunFailure(FALSE)
          /\ attempts' = FinishIfRunning(Latest, "failed")
  /\ UNCHANGED <<job, worker, dispatcher, faults>>

\* The Events between an Attempt's start and the start of the next one. The code
\* compares started_at and occurred_at. Each is read from the clock by the
\* transaction that has locked the row for its write, the claim included, so
\* while the hosts' clocks agree they are ordered as the sequence numbers are.
Interval(k) ==
  {events[s] : s \in {x \in DOMAIN events :
     attempts[k].start <= x /\ (k < Latest => x < attempts[k + 1].start)}}

\* _orphan_terminal_status; "none" leaves the Attempt alone.
OrphanStatus(k) ==
  CASE Interval(k) \cap {"dependency_wait_started", "human_input_requested"} # {} -> "paused"
    [] Interval(k) \cap {"run_retry_scheduled", "run_failed"} # {} -> "failed"
    [] "run_cancelled" \in Interval(k) -> "cancelled"
    [] run.status \in FinalRunStatus -> run.status
    [] run.status \in {"waiting_input", "waiting_dependency"} -> "paused"
    [] OTHER -> "none"

\* Mutant: only Runs that ended are scanned.
OrphanOfFinalRun(k) == attempts[k].status = "running" /\ run.status \in FinalRunStatus

\* list_orphaned_running: RUNNING, though it is not the Attempt being executed.
Orphan(k) ==
  /\ attempts[k].status = "running"
  /\ run.status \notin ExecutingStatus \/ k < Latest

CloseOrphan(k) ==
  /\ Orphan(k)
  /\ OrphanStatus(k) # "none"
  /\ attempts' = FinishIfRunning(k, OrphanStatus(k))
  /\ UNCHANGED <<run, events, outbox, job, worker, dispatcher, faults>>

-----------------------------------------------------------------------------
Requests == CreateRun \/ CancelRun \/ Resume \/ FailWaiting \/ CancelReview \/ NoteSource

Dispatch(d) ==
  \/ ListDuePending(d) \/ PrepareRun(d) \/ Requeue(d) \/ EnqueueRun(d)
  \/ MarkDispatched(d) \/ RecordFailure(d)

Execute(w) ==
  \/ PickJob(w) \/ StartRead(w) \/ StartClaim(w)
  \/ ExecSucceed(w) \/ ExecPause(w) \/ ExecFinalizeCancelled(w) \/ ExecGiveUp(w)
  \/ ExecMarkFailed(w) \/ ExecRaise(w) \/ Fail(w) \/ GetStatus(w)
  \/ CloseAttempt(w) \/ FinishJob(w)

Reconcile == Recover \/ \E k \in 1..Latest : CloseOrphan(k)

Faults ==
  \/ \E d \in Dispatchers : EnqueueError(d) \/ DispatcherCrash(d)
  \/ \E w \in Workers : JobTimeout(w) \/ Shutdown(w) \/ HardCrash(w) \/ CloseAttemptError(w)

Time ==
  \/ \E k \in 1..Latest : LeaseLapses(k)
  \/ \E w \in Workers : Heartbeat(w)
  \/ InProgressExpires

Next ==
  \/ Requests
  \/ \E d \in Dispatchers : Dispatch(d)
  \/ \E w \in Workers : Execute(w) \/ ExecProgress(w)
  \/ Reconcile
  \/ Faults
  \/ Time

Spec == Init /\ [][Next]_vars

-----------------------------------------------------------------------------
(* Safety *)

\* The Events of the Run are numbered 1, 2, ..., event_sequence - 1 without a
\* gap or a duplicate, although _start and _prepare_run write the sequence
\* number they read without a lock.
LogContiguous == DOMAIN events = 1..(run.seq - 1)

\* The Events that announce a status.
Announcements == {s \in DOMAIN events : events[s] \in Announcement}

\* Replaying the Events gives the status of the row: the last announcement
\* names it. Clients that follow the stream depend on it, and it fails as
\* soon as one writer changes the status without its Event, or the other way
\* round.
LogDeterminesStatus ==
  run.status # "absent" =>
    \E s \in Announcements :
      /\ \A t \in Announcements : t <= s
      /\ Announces[events[s]] = run.status

\* Every Attempt goes with one run_started Event and every such Event with an
\* Attempt, in the same order, whatever job or worker claimed the Run. And
\* before a Run is claimed again, an Event in the interval of the previous
\* Attempt says why it was released: _orphan_terminal_status finds a status for
\* every Attempt that was left RUNNING, and never gives up on it. Lost races,
\* late failures and reclaims never start more Attempts than the budget of
\* apply_run_failure and one for each pause.
AttemptsMatchLog ==
  /\ Latest <= MaxRunAttempts + Pauses
  /\ {attempts[k].start : k \in 1..Latest} = {s \in DOMAIN events : events[s] = "run_started"}
  /\ \A j, k \in 1..Latest : j < k => attempts[j].start < attempts[k].start
  /\ \A k \in 1..Latest : Orphan(k) => OrphanStatus(k) # "none"

\* A Run that waits for its retry has an Outbox record that will bring it
\* back: apply_run_failure degrades to FAILED when reset_for_retry cannot
\* reset the record, so that the Run never stays in RETRY_WAIT.
RetryWillBeDelivered ==
  run.status = "retry_wait" => outbox.status = "pending"

\* The promise of domain/run.py and of the Event stream.
Domain == INSTANCE RunDomain WITH status <- run.status, log <- events
ImplementsDomain == Domain!Spec

\* The row of RunRow: a Run that waits for its retry is queued, a pause is a
\* pause whatever it waits for, and only the latest Attempt is kept.
RowStatusOf(status) ==
  CASE status \in {"absent", "retry_wait"} -> "queued"
    [] status \in {"waiting_dependency", "waiting_input"} -> "waiting"
    [] OTHER -> status
RowOfRun == [status |-> RowStatusOf(run.status), attempts |-> Latest,
             open |-> Latest > 0 /\ attempts[Latest].status = "running"]

\* Whatever workers, dispatchers, reconcilers, faults and users do, the row
\* makes only the moves that the executors of the business modules are checked
\* against: a claim adds an Attempt to a queued Run, nothing but a failure with
\* Attempts left puts a running one back, and a Run that ended stays as it is.
Moves == INSTANCE RunMoves WITH MaxAttempts <- MaxRunAttempts, row <- RowOfRun
ImplementsMoves == Moves!Spec

-----------------------------------------------------------------------------
(* Liveness *)

\* The loops of worker.py poll for ever, ARQ runs a picked job to its end or
\* cancels it after job_timeout, and a lease runs out when nobody renews it.
\* Nothing is assumed of users, of the executor's choices or of faults.
Abandoned(k) == \A w \in Workers : ~Beats(w, k)

Fairness ==
  /\ WF_vars(Reconcile)
  /\ \A w \in Workers : WF_vars(Execute(w))
  /\ WF_vars(\E k \in 1..Latest : Abandoned(k) /\ LeaseLapses(k))

FairSpec == Spec /\ Fairness

\* Every Attempt is closed in the end, by its worker, by the lease reconciler
\* or as an orphan, whichever crashes, errors and races it met.
AttemptsClose ==
  \A k \in 1..(MaxRunAttempts + MaxPauses) :
    (k <= Latest /\ attempts[k].status = "running")
      ~> (k <= Latest /\ attempts[k].status # "running")

\* A requested cancellation ends in CANCELLED: a live worker finalizes it, and
\* the lease reconciler does when the worker is gone.
CancelConverges ==
  (run.status = "cancel_requested") ~> (run.status = "cancelled")
=============================================================================
