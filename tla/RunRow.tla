-------------------------------- MODULE RunRow --------------------------------
(***************************************************************************)
(* The row of one Run as the executors of the business workflows see it:   *)
(* the moves of its status by RunExecutionService, the failure policy,     *)
(* RunService.cancel_run, the reconciler and WaitingRunResumeService. The  *)
(* mechanism behind them (Outbox, dispatch, leases, Events) is             *)
(* RunLifecycle; here RETRY_WAIT and QUEUED are one status, because the    *)
(* dispatcher turns the first into the second, and so are the two waiting  *)
(* states. attempts numbers the Attempts, and open says that the latest    *)
(* one is RUNNING: only then can its lease expire.                         *)
(***************************************************************************)
EXTENDS Naturals

CONSTANT MaxAttempts   \* max_run_attempts

ASSUME MaxAttemptsAssumption == MaxAttempts \in Nat \ {0}

RowStatus == {"queued", "running", "waiting", "cancel_requested", "succeeded", "failed",
              "cancelled"}
Terminal == {"succeeded", "failed", "cancelled"}
RunRow == [status: RowStatus, attempts: Nat, open: BOOLEAN]
NewRun == [status |-> "queued", attempts |-> 0, open |-> FALSE]

Running(run) == run.status = "running"

\* _start: QUEUED -> RUNNING with a new Attempt.
Started(run) == [status |-> "running", attempts |-> run.attempts + 1, open |-> TRUE]

\* A pause in the executor's own transaction, and the resume that puts the Run
\* back into the queue.
Paused(run) == [run EXCEPT !.status = "waiting"]
Resumed(run) == [run EXCEPT !.status = "queued"]

\* The last transaction of an executor commits the result.
Succeeded(run) == [run EXCEPT !.status = "succeeded"]

\* apply_run_failure, which looks at the status of the Run only: an error that
\* is not final is retried while Attempts are left.
AfterFailure(run, final) ==
  IF ~Running(run) THEN run
  ELSE [run EXCEPT !.status = IF ~final /\ run.attempts < MaxAttempts THEN "queued"
                              ELSE "failed"]

\* A permanent error is final. Any other may be as well: reset_for_retry gives
\* up when the dispatcher has not yet marked the Outbox record of this Attempt.
Finality(permanent) == {permanent, TRUE}

\* _close_attempt after the executor returned, and _fail after it raised: the
\* worker closes its own Attempt. _fail leaves it open when a cancellation is
\* pending, so that the lease can expire.
Closed(run, attempt) == [run EXCEPT !.open = run.open /\ run.attempts # attempt]

\* Mutant: the Attempt is closed although a cancellation is pending.
FailedRunClosed(run, attempt, final) == Closed(AfterFailure(run, final), attempt)

FailedRun(run, attempt, final) ==
  IF run.status = "cancel_requested" THEN run ELSE Closed(AfterFailure(run, final), attempt)

\* cancel_run: a Run that nobody executes is cancelled at once.
Cancellable(run) == run.status \notin Terminal
Cancelled(run) == [run EXCEPT !.status = IF Running(run) THEN "cancel_requested" ELSE "cancelled"]

\* RunReconcileService._recover: the heartbeat of the latest Attempt is overdue.
\* The worker that held it may only be slow.
Reclaimable(run) == run.open /\ run.status \in {"running", "cancel_requested"}
Reclaimed(run, final) ==
  [(IF Running(run) THEN AfterFailure(run, final) ELSE [run EXCEPT !.status = "cancelled"])
     EXCEPT !.open = FALSE]
=============================================================================
