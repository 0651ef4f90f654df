----------------------------- MODULE AgentRuntime -----------------------------
(***************************************************************************)
(* The execution of one AgentTurnRun: AgentTurnExecutor, the Deep Agents   *)
(* adapter behind the ResearchAgentRuntime port, and the durable           *)
(* RuntimeExecution record whose lease and fencing token decide which      *)
(* worker may write. The Run and its Attempts move as in RunLifecycle;     *)
(* RETRY_WAIT and the Outbox are folded into "queued" here.                *)
(*                                                                         *)
(* The graph is a line of Steps steps behind the checkpoint of its input.  *)
(* Each step calls a model or a tool after assert_active, and LangGraph    *)
(* then writes a checkpoint in its own transaction. A worker that stalls   *)
(* between the two writes its checkpoint late, whatever has happened to    *)
(* its lease.                                                              *)
(***************************************************************************)
EXTENDS Naturals, Sequences

CONSTANTS
  Workers,      \* worker processes; each is the lease owner of its executions
  NoOwner,      \* lease_owner_id = NULL
  MaxAttempts,  \* AGENT_MAX_RUN_ATTEMPTS
  Steps,        \* steps of the graph until it has an answer
  MaxCrashes    \* bound: crashes of workers

ASSUME RuntimeAssumption ==
  /\ NoOwner \notin Workers
  /\ MaxAttempts \in Nat \ {0} /\ Steps \in Nat \ {0} /\ MaxCrashes \in Nat

VARIABLES
  run,      \* the Run: status, number of its latest Attempt, is that RUNNING?
  exec,     \* the agent_runtime_executions row
  thread,   \* the checkpoints of the LangGraph thread, oldest first
  worker,   \* what each worker is doing
  answers,  \* assistant messages committed for the Turn
  crashes   \* crashes so far, only to bound the model

vars == <<run, exec, thread, worker, answers, crashes>>

-----------------------------------------------------------------------------
Final == {"succeeded", "failed", "cancelled"}
ExecState == {"none", "running"} \cup Final

\* leased: lease_expires_at lies in the future. checkpoint: index in thread.
Execution == [state: ExecState, fence: Nat, owner: Workers \cup {NoOwner},
              attempt: Nat, leased: BOOLEAN, checkpoint: Nat]
NoExecution == [state |-> "none", fence |-> 0, owner |-> NoOwner, attempt |-> 0,
                leased |-> FALSE, checkpoint |-> 0]

Checkpoint == [fence: Nat, step: 0..Steps]

WorkerPc == {"idle", "entering", "reconciling", "starting", "claiming", "resuming",
             "finding", "locating", "fresh", "stepping", "calling", "recording", "ending",
             "finalizing", "collecting", "cancelling", "failing", "returning"}

\* attempt: of the Run; permitted, fence: the RuntimeExecutionPermit; step: of
\* the graph; found: the complete checkpoint found; permanent: the kind of the
\* error being raised.
Worker == [pc: WorkerPc, attempt: Nat, permitted: Nat, fence: Nat, step: 0..Steps,
           found: Nat, permanent: BOOLEAN]
IdleWorker == [pc |-> "idle", attempt |-> 0, permitted |-> 0, fence |-> 0, step |-> 0,
               found |-> 0, permanent |-> FALSE]

TypeOK ==
  /\ run \in [status: {"queued", "running", "cancel_requested"} \cup Final,
              attempt: Nat, live: BOOLEAN]
  /\ exec \in Execution
  /\ thread \in Seq(Checkpoint)
  /\ worker \in [Workers -> Worker]
  /\ answers \in Nat /\ crashes \in Nat

Init ==
  /\ run = [status |-> "queued", attempt |-> 0, live |-> FALSE]
  /\ exec = NoExecution
  /\ thread = << >>
  /\ worker = [w \in Workers |-> IdleWorker]
  /\ answers = 0 /\ crashes = 0

-----------------------------------------------------------------------------
Goto(w, pc) == worker' = [worker EXCEPT ![w].pc = pc]
Raise(w, permanent) ==
  worker' = [worker EXCEPT ![w].pc = "failing", ![w].permanent = permanent]

\* The latest checkpoint of the Turn, and the latest one of a fence; 0 if none.
LatestOf(S) == CHOOSE i \in S \cup {0} : \A j \in S : j <= i
Latest == Len(thread)
LatestOfFence(f) == LatestOf({i \in 1..Latest : thread[i].fence = f})
StepAt(i) == IF i = 0 THEN 0 ELSE thread[i].step

-----------------------------------------------------------------------------
(* The Run and its Attempts, as RunExecutionService and RunReconcileService *)
(* move them.                                                               *)

StartAttempt(w) ==
  /\ worker[w].pc = "idle"
  /\ run.status = "queued"
  /\ run' = [status |-> "running", attempt |-> run.attempt + 1, live |-> TRUE]
  /\ worker' = [worker EXCEPT ![w] = [IdleWorker EXCEPT !.pc = "entering",
                                                        !.attempt = run.attempt + 1]]
  /\ UNCHANGED <<exec, thread, answers, crashes>>

\* cancel_run: a second request ends the Run whatever its executor does.
CancelRun ==
  /\ run.status \in {"queued", "running", "cancel_requested"}
  /\ run' = [run EXCEPT !.status = IF run.status = "running" THEN "cancel_requested"
                                   ELSE "cancelled"]
  /\ UNCHANGED <<exec, thread, worker, answers, crashes>>

\* apply_run_failure. An error is final if it is permanent, or if reset_for_retry
\* finds that the dispatcher has not yet marked the Outbox record.
AfterFailure(final) ==
  IF final \/ run.attempt >= MaxAttempts THEN "failed" ELSE "queued"
Finality(permanent) == {permanent, TRUE}

\* RunReconcileService: the heartbeat of the latest Attempt is overdue.
Reclaim ==
  /\ run.status \in {"running", "cancel_requested"} /\ run.live
  /\ \E final \in BOOLEAN :
       run' = [run EXCEPT !.live = FALSE,
                          !.status = IF run.status = "running" THEN AfterFailure(final)
                                     ELSE "cancelled"]
  /\ UNCHANGED <<exec, thread, worker, answers, crashes>>

OwnAttemptClosed(w) == [run EXCEPT !.live = run.live /\ run.attempt # worker[w].attempt]

\* Mutant: the Attempt is closed, the Run is left as it is.
FailAttemptOnly(w) ==
  /\ worker[w].pc = "failing"
  /\ run' = OwnAttemptClosed(w)
  /\ worker' = [worker EXCEPT ![w] = IdleWorker]
  /\ UNCHANGED <<exec, thread, answers, crashes>>

\* RunExecutionService._fail: the executor raised. With a pending cancellation
\* the Attempt is left to the reconciler.
Fail(w) ==
  /\ worker[w].pc = "failing"
  /\ \E final \in Finality(worker[w].permanent) :
       run' = CASE run.status = "running" ->
                     [OwnAttemptClosed(w) EXCEPT !.status = AfterFailure(final)]
                [] run.status = "cancel_requested" -> run
                [] OTHER -> OwnAttemptClosed(w)
  /\ worker' = [worker EXCEPT ![w] = IdleWorker]
  /\ UNCHANGED <<exec, thread, answers, crashes>>

\* RunExecutionService._close_attempt: the executor returned.
Return(w) ==
  /\ worker[w].pc = "returning"
  /\ run' = OwnAttemptClosed(w)
  /\ worker' = [worker EXCEPT ![w] = IdleWorker]
  /\ UNCHANGED <<exec, thread, answers, crashes>>

Crash(w) ==
  /\ worker[w].pc # "idle"
  /\ crashes < MaxCrashes
  /\ worker' = [worker EXCEPT ![w] = IdleWorker]
  /\ crashes' = crashes + 1
  /\ UNCHANGED <<run, exec, thread, answers>>

-----------------------------------------------------------------------------
(* RuntimeExecutionControlService *)

Orphaned == exec.state = "running" /\ (exec.owner = NoOwner \/ ~exec.leased)

\* can_recover
CanRecover == run.status = "running" /\ run.live /\ Orphaned

\* Mutant: the owner and the fencing token of the permit are not compared.
ActiveAnyPermit(w) ==
  /\ run.status = "running" /\ run.live
  /\ exec.state = "running" /\ exec.leased

\* assert_active and the second check of _mutate_owned under the lock.
Active(w) ==
  /\ run.status = "running" /\ run.live
  /\ run.attempt = worker[w].permitted
  /\ exec.state = "running" /\ exec.leased
  /\ exec.owner = w /\ exec.attempt = worker[w].permitted /\ exec.fence = worker[w].fence

\* Mutant: a takeover keeps the fencing token.
ClaimedSameFence(w) ==
  [exec EXCEPT !.state = "running", !.owner = w, !.attempt = run.attempt, !.leased = TRUE,
               !.fence = IF exec.state = "none" THEN 1 ELSE exec.fence]

\* RuntimeExecution.claim: a live lease of the same owner and Attempt is
\* renewed under its fence, an orphan is taken over with the next one.
Claimed(w) ==
  [exec EXCEPT !.state = "running", !.owner = w, !.attempt = run.attempt, !.leased = TRUE,
               !.fence = IF Orphaned \/ exec.state = "none" THEN exec.fence + 1 ELSE exec.fence]

Claimable(w) ==
  \/ exec.state = "none"
  \/ Orphaned
  \/ exec.state = "running" /\ exec.owner = w /\ exec.attempt = run.attempt

\* RuntimeExecution._finish
Finished(state) ==
  [exec EXCEPT !.state = state, !.owner = NoOwner, !.attempt = 0, !.leased = FALSE]
Released == [exec EXCEPT !.owner = NoOwner, !.attempt = 0, !.leased = FALSE]

\* The lease runs out: its owner is gone, or its heartbeat is late.
LeaseLapses ==
  /\ exec.leased
  /\ exec' = [exec EXCEPT !.leased = FALSE]
  /\ UNCHANGED <<run, thread, worker, answers, crashes>>

-----------------------------------------------------------------------------
(* AgentTurnExecutor and the adapter *)

\* The first look at the Run.
Enter(w) ==
  /\ worker[w].pc = "entering"
  /\ Goto(w, CASE run.status = "cancel_requested" -> "cancelling"
               [] run.status = "running" -> "reconciling"
               [] OTHER -> "returning")
  /\ UNCHANGED <<run, exec, thread, answers, crashes>>

\* reconcile_turn and the branches of _reconcile_or_execute.
Reconcile(w) ==
  /\ worker[w].pc = "reconciling"
  /\ \/ /\ exec.state = "none"
        /\ Goto(w, CASE run.status = "cancel_requested" -> "cancelling"
                     [] run.status = "running" -> "starting"
                     [] OTHER -> "returning")
     \/ exec.state = "succeeded" /\ Goto(w, "collecting")
     \/ exec.state = "running" /\ CanRecover /\ Goto(w, "resuming")
     \/ exec.state = "running" /\ ~CanRecover /\ Raise(w, FALSE)
     \/ exec.state \in {"failed", "cancelled"} /\ Raise(w, TRUE)
  /\ UNCHANGED <<run, exec, thread, answers, crashes>>

\* The kinds of error with which claim refuses: a lease held by another worker
\* is temporary, and so is RETRY_WAIT, one of the statuses behind "queued".
Refusals ==
  CASE run.status = "queued" -> BOOLEAN
    [] run.status = "running" /\ run.live /\ exec.state = "running" -> {FALSE}
    [] OTHER -> {TRUE}

\* execute_turn: the record is read first, without a lock.
GetRecord(w) ==
  /\ worker[w].pc = "starting"
  /\ CASE exec.state = "none" -> Goto(w, "claiming")
       [] exec.state = "succeeded" -> Goto(w, "reconciling")
       [] OTHER -> Raise(w, FALSE)
  /\ UNCHANGED <<run, exec, thread, answers, crashes>>

\* The claim of execute_turn and of resume_turn: the Run must be RUNNING with a
\* RUNNING Attempt, whichever worker it belongs to.
Claim(w) ==
  /\ worker[w].pc \in {"claiming", "resuming"}
  /\ IF run.status = "running" /\ run.live /\ Claimable(w)
     THEN /\ exec' = Claimed(w)
          /\ worker' = [worker EXCEPT
                          ![w].pc = IF worker[w].pc = "claiming" THEN "finding" ELSE "locating",
                          ![w].permitted = run.attempt, ![w].fence = Claimed(w).fence]
     ELSE /\ \E permanent \in Refusals : Raise(w, permanent)
          /\ UNCHANGED exec
  /\ UNCHANGED <<run, thread, answers, crashes>>

\* Nothing is left to run: the answer is in the i-th checkpoint.
Finish(w, i) == worker' = [worker EXCEPT ![w].pc = "finalizing", ![w].found = i]
Complete(i) == i # 0 /\ StepAt(i) = Steps

\* execute_turn looks for a checkpoint of its own fence. An incomplete one is
\* left to the reconciliation; without any, the graph starts.
FindOwn(w) ==
  /\ worker[w].pc = "finding"
  /\ LET own == LatestOfFence(worker[w].fence)
     IN CASE Complete(own) -> Finish(w, own)
          [] own = 0 -> Goto(w, "fresh")
          [] OTHER -> Goto(w, "reconciling")
  /\ UNCHANGED <<run, exec, thread, answers, crashes>>

\* resume_turn goes on after the physically latest checkpoint of the Turn.
Locate(w) ==
  /\ worker[w].pc = "locating"
  /\ CASE Complete(Latest) -> Finish(w, Latest)
       [] Latest = 0 -> Goto(w, "fresh")
       [] OTHER -> worker' = [worker EXCEPT ![w].pc = "stepping", ![w].step = StepAt(Latest)]
  /\ UNCHANGED <<run, exec, thread, answers, crashes>>

\* _run_fresh_graph: LangGraph writes the checkpoint of the input, behind
\* whatever the thread has.
RunFresh(w) ==
  /\ worker[w].pc = "fresh"
  /\ thread' = Append(thread, [fence |-> worker[w].fence, step |-> 0])
  /\ worker' = [worker EXCEPT ![w].pc = "stepping", ![w].step = 0]
  /\ UNCHANGED <<run, exec, answers, crashes>>

\* The checkpoints cannot be read; the record is not told.
ReadFails(w) ==
  /\ worker[w].pc \in {"reconciling", "finding", "locating", "ending"}
  /\ Raise(w, FALSE)
  /\ UNCHANGED <<run, exec, thread, answers, crashes>>

\* The middleware before a call of a model or a tool.
BeginCall(w) ==
  /\ worker[w].pc = "stepping"
  /\ IF Active(w) THEN Goto(w, "calling") ELSE Raise(w, TRUE)
  /\ UNCHANGED <<run, exec, thread, answers, crashes>>

\* The call returned; LangGraph writes the checkpoint, with the fence in its
\* metadata.
EndCall(w) ==
  /\ worker[w].pc = "calling"
  /\ thread' = Append(thread, [fence |-> worker[w].fence, step |-> worker[w].step + 1])
  /\ worker' = [worker EXCEPT ![w].pc = "recording", ![w].step = worker[w].step + 1]
  /\ UNCHANGED <<run, exec, answers, crashes>>

\* The call, or the staging of the workspace before the success (_before_succeed),
\* failed: _record_runtime_error keeps quiet when the lease is lost.
CallFails(w) ==
  /\ worker[w].pc \in {"calling", "finalizing"}
  /\ \E permanent \in BOOLEAN :
       /\ exec' = IF ~Active(w) THEN exec
                  ELSE IF permanent THEN Finished("failed") ELSE Released
       /\ Raise(w, permanent)
  /\ UNCHANGED <<run, thread, answers, crashes>>

\* record_checkpoint of the latest checkpoint of the own fence.
RecordCheckpoint(w) ==
  /\ worker[w].pc = "recording"
  /\ IF Active(w)
     THEN /\ exec' = [exec EXCEPT !.checkpoint = LatestOfFence(worker[w].fence)]
          /\ Goto(w, IF worker[w].step = Steps THEN "ending" ELSE "stepping")
     ELSE /\ Raise(w, TRUE)
          /\ UNCHANGED exec
  /\ UNCHANGED <<run, thread, answers, crashes>>

\* The stream is over: the latest checkpoint of the own fence has to be complete.
EndStream(w) ==
  /\ worker[w].pc = "ending"
  /\ LET own == LatestOfFence(worker[w].fence)
     IN IF Complete(own) THEN Finish(w, own) ELSE Raise(w, FALSE)
  /\ UNCHANGED <<run, exec, thread, answers, crashes>>

\* _finalize_and_succeed with the complete checkpoint that was found.
Finalize(w) ==
  /\ worker[w].pc = "finalizing"
  /\ IF Active(w)
     THEN /\ exec' = [Finished("succeeded") EXCEPT !.checkpoint = worker[w].found]
          /\ Goto(w, "reconciling")
     ELSE /\ Raise(w, TRUE)
          /\ UNCHANGED exec
  /\ UNCHANGED <<run, thread, answers, crashes>>

\* _execute_with_cancellation_watch: the Run has left RUNNING while the stream
\* runs. A requested cancellation is written to the RuntimeExecution
\* (cancel_for_business) before it is committed.
InStream(w) ==
  worker[w].pc \in {"starting", "claiming", "resuming", "finding", "locating", "fresh",
                    "stepping", "calling", "recording", "ending", "finalizing"}

Watch(w) ==
  /\ InStream(w)
  /\ run.status # "running"
  /\ \/ /\ run.status = "cancel_requested" /\ exec.state # "none"
        /\ exec' = IF exec.state = "running" THEN Finished("cancelled") ELSE exec
        /\ Goto(w, "cancelling")
     \/ run.status = "cancel_requested" /\ exec.state = "none" /\ Raise(w, TRUE) /\ UNCHANGED exec
     \/ run.status # "cancel_requested" /\ Goto(w, "returning") /\ UNCHANGED exec
  /\ UNCHANGED <<run, thread, answers, crashes>>

\* _commit_cancellation
CommitCancellation(w) ==
  /\ worker[w].pc = "cancelling"
  /\ run' = IF run.status = "cancel_requested" THEN [run EXCEPT !.status = "cancelled"] ELSE run
  /\ Goto(w, "returning")
  /\ UNCHANGED <<exec, thread, answers, crashes>>

\* Mutant: the result is committed whatever became of the Run.
CommitUnchecked(w) ==
  /\ worker[w].pc = "collecting"
  /\ run' = [run EXCEPT !.status = "succeeded"]
  /\ answers' = answers + 1
  /\ Goto(w, "returning")
  /\ UNCHANGED <<exec, thread, crashes>>

\* collect_turn_result and the last transaction of execute: the status is read
\* again under the lock. An answer that is not valid fails for good; a row that
\* was changed meanwhile rolls the transaction back, to be tried again.
Commit(w) ==
  /\ worker[w].pc = "collecting"
  /\ \/ /\ run.status = "running"
        /\ run' = [run EXCEPT !.status = "succeeded"]
        /\ answers' = answers + 1
        /\ Goto(w, "returning")
     \/ /\ \E permanent \in BOOLEAN : Raise(w, permanent)
        /\ UNCHANGED <<run, answers>>
     \/ /\ run.status = "cancel_requested"
        /\ run' = [run EXCEPT !.status = "cancelled"]
        /\ Goto(w, "returning")
        /\ UNCHANGED answers
     \/ /\ run.status \notin {"running", "cancel_requested"}
        /\ Goto(w, "returning")
        /\ UNCHANGED <<run, answers>>
  /\ UNCHANGED <<exec, thread, crashes>>

-----------------------------------------------------------------------------
\* What a worker does with the Run it has taken.
Work(w) ==
  \/ Enter(w) \/ Reconcile(w) \/ GetRecord(w) \/ Claim(w) \/ FindOwn(w) \/ Locate(w)
  \/ RunFresh(w) \/ ReadFails(w) \/ BeginCall(w) \/ EndCall(w) \/ CallFails(w)
  \/ RecordCheckpoint(w) \/ EndStream(w) \/ Finalize(w) \/ Watch(w)
  \/ CommitCancellation(w) \/ Commit(w) \/ Fail(w) \/ Return(w)

Next ==
  \/ \E w \in Workers : StartAttempt(w) \/ Work(w) \/ Crash(w)
  \/ CancelRun
  \/ Reclaim
  \/ LeaseLapses

Spec == Init /\ [][Next]_vars

-----------------------------------------------------------------------------
(* Safety *)

\* No two workers ever hold the same fencing token, however claims, lapses
\* and reclaimed Attempts interleave: a permit names one stream.
PermitsDistinct ==
  \A v, w \in Workers :
    (v # w /\ worker[v].fence # 0) => worker[v].fence # worker[w].fence

\* A successful Run shows one answer, and it is the one of the complete
\* checkpoint the RuntimeExecution names.
AnswerIsRuntimeResult ==
  /\ answers = (IF run.status = "succeeded" THEN 1 ELSE 0)
  /\ run.status = "succeeded" => exec.state = "succeeded"
  /\ exec.state = "succeeded" => exec.checkpoint \in 1..Latest /\ StepAt(exec.checkpoint) = Steps

\* While one worker holds a lease that is still active, no other worker can
\* write the record: only the holder, a cancellation or the clock changes it.
OnlyHolderWrites ==
  [][\A w \in Workers :
       (Active(w) /\ exec' # exec /\ run.status = "running") =>
          \/ worker'[w] # worker[w]
          \/ exec' = [exec EXCEPT !.leased = FALSE]]_vars

-----------------------------------------------------------------------------
(* Liveness *)

\* A worker goes on with the code of the Run it has taken, and the reconciler
\* reclaims the Attempt of a worker that is gone. Nothing obliges a worker to take
\* a queued Run: its delivery may be lost (RunLifecycle).
Gone == \A w \in Workers : worker[w].pc = "idle" \/ worker[w].attempt # run.attempt
Fairness ==
  /\ \A w \in Workers : WF_vars(Work(w))
  /\ WF_vars(Gone /\ Reclaim)

FairSpec == Spec /\ Fairness

\* Every Turn ends, with an answer, an error or a cancellation, unless it stays
\* queued because no worker is given it; and one whose cancellation was requested
\* while it ran ends as cancelled, which no lost delivery can prevent.
TurnEnds ==
  /\ <>(run.status \in Final) \/ <>[](run.status = "queued")
  /\ (run.status = "cancel_requested") ~> (run.status = "cancelled")
=============================================================================
