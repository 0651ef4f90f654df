-------------------------- MODULE RunLifecycleProofs --------------------------
(***************************************************************************)
(* Proofs about RunLifecycle, for any number of workers, dispatch loops,   *)
(* attempts and faults.                                                    *)
(***************************************************************************)
EXTENDS RunLifecycle, SequenceTheorems, FiniteSetTheorems, TLAPS

-----------------------------------------------------------------------------
(* The rows: every step is one of five kinds of write *)

\* Nothing refers to a Run that was not created.
NothingBeforeCreation ==
  run.status = "absent" =>
    /\ outbox.status = "absent"
    /\ ~job.present
    /\ \A w \in Workers : worker[w].pc = "idle"
    /\ \A d \in Dispatchers : dispatcher[d].pc = "idle"

\* A sequence number read without a lock may be stale, never ahead.
ReadsNotAhead ==
  /\ \A w \in Workers : worker[w].pc = "claiming" => worker[w].seq \in 1..run.seq
  /\ \A d \in Dispatchers : dispatcher[d].pc = "requeueing" => dispatcher[d].seq \in 1..run.seq

\* The inductive invariant behind the theorems on the Event log.
LogInv == TypeOK /\ NothingBeforeCreation /\ ReadsNotAhead /\ LogContiguous

\* What a step does to the rows runs and events: a creation, a transition or
\* a note under the lock, or a conditional update with a number read before.
\* Only the claim of a worker starts an Attempt.
Created == run.status = "absent" /\ Emit(run.seq, "queued", "run_created")
Moved == \E type \in Announcement \ {"run_started"} : MoveTo(Announces[type], type)
Noted == run.status # "absent" /\ Emit(run.seq, run.status, Note)
Claimed == \E w \in Workers : /\ worker[w].pc = "claiming" /\ run.status = "queued"
                              /\ Emit(worker[w].seq, "running", "run_started")
                              /\ attempts' = Append(attempts,
                                   [status |-> "running", fresh |-> TRUE, start |-> worker[w].seq])
Requeued == \E d \in Dispatchers :
              /\ dispatcher[d].pc = "requeueing" /\ run.status = "retry_wait"
              /\ Emit(dispatcher[d].seq, "queued", "run_requeued")
RowStep == UnchangedRun \/ Created \/ Moved \/ Noted \/ Claimed \/ Requeued

\* An announcement is an Event type and names a status.
LEMMA AnnouncesType ==
  ASSUME NEW type \in Announcement
  PROVE  Announces[type] \in RunStatus /\ type \in EventType
BY DEF Announcement, Announces, RunStatus, EventType

\* Each transition names its Event by hand; this is the table, row by row.
LEMMA AnnouncesTable ==
  /\ "run_cancelled" \in Announcement /\ Announces["run_cancelled"] = "cancelled"
  /\ "run_cancel_requested" \in Announcement
  /\ Announces["run_cancel_requested"] = "cancel_requested"
  /\ "dependency_wait_completed" \in Announcement
  /\ Announces["dependency_wait_completed"] = "queued"
  /\ "human_input_submitted" \in Announcement
  /\ Announces["human_input_submitted"] = "queued"
  /\ "run_failed" \in Announcement /\ Announces["run_failed"] = "failed"
  /\ "run_retry_scheduled" \in Announcement
  /\ Announces["run_retry_scheduled"] = "retry_wait"
  /\ "result_committed" \in Announcement /\ Announces["result_committed"] = "succeeded"
  /\ "dependency_wait_started" \in Announcement
  /\ Announces["dependency_wait_started"] = "waiting_dependency"
  /\ "human_input_requested" \in Announcement
  /\ Announces["human_input_requested"] = "waiting_input"
  /\ "run_started" \in Announcement /\ Announces["run_started"] = "running"
  /\ "run_requeued" \in Announcement /\ Announces["run_requeued"] = "queued"
  /\ "run_created" \in Announcement /\ Announces["run_created"] = "queued"
BY DEF Announcement, Announces

\* apply_run_failure makes one transition with its Event, whichever branch it takes.
LEMMA FailureIsMoved ==
  ASSUME NEW permanent \in BOOLEAN, ApplyRunFailure(permanent)
  PROVE  Moved
BY AnnouncesTable DEF ApplyRunFailure, Moved

\* Every step of the system is one of the kinds of RowStep.
LEMMA NextIsRowStep ==
  ASSUME NothingBeforeCreation, Next
  PROVE  RowStep
<1>1. CASE CreateRun
  BY <1>1 DEF CreateRun, Created, RowStep
<1>2. CASE CancelRun
  BY <1>2, AnnouncesTable DEF CancelRun, CancelTarget, Moved, RowStep
<1>3. CASE Resume
  BY <1>3, AnnouncesTable DEF Resume, Moved, RowStep
<1>4. CASE FailWaiting \/ CancelReview
  BY <1>4, AnnouncesTable DEF FailWaiting, CancelReview, Moved, RowStep
<1>12. CASE NoteSource
  BY <1>12 DEF NoteSource, Noted, RowStep
<1>5. ASSUME NEW d \in Dispatchers, Dispatch(d) PROVE RowStep
  BY <1>5 DEF Dispatch, ListDuePending, PrepareRun, Requeue, EnqueueRun, MarkDispatched,
     RecordFailure, UnchangedRun, Requeued, RowStep
<1>6. ASSUME NEW w \in Workers, Execute(w) PROVE RowStep
  <2>1. CASE PickJob(w) \/ StartRead(w) \/ ExecGiveUp(w) \/ ExecRaise(w) \/ GetStatus(w)
             \/ CloseAttempt(w) \/ FinishJob(w)
    BY <2>1 DEF PickJob, StartRead, ExecGiveUp, ExecRaise, GetStatus, CloseAttempt, FinishJob,
       UnchangedRun, RowStep
  <2>2. CASE StartClaim(w)
    BY <2>2 DEF StartClaim, Claimed, UnchangedRun, RowStep
  <2>3. CASE ExecSucceed(w)
    BY <2>3, AnnouncesTable DEF ExecSucceed, Moved, RowStep
  <2>4. CASE ExecPause(w)
    BY <2>4, AnnouncesTable DEF ExecPause, Moved, RowStep
  <2>5. CASE ExecFinalizeCancelled(w)
    BY <2>5, AnnouncesTable DEF ExecFinalizeCancelled, Moved, RowStep
  <2>6. CASE ExecMarkFailed(w)
    BY <2>6, FailureIsMoved DEF ExecMarkFailed, UnchangedRun, RowStep
  <2>7. CASE Fail(w)
    BY <2>7, FailureIsMoved DEF Fail, UnchangedRun, RowStep
  <2> QED
    BY <1>6, <2>1, <2>2, <2>3, <2>4, <2>5, <2>6, <2>7 DEF Execute
<1>7. ASSUME NEW w \in Workers, ExecProgress(w) PROVE RowStep
  <2>1. run.status # "absent"
    BY <1>7 DEF ExecProgress, NothingBeforeCreation
  <2> QED
    BY <1>7, <2>1 DEF ExecProgress, Noted, RowStep
<1>8. CASE Recover
  BY <1>8, AnnouncesTable, FailureIsMoved DEF Recover, Moved, RowStep
<1>9. CASE \E k \in 1..Latest : CloseOrphan(k)
  BY <1>9 DEF CloseOrphan, UnchangedRun, RowStep
<1>10. CASE Faults
  BY <1>10 DEF Faults, EnqueueError, DispatcherCrash, JobTimeout, Shutdown, HardCrash,
     CloseAttemptError, UnchangedRun, RowStep
<1>11. CASE Time
  BY <1>11 DEF Time, LeaseLapses, Heartbeat, InProgressExpires, UnchangedRun, RowStep
<1> QED
  BY <1>1, <1>2, <1>3, <1>4, <1>5, <1>6, <1>7, <1>8, <1>9, <1>10, <1>11, <1>12
     DEF Next, Requests, Reconcile

\* With a contiguous log the unique constraint turns away every stale number,
\* so a write always uses the next one.
LEMMA EmitIsNext ==
  ASSUME LogInv, NEW s \in 1..run.seq, NEW status, NEW type, Emit(s, status, type)
  PROVE  s = run.seq
BY DEF LogInv, LogContiguous, TypeOK, Emit, Unique

\* What every writing step has in common.
Wrote == \E status \in RunRowStatus, type \in EventType :
  Emit(run.seq, status, type) /\ status # "absent"

\* A step that touches the rows writes exactly one Event, with the next number.
LEMMA RowStepWrites ==
  ASSUME LogInv, RowStep
  PROVE  UnchangedRun \/ Wrote
<1> USE DEF LogInv, RunRowStatus, RunStatus
<1>1. CASE Created
  BY <1>1, AnnouncesTable, AnnouncesType DEF Created, Wrote
<1>2. CASE Moved
  BY <1>2, AnnouncesType DEF Moved, MoveTo, Wrote
<1>3. CASE Noted
  BY <1>3 DEF Noted, Wrote, EventType, Note, TypeOK
<1>4. CASE Claimed
  <2>1. PICK w \in Workers : /\ worker[w].pc = "claiming" /\ run.status = "queued"
                             /\ Emit(worker[w].seq, "running", "run_started")
    BY <1>4 DEF Claimed
  <2>2. worker[w].seq = run.seq
    BY <2>1, EmitIsNext DEF ReadsNotAhead
  <2> QED
    BY <2>1, <2>2, AnnouncesTable, AnnouncesType DEF Wrote
<1>5. CASE Requeued
  <2>1. PICK d \in Dispatchers : /\ dispatcher[d].pc = "requeueing" /\ run.status = "retry_wait"
                                 /\ Emit(dispatcher[d].seq, "queued", "run_requeued")
    BY <1>5 DEF Requeued
  <2>2. dispatcher[d].seq = run.seq
    BY <2>1, EmitIsNext DEF ReadsNotAhead
  <2> QED
    BY <2>1, <2>2, AnnouncesTable, AnnouncesType DEF Wrote
<1> QED
  BY <1>1, <1>2, <1>3, <1>4, <1>5 DEF RowStep

\* The typed and contiguous log after a write.
LEMMA WriteKeepsLog ==
  ASSUME LogInv, Wrote
  PROVE  /\ run' \in [status: RunRowStatus, seq: Nat \ {0}]
         /\ run'.seq = run.seq + 1
         /\ run'.status # "absent"
         /\ DOMAIN events' = DOMAIN events \cup {run.seq}
         /\ \A x \in DOMAIN events' : events'[x] \in EventType
         /\ DOMAIN events' \subseteq Nat
         /\ LogContiguous'
<1>1. PICK status \in RunRowStatus, type \in EventType :
        Emit(run.seq, status, type) /\ status # "absent"
  BY DEF Wrote
<1>2. run.seq \in Nat \ {0} /\ DOMAIN events = 1..(run.seq - 1)
  BY DEF LogInv, TypeOK, LogContiguous
<1>3. run' = [status |-> status, seq |-> run.seq + 1]
  BY <1>1 DEF Emit
<1>4. events' = [x \in DOMAIN events \cup {run.seq} |-> IF x = run.seq THEN type ELSE events[x]]
  BY <1>1 DEF Emit, Insert
<1>5. run.seq + 1 \in Nat \ {0}
  BY <1>2
<1>6. run' \in [status: RunRowStatus, seq: Nat \ {0}] /\ run'.seq = run.seq + 1
      /\ run'.status # "absent"
  BY <1>1, <1>3, <1>5
<1>7. DOMAIN events' = DOMAIN events \cup {run.seq}
  BY <1>4
<1>8. \A x \in DOMAIN events' : events'[x] \in EventType
  BY <1>4 DEF LogInv, TypeOK
<1>9. DOMAIN events' = 1..run.seq
  BY <1>2, <1>7
<1> QED
  BY <1>2, <1>6, <1>7, <1>8, <1>9 DEF LogContiguous

\* Every step keeps the log typed and contiguous, and the counter never falls.
LEMMA StepKeepsLog ==
  ASSUME LogInv, Next
  PROVE  /\ run' \in [status: RunRowStatus, seq: Nat \ {0}]
         /\ run'.seq >= run.seq
         /\ run'.status = "absent" => UnchangedRun
         /\ DOMAIN events' \subseteq Nat
         /\ \A x \in DOMAIN events' : events'[x] \in EventType
         /\ LogContiguous'
<1>1. UnchangedRun \/ Wrote
  BY NextIsRowStep, RowStepWrites DEF LogInv
<1>2. CASE UnchangedRun
  BY <1>2 DEF UnchangedRun, LogInv, TypeOK, LogContiguous
<1>3. CASE Wrote
  BY <1>3, WriteKeepsLog DEF LogInv, TypeOK
<1> QED
  BY <1>1, <1>2, <1>3

-----------------------------------------------------------------------------
(* The other variables *)

\* The initial values of processes and jobs are well-typed.
LEMMA IdleTypes ==
  /\ IdleWorker \in Worker /\ IdleDispatcher \in Dispatcher
  /\ NoJob \in Job /\ NewJob \in Job
BY DEF IdleWorker, IdleDispatcher, Worker, WorkerPc, Dispatcher, DispatcherPc, NoJob, NewJob,
   Job, AttemptStatus

\* Appending an element of S to a sequence over S.
LEMMA AppendType ==
  ASSUME NEW S, NEW q \in Seq(S), NEW e \in S PROVE Append(q, e) \in Seq(S)
OBVIOUS

\* Conditional updates keep the Attempts well-typed.
LEMMA UpdateType ==
  ASSUME attempts \in Seq(Attempt), NEW k, NEW status \in AttemptStatus, NEW fresh \in BOOLEAN
  PROVE  UpdateRunning(k, status, fresh) \in Seq(Attempt)
<1>1. Latest \in Nat /\ \A i \in 1..Latest : attempts[i] \in Attempt
  BY DEF Latest
<1>2. ASSUME NEW i \in 1..Latest
      PROVE  [status |-> status, fresh |-> fresh, start |-> attempts[i].start] \in Attempt
  BY <1>1 DEF Attempt
<1> QED
  BY <1>1, <1>2 DEF UpdateRunning

\* The well-typed variables besides the rows of LogInv.
RestOK ==
  /\ outbox \in [status: OutboxStatus \cup {"absent"}, count: Nat]
  /\ attempts \in Seq(Attempt)
  /\ job \in Job
  /\ worker \in [Workers -> Worker]
  /\ dispatcher \in [Dispatchers -> Dispatcher]
  /\ faults \in Nat

\* The updates of the Outbox record keep it well-typed.
LEMMA OutboxType ==
  ASSUME outbox \in [status: OutboxStatus \cup {"absent"}, count: Nat], NEW status \in OutboxStatus
  PROVE  /\ [outbox EXCEPT !.status = status] \in [status: OutboxStatus \cup {"absent"}, count: Nat]
         /\ [status |-> status, count |-> outbox.count + 1]
              \in [status: OutboxStatus \cup {"absent"}, count: Nat]
BY DEF OutboxStatus

\* Requests of users keep the other variables well-typed.
LEMMA RequestsType ==
  ASSUME RestOK, Requests
  PROVE  RestOK'
BY OutboxType DEF RestOK, Requests, CreateRun, CancelRun, Resume, FailWaiting, CancelReview, NoteSource, OutboxStatus

\* The updates of a worker keep it well-typed.
LEMMA WorkerType ==
  ASSUME worker \in [Workers -> Worker], NEW w \in Workers, NEW pc \in WorkerPc
  PROVE  /\ Step(w, pc) => worker' \in [Workers -> Worker]
         /\ Leave(w) => worker' \in [Workers -> Worker]
         /\ [worker EXCEPT ![w] = IdleWorker] \in [Workers -> Worker]
BY IdleTypes DEF Step, Leave, Worker, WorkerPc, IdleWorker, AttemptStatus

\* A worker that is about to close its Attempt is well-typed.
LEMMA CloseAsType ==
  ASSUME worker \in [Workers -> Worker], NEW w \in Workers, NEW status \in AttemptStatus,
         CloseAs(w, status)
  PROVE  worker' \in [Workers -> Worker]
<1>1. worker[w].attempt \in Nat
  BY DEF Worker
<1>2. [pc |-> "closing", attempt |-> worker[w].attempt, seq |-> 0, close |-> status] \in Worker
  BY <1>1 DEF Worker, WorkerPc
<1> QED
  BY <1>2 DEF CloseAs

\* The updates of a dispatch loop keep it well-typed.
LEMMA DispatcherType ==
  ASSUME dispatcher \in [Dispatchers -> Dispatcher], NEW d \in Dispatchers, NEW pc \in DispatcherPc
  PROVE  /\ DStep(d, pc) => dispatcher' \in [Dispatchers -> Dispatcher]
         /\ DIdle(d) => dispatcher' \in [Dispatchers -> Dispatcher]
BY IdleTypes DEF DStep, DIdle, Dispatcher, DispatcherPc, IdleDispatcher

\* A step of a dispatch loop keeps the other variables well-typed.
LEMMA DispatchType ==
  ASSUME RestOK, TypeOK, NEW d \in Dispatchers, Dispatch(d)
  PROVE  RestOK'
<1> USE DispatcherType, IdleTypes DEF RestOK, DispatcherPc
<1>1. CASE ListDuePending(d)
  <2>1. [dispatcher[d] EXCEPT !.pc = "listed", !.count = outbox.count] \in Dispatcher
    BY DEF Dispatcher
  <2> QED
    BY <1>1, <2>1 DEF ListDuePending
<1>2. CASE PrepareRun(d)
  <2>1. [dispatcher[d] EXCEPT !.pc = "requeueing", !.seq = run.seq] \in Dispatcher
    BY DEF Dispatcher, TypeOK
  <2> QED
    BY <1>2, <2>1 DEF PrepareRun
<1>3. CASE Requeue(d)
  BY <1>3 DEF Requeue
<1>4. CASE EnqueueRun(d)
  BY <1>4 DEF EnqueueRun, EnqueuedJob
<1>5. CASE MarkDispatched(d)
  BY <1>5, OutboxType DEF MarkDispatched, OutboxStatus
<1>6. CASE RecordFailure(d)
  <2>1. dispatcher[d].count + 1 \in Nat
    BY DEF Dispatcher
  <2> QED
    BY <1>6, <2>1 DEF RecordFailure, OutboxStatus
<1> QED
  BY <1>1, <1>2, <1>3, <1>4, <1>5, <1>6 DEF Dispatch

\* _close_attempt chooses a status of an Attempt.
LEMMA CloseStatusType ==
  ASSUME NEW status PROVE CloseStatus(status) \in AttemptStatus
BY DEF CloseStatus, AttemptStatus

\* apply_run_failure keeps the Outbox record well-typed.
LEMMA FailureType ==
  ASSUME RestOK, NEW permanent \in BOOLEAN, ApplyRunFailure(permanent)
  PROVE  outbox' \in [status: OutboxStatus \cup {"absent"}, count: Nat]
BY OutboxType DEF ApplyRunFailure, RestOK, OutboxStatus

\* A step of a worker keeps the other variables well-typed.
LEMMA ExecuteType ==
  ASSUME RestOK, TypeOK, NEW w \in Workers, Execute(w)
  PROVE  RestOK'
<1> USE WorkerType, IdleTypes DEF RestOK, WorkerPc
<1>1. CASE PickJob(w)
  <2>1. [job EXCEPT !.inProgress = TRUE, !.tried = TRUE] \in Job
    BY DEF Job
  <2> QED
    BY <1>1, <2>1 DEF PickJob
<1>2. CASE StartRead(w)
  <2>1. [worker[w] EXCEPT !.pc = "claiming", !.seq = run.seq] \in Worker
    BY DEF Worker, TypeOK
  <2> QED
    BY <1>2, <2>1 DEF StartRead
<1>3. CASE StartClaim(w)
  <2>1. Latest + 1 \in Nat
    BY DEF Latest
  <2>2. [pc |-> "executing", attempt |-> Latest + 1, seq |-> 0, close |-> "running"] \in Worker
    BY <2>1 DEF Worker, AttemptStatus
  <2>3. [status |-> "running", fresh |-> TRUE, start |-> worker[w].seq] \in Attempt
    BY DEF Attempt, Worker, AttemptStatus
  <2>4. worker' \in [Workers -> Worker]
    BY <1>3, <2>2 DEF StartClaim
  <2>5. attempts' \in Seq(Attempt)
    <3>1. Append(attempts, [status |-> "running", fresh |-> TRUE, start |-> worker[w].seq])
            \in Seq(Attempt)
      BY <2>3, AppendType
    <3> QED
      BY <1>3, <3>1 DEF StartClaim
  <2> QED
    BY <1>3, <2>4, <2>5 DEF StartClaim
<1>4. CASE ExecSucceed(w) \/ ExecPause(w) \/ ExecFinalizeCancelled(w) \/ ExecGiveUp(w)
           \/ ExecRaise(w)
  BY <1>4 DEF ExecSucceed, ExecPause, ExecFinalizeCancelled, ExecGiveUp, ExecRaise
<1>5. CASE ExecMarkFailed(w)
  BY <1>5, FailureType DEF ExecMarkFailed
<1>6. CASE Fail(w)
  <2>1. worker' \in [Workers -> Worker]
    BY <1>6, CloseAsType DEF Fail, AttemptStatus
  <2>2. outbox' \in [status: OutboxStatus \cup {"absent"}, count: Nat]
    BY <1>6, FailureType DEF Fail
  <2> QED
    BY <1>6, <2>1, <2>2 DEF Fail
<1>7. CASE GetStatus(w)
  BY <1>7, CloseStatusType, CloseAsType DEF GetStatus
<1>8. CASE CloseAttempt(w)
  <2>1. worker[w].close \in AttemptStatus
    BY DEF Worker
  <2> QED
    BY <1>8, <2>1, UpdateType DEF CloseAttempt, FinishIfRunning
<1>9. CASE FinishJob(w)
  BY <1>9 DEF FinishJob
<1> QED
  BY <1>1, <1>2, <1>3, <1>4, <1>5, <1>6, <1>7, <1>8, <1>9 DEF Execute

\* _orphan_terminal_status gives up or chooses a status of an Attempt.
LEMMA OrphanStatusType ==
  ASSUME NEW k, OrphanStatus(k) # "none" PROVE OrphanStatus(k) \in AttemptStatus
BY DEF OrphanStatus, AttemptStatus, FinalRunStatus

\* The reconcilers keep the other variables well-typed.
LEMMA ReconcileType ==
  ASSUME RestOK, Reconcile
  PROVE  RestOK'
<1> USE DEF RestOK
<1>1. CASE Recover
  <2>1. outbox' \in [status: OutboxStatus \cup {"absent"}, count: Nat]
    BY <1>1, FailureType DEF Recover
  <2>2. attempts' \in Seq(Attempt)
    BY <1>1, UpdateType DEF Recover, FinishIfRunning, AttemptStatus
  <2> QED
    BY <1>1, <2>1, <2>2 DEF Recover
<1>2. ASSUME NEW k \in 1..Latest, CloseOrphan(k) PROVE RestOK'
  BY <1>2, UpdateType, OrphanStatusType DEF CloseOrphan, FinishIfRunning
<1> QED
  BY <1>1, <1>2 DEF Reconcile

\* Faults keep the other variables well-typed.
LEMMA FaultsType ==
  ASSUME RestOK, Faults
  PROVE  RestOK'
<1> USE WorkerType, DispatcherType, IdleTypes DEF RestOK, Fault
<1>1. ASSUME NEW d \in Dispatchers, EnqueueError(d) \/ DispatcherCrash(d) PROVE RestOK'
  BY <1>1 DEF EnqueueError, DispatcherCrash, EnqueuedJob, DispatcherPc
<1>2. ASSUME NEW w \in Workers, JobTimeout(w) \/ HardCrash(w) \/ CloseAttemptError(w)
      PROVE  RestOK'
  BY <1>2 DEF JobTimeout, HardCrash, CloseAttemptError, WorkerPc
<1>3. ASSUME NEW w \in Workers, Shutdown(w) PROVE RestOK'
  <2>1. [job EXCEPT !.inProgress = FALSE] \in Job
    BY DEF Job
  <2> QED
    BY <1>3, <2>1 DEF Shutdown, WorkerPc
<1> QED
  BY <1>1, <1>2, <1>3 DEF Faults

\* The passing of time keeps the other variables well-typed.
LEMMA TimeType ==
  ASSUME RestOK, Time
  PROVE  RestOK'
<1> USE DEF RestOK, AttemptStatus
<1>1. ASSUME NEW k \in 1..Latest, LeaseLapses(k) PROVE RestOK'
  BY <1>1, UpdateType DEF LeaseLapses
<1>2. ASSUME NEW w \in Workers, Heartbeat(w) PROVE RestOK'
  BY <1>2, UpdateType DEF Heartbeat
<1>3. CASE InProgressExpires
  <2>1. [job EXCEPT !.inProgress = FALSE] \in Job
    BY DEF Job
  <2> QED
    BY <1>3, <2>1 DEF InProgressExpires
<1> QED
  BY <1>1, <1>2, <1>3 DEF Time

\* Every step keeps every variable well-typed.
LEMMA NextType ==
  ASSUME LogInv, Next
  PROVE  TypeOK'
<1>1. RestOK
  BY DEF LogInv, TypeOK, RestOK
<1>2. ASSUME NEW w \in Workers, ExecProgress(w) PROVE RestOK'
  BY <1>1, <1>2 DEF ExecProgress, RestOK
<1>3. RestOK'
  BY <1>1, <1>2, RequestsType, DispatchType, ExecuteType, ReconcileType, FaultsType, TimeType
     DEF Next, LogInv
<1> QED
  BY <1>3, StepKeepsLog DEF RestOK, TypeOK

-----------------------------------------------------------------------------
(* The inductive invariant *)

\* The inductive invariant holds initially.
LEMMA InitLogInv == Init => LogInv
<1> SUFFICES ASSUME Init PROVE LogInv
  OBVIOUS
<1> USE DEF Init
<1>1. TypeOK
  <2>1. run \in [status: RunRowStatus, seq: Nat \ {0}]
    BY DEF RunRowStatus
  <2>2. attempts \in Seq(Attempt)
    OBVIOUS
  <2>3. DOMAIN events \subseteq Nat /\ \A s \in DOMAIN events : events[s] \in EventType
    OBVIOUS
  <2> QED
    BY <2>1, <2>2, <2>3, IdleTypes DEF TypeOK
<1>2. NothingBeforeCreation
  BY DEF NothingBeforeCreation, NoJob, IdleWorker, IdleDispatcher
<1>3. ReadsNotAhead
  BY DEF ReadsNotAhead, IdleWorker, IdleDispatcher
<1>4. LogContiguous
  BY DEF LogContiguous
<1> QED
  BY <1>1, <1>2, <1>3, <1>4 DEF LogInv

\* Before the creation only the creation can happen.
LEMMA NextCreation ==
  ASSUME LogInv, Next
  PROVE  NothingBeforeCreation'
<1> SUFFICES ASSUME run'.status = "absent" PROVE NothingBeforeCreation'
  BY DEF NothingBeforeCreation
<1>1. UnchangedRun /\ run.status = "absent"
  BY StepKeepsLog DEF UnchangedRun
<1>2. /\ outbox.status = "absent" /\ ~job.present
      /\ \A w \in Workers : worker[w].pc = "idle"
      /\ \A d \in Dispatchers : dispatcher[d].pc = "idle"
  BY <1>1 DEF LogInv, NothingBeforeCreation
<1> USE <1>1, <1>2
<1>3. CASE Requests
  BY <1>3 DEF Requests, CreateRun, CancelRun, Resume, FailWaiting, CancelReview, NoteSource, Emit, UnchangedRun,
     FinalRunStatus, LogInv, TypeOK
<1>4. ASSUME NEW d \in Dispatchers, Dispatch(d) PROVE FALSE
  BY <1>4 DEF Dispatch, ListDuePending, PrepareRun, Requeue, EnqueueRun, MarkDispatched,
     RecordFailure
<1>5. ASSUME NEW w \in Workers, Execute(w) \/ ExecProgress(w) PROVE FALSE
  BY <1>5 DEF Execute, ExecProgress, PickJob, StartRead, StartClaim, ExecSucceed, ExecPause,
     ExecFinalizeCancelled, ExecGiveUp, ExecMarkFailed, ExecRaise, Fail, GetStatus,
     CloseAttempt, FinishJob
<1>6. CASE Reconcile
  BY <1>6 DEF Reconcile, Recover, CloseOrphan, ExecutingStatus, NothingBeforeCreation
<1>7. CASE Faults
  BY <1>7 DEF Faults, EnqueueError, DispatcherCrash, JobTimeout, Shutdown, HardCrash,
     CloseAttemptError
<1>8. CASE Time
  <2>1. ~job'.present
    BY <1>8 DEF Time, LeaseLapses, Heartbeat, InProgressExpires, LogInv, TypeOK, Job
  <2> QED
    BY <1>8, <2>1 DEF Time, LeaseLapses, Heartbeat, InProgressExpires, NothingBeforeCreation
<1> QED
  BY <1>3, <1>4, <1>5, <1>6, <1>7, <1>8 DEF Next

\* A worker that is about to claim has just read the row, or read it before.
LEMMA NextClaiming ==
  ASSUME LogInv, Next, NEW v \in Workers, worker'[v].pc = "claiming"
  PROVE  worker'[v].seq = run.seq
         \/ (worker[v].pc = "claiming" /\ worker'[v].seq = worker[v].seq)
<1> worker \in [Workers -> Worker]
  BY DEF LogInv, TypeOK
<1> USE DEF Step, Leave, CloseAs, IdleWorker, Worker
<1>1. CASE UNCHANGED worker
  BY <1>1
<1>2. ASSUME NEW w \in Workers, Execute(w)
      PROVE  worker'[v].seq = run.seq
             \/ (worker[v].pc = "claiming" /\ worker'[v].seq = worker[v].seq)
  BY <1>2 DEF Execute, PickJob, StartRead, StartClaim, ExecSucceed, ExecPause,
     ExecFinalizeCancelled, ExecGiveUp, ExecMarkFailed, ExecRaise, Fail, GetStatus,
     CloseAttempt, FinishJob
<1>3. CASE Faults
  BY <1>3 DEF Faults, EnqueueError, DispatcherCrash, JobTimeout, Shutdown, HardCrash,
     CloseAttemptError
<1>4. CASE Requests
  BY <1>1, <1>4 DEF Requests, CreateRun, CancelRun, Resume, FailWaiting, CancelReview, NoteSource
<1>5. ASSUME NEW d \in Dispatchers, Dispatch(d) PROVE UNCHANGED worker
  BY <1>5 DEF Dispatch, ListDuePending, PrepareRun, Requeue, EnqueueRun, MarkDispatched,
     RecordFailure
<1>6. ASSUME NEW w \in Workers, ExecProgress(w) PROVE UNCHANGED worker
  BY <1>6 DEF ExecProgress
<1>7. CASE Reconcile \/ Time
  BY <1>1, <1>7 DEF Reconcile, Recover, CloseOrphan, Time, LeaseLapses, Heartbeat,
     InProgressExpires
<1> QED
  BY <1>1, <1>2, <1>3, <1>4, <1>5, <1>6, <1>7 DEF Next

\* The same for a dispatch loop that is about to requeue.
LEMMA NextRequeueing ==
  ASSUME LogInv, Next, NEW v \in Dispatchers, dispatcher'[v].pc = "requeueing"
  PROVE  dispatcher'[v].seq = run.seq
         \/ (dispatcher[v].pc = "requeueing" /\ dispatcher'[v].seq = dispatcher[v].seq)
<1> dispatcher \in [Dispatchers -> Dispatcher]
  BY DEF LogInv, TypeOK
<1> USE DEF DStep, DIdle, IdleDispatcher, Dispatcher
<1>1. CASE UNCHANGED dispatcher
  BY <1>1
<1>2. ASSUME NEW d \in Dispatchers, Dispatch(d)
      PROVE  dispatcher'[v].seq = run.seq
             \/ (dispatcher[v].pc = "requeueing" /\ dispatcher'[v].seq = dispatcher[v].seq)
  BY <1>2 DEF Dispatch, ListDuePending, PrepareRun, Requeue, EnqueueRun, MarkDispatched,
     RecordFailure
<1>3. CASE Faults
  BY <1>3 DEF Faults, EnqueueError, DispatcherCrash, JobTimeout, Shutdown, HardCrash,
     CloseAttemptError
<1>4. CASE Requests
  BY <1>1, <1>4 DEF Requests, CreateRun, CancelRun, Resume, FailWaiting, CancelReview, NoteSource
<1>5. ASSUME NEW w \in Workers, Execute(w) PROVE UNCHANGED dispatcher
  BY <1>5 DEF Execute, PickJob, StartRead, StartClaim, ExecSucceed, ExecPause,
     ExecFinalizeCancelled, ExecGiveUp, ExecMarkFailed, ExecRaise, Fail, GetStatus,
     CloseAttempt, FinishJob
<1>6. ASSUME NEW w \in Workers, ExecProgress(w) PROVE UNCHANGED dispatcher
  BY <1>6 DEF ExecProgress
<1>7. CASE Reconcile \/ Time
  BY <1>1, <1>7 DEF Reconcile, Recover, CloseOrphan, Time, LeaseLapses, Heartbeat,
     InProgressExpires
<1> QED
  BY <1>1, <1>2, <1>3, <1>4, <1>5, <1>6, <1>7 DEF Next

\* No step makes a number that was read run ahead of the counter.
LEMMA NextReads ==
  ASSUME LogInv, Next
  PROVE  ReadsNotAhead'
<1>1. run.seq \in Nat \ {0} /\ run'.seq \in Nat /\ run'.seq >= run.seq
  BY StepKeepsLog DEF LogInv, TypeOK
<1>2. ASSUME NEW w \in Workers, worker'[w].pc = "claiming" PROVE worker'[w].seq \in 1..run'.seq
  BY <1>1, <1>2, NextClaiming DEF LogInv, ReadsNotAhead
<1>3. ASSUME NEW d \in Dispatchers, dispatcher'[d].pc = "requeueing"
      PROVE  dispatcher'[d].seq \in 1..run'.seq
  BY <1>1, <1>3, NextRequeueing DEF LogInv, ReadsNotAhead
<1> QED
  BY <1>2, <1>3 DEF ReadsNotAhead

\* Every step keeps the inductive invariant.
LEMMA NextLogInv == LogInv /\ [Next]_vars => LogInv'
<1> SUFFICES ASSUME LogInv, [Next]_vars PROVE LogInv'
  OBVIOUS
<1>1. CASE Next
  BY <1>1, NextType, NextCreation, NextReads, StepKeepsLog DEF LogInv
<1>2. CASE UNCHANGED vars
  BY <1>2 DEF vars, LogInv, TypeOK, NothingBeforeCreation, ReadsNotAhead, LogContiguous
<1> QED
  BY <1>1, <1>2

\* The rows and the state of every process stay well-typed.
THEOREM TypeCorrect == Spec => []TypeOK
BY InitLogInv, NextLogInv, PTL DEF Spec, LogInv

\* The Event log is contiguous: the conditional updates of _start and
\* _prepare_run with a number they read earlier never leave a gap.
THEOREM LogIsContiguous == Spec => []LogContiguous
BY InitLogInv, NextLogInv, PTL DEF Spec, LogInv

-----------------------------------------------------------------------------
(* The refinement of RunDomain *)

\* The events rows, read in the order of their numbers, are a sequence.
LogIsSequence == events \in Seq(EventType)
RefineInv == LogInv /\ LogIsSequence

\* Inserting the row with the next number appends an Event to the log.
LEMMA InsertAppends ==
  ASSUME RefineInv, NEW type \in EventType
  PROVE  Insert(run.seq, type) = Append(events, type)
<1>1. run.seq \in Nat \ {0} /\ DOMAIN events = 1..(run.seq - 1) /\ events \in Seq(EventType)
  BY DEF RefineInv, LogInv, TypeOK, LogContiguous, LogIsSequence
<1>2. Len(events) = run.seq - 1
  BY <1>1
<1>3. DOMAIN events \cup {run.seq} = 1..(Len(events) + 1)
  BY <1>1, <1>2
<1>4. Insert(run.seq, type)
        = [x \in 1..(Len(events) + 1) |-> IF x = Len(events) + 1 THEN type ELSE events[x]]
  BY <1>1, <1>2, <1>3 DEF Insert
<1>5. \A x \in 1..(Len(events) + 1) :
        (IF x = Len(events) + 1 THEN type ELSE events[x]) \in EventType
  BY <1>1
<1>6. Len(events) + 1 \in Nat
  BY <1>1
<1>7. Insert(run.seq, type) \in Seq(EventType) /\ Len(Insert(run.seq, type)) = Len(events) + 1
  BY <1>4, <1>5, <1>6
<1>8. /\ Append(events, type) \in Seq(EventType)
      /\ Len(Append(events, type)) = Len(events) + 1
      /\ \A x \in 1..(Len(events) + 1) :
           Append(events, type)[x] = IF x = Len(events) + 1 THEN type ELSE events[x]
  BY <1>1, AppendProperties
<1> QED
  BY <1>4, <1>6, <1>7, <1>8, SeqEqual

\* A write of any kind appends its Event to the log.
LEMMA EmitAppends ==
  ASSUME RefineInv, NEW s \in 1..run.seq, NEW status, NEW type \in EventType,
         Emit(s, status, type)
  PROVE  s = run.seq /\ run'.status = status /\ events' = Append(events, type)
<1>1. s = run.seq
  BY EmitIsNext DEF RefineInv
<1> QED
  BY <1>1, InsertAppends DEF Emit

\* A step that writes the rows is a step of RunDomain.
LEMMA RowStepRefines ==
  ASSUME RefineInv, RowStep
  PROVE  [Domain!Next]_<<run.status, events>>
<1> run.seq \in 1..run.seq
  BY DEF RefineInv, LogInv, TypeOK
<1>1. CASE UnchangedRun
  BY <1>1 DEF UnchangedRun
<1>2. CASE Created
  BY <1>2, EmitAppends, AnnouncesTable, AnnouncesType DEF Created, Domain!Next, Domain!Create
<1>3. CASE Moved
  <2>1. PICK type \in Announcement : MoveTo(Announces[type], type)
    BY <1>3 DEF Moved
  <2>2. run'.status = Announces[type] /\ events' = Append(events, type)
    BY <2>1, EmitAppends, AnnouncesType DEF MoveTo
  <2>3. <<run.status, Announces[type]>> \in Transitions
    BY <2>1 DEF MoveTo
  <2> QED
    BY <2>2, <2>3 DEF Domain!Next, Domain!Transition, Domain!Announcement, Domain!Announces,
       Domain!Transitions, Announcement, Announces, Transitions
<1>4. CASE Noted
  BY <1>4, EmitAppends DEF Noted, Domain!Next, Domain!TakeNote, EventType, Note, Domain!Note
<1>5. CASE Claimed
  <2>1. PICK w \in Workers : /\ worker[w].pc = "claiming" /\ run.status = "queued"
                             /\ Emit(worker[w].seq, "running", "run_started")
    BY <1>5 DEF Claimed
  <2>2. run'.status = "running" /\ events' = Append(events, "run_started")
    BY <2>1, EmitAppends, AnnouncesTable, AnnouncesType DEF RefineInv, LogInv, ReadsNotAhead
  <2>3. <<"queued", "running">> \in Transitions
    BY DEF Transitions
  <2> QED
    BY <2>1, <2>2, <2>3, AnnouncesTable
       DEF Domain!Next, Domain!Transition, Domain!Announcement, Domain!Announces,
           Domain!Transitions, Announcement, Announces, Transitions
<1>6. CASE Requeued
  <2>1. PICK d \in Dispatchers : /\ dispatcher[d].pc = "requeueing" /\ run.status = "retry_wait"
                                 /\ Emit(dispatcher[d].seq, "queued", "run_requeued")
    BY <1>6 DEF Requeued
  <2>2. run'.status = "queued" /\ events' = Append(events, "run_requeued")
    BY <2>1, EmitAppends, AnnouncesTable, AnnouncesType DEF RefineInv, LogInv, ReadsNotAhead
  <2>3. <<"retry_wait", "queued">> \in Transitions
    BY DEF Transitions
  <2> QED
    BY <2>1, <2>2, <2>3, AnnouncesTable
       DEF Domain!Next, Domain!Transition, Domain!Announcement, Domain!Announces,
           Domain!Transitions, Announcement, Announces, Transitions
<1> QED
  BY <1>1, <1>2, <1>3, <1>4, <1>5, <1>6 DEF RowStep

\* The log stays a sequence.
LEMMA NextRefineInv == RefineInv /\ [Next]_vars => RefineInv'
<1> SUFFICES ASSUME RefineInv, [Next]_vars PROVE RefineInv'
  OBVIOUS
<1>1. LogInv'
  BY NextLogInv DEF RefineInv
<1>2. CASE UNCHANGED vars
  BY <1>1, <1>2 DEF vars, RefineInv, LogIsSequence
<1>3. CASE Next
  <2>1. UnchangedRun \/ Wrote
    BY <1>3, NextIsRowStep, RowStepWrites DEF RefineInv, LogInv
  <2>2. CASE UnchangedRun
    BY <1>1, <2>2 DEF UnchangedRun, RefineInv, LogIsSequence
  <2>3. CASE Wrote
    <3>1. PICK status \in RunRowStatus, type \in EventType : Emit(run.seq, status, type)
      BY <2>3 DEF Wrote
    <3>2. events' = Append(events, type)
      BY <3>1, InsertAppends DEF Emit
    <3>3. events' \in Seq(EventType)
      BY <3>2, AppendType DEF RefineInv, LogIsSequence
    <3> QED
      BY <1>1, <3>3 DEF RefineInv, LogIsSequence
  <2> QED
    BY <2>1, <2>2, <2>3
<1> QED
  BY <1>2, <1>3

\* RunLifecycle implements RunDomain: whatever requests, dispatch loops,
\* workers, reconcilers and faults do to a Run, its status moves only along the
\* transitions of domain/run.py, each move with the one Event that announces it.
THEOREM RefinesDomain == Spec => ImplementsDomain
<1>1. Init => RefineInv
  BY InitLogInv DEF Init, RefineInv, LogIsSequence
<1>2. Init => Domain!Init
  BY DEF Init, Domain!Init
<1>3. RefineInv /\ [Next]_vars => [Domain!Next]_<<run.status, events>>
  <2> SUFFICES ASSUME RefineInv, [Next]_vars PROVE [Domain!Next]_<<run.status, events>>
    OBVIOUS
  <2>1. CASE Next
    BY <2>1, NextIsRowStep, RowStepRefines DEF RefineInv, LogInv
  <2>2. CASE UNCHANGED vars
    BY <2>2 DEF vars
  <2> QED
    BY <2>1, <2>2
<1> QED
  BY <1>1, <1>2, <1>3, NextRefineInv, PTL DEF Spec, ImplementsDomain, Domain!Spec

-----------------------------------------------------------------------------
(* The log determines the status *)

StatusInv == LogInv /\ LogDeterminesStatus

\* A step that changes the rows announces the new status or takes a note.
LEMMA RowStepAnnounces ==
  ASSUME LogInv, RowStep
  PROVE  \/ UnchangedRun
         \/ \E type \in Announcement : Emit(run.seq, Announces[type], type)
         \/ run.status # "absent" /\ Emit(run.seq, run.status, Note)
<1>1. CASE Claimed
  <2>1. PICK w \in Workers : /\ worker[w].pc = "claiming" /\ run.status = "queued"
                             /\ Emit(worker[w].seq, "running", "run_started")
    BY <1>1 DEF Claimed
  <2>2. worker[w].seq = run.seq
    BY <2>1, EmitIsNext DEF LogInv, ReadsNotAhead
  <2> QED
    BY <2>1, <2>2, AnnouncesTable
<1>2. CASE Requeued
  <2>1. PICK d \in Dispatchers : /\ dispatcher[d].pc = "requeueing" /\ run.status = "retry_wait"
                                 /\ Emit(dispatcher[d].seq, "queued", "run_requeued")
    BY <1>2 DEF Requeued
  <2>2. dispatcher[d].seq = run.seq
    BY <2>1, EmitIsNext DEF LogInv, ReadsNotAhead
  <2> QED
    BY <2>1, <2>2, AnnouncesTable
<1>3. CASE Created
  BY <1>3, AnnouncesTable DEF Created
<1>4. CASE Moved
  BY <1>4 DEF Moved, MoveTo
<1> QED
  BY <1>1, <1>2, <1>3, <1>4 DEF RowStep, Noted

\* An announcement is written behind all others, a note does not count.
LEMMA NextStatusInv == StatusInv /\ [Next]_vars => StatusInv'
<1> SUFFICES ASSUME StatusInv, [Next]_vars PROVE LogDeterminesStatus'
  BY NextLogInv DEF StatusInv
<1>1. run.seq \in Nat \ {0} /\ DOMAIN events = 1..(run.seq - 1)
  BY DEF StatusInv, LogInv, TypeOK, LogContiguous
<1>2. CASE UNCHANGED <<run, events>>
  BY <1>2 DEF StatusInv, LogDeterminesStatus, Announcements
<1>3. ASSUME NEW type \in Announcement, Emit(run.seq, Announces[type], type)
      PROVE  LogDeterminesStatus'
  <2>1. /\ run'.status = Announces[type] /\ events'[run.seq] = type
        /\ DOMAIN events' = 1..run.seq
    BY <1>1, <1>3 DEF Emit, Insert
  <2>2. run.seq \in Announcements' /\ \A t \in Announcements' : t <= run.seq
    BY <1>1, <2>1 DEF Announcements
  <2> QED
    BY <2>1, <2>2 DEF LogDeterminesStatus
<1>4. ASSUME run.status # "absent", Emit(run.seq, run.status, Note)
      PROVE  LogDeterminesStatus'
  <2>1. /\ run'.status = run.status /\ events'[run.seq] = Note
        /\ DOMAIN events' = DOMAIN events \cup {run.seq}
        /\ \A x \in DOMAIN events : events'[x] = events[x]
    BY <1>1, <1>4 DEF Emit, Insert
  <2>2. Note \notin Announcement
    BY DEF Note, Announcement, Announces
  <2>3. Announcements' = Announcements
    BY <2>1, <2>2 DEF Announcements
  <2>4. \A s \in Announcements : events'[s] = events[s]
    BY <2>1 DEF Announcements
  <2> QED
    BY <1>4, <2>1, <2>3, <2>4 DEF StatusInv, LogDeterminesStatus
<1>5. CASE Next
  BY <1>2, <1>3, <1>4, <1>5, NextIsRowStep, RowStepAnnounces
     DEF StatusInv, LogInv, UnchangedRun
<1> QED
  BY <1>2, <1>5 DEF vars

\* The status of a Run can be replayed from its Events: the last one that
\* announces a status names the status of the row, at every moment.
THEOREM LogReplaysStatus == Spec => []LogDeterminesStatus
<1>1. Init => StatusInv
  BY InitLogInv DEF Init, StatusInv, LogDeterminesStatus
<1> QED
  BY <1>1, NextStatusInv, PTL DEF Spec, StatusInv

-----------------------------------------------------------------------------
(* A retry is delivered, with one dispatch loop *)

\* One worker process with its one dispatch loop, as the repository deploys it.
OneDispatcher == \A c, d \in Dispatchers : c = d

\* A dispatch loop holds a pending record, and one that passed the requeueing
\* of a retry works for a Run that does not wait for one.
DeliveryFollows ==
  /\ \A d \in Dispatchers : dispatcher[d].pc # "idle" => outbox.status = "pending"
  /\ run.status = "retry_wait" =>
       /\ outbox.status = "pending"
       /\ \A d \in Dispatchers : dispatcher[d].pc \in {"idle", "listed", "requeueing"}

\* The inductive invariant behind RetryWillBeDelivered.
DeliveryInv == TypeOK /\ NothingBeforeCreation /\ DeliveryFollows

\* What a step of anyone but the dispatch loops does to the Outbox record: it
\* is left alone, created with the Run, or put back from dispatched to pending.
RecordKept == UNCHANGED outbox /\ (run'.status = "retry_wait" => run.status = "retry_wait")
RecordReset == outbox.status = "dispatched" /\ outbox'.status = "pending"
RecordCreated == run.status = "absent" /\ outbox'.status = "pending" /\ run'.status = "queued"
RecordStep == UNCHANGED dispatcher /\ (RecordKept \/ RecordReset \/ RecordCreated)

\* A pending record lets apply_run_failure fail the Run and never schedule a
\* retry, so a scheduled retry always finds the dispatch loops idle.
LEMMA RecordStepKeepsDelivery ==
  ASSUME DeliveryInv, RecordStep
  PROVE  DeliveryFollows'
BY DEF DeliveryInv, NothingBeforeCreation, DeliveryFollows, RecordStep, RecordKept, RecordReset,
   RecordCreated

\* apply_run_failure leaves the record alone or puts it back to pending.
LEMMA FailureIsRecordStep ==
  ASSUME NEW permanent, ApplyRunFailure(permanent)
  PROVE  RecordKept \/ RecordReset
BY DEF ApplyRunFailure, MoveTo, Emit, RecordKept, RecordReset

\* Nobody but a dispatch loop touches a pending record.
LEMMA NextIsRecordStep ==
  ASSUME TypeOK, Next,
         ~ (\E d \in Dispatchers : Dispatch(d) \/ EnqueueError(d) \/ DispatcherCrash(d))
  PROVE  RecordStep
<1>1. CASE Requests
  BY <1>1 DEF Requests, CreateRun, CancelRun, CancelTarget, Resume, FailWaiting, CancelReview, NoteSource, MoveTo, Emit,
     RecordStep, RecordKept, RecordReset, RecordCreated, TypeOK
<1>2. ASSUME NEW w \in Workers, Execute(w) PROVE RecordStep
  <2>1. CASE PickJob(w) \/ StartRead(w) \/ ExecGiveUp(w) \/ ExecRaise(w) \/ GetStatus(w)
             \/ CloseAttempt(w) \/ FinishJob(w)
    BY <2>1 DEF PickJob, StartRead, ExecGiveUp, ExecRaise, GetStatus, CloseAttempt, FinishJob,
       RecordStep, RecordKept
  <2>2. CASE StartClaim(w) \/ ExecSucceed(w) \/ ExecPause(w) \/ ExecFinalizeCancelled(w)
    BY <2>2 DEF StartClaim, ExecSucceed, ExecPause, ExecFinalizeCancelled, MoveTo, Emit,
       RecordStep, RecordKept
  <2>3. CASE ExecMarkFailed(w) \/ Fail(w)
    <3>1. RecordKept \/ RecordReset
      BY <2>3, FailureIsRecordStep DEF ExecMarkFailed, Fail, RecordKept
    <3> QED
      BY <2>3, <3>1 DEF ExecMarkFailed, Fail, RecordStep
  <2> QED
    BY <1>2, <2>1, <2>2, <2>3 DEF Execute
<1>3. ASSUME NEW w \in Workers, ExecProgress(w) PROVE RecordStep
  BY <1>3 DEF ExecProgress, Emit, RecordStep, RecordKept
<1>4. CASE Recover
  <2>1. RecordKept \/ RecordReset
    <3>1. CASE run.status = "cancel_requested"
      BY <1>4, <3>1 DEF Recover, MoveTo, Emit, RecordKept
    <3>2. CASE run.status # "cancel_requested"
      <4>1. ApplyRunFailure(FALSE)
        BY <1>4, <3>2 DEF Recover
      <4> QED
        BY <4>1, FailureIsRecordStep
    <3> QED
      BY <3>1, <3>2
  <2> QED
    BY <1>4, <2>1 DEF Recover, RecordStep
<1>5. ASSUME NEW k \in 1..Latest, CloseOrphan(k) PROVE RecordStep
  BY <1>5 DEF CloseOrphan, RecordStep, RecordKept
<1>6. ASSUME NEW w \in Workers,
             JobTimeout(w) \/ Shutdown(w) \/ HardCrash(w) \/ CloseAttemptError(w)
      PROVE  RecordStep
  BY <1>6 DEF JobTimeout, Shutdown, HardCrash, CloseAttemptError, RecordStep, RecordKept
<1>7. CASE Time
  BY <1>7 DEF Time, LeaseLapses, Heartbeat, InProgressExpires, RecordStep, RecordKept
<1> QED
  BY <1>1, <1>2, <1>3, <1>4, <1>5, <1>6, <1>7 DEF Next, Reconcile, Faults

\* The one dispatch loop marks and fails only the delivery it listed itself.
LEMMA DispatchKeepsDelivery ==
  ASSUME OneDispatcher, DeliveryInv, NEW d \in Dispatchers,
         Dispatch(d) \/ EnqueueError(d) \/ DispatcherCrash(d)
  PROVE  DeliveryFollows'
<1> dispatcher \in [Dispatchers -> Dispatcher]
  BY DEF DeliveryInv, TypeOK
<1> \A c \in Dispatchers : c = d
  BY DEF OneDispatcher
<1> USE DEF DeliveryInv, DeliveryFollows, DStep, DIdle, IdleDispatcher, Dispatcher
<1>1. CASE ListDuePending(d)
  BY <1>1 DEF ListDuePending
<1>2. CASE PrepareRun(d)
  BY <1>2 DEF PrepareRun, FinalRunStatus
<1>3. CASE Requeue(d)
  BY <1>3 DEF Requeue, Emit, UnchangedRun
<1>4. CASE EnqueueRun(d) \/ EnqueueError(d)
  BY <1>4 DEF EnqueueRun, EnqueueError
<1>5. CASE MarkDispatched(d) \/ RecordFailure(d)
  BY <1>5 DEF MarkDispatched, RecordFailure
<1>6. CASE DispatcherCrash(d)
  BY <1>6 DEF DispatcherCrash
<1> QED
  BY <1>1, <1>2, <1>3, <1>4, <1>5, <1>6 DEF Dispatch

\* Every step keeps the delivery, as long as there is one dispatch loop.
LEMMA NextDelivery ==
  ASSUME OneDispatcher
  PROVE  LogInv /\ DeliveryFollows /\ [Next]_vars => DeliveryFollows'
<1> SUFFICES ASSUME LogInv, DeliveryFollows, [Next]_vars PROVE DeliveryFollows'
  OBVIOUS
<1>1. DeliveryInv
  BY DEF LogInv, DeliveryInv
<1>2. CASE UNCHANGED vars
  BY <1>2 DEF vars, DeliveryFollows
<1>3. CASE Next
  BY <1>1, <1>3, DispatchKeepsDelivery, NextIsRecordStep, RecordStepKeepsDelivery DEF DeliveryInv
<1> QED
  BY <1>2, <1>3

\* With one dispatch loop, a Run in RETRY_WAIT has a pending Outbox record: the
\* retry is never lost to a late mark or failure of an earlier delivery.
THEOREM RetryIsDelivered ==
  ASSUME OneDispatcher
  PROVE  Spec => []RetryWillBeDelivered
<1>1. Init => DeliveryFollows
  BY DEF Init, DeliveryFollows, IdleDispatcher
<1>2. LogInv /\ DeliveryFollows /\ [Next]_vars => DeliveryFollows'
  BY NextDelivery
<1>3. DeliveryFollows => RetryWillBeDelivered
  BY DEF DeliveryFollows, RetryWillBeDelivered
<1> QED
  BY <1>1, <1>2, <1>3, InitLogInv, NextLogInv, PTL DEF Spec


-----------------------------------------------------------------------------
(* Attempts and the log *)

\* The Events that release a Run from an Attempt without ending it, and
\* run_failed, which _orphan_terminal_status reads in the same way.
Reasons ==
  {"dependency_wait_started", "human_input_requested", "run_retry_scheduled", "run_failed"}

\* The statuses of a Run that was released, or not claimed yet.
ReleasedStatus == {"queued", "retry_wait", "waiting_input", "waiting_dependency"}

StartsMatch ==
  {attempts[k].start : k \in 1..Latest} = {s \in DOMAIN events : events[s] = "run_started"}
StartsIncrease ==
  \A j, k \in 1..Latest : j < k => attempts[j].start < attempts[k].start

\* An Event between two consecutive starts says why the first was released.
ReleasesExplained ==
  \A k \in 1..Latest : k < Latest =>
    \E s \in DOMAIN events : /\ attempts[k].start <= s /\ s < attempts[k + 1].start
                             /\ events[s] \in Reasons

\* The same for the last Attempt, as soon as the Run may be claimed again.
LatestExplained ==
  Latest > 0 /\ run.status \in ReleasedStatus =>
    \E s \in DOMAIN events : attempts[Latest].start <= s /\ events[s] \in Reasons

NoAttemptYet == run.status = "absent" => Latest = 0

\* The inductive invariant behind AttemptsMatchLog.
AttemptsInv ==
  LogInv /\ StartsMatch /\ StartsIncrease /\ ReleasesExplained /\ LatestExplained /\ NoAttemptYet

\* The Attempts are the same ones, whatever happened to their statuses.
SameStarts ==
  /\ Latest' = Latest
  /\ \A k \in 1..Latest : attempts'[k].start = attempts[k].start

\* A conditional update of an Attempt never moves its start.
LEMMA UpdateKeepsStarts ==
  ASSUME attempts \in Seq(Attempt), NEW k, NEW status, NEW fresh,
         attempts' = UpdateRunning(k, status, fresh)
  PROVE  SameStarts
<1>1. Latest \in Nat
  BY DEF Latest
<1>2. DOMAIN attempts' = 1..Latest
  BY DEF UpdateRunning
<1>3. \A i \in 1..Latest : attempts'[i].start = attempts[i].start
  BY DEF UpdateRunning
<1>4. attempts' = [i \in 1..Latest |-> attempts'[i]]
  BY <1>2 DEF UpdateRunning
<1>5. Len(attempts') = Latest
  BY <1>1, <1>4
<1> QED
  BY <1>3, <1>5 DEF SameStarts, Latest

\* Only the claim of a worker appends an Attempt.
LEMMA NextKeepsStarts ==
  ASSUME attempts \in Seq(Attempt), Next
  PROVE  SameStarts \/ Claimed
<1>1. CASE UNCHANGED attempts
  BY <1>1 DEF SameStarts, Latest
<1>2. CASE Requests
  BY <1>1, <1>2 DEF Requests, CreateRun, CancelRun, Resume, FailWaiting, CancelReview, NoteSource
<1>3. ASSUME NEW d \in Dispatchers, Dispatch(d) PROVE UNCHANGED attempts
  BY <1>3 DEF Dispatch, ListDuePending, PrepareRun, Requeue, EnqueueRun, MarkDispatched,
     RecordFailure
<1>4. ASSUME NEW w \in Workers, Execute(w) PROVE SameStarts \/ Claimed
  <2>1. CASE StartClaim(w)
    BY <1>1, <2>1 DEF StartClaim, Claimed
  <2>2. CASE CloseAttempt(w)
    BY <2>2, UpdateKeepsStarts DEF CloseAttempt, FinishIfRunning
  <2> QED
    BY <1>1, <1>4, <2>1, <2>2 DEF Execute, PickJob, StartRead, ExecSucceed, ExecPause,
       ExecFinalizeCancelled, ExecGiveUp, ExecMarkFailed, ExecRaise, Fail, GetStatus, FinishJob
<1>5. ASSUME NEW w \in Workers, ExecProgress(w) PROVE UNCHANGED attempts
  BY <1>5 DEF ExecProgress
<1>6. CASE Reconcile
  BY <1>6, UpdateKeepsStarts DEF Reconcile, Recover, CloseOrphan, FinishIfRunning
<1>7. CASE Faults
  BY <1>1, <1>7 DEF Faults, EnqueueError, DispatcherCrash, JobTimeout, Shutdown, HardCrash,
     CloseAttemptError
<1>8. CASE Time
  BY <1>1, <1>8, UpdateKeepsStarts DEF Time, LeaseLapses, Heartbeat, InProgressExpires
<1> QED
  BY <1>1, <1>2, <1>3, <1>4, <1>5, <1>6, <1>7, <1>8 DEF Next

\* The types that the steps below need.
LEMMA StartTypes ==
  ASSUME AttemptsInv
  PROVE  /\ run.seq \in Nat \ {0} /\ DOMAIN events = 1..(run.seq - 1)
         /\ Latest \in Nat
         /\ \A k \in 1..Latest : attempts[k].start \in 1..(run.seq - 1)
<1>1. run.seq \in Nat \ {0} /\ DOMAIN events = 1..(run.seq - 1) /\ attempts \in Seq(Attempt)
  BY DEF AttemptsInv, LogInv, TypeOK, LogContiguous
<1>2. Latest \in Nat
  BY <1>1 DEF Latest
<1>3. ASSUME NEW k \in 1..Latest PROVE attempts[k].start \in DOMAIN events
  BY DEF AttemptsInv, StartsMatch
<1> QED
  BY <1>1, <1>2, <1>3

\* An Event that starts nothing keeps the invariant, when the Event of a
\* release is one of Reasons.
LEMMA EmitKeepsAttempts ==
  ASSUME AttemptsInv, SameStarts, NEW status, NEW type, Emit(run.seq, status, type),
         type # "run_started", status # "absent",
         status \in ReleasedStatus =>
           run.status \in ReleasedStatus \/ type \in Reasons \/ Latest = 0
  PROVE  StartsMatch' /\ StartsIncrease' /\ ReleasesExplained' /\ LatestExplained' /\ NoAttemptYet'
<1>1. /\ run.seq \in Nat \ {0} /\ DOMAIN events = 1..(run.seq - 1) /\ Latest \in Nat
      /\ \A k \in 1..Latest : attempts[k].start \in 1..(run.seq - 1)
  BY StartTypes
<1>2. /\ run'.status = status /\ DOMAIN events' = DOMAIN events \cup {run.seq}
      /\ events'[run.seq] = type /\ \A x \in DOMAIN events : events'[x] = events[x]
  BY <1>1 DEF Emit, Insert
<1>3. Latest' = Latest /\ \A k \in 1..Latest : attempts'[k].start = attempts[k].start
  BY DEF SameStarts
<1>4. StartsMatch'
  BY SMTT(30), <1>1, <1>2, <1>3 DEF AttemptsInv, StartsMatch
<1>5. StartsIncrease'
  BY <1>3 DEF AttemptsInv, StartsIncrease
<1>6. ReleasesExplained'
  <2> SUFFICES ASSUME NEW k \in 1..Latest, k < Latest
               PROVE  \E s \in DOMAIN events' :
                        /\ attempts'[k].start <= s /\ s < attempts'[k + 1].start
                        /\ events'[s] \in Reasons
    BY <1>3 DEF ReleasesExplained
  <2>1. PICK s \in DOMAIN events : /\ attempts[k].start <= s /\ s < attempts[k + 1].start
                                   /\ events[s] \in Reasons
    BY DEF AttemptsInv, ReleasesExplained
  <2>2. k + 1 \in 1..Latest
    BY <1>1
  <2> QED
    BY <1>2, <1>3, <2>1, <2>2
<1>7. LatestExplained'
  <2> SUFFICES ASSUME Latest > 0, status \in ReleasedStatus
               PROVE  \E s \in DOMAIN events' :
                        attempts'[Latest].start <= s /\ events'[s] \in Reasons
    BY <1>2, <1>3 DEF LatestExplained
  <2>1. Latest \in 1..Latest /\ attempts'[Latest].start = attempts[Latest].start
    BY <1>1, <1>3
  <2>2. CASE type \in Reasons
    BY <1>1, <1>2, <2>1, <2>2
  <2>3. CASE run.status \in ReleasedStatus
    <3>1. PICK s \in DOMAIN events : attempts[Latest].start <= s /\ events[s] \in Reasons
      BY <2>3 DEF AttemptsInv, LatestExplained
    <3> QED
      BY <1>2, <2>1, <3>1
  <2> QED
    BY <1>1, <2>2, <2>3
<1>8. NoAttemptYet'
  BY <1>2 DEF NoAttemptYet
<1> QED
  BY <1>4, <1>5, <1>6, <1>7, <1>8

\* A claim appends an Attempt with the number of its run_started Event, behind
\* the Event that explains the release of the Attempt before.
LEMMA ClaimKeepsAttempts ==
  ASSUME AttemptsInv, Claimed
  PROVE  StartsMatch' /\ StartsIncrease' /\ ReleasesExplained' /\ LatestExplained' /\ NoAttemptYet'
<1>1. /\ run.seq \in Nat \ {0} /\ DOMAIN events = 1..(run.seq - 1) /\ Latest \in Nat
      /\ \A k \in 1..Latest : attempts[k].start \in 1..(run.seq - 1)
  BY StartTypes
<1>2. PICK w \in Workers :
        /\ worker[w].pc = "claiming" /\ run.status = "queued"
        /\ Emit(worker[w].seq, "running", "run_started")
        /\ attempts' = Append(attempts,
             [status |-> "running", fresh |-> TRUE, start |-> worker[w].seq])
  BY DEF Claimed
<1>3. worker[w].seq = run.seq
  BY <1>2, EmitIsNext DEF AttemptsInv, LogInv, ReadsNotAhead
<1>4. /\ run'.status = "running" /\ DOMAIN events' = DOMAIN events \cup {run.seq}
      /\ events'[run.seq] = "run_started" /\ \A x \in DOMAIN events : events'[x] = events[x]
  BY <1>1, <1>2, <1>3 DEF Emit, Insert
<1>5. /\ Latest' = Latest + 1
      /\ \A k \in 1..Latest : attempts'[k] = attempts[k]
      /\ attempts'[Latest + 1].start = run.seq
  <2>1. attempts \in Seq(Attempt)
    BY DEF AttemptsInv, LogInv, TypeOK
  <2> DEFINE new == [status |-> "running", fresh |-> TRUE, start |-> run.seq]
  <2>2. attempts' = Append(attempts, new) /\ new.start = run.seq
    BY <1>2, <1>3
  <2> HIDE DEF new
  <2> QED
    BY <2>1, <2>2, <1>1 DEF Latest
<1>6. StartsMatch'
  <2>1. {attempts'[k].start : k \in 1..(Latest + 1)}
          = {attempts[k].start : k \in 1..Latest} \cup {run.seq}
    BY <1>1, <1>5
  <2>2. {s \in DOMAIN events' : events'[s] = "run_started"}
          = {s \in DOMAIN events : events[s] = "run_started"} \cup {run.seq}
    BY <1>4
  <2> QED
    BY <1>5, <2>1, <2>2 DEF AttemptsInv, StartsMatch
<1>7. StartsIncrease'
  BY SMTT(30), <1>1, <1>5 DEF AttemptsInv, StartsIncrease
<1>8. ReleasesExplained'
  <2> SUFFICES ASSUME NEW k \in 1..Latest
               PROVE  \E s \in DOMAIN events' :
                        /\ attempts'[k].start <= s /\ s < attempts'[k + 1].start
                        /\ events'[s] \in Reasons
    BY <1>1, <1>5 DEF ReleasesExplained
  <2>1. CASE k < Latest
    <3>1. PICK s \in DOMAIN events : /\ attempts[k].start <= s /\ s < attempts[k + 1].start
                                     /\ events[s] \in Reasons
      BY <2>1 DEF AttemptsInv, ReleasesExplained
    <3>2. k + 1 \in 1..Latest
      BY <1>1, <2>1
    <3> QED
      BY <1>4, <1>5, <3>1, <3>2
  <2>2. CASE k = Latest
    <3>1. PICK s \in DOMAIN events : attempts[Latest].start <= s /\ events[s] \in Reasons
      BY <1>1, <1>2, <2>2 DEF AttemptsInv, LatestExplained, ReleasedStatus
    <3>2. s < run.seq
      BY <1>1
    <3> QED
      BY <1>4, <1>5, <2>2, <3>1, <3>2
  <2> QED
    BY <1>1, <2>1, <2>2
<1>9. LatestExplained'
  BY <1>4 DEF LatestExplained, ReleasedStatus
<1>10. NoAttemptYet'
  BY <1>4 DEF NoAttemptYet
<1> QED
  BY <1>6, <1>7, <1>8, <1>9, <1>10

\* A transition into a released status comes with the Event that explains it,
\* or from a status in which the Run was released already.
LEMMA MoveExplained ==
  ASSUME NEW type \in Announcement \ {"run_started"},
         <<run.status, Announces[type]>> \in Transitions
  PROVE  /\ Announces[type] # "absent"
         /\ Announces[type] \in ReleasedStatus =>
              run.status \in ReleasedStatus \/ type \in Reasons
BY DEF Announcement, Announces, Transitions, ReleasedStatus, Reasons

\* Every step keeps the Attempts and the log in step.
LEMMA NextAttempts == AttemptsInv /\ [Next]_vars => AttemptsInv'
<1> SUFFICES ASSUME AttemptsInv, [Next]_vars
             PROVE  /\ StartsMatch' /\ StartsIncrease' /\ ReleasesExplained'
                    /\ LatestExplained' /\ NoAttemptYet'
  BY NextLogInv DEF AttemptsInv
<1>1. CASE SameStarts /\ UnchangedRun
  <2>1. Latest \in Nat
    BY StartTypes
  <2>2. Latest \in 1..Latest \/ Latest = 0
    BY <2>1
  <2>3. \A k \in 1..Latest : k < Latest => k + 1 \in 1..Latest
    BY <2>1
  <2> QED
    BY <1>1, <2>1, <2>2, <2>3 DEF SameStarts, UnchangedRun, AttemptsInv, StartsMatch, StartsIncrease,
       ReleasesExplained, LatestExplained, NoAttemptYet
<1>2. CASE UNCHANGED vars
  BY <1>1, <1>2 DEF vars, SameStarts, UnchangedRun, Latest
<1>3. CASE Claimed
  BY <1>3, ClaimKeepsAttempts
<1>4. CASE Next /\ ~Claimed
  <2>1. SameStarts
    BY <1>4, NextKeepsStarts DEF AttemptsInv, LogInv, TypeOK
  <2>2. CASE Created
    <3>1. Latest = 0
      BY <2>2 DEF Created, AttemptsInv, NoAttemptYet
    <3> QED
      BY <2>1, <2>2, <3>1, EmitKeepsAttempts DEF Created
  <2>3. CASE Moved
    <3>1. PICK type \in Announcement \ {"run_started"} : MoveTo(Announces[type], type)
      BY <2>3 DEF Moved
    <3>2. <<run.status, Announces[type]>> \in Transitions
          /\ Emit(run.seq, Announces[type], type)
      BY <3>1 DEF MoveTo
    <3> QED
      BY <2>1, <3>2, MoveExplained, EmitKeepsAttempts
  <2>4. CASE Noted
    BY <2>1, <2>4, EmitKeepsAttempts DEF Noted, Note
  <2>5. CASE Requeued
    <3>1. PICK d \in Dispatchers : /\ dispatcher[d].pc = "requeueing" /\ run.status = "retry_wait"
                                   /\ Emit(dispatcher[d].seq, "queued", "run_requeued")
      BY <2>5 DEF Requeued
    <3>2. dispatcher[d].seq = run.seq
      BY <3>1, EmitIsNext DEF AttemptsInv, LogInv, ReadsNotAhead
    <3> QED
      BY <2>1, <3>1, <3>2, EmitKeepsAttempts DEF ReleasedStatus
  <2> QED
    BY <1>1, <1>4, <2>1, <2>2, <2>3, <2>4, <2>5, NextIsRowStep DEF RowStep, AttemptsInv, LogInv
<1> QED
  BY <1>2, <1>3, <1>4

\* An Attempt left RUNNING can be classified from the log.
LEMMA OrphansClassified ==
  ASSUME AttemptsInv, NEW k \in 1..Latest, Orphan(k)
  PROVE  OrphanStatus(k) # "none"
<1>1. Latest \in Nat
  BY StartTypes
<1>2. CASE Interval(k) \cap Reasons # {}
  BY <1>2 DEF OrphanStatus, Reasons, FinalRunStatus
<1>3. CASE k < Latest
  BY <1>2, <1>3 DEF AttemptsInv, ReleasesExplained, Interval
<1>4. CASE ~(k < Latest)
  <2>1. k = Latest /\ Latest > 0 /\ run.status \notin ExecutingStatus
    BY <1>1, <1>4 DEF Orphan
  <2>2. run.status \in RunRowStatus /\ run.status # "absent"
    BY <2>1, <1>1 DEF AttemptsInv, LogInv, TypeOK, NoAttemptYet
  <2>3. CASE run.status \in ReleasedStatus
    BY <1>2, <1>4, <2>1, <2>3 DEF AttemptsInv, LatestExplained, Interval
  <2>4. CASE run.status \in FinalRunStatus
    BY <2>4 DEF OrphanStatus, FinalRunStatus
  <2> QED
    BY <2>1, <2>2, <2>3, <2>4 DEF RunRowStatus, RunStatus, ExecutingStatus, ReleasedStatus,
       FinalRunStatus
<1> QED
  BY <1>3, <1>4

\* The budget of Attempts: a Run that may be claimed has one left.
Budget ==
  /\ Latest <= MaxRunAttempts + Pauses
  /\ run.status \in ReleasedStatus \cup {"absent"} => Latest < MaxRunAttempts + Pauses

\* A write adds its Event to the count of its type.
LEMMA CountAfterWrite ==
  ASSUME LogInv, NEW status, NEW type, Emit(run.seq, status, type), NEW t
  PROVE  Count(t) \in Nat /\ Count(t)' = IF t = type THEN Count(t) + 1 ELSE Count(t)
<1> DEFINE S == {s \in DOMAIN events : events[s] = t}
<1>1. run.seq \in Nat /\ DOMAIN events = 1..(run.seq - 1)
  BY DEF LogInv, LogContiguous, TypeOK
<1>2. IsFiniteSet(S)
  <2>1. IsFiniteSet(1..(run.seq - 1))
    BY <1>1, FS_Interval
  <2>2. S \subseteq 1..(run.seq - 1)
    BY <1>1
  <2> QED
    BY <2>1, <2>2, FS_Subset
<1>3. Count(t) = Cardinality(S) /\ Count(t) \in Nat
  BY <1>2, FS_CardinalityType DEF Count
<1>4. {s \in DOMAIN events' : events'[s] = t} = IF t = type THEN S \cup {run.seq} ELSE S
  BY <1>1 DEF Emit, Insert
<1>5. run.seq \notin S
  BY <1>1
<1>6. Cardinality(S \cup {run.seq}) = Cardinality(S) + 1
  BY <1>2, <1>5, FS_AddElement
<1> QED
  BY <1>3, <1>4, <1>6 DEF Count

\* The pauses are counted once each.
LEMMA PausesAfterWrite ==
  ASSUME LogInv, NEW status, NEW type, Emit(run.seq, status, type)
  PROVE  /\ Pauses \in Nat
         /\ Pauses' = IF type \in {"dependency_wait_started", "human_input_requested"}
                      THEN Pauses + 1 ELSE Pauses
<1>1. /\ Count("dependency_wait_started") \in Nat /\ Count("human_input_requested") \in Nat
      /\ Count("dependency_wait_started")' = IF "dependency_wait_started" = type
           THEN Count("dependency_wait_started") + 1 ELSE Count("dependency_wait_started")
      /\ Count("human_input_requested")' = IF "human_input_requested" = type
           THEN Count("human_input_requested") + 1 ELSE Count("human_input_requested")
  BY CountAfterWrite
<1> QED
  BY <1>1 DEF Pauses

\* Only apply_run_failure schedules a retry, and only with Attempts left.
LEMMA RetryHasBudget ==
  ASSUME TypeOK, Next, run'.status = "retry_wait"
  PROVE  run.status = "retry_wait" \/ Latest < MaxRunAttempts
<1> USE DEF MoveTo, Emit, UnchangedRun
<1>1. ASSUME NEW permanent, ApplyRunFailure(permanent) PROVE Latest < MaxRunAttempts
  BY <1>1 DEF ApplyRunFailure
<1>2. CASE Requests
  BY <1>2 DEF Requests, CreateRun, CancelRun, CancelTarget, Resume, FailWaiting, CancelReview, NoteSource
<1>3. ASSUME NEW d \in Dispatchers, Dispatch(d)
      PROVE  run.status = "retry_wait"
  BY <1>3 DEF Dispatch, ListDuePending, PrepareRun, Requeue, EnqueueRun, MarkDispatched,
     RecordFailure
<1>4. ASSUME NEW w \in Workers, Execute(w)
      PROVE  run.status = "retry_wait" \/ Latest < MaxRunAttempts
  BY <1>1, <1>4 DEF Execute, PickJob, StartRead, StartClaim, ExecSucceed, ExecPause,
     ExecFinalizeCancelled, ExecGiveUp, ExecMarkFailed, ExecRaise, Fail, GetStatus,
     CloseAttempt, FinishJob
<1>5. ASSUME NEW w \in Workers, ExecProgress(w) PROVE run.status = "retry_wait"
  BY <1>5 DEF ExecProgress
<1>6. CASE Reconcile
  <2>1. CASE Recover
    <3>1. run.status # "cancel_requested"
      <4> SUFFICES ASSUME run.status = "cancel_requested" PROVE FALSE
        OBVIOUS
      <4>1. Emit(run.seq, "cancelled", "run_cancelled")
        BY <2>1 DEF Recover
      <4> QED
        BY <4>1
    <3>2. ApplyRunFailure(FALSE)
      BY <2>1, <3>1 DEF Recover
    <3> QED
      BY <1>1, <3>2
  <2>2. CASE \E k \in 1..Latest : CloseOrphan(k)
    BY <2>2 DEF CloseOrphan
  <2> QED
    BY <1>6, <2>1, <2>2 DEF Reconcile
<1>7. CASE Faults \/ Time
  BY <1>7 DEF Faults, EnqueueError, DispatcherCrash, JobTimeout, Shutdown, HardCrash,
     CloseAttemptError, Time, LeaseLapses, Heartbeat, InProgressExpires
<1> QED
  BY <1>2, <1>3, <1>4, <1>5, <1>6, <1>7 DEF Next

\* Every step keeps the budget: a claim uses the Attempt that a creation, a
\* retry or a resume has left.
LEMMA NextBudget == LogInv /\ Budget /\ [Next]_vars => Budget'
<1> SUFFICES ASSUME LogInv, Budget, [Next]_vars PROVE Budget'
  OBVIOUS
<1> USE DEF Budget
<1>1. MaxRunAttempts \in Nat /\ Latest \in Nat
  BY ConstantsAssumption DEF LogInv, TypeOK, Latest
<1>2. CASE UNCHANGED <<run, events>> /\ Latest' = Latest
  BY <1>2 DEF Pauses, Count
<1>3. CASE Claimed
  <2>1. PICK w \in Workers : /\ worker[w].pc = "claiming" /\ run.status = "queued"
                             /\ Emit(worker[w].seq, "running", "run_started")
                             /\ attempts' = Append(attempts,
                                  [status |-> "running", fresh |-> TRUE, start |-> worker[w].seq])
    BY <1>3 DEF Claimed
  <2>2. worker[w].seq = run.seq
    BY <2>1, EmitIsNext DEF LogInv, ReadsNotAhead
  <2>3. Pauses \in Nat /\ Pauses' = Pauses /\ run'.status = "running"
    BY <2>1, <2>2, PausesAfterWrite DEF Emit
  <2>4. Latest' = Latest + 1
    BY <2>1 DEF Latest, LogInv, TypeOK
  <2> QED
    BY <1>1, <2>1, <2>3, <2>4 DEF ReleasedStatus
<1>4. CASE Next /\ ~Claimed /\ ~UnchangedRun
  <2>1. Latest' = Latest
    BY <1>4, NextKeepsStarts DEF LogInv, TypeOK, SameStarts
  <2>2. ASSUME NEW status, NEW type, Emit(run.seq, status, type),
               \/ run.status \in ReleasedStatus \cup {"absent"}
               \/ status \notin ReleasedStatus \cup {"absent"}
               \/ type \in {"dependency_wait_started", "human_input_requested"}
               \/ Latest < MaxRunAttempts
        PROVE  Budget'
    <3>1. /\ Pauses \in Nat /\ run'.status = status
          /\ Pauses' = IF type \in {"dependency_wait_started", "human_input_requested"}
                       THEN Pauses + 1 ELSE Pauses
      BY <2>2, PausesAfterWrite DEF Emit
    <3> QED
      BY <1>1, <2>1, <2>2, <3>1
  <2>3. CASE Created
    BY <2>2, <2>3 DEF Created
  <2>4. CASE Moved
    <3>1. PICK type \in Announcement \ {"run_started"} : MoveTo(Announces[type], type)
      BY <2>4 DEF Moved
    <3>2. <<run.status, Announces[type]>> \in Transitions
          /\ Emit(run.seq, Announces[type], type) /\ run'.status = Announces[type]
      BY <3>1 DEF MoveTo, Emit
    <3>3. CASE type = "run_retry_scheduled"
      <4>1. Latest < MaxRunAttempts
        BY <1>4, <3>2, <3>3, RetryHasBudget, AnnouncesTable DEF LogInv, Transitions
      <4> QED
        BY <2>2, <3>2, <4>1
    <3>4. CASE type # "run_retry_scheduled"
      <4>1. \/ run.status \in ReleasedStatus
            \/ Announces[type] \notin ReleasedStatus \cup {"absent"}
            \/ type \in {"dependency_wait_started", "human_input_requested"}
        BY <3>2, <3>4 DEF Announcement, Announces, Transitions, ReleasedStatus
      <4> QED
        BY <2>2, <3>2, <4>1
    <3> QED
      BY <3>3, <3>4
  <2>5. CASE Noted
    BY <2>2, <2>5 DEF Noted
  <2>6. CASE Requeued
    <3>1. PICK d \in Dispatchers : /\ dispatcher[d].pc = "requeueing" /\ run.status = "retry_wait"
                                   /\ Emit(dispatcher[d].seq, "queued", "run_requeued")
      BY <2>6 DEF Requeued
    <3>2. dispatcher[d].seq = run.seq
      BY <3>1, EmitIsNext DEF LogInv, ReadsNotAhead
    <3> QED
      BY <2>2, <3>1, <3>2 DEF ReleasedStatus
  <2> QED
    BY <1>4, <2>3, <2>4, <2>5, <2>6, NextIsRowStep DEF RowStep, LogInv
<1>5. CASE Next /\ ~Claimed /\ UnchangedRun
  BY <1>2, <1>5, NextKeepsStarts DEF LogInv, TypeOK, SameStarts, UnchangedRun
<1>6. CASE UNCHANGED vars
  BY <1>2, <1>6 DEF vars, Latest
<1> QED
  BY <1>3, <1>4, <1>5, <1>6

\* The Attempts and the run_started Events correspond, in order, for any number
\* of workers and claims; whichever Attempt a crash, a lost race or a failed
\* close leaves RUNNING, the Events say what it ended with; and there are never
\* more of them than the retry budget and the pauses allow.
THEOREM AttemptsAreLogged == Spec => []AttemptsMatchLog
<1>1. Init => AttemptsInv
  BY InitLogInv DEF Init, AttemptsInv, StartsMatch, StartsIncrease, ReleasesExplained,
     LatestExplained, NoAttemptYet, Latest
<1>2. Init => Budget
  <2> SUFFICES ASSUME Init PROVE Budget
    OBVIOUS
  <2>1. Latest = 0 /\ DOMAIN events = {}
    BY DEF Init, Latest
  <2>2. Count("dependency_wait_started") = 0 /\ Count("human_input_requested") = 0
    <3>1. \A t : {s \in DOMAIN events : events[s] = t} = {}
      BY <2>1
    <3> QED
      BY <3>1, FS_EmptySet DEF Count
  <2> QED
    BY <2>1, <2>2, ConstantsAssumption DEF Budget, Pauses
<1>3. AttemptsInv /\ Budget => AttemptsMatchLog
  BY OrphansClassified DEF AttemptsInv, AttemptsMatchLog, StartsMatch, StartsIncrease, Budget
<1>4. AttemptsInv => LogInv
  BY DEF AttemptsInv
<1> QED
  BY <1>1, <1>2, <1>3, <1>4, NextAttempts, NextBudget, PTL DEF Spec

-----------------------------------------------------------------------------
(* The row that the business modules see *)

\* RowOfRun, with the status and the openness of the latest Attempt given.
RowWith(status, open) == [status |-> RowStatusOf(status), attempts |-> Latest, open |-> open]
LatestOpen == Latest > 0 /\ attempts[Latest].status = "running"

\* The folding of the statuses, value by value.
LEMMA RowStatusTable ==
  /\ \A s \in {"absent", "queued", "retry_wait"} : RowStatusOf(s) = "queued"
  /\ \A s \in {"waiting_dependency", "waiting_input"} : RowStatusOf(s) = "waiting"
  /\ \A s \in {"running", "cancel_requested", "succeeded", "failed", "cancelled"} :
       RowStatusOf(s) = s
BY DEF RowStatusOf

\* A step that leaves the Attempts alone moves the status of the row, or nothing.
LEMMA RowAfterEmit ==
  ASSUME NEW s, NEW status, NEW type, Emit(s, status, type), UNCHANGED attempts
  PROVE  RowOfRun' = RowWith(status, LatestOpen)
BY DEF Emit, RowOfRun, RowWith, LatestOpen, Latest

\* A conditional update closes the latest Attempt, or nothing that the row shows.
LEMMA RowAfterUpdate ==
  ASSUME attempts \in Seq(Attempt), NEW k \in Nat, NEW status, NEW fresh,
         attempts' = UpdateRunning(k, status, fresh)
  PROVE  /\ Latest' = Latest
         /\ LatestOpen' = (LatestOpen /\ (k = Latest => status = "running"))
<1>1. Latest \in Nat /\ Latest' = Latest
  BY UpdateKeepsStarts DEF SameStarts, Latest
<1>2. \A i \in 1..Latest : attempts'[i] =
        IF i = k /\ attempts[i].status = "running"
        THEN [status |-> status, fresh |-> fresh, start |-> attempts[i].start] ELSE attempts[i]
  BY DEF UpdateRunning
<1>3. CASE Latest = 0
  BY <1>1, <1>3 DEF LatestOpen
<1>4. CASE Latest # 0
  <2>1. Latest \in 1..Latest /\ Latest > 0
    BY <1>1, <1>4
  <2>2. attempts'[Latest].status =
          IF Latest = k /\ attempts[Latest].status = "running" THEN status
          ELSE attempts[Latest].status
    <3>1. attempts'[Latest] =
            IF Latest = k /\ attempts[Latest].status = "running"
            THEN [status |-> status, fresh |-> fresh, start |-> attempts[Latest].start]
            ELSE attempts[Latest]
      BY <1>2, <2>1
    <3> QED
      BY <3>1
  <2> QED
    BY <1>1, <2>1, <2>2 DEF LatestOpen
<1> QED
  BY <1>3, <1>4

\* The same, when nothing else of the Run changes.
LEMMA UpdateIsClose ==
  ASSUME attempts \in Seq(Attempt), NEW k \in Nat, NEW status, NEW fresh,
         attempts' = UpdateRunning(k, status, fresh), UnchangedRun
  PROVE  Moves!Close \/ UNCHANGED RowOfRun
<1>1. /\ RowOfRun = RowWith(run.status, LatestOpen)
      /\ RowOfRun' = RowWith(run.status, LatestOpen /\ (k = Latest => status = "running"))
  BY RowAfterUpdate DEF RowOfRun, RowWith, LatestOpen, UnchangedRun
<1>2. CASE k = Latest => status = "running"
  BY <1>1, <1>2 DEF RowWith, LatestOpen
<1>3. CASE ~(k = Latest => status = "running")
  BY <1>1, <1>3 DEF RowWith, LatestOpen, Moves!Close, Moves!Closed
<1> QED
  BY <1>2, <1>3

\* apply_run_failure: the failure is final when the error is permanent, or
\* when the Outbox record cannot be reset.
LEMMA FailureOfRow ==
  ASSUME TypeOK, NEW permanent \in BOOLEAN, ApplyRunFailure(permanent), run.status = "running"
  PROVE  \E final \in BOOLEAN, status \in {"retry_wait", "failed"} :
           /\ \E type : MoveTo(status, type)
           /\ RowStatusOf(status) =
                IF ~final /\ Latest < MaxRunAttempts THEN "queued" ELSE "failed"
<1>1. CASE ~permanent /\ Latest < MaxRunAttempts /\ outbox.status = "dispatched"
  BY <1>1, RowStatusTable DEF ApplyRunFailure
<1>2. CASE ~(~permanent /\ Latest < MaxRunAttempts /\ outbox.status = "dispatched")
  BY <1>2, RowStatusTable DEF ApplyRunFailure
<1> QED
  BY <1>1, <1>2

\* What a step of anyone does to the row: a move of RunMoves, or nothing.
RowMove == Moves!Next \/ UNCHANGED RowOfRun

\* A step that touches neither the Run nor its Attempts.
LEMMA NothingIsRowMove ==
  ASSUME UnchangedRun, UNCHANGED attempts
  PROVE  RowMove
BY DEF UnchangedRun, RowMove, RowOfRun, Latest

\* The Run and its row have the same status but for the folded ones.
LEMMA RowOfStatus ==
  ASSUME TypeOK
  PROVE  /\ RowOfRun = RowWith(run.status, LatestOpen)
         /\ RowOfRun.status = RowStatusOf(run.status)
         /\ RowOfRun.attempts = Latest /\ RowOfRun.open = LatestOpen
         /\ run.status \in RunStatus \cup {"absent"} /\ attempts \in Seq(Attempt) /\ Latest \in Nat
BY DEF TypeOK, RunRowStatus, RowOfRun, RowWith, LatestOpen, Latest

\* A failed execution fails the row, and leaves its Attempt open for now.
LEMMA FailureIsRowMove ==
  ASSUME TypeOK, NEW permanent \in BOOLEAN, ApplyRunFailure(permanent), run.status = "running",
         UNCHANGED attempts
  PROVE  RowMove
<1>1. PICK final \in BOOLEAN, status \in {"retry_wait", "failed"} :
        /\ \E type : MoveTo(status, type)
        /\ RowStatusOf(status) = IF ~final /\ Latest < MaxRunAttempts THEN "queued" ELSE "failed"
  BY FailureOfRow
<1>2. RowOfRun' = RowWith(status, LatestOpen)
  BY <1>1, RowAfterEmit DEF MoveTo
<1>3. RowOfRun' = Moves!AfterFailure(RowOfRun, final)
  BY <1>1, <1>2, RowOfStatus, RowStatusTable DEF RowWith, Moves!AfterFailure, Moves!Running
<1> QED
  BY <1>3 DEF RowMove, Moves!Next, Moves!MarkFailed

\* Requests: a cancellation, a resume, and the ends of a wait.
LEMMA RequestIsRowMove ==
  ASSUME TypeOK, Requests
  PROVE  RowMove
<1> USE RowOfStatus, RowStatusTable, RowAfterEmit
    DEF RowMove, Moves!Next, RowWith, MoveTo, RunStatus, FinalRunStatus
<1>1. CASE CreateRun
  BY <1>1 DEF CreateRun
<1>2. CASE CancelRun
  <2>1. PICK type : Emit(run.seq, CancelTarget, type) /\ UNCHANGED attempts
    BY <1>2 DEF CancelRun
  <2>2. RowOfRun' = RowWith(CancelTarget, LatestOpen)
    BY <2>1
  <2>3. Moves!Cancel
    BY <1>2, <2>2 DEF CancelRun, CancelTarget, Moves!Cancel, Moves!Cancellable, Moves!Cancelled,
       Moves!Terminal, Moves!Running
  <2> QED
    BY <2>3
<1>3. CASE Resume
  BY <1>3 DEF Resume, Moves!Resume, Moves!Resumed
<1>4. CASE FailWaiting
  BY <1>4 DEF FailWaiting, Moves!GiveUp
<1>5. CASE CancelReview
  <2>1. RowOfRun' = RowWith("cancelled", LatestOpen)
    BY <1>5 DEF CancelReview
  <2>2. Moves!Cancel
    BY <1>5, <2>1 DEF CancelReview, Moves!Cancel, Moves!Cancellable, Moves!Cancelled,
       Moves!Terminal, Moves!Running
  <2> QED
    BY <2>2
<1>6. CASE NoteSource
  <2>1. RowOfRun' = RowWith(run.status, LatestOpen)
    BY <1>6 DEF NoteSource, TypeOK, RunRowStatus
  <2>2. RowOfRun' = RowOfRun
    BY <1>6, <2>1 DEF NoteSource, TypeOK, RunRowStatus
  <2> QED
    BY <2>2
<1> QED
  BY <1>1, <1>2, <1>3, <1>4, <1>5, <1>6 DEF Requests

\* Workers: the claim, the executor's transactions and the end of an execution.
LEMMA ExecuteIsRowMove ==
  ASSUME TypeOK, NEW w \in Workers, Execute(w)
  PROVE  RowMove
<1>1. CASE PickJob(w) \/ StartRead(w) \/ ExecGiveUp(w) \/ ExecRaise(w) \/ GetStatus(w)
           \/ FinishJob(w)
  BY <1>1, NothingIsRowMove DEF PickJob, StartRead, ExecGiveUp, ExecRaise, GetStatus, FinishJob,
     UnchangedRun
<1>2. CASE StartClaim(w)
  <2>1. CASE UnchangedRun /\ UNCHANGED attempts
    BY <2>1, NothingIsRowMove
  <2>2. CASE ~(UnchangedRun /\ UNCHANGED attempts)
    <3> DEFINE attempt == [status |-> "running", fresh |-> TRUE, start |-> worker[w].seq]
    <3>1. run.status = "queued" /\ run'.status = "running" /\ attempts' = Append(attempts, attempt)
      BY <1>2, <2>2 DEF StartClaim, Emit, UnchangedRun
    <3>2. attempt \in Attempt
      BY DEF TypeOK, Attempt, Worker, AttemptStatus
    <3>3. Len(attempts') = Latest + 1 /\ attempts'[Latest + 1] = attempt /\ Latest \in Nat
      BY <3>1, <3>2 DEF TypeOK, Latest
    <3>4. Latest' = Latest + 1 /\ LatestOpen' = TRUE
      BY <3>3 DEF Latest, LatestOpen
    <3>5. RowOfRun' = [status |-> "running", attempts |-> Latest + 1, open |-> TRUE]
      BY <3>1, <3>4, RowStatusTable DEF RowOfRun, LatestOpen
    <3>6. RowOfRun' = Moves!Started(RowOfRun)
      BY <3>5, RowOfStatus DEF Moves!Started
    <3> QED
      BY <3>1, <3>6, RowOfStatus, RowStatusTable DEF RowMove, Moves!Next, Moves!Claim
  <2> QED
    BY <2>1, <2>2
<1>3. CASE ExecSucceed(w)
  BY <1>3, RowOfStatus, RowStatusTable, RowAfterEmit
     DEF ExecSucceed, MoveTo, RowWith, RowMove, Moves!Next, Moves!Succeed, Moves!Succeeded,
         Moves!Running
<1>4. CASE ExecPause(w)
  BY <1>4, RowOfStatus, RowStatusTable, RowAfterEmit
     DEF ExecPause, MoveTo, RowWith, RowMove, Moves!Next, Moves!Pause, Moves!Paused, Moves!Running
<1>5. CASE ExecFinalizeCancelled(w)
  BY <1>5, RowOfStatus, RowStatusTable, RowAfterEmit
     DEF ExecFinalizeCancelled, MoveTo, RowWith, RowMove, Moves!Next, Moves!Cancel,
         Moves!Cancellable, Moves!Cancelled, Moves!Terminal, Moves!Running
<1>6. CASE ExecMarkFailed(w)
  BY <1>6, FailureIsRowMove, NothingIsRowMove DEF ExecMarkFailed, UnchangedRun
<1>7. CASE Fail(w)
  BY <1>7, FailureIsRowMove, NothingIsRowMove DEF Fail, UnchangedRun
<1>8. CASE CloseAttempt(w)
  <2>1. worker[w].attempt \in Nat
    BY DEF TypeOK, Worker
  <2>2. Moves!Close \/ UNCHANGED RowOfRun
    BY <1>8, <2>1, UpdateIsClose DEF CloseAttempt, FinishIfRunning, TypeOK, UnchangedRun
  <2> QED
    BY <2>2 DEF RowMove, Moves!Next
<1> QED
  BY <1>1, <1>2, <1>3, <1>4, <1>5, <1>6, <1>7, <1>8 DEF Execute

\* Reconcilers: a reclaim closes the latest Attempt with the failure or the
\* cancellation; an orphan is closed only.
LEMMA ReconcileIsRowMove ==
  ASSUME TypeOK, Reconcile
  PROVE  RowMove
<1> USE DEF ExecutingStatus
<1>1. CASE Recover
  <2>1. Latest \in Nat /\ LatestOpen /\ run.status \in {"running", "cancel_requested"}
    BY <1>1, RowOfStatus DEF Recover, LatestOpen
  <2>2. PICK closed \in {"failed", "cancelled"} : attempts' = UpdateRunning(Latest, closed, TRUE)
    BY <1>1 DEF Recover, FinishIfRunning
  <2>3. Latest' = Latest /\ LatestOpen' = FALSE
    BY <2>1, <2>2, RowAfterUpdate DEF TypeOK
  <2>4. RowOfRun' = [status |-> RowStatusOf(run'.status), attempts |-> Latest, open |-> FALSE]
    BY <2>3 DEF RowOfRun, LatestOpen
  <2>5. Moves!Reclaimable(RowOfRun)
    BY <2>1, RowOfStatus, RowStatusTable DEF Moves!Reclaimable
  <2>6. \E final \in BOOLEAN : RowOfRun' = Moves!Reclaimed(RowOfRun, final)
    <3>1. CASE run.status = "cancel_requested"
      <4>1. run'.status = "cancelled"
        BY <1>1, <3>1 DEF Recover, MoveTo, Emit
      <4>2. RowOfRun' = [status |-> "cancelled", attempts |-> Latest, open |-> FALSE]
        BY <2>4, <4>1, RowStatusTable
      <4>3. RowOfRun = [status |-> "cancel_requested", attempts |-> Latest, open |-> LatestOpen]
        BY <3>1, RowOfStatus, RowStatusTable DEF RowWith
      <4>4. ~Moves!Running(RowOfRun)
            /\ [RowOfRun EXCEPT !.status = "cancelled"] =
                 [status |-> "cancelled", attempts |-> Latest, open |-> LatestOpen]
        BY <4>3 DEF Moves!Running
      <4>5. Moves!Reclaimed(RowOfRun, TRUE) =
              [[status |-> "cancelled", attempts |-> Latest, open |-> LatestOpen]
                 EXCEPT !.open = FALSE]
        BY <4>4 DEF Moves!Reclaimed
      <4>6. RowOfRun' = Moves!Reclaimed(RowOfRun, TRUE)
        BY <4>2, <4>5
      <4> QED
        BY <4>6
    <3>2. CASE run.status = "running"
      <4>1. PICK final \in BOOLEAN, status \in {"retry_wait", "failed"} :
              /\ \E type : MoveTo(status, type)
              /\ RowStatusOf(status) =
                   IF ~final /\ Latest < MaxRunAttempts THEN "queued" ELSE "failed"
        BY <1>1, <3>2, FailureOfRow DEF Recover
      <4>2. RowOfRun' = [status |-> RowStatusOf(status), attempts |-> Latest, open |-> FALSE]
        <5>1. run'.status = status
          BY <4>1 DEF MoveTo, Emit
        <5> QED
          BY <2>4, <5>1
      <4>3. RowOfRun = [status |-> "running", attempts |-> Latest, open |-> LatestOpen]
        BY <3>2, RowOfStatus, RowStatusTable DEF RowWith
      <4>4. Moves!Running(RowOfRun)
            /\ Moves!AfterFailure(RowOfRun, final) =
                 [status |-> RowStatusOf(status), attempts |-> Latest, open |-> LatestOpen]
        BY <4>1, <4>3 DEF Moves!AfterFailure, Moves!Running
      <4>5. Moves!Reclaimed(RowOfRun, final) =
              [[status |-> RowStatusOf(status), attempts |-> Latest, open |-> LatestOpen]
                 EXCEPT !.open = FALSE]
        BY <4>4 DEF Moves!Reclaimed
      <4>6. RowOfRun' = Moves!Reclaimed(RowOfRun, final)
        BY <4>2, <4>5
      <4> QED
        BY <4>6
    <3> QED
      BY <2>1, <3>1, <3>2
  <2> QED
    BY <2>5, <2>6 DEF RowMove, Moves!Next, Moves!Reclaim
<1>2. ASSUME NEW k \in 1..Latest, CloseOrphan(k) PROVE RowMove
  <2>1. k \in Nat /\ attempts' = UpdateRunning(k, OrphanStatus(k), TRUE)
    BY <1>2 DEF CloseOrphan, FinishIfRunning
  <2>2. Moves!Close \/ UNCHANGED RowOfRun
    BY <1>2, <2>1, UpdateIsClose DEF CloseOrphan, TypeOK, UnchangedRun
  <2> QED
    BY <2>2 DEF RowMove, Moves!Next
<1> QED
  BY <1>1, <1>2 DEF Reconcile

\* Every step of the machinery is a move of the row.
LEMMA NextIsRowMove ==
  ASSUME TypeOK, [Next]_vars
  PROVE  RowMove
<1>1. CASE UNCHANGED vars
  BY <1>1, NothingIsRowMove DEF vars, UnchangedRun
<1>2. ASSUME NEW d \in Dispatchers, Dispatch(d) PROVE RowMove
  <2>1. CASE UnchangedRun
    BY <1>2, <2>1, NothingIsRowMove DEF Dispatch, ListDuePending, PrepareRun, Requeue, EnqueueRun,
       MarkDispatched, RecordFailure
  <2>2. CASE ~UnchangedRun
    <3>1. run.status = "retry_wait" /\ Emit(dispatcher[d].seq, "queued", "run_requeued")
          /\ UNCHANGED attempts
      BY <1>2, <2>2 DEF Dispatch, ListDuePending, PrepareRun, Requeue, EnqueueRun,
         MarkDispatched, RecordFailure, UnchangedRun
    <3> QED
      BY <3>1, RowAfterEmit, RowOfStatus, RowStatusTable DEF RowWith, RowMove
  <2> QED
    BY <2>1, <2>2
<1>3. ASSUME NEW w \in Workers, ExecProgress(w) PROVE RowMove
  BY <1>3, RowAfterEmit, RowOfStatus DEF ExecProgress, RowMove
<1>4. CASE Faults
  BY <1>4, NothingIsRowMove DEF Faults, EnqueueError, DispatcherCrash, JobTimeout, Shutdown,
     HardCrash, CloseAttemptError, UnchangedRun
<1>5. CASE Time
  <2>1. CASE InProgressExpires
    BY <2>1, NothingIsRowMove DEF InProgressExpires, UnchangedRun
  <2>2. CASE ~InProgressExpires
    <3>1. PICK k \in Nat, fresh \in BOOLEAN :
            attempts' = UpdateRunning(k, "running", fresh) /\ UnchangedRun
      <4>1. ASSUME NEW k \in 1..Latest, LeaseLapses(k)
            PROVE  k \in Nat /\ attempts' = UpdateRunning(k, "running", FALSE) /\ UnchangedRun
        BY <4>1 DEF LeaseLapses, UnchangedRun
      <4>2. ASSUME NEW w \in Workers, Heartbeat(w)
            PROVE  /\ worker[w].attempt \in Nat
                   /\ attempts' = UpdateRunning(worker[w].attempt, "running", TRUE) /\ UnchangedRun
        BY <4>2 DEF Heartbeat, TypeOK, Worker, UnchangedRun
      <4> QED
        BY <1>5, <2>2, <4>1, <4>2 DEF Time
    <3>2. Moves!Close \/ UNCHANGED RowOfRun
      BY <3>1, UpdateIsClose DEF TypeOK
    <3> QED
      BY <3>2 DEF RowMove, Moves!Next
  <2> QED
    BY <2>1, <2>2
<1> QED
  BY <1>1, <1>2, <1>3, <1>4, <1>5, RequestIsRowMove, ExecuteIsRowMove, ReconcileIsRowMove DEF Next

\* The machinery of one Run implements the row that the business modules are
\* checked with, for any number of workers, dispatch loops, Attempts and faults:
\* whatever they prove of a Run that makes these moves holds of the real one.
THEOREM RefinesMoves == Spec => ImplementsMoves
<1>1. Init => Moves!Init
  <2> SUFFICES ASSUME Init PROVE Moves!Init
    OBVIOUS
  <2>1. run.status = "absent" /\ Latest = 0
    BY DEF Init, Latest
  <2>2. RowOfRun = [status |-> "queued", attempts |-> 0, open |-> FALSE]
    <3>1. /\ RowStatusOf(run.status) = "queued"
          /\ (Latest > 0 /\ attempts[Latest].status = "running") = FALSE
      BY <2>1, RowStatusTable
    <3> QED
      BY <2>1, <3>1 DEF RowOfRun
  <2> QED
    BY <2>2 DEF Moves!Init, Moves!NewRun
<1>2. TypeOK /\ [Next]_vars => [Moves!Next]_RowOfRun
  BY NextIsRowMove DEF RowMove
<1> QED
  BY <1>1, <1>2, TypeCorrect, PTL DEF Spec, ImplementsMoves, Moves!Spec


\* What RunMoves promises holds of each of its moves. The argument is about RunMoves
\* alone, so that it is good for every module that implements it.
LEMMA MovesPromise ==
  ASSUME Moves!TypeOK, [Moves!Next]_RowOfRun
  PROVE  Moves!TypeOK' /\ (Moves!Promise \/ UNCHANGED RowOfRun)
<1> USE DEF Moves!TypeOK, Moves!RunRow, Moves!RowStatus, Moves!Promise, Moves!Terminal,
            Moves!Running
<1>1. CASE UNCHANGED RowOfRun
  BY <1>1
<1>2. CASE Moves!Claim
  BY <1>2 DEF Moves!Claim, Moves!Started
<1>3. CASE Moves!Pause \/ Moves!Resume \/ Moves!GiveUp
  BY <1>3 DEF Moves!Pause, Moves!Paused, Moves!Resume, Moves!Resumed, Moves!GiveUp
<1>4. CASE Moves!Succeed \/ Moves!Cancel
  BY <1>4 DEF Moves!Succeed, Moves!Succeeded, Moves!Cancel, Moves!Cancellable, Moves!Cancelled
<1>5. CASE Moves!MarkFailed
  BY <1>5 DEF Moves!MarkFailed, Moves!AfterFailure
<1>6. CASE Moves!Fail
  BY <1>6 DEF Moves!Fail, Moves!FailedRun, Moves!AfterFailure, Moves!Closed
<1>7. CASE Moves!Close
  <2>1. RowOfRun' = [RowOfRun EXCEPT !.open = FALSE]
    BY <1>7 DEF Moves!Close, Moves!Closed
  <2> QED
    BY <2>1
<1>8. CASE Moves!Reclaim
  BY <1>8 DEF Moves!Reclaim, Moves!Reclaimable, Moves!Reclaimed, Moves!AfterFailure
<1> QED
  BY <1>1, <1>2, <1>3, <1>4, <1>5, <1>6, <1>7, <1>8 DEF Moves!Next

\* A final status stays, a requested cancellation never becomes a result or a retry,
\* Attempts are numbered without a gap, and an error is retried only while Attempts
\* are left: for the Run of the machinery, whatever slow workers, dispatchers,
\* reconcilers and users do at the same time.
THEOREM RunKeepsPromises == Spec => Moves!PromisesKept
<1>1. Moves!Init => Moves!TypeOK
  BY DEF Moves!Init, Moves!TypeOK, Moves!NewRun, Moves!RunRow, Moves!RowStatus
<1>2. Moves!TypeOK /\ [Moves!Next]_RowOfRun => Moves!TypeOK' /\ [Moves!Promise]_RowOfRun
  BY MovesPromise
<1>3. Moves!Spec => Moves!PromisesKept
  BY <1>1, <1>2, PTL DEF Moves!Spec, Moves!PromisesKept
<1> QED
  BY <1>3, RefinesMoves DEF ImplementsMoves

=============================================================================
