-------------------------- MODULE AgentRuntimeProofs --------------------------
(***************************************************************************)
(* Proofs about AgentRuntime, for any number of workers, Attempts, steps   *)
(* of the graph and crashes.                                               *)
(***************************************************************************)
EXTENDS AgentRuntime, FiniteSetTheorems, WellFoundedInduction, TLAPS

-----------------------------------------------------------------------------
(* The inductive invariant *)

\* The position of a worker in the graph: inside the loop steps are left, and
\* what it is about to finalize is a complete checkpoint of the thread.
StepFollows(w) ==
  /\ worker[w].pc \in {"stepping", "calling"} => worker[w].step < Steps
  /\ worker[w].pc = "finalizing" =>
       worker[w].found \in 1..Latest /\ thread[worker[w].found].step = Steps
StepsFollow == \A w \in Workers : StepFollows(w)

\* No permit is ahead of the row, a permit with the fence of the row is the
\* owner's, and a lease has an owner.
FencesBelowRow ==
  /\ \A w \in Workers : worker[w].fence <= exec.fence
  /\ \A w \in Workers : (worker[w].fence = exec.fence /\ worker[w].fence # 0
                           /\ exec.owner # NoOwner) => exec.owner = w
  /\ exec.leased => exec.owner # NoOwner

\* A worker that collects the result, and a Run that succeeded, have one, and
\* no lease is left on it.
ResultsExist ==
  /\ \A w \in Workers : worker[w].pc = "collecting" => exec.state = "succeeded"
  /\ exec.state = "succeeded" => ~exec.leased
  /\ AnswerIsRuntimeResult

RuntimeInv == TypeOK /\ StepsFollow /\ FencesBelowRow /\ PermitsDistinct /\ ResultsExist

-----------------------------------------------------------------------------
(* The operators of the model *)

\* A set of positions of a sequence that is not empty has a last one.
LEMMA LastExists ==
  ASSUME NEW n \in Nat, NEW S \in SUBSET (1..n), S # {}
  PROVE  \E i \in S : \A j \in S : j <= i
<1> DEFINE After(i) == {j \in 1..n : j > i}
           T == {After(i) : i \in S}
           R == StrictSubsetOrdering(1..n)
<1>1. IsFiniteSet(1..n)
  BY FS_Interval
<1>2. T \subseteq FiniteSubsetsOf(1..n) /\ T # {}
  <2>1. ASSUME NEW i \in S PROVE After(i) \in FiniteSubsetsOf(1..n)
    <3>1. After(i) \in SUBSET (1..n)
      OBVIOUS
    <3> HIDE DEF After
    <3> QED
      BY <1>1, <3>1, FS_Subset DEF FiniteSubsetsOf
  <2> HIDE DEF After
  <2> QED
    BY <2>1
<1>3. IsWellFoundedOn(R, FiniteSubsetsOf(1..n))
  BY FS_StrictSubsetOrderingWellFounded
<1>4. PICK x \in T : \A y \in T : ~(<<y, x>> \in R)
  <2> HIDE DEF T, R
  <2> QED
    BY <1>2, <1>3, WFMin
<1>5. PICK i \in S : x = After(i)
  BY <1>4
<1>6. ASSUME NEW j \in S, j > i
      PROVE  FALSE
  <2>1. After(j) \in T /\ After(j) \subseteq After(i)
    BY <1>6
  <2>2. j \in After(i) /\ j \notin After(j)
    BY <1>6
  <2>3. <<After(j), x>> \in R
    BY <1>5, <2>1, <2>2 DEF StrictSubsetOrdering
  <2> QED
    BY <1>4, <2>1, <2>3
<1> QED
  BY <1>6

\* The latest checkpoint of a set is the last one of it, or 0 if there is none.
LEMMA LatestOfIsLast ==
  ASSUME NEW n \in Nat, NEW S \in SUBSET (1..n)
  PROVE  /\ LatestOf(S) \in S \cup {0}
         /\ S # {} => LatestOf(S) \in S
         /\ \A j \in S : j <= LatestOf(S)
<1>1. \E i \in S \cup {0} : \A j \in S : j <= i
  BY LastExists
<1>2. LatestOf(S) \in S \cup {0} /\ \A j \in S : j <= LatestOf(S)
  BY <1>1 DEF LatestOf
<1>3. ASSUME NEW j \in S PROVE LatestOf(S) # 0
  BY <1>2
<1> QED
  BY <1>2, <1>3

\* What the updates of a worker leave of its type.
LEMMA WorkerType ==
  ASSUME worker \in [Workers -> Worker], NEW w \in Workers
  PROVE  /\ \A pc \in WorkerPc : Goto(w, pc) => worker' \in [Workers -> Worker]
         /\ \A permanent \in BOOLEAN : Raise(w, permanent) => worker' \in [Workers -> Worker]
         /\ worker' = [worker EXCEPT ![w] = IdleWorker] => worker' \in [Workers -> Worker]
<1>1. IdleWorker \in Worker
  BY RuntimeAssumption DEF IdleWorker, Worker, WorkerPc
<1>2. ASSUME NEW pc \in WorkerPc, Goto(w, pc)
      PROVE  worker' \in [Workers -> Worker]
  <2>1. [worker[w] EXCEPT !.pc = pc] \in Worker
    BY DEF Worker
  <2> QED
    BY <1>2, <2>1 DEF Goto
<1>3. ASSUME NEW permanent \in BOOLEAN, Raise(w, permanent)
      PROVE  worker' \in [Workers -> Worker]
  <2>1. [worker[w] EXCEPT !.pc = "failing", !.permanent = permanent] \in Worker
    BY DEF Worker, WorkerPc
  <2> QED
    BY <1>3, <2>1 DEF Raise
<1> QED
  BY <1>1, <1>2, <1>3

\* What the updates of the row leave of its type.
LEMMA ExecutionType ==
  ASSUME exec \in Execution
  PROVE  /\ \A state \in ExecState : Finished(state) \in Execution
         /\ Released \in Execution
         /\ [exec EXCEPT !.leased = FALSE] \in Execution
BY DEF Finished, Released, Execution

\* The latest checkpoint of a fence is a number.
LEMMA LatestType ==
  ASSUME thread \in Seq(Checkpoint), NEW f
  PROVE  /\ LatestOfFence(f) \in Nat
         /\ LatestOfFence(f) # 0 => LatestOfFence(f) \in 1..Latest
<1> DEFINE S == {i \in 1..Latest : thread[i].fence = f}
<1>1. Latest \in Nat /\ S \in SUBSET (1..Latest) /\ LatestOfFence(f) = LatestOf(S)
  BY DEF Latest, LatestOfFence
<1>2. LatestOf(S) \in S \cup {0}
  <2> HIDE DEF S
  <2> QED
    BY <1>1, LatestOfIsLast
<1>3. LatestOf(S) \in 0..Latest
  BY <1>1, <1>2
<1> HIDE DEF S
<1> QED
  BY <1>1, <1>3

\* What is found complete is in the thread.
LEMMA CompleteFound ==
  ASSUME thread \in Seq(Checkpoint), NEW f
  PROVE  /\ Complete(Latest) => Latest \in 1..Latest /\ thread[Latest].step = Steps
         /\ Complete(LatestOfFence(f)) =>
              LatestOfFence(f) \in 1..Latest /\ thread[LatestOfFence(f)].step = Steps
<1>1. Latest \in Nat
  BY DEF Latest
<1> QED
  BY <1>1, LatestType DEF Complete, StepAt

\* The step of a position of the thread.
LEMMA StepAtType ==
  ASSUME thread \in Seq(Checkpoint)
  PROVE  /\ Latest \in Nat
         /\ StepAt(Latest) \in 0..Steps
<1>1. Latest \in Nat /\ \A i \in 1..Latest : thread[i] \in Checkpoint
  BY DEF Latest
<1>2. CASE Latest = 0
  BY <1>1, <1>2, RuntimeAssumption DEF StepAt
<1>3. CASE Latest # 0
  BY <1>1, <1>3 DEF StepAt, Checkpoint
<1> QED
  BY <1>2, <1>3

-----------------------------------------------------------------------------
(* Types *)

\* The initial state is typed.
LEMMA InitType == Init => TypeOK
BY RuntimeAssumption DEF Init, TypeOK, NoExecution, Execution, ExecState, IdleWorker, Worker,
   WorkerPc

\* A step of the Run and its Attempts keeps the types.
LEMMA RunType ==
  ASSUME TypeOK, CancelRun \/ Reclaim
  PROVE  TypeOK'
BY DEF TypeOK, CancelRun, Reclaim, AfterFailure, Final

\* A worker that starts, ends or dies keeps the types.
LEMMA AttemptType ==
  ASSUME TypeOK, NEW w \in Workers, StartAttempt(w) \/ Fail(w) \/ Return(w) \/ Crash(w)
  PROVE  TypeOK'
<1> USE DEF TypeOK
<1>1. CASE StartAttempt(w)
  <2>1. IdleWorker \in Worker /\ run.attempt + 1 \in Nat
    BY RuntimeAssumption DEF IdleWorker, Worker, WorkerPc
  <2>2. [IdleWorker EXCEPT !.pc = "entering", !.attempt = run.attempt + 1] \in Worker
    BY <2>1 DEF Worker, WorkerPc
  <2> QED
    BY <1>1, <2>1, <2>2 DEF StartAttempt
<1>2. CASE Fail(w)
  BY <1>2, WorkerType DEF Fail, OwnAttemptClosed, AfterFailure, Final
<1>3. CASE Return(w)
  BY <1>3, WorkerType DEF Return, OwnAttemptClosed
<1>4. CASE Crash(w)
  <2>1. worker' \in [Workers -> Worker]
    BY <1>4, WorkerType DEF Crash
  <2> QED
    BY <1>4, <2>1 DEF Crash
<1> QED
  BY <1>1, <1>2, <1>3, <1>4

\* Claiming keeps the types.
LEMMA ClaimType ==
  ASSUME TypeOK, NEW w \in Workers, Claim(w)
  PROVE  TypeOK'
<1> DEFINE pc == IF worker[w].pc = "claiming" THEN "finding" ELSE "locating"
<1>0. pc \in WorkerPc
  BY DEF WorkerPc
<1> HIDE DEF pc
<1> USE DEF TypeOK
<1>1. Claimed(w) \in Execution
  <2>1. /\ exec.fence + 1 \in Nat /\ exec.fence \in Nat /\ run.attempt \in Nat
        /\ "running" \in ExecState
    BY DEF Execution, ExecState
  <2> QED
    BY <2>1 DEF Claimed, Execution
<1>2. CASE exec' = Claimed(w) /\ worker' = [worker EXCEPT ![w].pc = pc,
                                  ![w].permitted = run.attempt, ![w].fence = Claimed(w).fence]
  <2>1. [worker[w] EXCEPT !.pc = pc, !.permitted = run.attempt,
                          !.fence = Claimed(w).fence] \in Worker
    BY ZenonT(30), <1>0, <1>1 DEF Worker, Execution
  <2> QED
    BY <1>1, <1>2, <2>1 DEF Claim
<1>4. CASE exec' = exec /\ \E permanent \in BOOLEAN : Raise(w, permanent)
  BY <1>4, WorkerType DEF Claim
<1> QED
  BY <1>2, <1>4 DEF Claim, Refusals, pc

\* The calls and their checkpoints keep the types; a step that is taken is not
\* the last one.
LEMMA CallType ==
  ASSUME TypeOK, StepsFollow, NEW w \in Workers,
         \/ RunFresh(w) \/ BeginCall(w) \/ EndCall(w) \/ CallFails(w)
         \/ RecordCheckpoint(w) \/ Finalize(w)
  PROVE  TypeOK'
<1> USE DEF TypeOK
<1>1. CASE BeginCall(w)
  BY <1>1, WorkerType DEF BeginCall, WorkerPc
<1>2. CASE EndCall(w)
  <2>1. worker[w].step + 1 \in 0..Steps
    BY <1>2, RuntimeAssumption DEF EndCall, StepsFollow, StepFollows, Worker
  <2>2. [fence |-> worker[w].fence, step |-> worker[w].step + 1] \in Checkpoint
    BY <2>1 DEF Worker, Checkpoint
  <2>3. [worker[w] EXCEPT !.pc = "recording", !.step = worker[w].step + 1] \in Worker
    BY <2>1 DEF Worker, WorkerPc
  <2> QED
    BY <1>2, <2>2, <2>3 DEF EndCall
<1>3. CASE CallFails(w)
  BY <1>3, WorkerType, ExecutionType DEF CallFails, ExecState, Final
<1>4. CASE RecordCheckpoint(w)
  <2>1. LatestOfFence(worker[w].fence) \in Nat
    BY LatestType
  <2>2. [exec EXCEPT !.checkpoint = LatestOfFence(worker[w].fence)] \in Execution
    BY <2>1 DEF Execution
  <2> QED
    BY <1>4, <2>2, WorkerType DEF RecordCheckpoint, WorkerPc
<1>5. CASE Finalize(w)
  <2>1. worker[w].found \in Nat
    BY DEF Worker
  <2>2. [Finished("succeeded") EXCEPT !.checkpoint = worker[w].found] \in Execution
    BY <2>1, ExecutionType DEF Execution, ExecState, Final
  <2> QED
    BY <1>5, <2>2, WorkerType DEF Finalize, WorkerPc
<1>6. CASE RunFresh(w)
  <2>1. [fence |-> worker[w].fence, step |-> 0] \in Checkpoint
    BY RuntimeAssumption DEF Worker, Checkpoint
  <2>3. 0 \in 0..Steps /\ "stepping" \in WorkerPc /\ worker[w] \in Worker
    BY RuntimeAssumption DEF WorkerPc
  <2>2. [worker[w] EXCEPT !.pc = "stepping", !.step = 0] \in Worker
    BY ZenonT(30), <2>3 DEF Worker
  <2> QED
    BY <1>6, <2>1, <2>2 DEF RunFresh
<1> QED
  BY <1>1, <1>2, <1>3, <1>4, <1>5, <1>6

\* The other steps of the executor keep the types.
LEMMA ExecutorType ==
  ASSUME TypeOK, NEW w \in Workers,
         \/ Enter(w) \/ Reconcile(w) \/ GetRecord(w) \/ FindOwn(w) \/ Locate(w) \/ ReadFails(w)
         \/ EndStream(w) \/ Watch(w) \/ CommitCancellation(w) \/ Commit(w)
  PROVE  TypeOK'
<1> USE WorkerType DEF TypeOK, WorkerPc
<1>0. ASSUME NEW i \in Nat, Finish(w, i)
      PROVE  worker' \in [Workers -> Worker]
  <2>1. [worker[w] EXCEPT !.pc = "finalizing", !.found = i] \in Worker
    BY DEF Worker
  <2> QED
    BY <1>0, <2>1 DEF Finish
<1>1. CASE Enter(w)
  BY <1>1 DEF Enter
<1>2. CASE Reconcile(w)
  BY <1>2 DEF Reconcile
<1>3. CASE Locate(w)
  <2>1. [worker[w] EXCEPT !.pc = "stepping", !.step = StepAt(Latest)] \in Worker
    BY ZenonT(30), StepAtType DEF Worker
  <2>2. Latest \in Nat
    BY StepAtType
  <2> QED
    BY <1>3, <1>0, <2>1, <2>2 DEF Locate
<1>4. CASE Watch(w)
  BY <1>4, ExecutionType DEF Watch, ExecState, Final
<1>5. CASE CommitCancellation(w)
  BY <1>5 DEF CommitCancellation, Final
<1>6. CASE Commit(w)
  <2>1. worker' \in [Workers -> Worker]
    <3>1. Goto(w, "returning") \/ \E permanent \in BOOLEAN : Raise(w, permanent)
      BY <1>6 DEF Commit
    <3> QED
      BY <3>1
  <2>2. answers' \in {answers, answers + 1} /\ UNCHANGED <<exec, thread, crashes>>
    BY ONLY <1>6 DEF Commit
  <2>3. run' \in [status: {"queued", "running", "cancel_requested"} \cup Final,
                  attempt: Nat, live: BOOLEAN]
    BY <1>6 DEF Commit, Final
  <2> QED
    BY <2>1, <2>2, <2>3
<1>7. CASE FindOwn(w) \/ EndStream(w)
  <2>1. LatestOfFence(worker[w].fence) \in Nat
    BY LatestType
  <2> QED
    BY <1>0, <1>7, <2>1 DEF FindOwn, EndStream
<1>8. CASE GetRecord(w) \/ ReadFails(w)
  BY <1>8 DEF GetRecord, ReadFails
<1> QED
  BY <1>1, <1>2, <1>3, <1>4, <1>5, <1>6, <1>7, <1>8

\* Every step keeps the types.
LEMMA StepType == TypeOK /\ StepsFollow /\ [Next]_vars => TypeOK'
<1> SUFFICES ASSUME TypeOK, StepsFollow, [Next]_vars
             PROVE  TypeOK'
  OBVIOUS
<1>1. ASSUME NEW w \in Workers, StartAttempt(w) \/ Work(w) \/ Crash(w)
      PROVE  TypeOK'
  BY <1>1, AttemptType, ClaimType, CallType, ExecutorType DEF Work
<1>2. CASE LeaseLapses
  BY <1>2, ExecutionType DEF LeaseLapses, TypeOK
<1>3. CASE UNCHANGED vars
  BY <1>3 DEF vars, TypeOK
<1> QED
  BY <1>1, <1>2, <1>3, RunType DEF Next

-----------------------------------------------------------------------------
(* What the steps may touch *)

\* A step of a worker leaves the other workers alone.
LEMMA OthersUntouched ==
  ASSUME TypeOK, NEW w \in Workers, StartAttempt(w) \/ Work(w) \/ Crash(w)
  PROVE  \A v \in Workers \ {w} : worker'[v] = worker[v]
<1> USE DEF TypeOK, Goto, Raise, Finish
<1>1. CASE StartAttempt(w) \/ Fail(w) \/ Return(w) \/ Crash(w)
  BY <1>1 DEF StartAttempt, Fail, Return, Crash
<1>2. CASE Claim(w) \/ Locate(w) \/ BeginCall(w) \/ EndCall(w)
  BY <1>2 DEF Claim, Locate, BeginCall, EndCall
<1>3. CASE CallFails(w) \/ RecordCheckpoint(w) \/ Finalize(w)
  BY <1>3 DEF CallFails, RecordCheckpoint, Finalize
<1>4. CASE Enter(w) \/ Reconcile(w) \/ Watch(w) \/ CommitCancellation(w) \/ Commit(w)
  BY <1>4 DEF Enter, Reconcile, Watch, CommitCancellation, Commit
<1>5. CASE GetRecord(w) \/ FindOwn(w) \/ RunFresh(w) \/ ReadFails(w) \/ EndStream(w)
  BY <1>5 DEF GetRecord, FindOwn, RunFresh, ReadFails, EndStream
<1> QED
  BY <1>1, <1>2, <1>3, <1>4, <1>5 DEF Work

\* Only a claim hands out a permit or a lease; every other step of a worker may
\* only drop its permit, release the row or end its lease.
LEMMA OnlyClaimsGrant ==
  ASSUME TypeOK, NEW w \in Workers, StartAttempt(w) \/ Work(w) \/ Crash(w), ~Claim(w)
  PROVE  /\ worker'[w].fence \in {worker[w].fence, 0}
         /\ exec'.fence = exec.fence
         /\ \/ exec'.owner = exec.owner /\ exec'.leased = exec.leased
            \/ exec'.owner = NoOwner /\ ~exec'.leased
<1>0. worker \in [Workers -> Worker] /\ worker[w] \in Worker /\ exec \in Execution
  BY DEF TypeOK
<1> USE <1>0 DEF Goto, Raise
<1>1. CASE StartAttempt(w)
  BY <1>1 DEF StartAttempt, IdleWorker
<1>2. CASE Fail(w) \/ Return(w) \/ Crash(w)
  BY <1>2 DEF Fail, Return, Crash, IdleWorker
<1>3. CASE Locate(w) \/ BeginCall(w) \/ EndCall(w)
  BY <1>3 DEF Locate, BeginCall, EndCall, Finish, Worker
<1>4. CASE CallFails(w)
  BY <1>4 DEF CallFails, Worker, Finished, Released, Execution
<1>5. CASE RecordCheckpoint(w)
  BY <1>5 DEF RecordCheckpoint, Worker, Execution
<1>6. CASE Finalize(w)
  <2>1. worker'[w].fence = worker[w].fence
    BY <1>6 DEF Finalize, Worker
  <2>2. CASE Active(w)
    BY <1>6, <2>1, <2>2 DEF Finalize, Finished, Execution
  <2>3. CASE ~Active(w)
    BY <1>6, <2>1, <2>3 DEF Finalize
  <2> QED
    BY <2>2, <2>3
<1>7. CASE Enter(w) \/ Reconcile(w) \/ CommitCancellation(w) \/ Commit(w)
  BY <1>7 DEF Enter, Reconcile, CommitCancellation, Commit, Worker
<1>8. CASE Watch(w)
  <2>1. worker'[w].fence = worker[w].fence
    BY <1>8 DEF Watch, Worker
  <2>2. exec' = exec \/ exec' = Finished("cancelled")
    BY <1>8 DEF Watch
  <2> QED
    BY <2>1, <2>2 DEF Finished, Execution
<1>9. CASE GetRecord(w) \/ FindOwn(w) \/ RunFresh(w) \/ ReadFails(w) \/ EndStream(w)
  BY <1>9 DEF GetRecord, FindOwn, RunFresh, ReadFails, EndStream, Finish, Worker
<1> QED
  BY <1>1, <1>2, <1>3, <1>4, <1>5, <1>6, <1>7, <1>8, <1>9 DEF Work

\* A checkpoint is never taken back.
LEMMA ThreadGrows ==
  ASSUME TypeOK, [Next]_vars
  PROVE  /\ Latest \in Nat /\ Latest' \in Nat /\ Latest <= Latest'
         /\ \A i \in 1..Latest : thread'[i] = thread[i]
<1>1. Latest \in Nat /\ thread \in Seq(Checkpoint)
  BY DEF TypeOK, Latest
<1>2. CASE UNCHANGED thread
  BY <1>1, <1>2 DEF Latest
<1>3. ASSUME NEW w \in Workers, EndCall(w) \/ RunFresh(w)
      PROVE  /\ Latest' \in Nat /\ Latest <= Latest'
             /\ \A i \in 1..Latest : thread'[i] = thread[i]
  <2>1. PICK c : thread' = Append(thread, c)
    BY <1>3 DEF EndCall, RunFresh
  <2> QED
    BY <1>1, <2>1 DEF Latest
<1>4. UNCHANGED thread \/ \E w \in Workers : EndCall(w) \/ RunFresh(w)
  BY DEF Next, vars, Work, StartAttempt, Fail, Return, Crash, CancelRun, Reclaim, LeaseLapses,
     Enter, Reconcile, GetRecord, Claim, FindOwn, ReadFails, EndStream, Locate, BeginCall, CallFails, RecordCheckpoint, Finalize, Watch,
     CommitCancellation, Commit
<1> QED
  BY <1>1, <1>2, <1>3, <1>4

-----------------------------------------------------------------------------
(* The position of a worker in the graph *)

\* A step that neither looks for a checkpoint, calls nor records leaves a worker outside the
\* loop or where it was.
LEMMA OutsideLoop ==
  ASSUME TypeOK, NEW w \in Workers, StartAttempt(w) \/ Work(w) \/ Crash(w),
         ~(\/ FindOwn(w) \/ Locate(w) \/ RunFresh(w) \/ BeginCall(w) \/ EndCall(w)
           \/ RecordCheckpoint(w) \/ EndStream(w))
  PROVE  worker'[w].pc \notin {"stepping", "calling", "finalizing"}
<1>0. worker \in [Workers -> Worker] /\ worker[w] \in Worker
  BY DEF TypeOK
<1> USE <1>0 DEF Goto, Raise, Worker
<1>1. CASE StartAttempt(w)
  BY <1>1 DEF StartAttempt, IdleWorker
<1>2. CASE Fail(w) \/ Return(w) \/ Crash(w)
  BY <1>2 DEF Fail, Return, Crash, IdleWorker
<1>3. CASE Enter(w) \/ Reconcile(w) \/ CommitCancellation(w) \/ Commit(w)
  BY <1>3 DEF Enter, Reconcile, CommitCancellation, Commit
<1>4. CASE Claim(w)
  BY <1>4 DEF Claim
<1>5. CASE CallFails(w) \/ Finalize(w) \/ Watch(w)
  BY <1>5 DEF CallFails, Finalize, Watch
<1>6. CASE GetRecord(w) \/ ReadFails(w)
  BY <1>6 DEF GetRecord, ReadFails
<1> QED
  BY <1>1, <1>2, <1>3, <1>4, <1>5, <1>6 DEF Work

\* Every step of a worker leaves it where the thread says it is.
LEMMA OwnStepFollows ==
  ASSUME TypeOK, TypeOK', StepsFollow, NEW w \in Workers, StartAttempt(w) \/ Work(w) \/ Crash(w)
  PROVE  StepFollows(w)'
<1>0. worker \in [Workers -> Worker] /\ worker[w] \in Worker /\ StepFollows(w)
  BY DEF TypeOK, StepsFollow
<1>1. CASE FindOwn(w) \/ Locate(w) \/ EndStream(w)
  <2>1. UNCHANGED <<thread, Latest>>
    BY <1>1 DEF FindOwn, Locate, EndStream, Latest
  <2>2. ASSUME NEW i, Finish(w, i), i \in 1..Latest, thread[i].step = Steps
        PROVE  StepFollows(w)'
    BY <1>0, <2>1, <2>2 DEF Finish, StepFollows, Worker
  <2>3. CASE FindOwn(w) \/ EndStream(w)
    <3>1. CASE Complete(LatestOfFence(worker[w].fence))
      BY <2>2, <2>3, <3>1, CompleteFound DEF FindOwn, EndStream, TypeOK
    <3>2. CASE ~Complete(LatestOfFence(worker[w].fence))
      BY <1>0, <2>3, <3>2 DEF FindOwn, EndStream, StepFollows, Goto, Raise, Worker
    <3> QED
      BY <3>1, <3>2
  <2>4. CASE Locate(w)
    <3>1. CASE Complete(Latest)
      BY <2>2, <2>4, <3>1, CompleteFound DEF Locate, TypeOK
    <3>2. CASE Latest = 0
      BY <1>0, <2>4, <3>2 DEF Locate, StepFollows, Goto, Worker, Complete
    <3>3. CASE ~Complete(Latest) /\ Latest # 0
      <4>1. StepAt(Latest) \in 0..Steps /\ StepAt(Latest) # Steps
        BY <3>3, StepAtType DEF Complete, TypeOK
      <4>2. worker'[w].pc = "stepping" /\ worker'[w].step = StepAt(Latest)
        BY <1>0, <2>4, <3>3 DEF Locate, Worker
      <4> QED
        BY <4>1, <4>2, RuntimeAssumption DEF StepFollows
    <3> QED
      BY <3>1, <3>2, <3>3
  <2> QED
    BY <1>1, <2>3, <2>4
<1>2. CASE BeginCall(w)
  BY <1>0, <1>2 DEF BeginCall, StepFollows, Goto, Raise, Worker
<1>3. CASE EndCall(w)
  BY <1>0, <1>3 DEF EndCall, StepFollows, Worker
<1>4. CASE RecordCheckpoint(w)
  <2>1. \/ worker'[w].pc = "stepping" /\ worker[w].step # Steps
           /\ worker'[w].step = worker[w].step
        \/ worker'[w].pc \in {"failing", "ending"}
    BY <1>0, <1>4 DEF RecordCheckpoint, Goto, Raise, Worker
  <2>2. worker[w].step \in 0..Steps
    BY <1>0 DEF Worker
  <2> QED
    BY <2>1, <2>2, RuntimeAssumption DEF StepFollows
<1>5. CASE RunFresh(w)
  BY <1>0, <1>5, RuntimeAssumption DEF RunFresh, StepFollows, Worker
<1> QED
  BY <1>1, <1>2, <1>3, <1>4, <1>5, OutsideLoop DEF StepFollows

\* Every step keeps the positions of all workers.
LEMMA StepsFollowStep == TypeOK /\ TypeOK' /\ StepsFollow /\ [Next]_vars => StepsFollow'
<1> SUFFICES ASSUME TypeOK, TypeOK', StepsFollow, [Next]_vars
             PROVE  StepsFollow'
  OBVIOUS
<1>1. ASSUME NEW v \in Workers, worker'[v] = worker[v]
      PROVE  StepFollows(v)'
  <2>1. \A i \in 1..Latest : i \in 1..Latest' /\ thread'[i] = thread[i]
    BY ThreadGrows
  <2> QED
    BY <1>1, <2>1 DEF StepFollows, StepsFollow
<1>2. ASSUME NEW w \in Workers, StartAttempt(w) \/ Work(w) \/ Crash(w)
      PROVE  StepsFollow'
  BY <1>1, <1>2, OthersUntouched, OwnStepFollows DEF StepsFollow
<1>3. CASE UNCHANGED worker
  BY <1>1, <1>3 DEF StepsFollow
<1> QED
  BY <1>2, <1>3 DEF Next, vars, CancelRun, Reclaim, LeaseLapses

-----------------------------------------------------------------------------
(* Fencing tokens *)

\* A claim either takes the next fence or renews the one its worker owns.
LEMMA ClaimTakesFence ==
  ASSUME TypeOK, FencesBelowRow, NEW w \in Workers, Claim(w)
  PROVE  \/ /\ exec' = exec
            /\ worker'[w].fence = worker[w].fence
         \/ /\ exec'.owner = w /\ exec'.fence = worker'[w].fence
            /\ \/ exec'.fence = exec.fence + 1
               \/ exec'.fence = exec.fence /\ exec.owner = w
<1>0. worker \in [Workers -> Worker] /\ worker[w] \in Worker /\ exec \in Execution
  BY DEF TypeOK
<1> DEFINE pc == IF worker[w].pc = "claiming" THEN "finding" ELSE "locating"
<1> HIDE DEF pc
<1>1. CASE exec' = Claimed(w) /\ Claimable(w) /\ worker' = [worker EXCEPT
             ![w].pc = pc, ![w].permitted = run.attempt, ![w].fence = Claimed(w).fence]
  <2>1. worker'[w].fence = Claimed(w).fence /\ exec'.fence = Claimed(w).fence
    BY <1>0, <1>1 DEF Worker
  <2>2. exec'.owner = w
    BY <1>0, <1>1 DEF Claimed, Execution
  <2>3. exec'.fence = IF Orphaned \/ exec.state = "none" THEN exec.fence + 1 ELSE exec.fence
    BY <1>0, <1>1 DEF Claimed, Execution
  <2> QED
    BY <1>1, <2>1, <2>2, <2>3 DEF Claimable
<1>2. CASE exec' = exec /\ \E permanent : Raise(w, permanent)
  BY <1>0, <1>2 DEF Raise, Worker
<1> QED
  BY <1>1, <1>2 DEF Claim, pc

\* Every step keeps the fences distinct and bounded by the row.
LEMMA FencesStep ==
  TypeOK /\ TypeOK' /\ FencesBelowRow /\ PermitsDistinct /\ [Next]_vars
    => FencesBelowRow' /\ PermitsDistinct'
<1> SUFFICES ASSUME TypeOK, TypeOK', FencesBelowRow, PermitsDistinct, [Next]_vars
             PROVE  FencesBelowRow' /\ PermitsDistinct'
  OBVIOUS
<1>0. /\ exec.fence \in Nat /\ exec'.fence \in Nat
      /\ \A v \in Workers : worker[v].fence \in Nat /\ worker'[v].fence \in Nat
  BY DEF TypeOK, Execution, Worker
<1>1. ASSUME NEW w \in Workers, StartAttempt(w) \/ Work(w) \/ Crash(w), ~Claim(w)
      PROVE  FencesBelowRow' /\ PermitsDistinct'
  <2>1. \A v \in Workers : worker'[v].fence \in {worker[v].fence, 0}
    BY <1>1, OnlyClaimsGrant, OthersUntouched
  <2>2. /\ exec'.fence = exec.fence
        /\ \/ exec'.owner = exec.owner /\ exec'.leased = exec.leased
           \/ exec'.owner = NoOwner /\ ~exec'.leased
    BY <1>1, OnlyClaimsGrant
  <2>3. FencesBelowRow'
    BY <1>0, <2>1, <2>2 DEF FencesBelowRow
  <2> QED
    BY <2>1, <2>3 DEF PermitsDistinct
<1>2. ASSUME NEW w \in Workers, Claim(w)
      PROVE  FencesBelowRow' /\ PermitsDistinct'
  <2>1. \A v \in Workers \ {w} : worker'[v].fence = worker[v].fence
    BY <1>2, OthersUntouched DEF Work
  <2>2. CASE exec' = exec /\ worker'[w].fence = worker[w].fence
    BY <2>1, <2>2 DEF FencesBelowRow, PermitsDistinct
  <2>3. CASE /\ exec'.owner = w /\ exec'.fence = worker'[w].fence
             /\ \/ exec'.fence = exec.fence + 1
                \/ exec'.fence = exec.fence /\ exec.owner = w
    <3>1. \A v \in Workers \ {w} : worker'[v].fence < exec'.fence \/ worker'[v].fence = 0
      BY <1>0, <2>1, <2>3, RuntimeAssumption DEF FencesBelowRow
    <3>2. FencesBelowRow'
      BY <1>0, <2>3, <3>1, RuntimeAssumption DEF FencesBelowRow
    <3>3. PermitsDistinct'
      BY <1>0, <2>1, <2>3, <3>1 DEF PermitsDistinct
    <3> QED
      BY <3>2, <3>3
  <2> QED
    BY <1>2, <2>2, <2>3, ClaimTakesFence
<1>3. CASE UNCHANGED <<worker, exec>>
  BY <1>3 DEF FencesBelowRow, PermitsDistinct
<1>4. CASE LeaseLapses
  <2>1. UNCHANGED worker /\ exec'.fence = exec.fence /\ exec'.owner = exec.owner /\ ~exec'.leased
    BY <1>4 DEF LeaseLapses, TypeOK, Execution
  <2> QED
    BY <2>1 DEF FencesBelowRow, PermitsDistinct
<1> QED
  BY <1>1, <1>2, <1>3, <1>4 DEF Next, vars, CancelRun, Reclaim

-----------------------------------------------------------------------------
(* Results *)

\* A RuntimeExecution that succeeded never changes again.
LEMMA SucceededIsFinal ==
  ASSUME TypeOK, [Next]_vars, exec.state = "succeeded", ~exec.leased
  PROVE  exec' = exec
<1>1. ASSUME NEW w \in Workers, StartAttempt(w) \/ Work(w) \/ Crash(w)
      PROVE  exec' = exec
  <2>1. CASE Claim(w)
    BY <2>1 DEF Claim, Claimable, Orphaned
  <2>2. CASE CallFails(w) \/ RecordCheckpoint(w) \/ Finalize(w)
    BY <2>2 DEF CallFails, RecordCheckpoint, Finalize, Active
  <2>3. CASE Watch(w)
    BY <2>3 DEF Watch
  <2> QED
    BY <1>1, <2>1, <2>2, <2>3 DEF Work, StartAttempt, Enter, Reconcile, GetRecord, FindOwn, ReadFails, EndStream, Finish,
       RunFresh, Locate, BeginCall,
       EndCall, CommitCancellation, Commit, Fail, Return, Crash
<1> QED
  BY <1>1 DEF Next, vars, CancelRun, Reclaim, LeaseLapses

\* It succeeds by a finalization alone, and then names a complete checkpoint.
LEMMA SucceedsByFinalizing ==
  ASSUME TypeOK, StepsFollow, [Next]_vars, exec.state # "succeeded", exec'.state = "succeeded"
  PROVE  /\ ~exec'.leased
         /\ (exec.checkpoint \in 1..Latest)' /\ StepAt(exec.checkpoint)' = Steps
<1>0. exec \in Execution
  BY DEF TypeOK
<1>1. PICK w \in Workers : Finalize(w)
  <2>1. ASSUME NEW w \in Workers, StartAttempt(w) \/ Work(w) \/ Crash(w), ~Finalize(w)
        PROVE  FALSE
    <3>1. CASE Claim(w)
      BY <1>0, <3>1 DEF Claim, Claimed, Execution
    <3>2. CASE CallFails(w) \/ RecordCheckpoint(w)
      BY <1>0, <3>2 DEF CallFails, RecordCheckpoint, Finished, Released, Execution
    <3>3. CASE Watch(w)
      BY <1>0, <3>3 DEF Watch, Finished, Execution
    <3> QED
      BY <2>1, <3>1, <3>2, <3>3 DEF Work, StartAttempt, Enter, Reconcile, GetRecord, FindOwn, ReadFails, EndStream, Finish,
       RunFresh, Locate, BeginCall,
         EndCall, CommitCancellation, Commit, Fail, Return, Crash
  <2>2. ASSUME LeaseLapses PROVE FALSE
    BY <1>0, <2>2 DEF LeaseLapses, Execution
  <2> QED
    BY <2>1, <2>2 DEF Next, vars, CancelRun, Reclaim, Work
<1> DEFINE i == worker[w].found
<1>2. exec' = [Finished("succeeded") EXCEPT !.checkpoint = i] /\ UNCHANGED <<thread, Latest>>
  BY <1>1 DEF Finalize, Latest
<1>3. i \in 1..Latest /\ thread[i].step = Steps
  BY <1>1 DEF Finalize, StepsFollow, StepFollows
<1> HIDE DEF i
<1>4. exec'.checkpoint = i /\ ~exec'.leased
  BY <1>0, <1>2 DEF Finished, Execution
<1> QED
  BY <1>2, <1>3, <1>4 DEF StepAt

\* A Run succeeds by the commit of one answer alone, and stays so.
LEMMA SucceedsByCommit ==
  ASSUME TypeOK, [Next]_vars
  PROVE  \/ /\ answers' = answers
            /\ run'.status = "succeeded" <=> run.status = "succeeded"
         \/ /\ run.status = "running" /\ run'.status = "succeeded" /\ answers' = answers + 1
            /\ \E w \in Workers : worker[w].pc = "collecting"
<1> USE DEF TypeOK, Final
<1>1. ASSUME NEW w \in Workers, StartAttempt(w) \/ Fail(w) \/ Return(w) \/ Crash(w)
      PROVE  answers' = answers /\ (run'.status = "succeeded" <=> run.status = "succeeded")
  <2>1. CASE StartAttempt(w) \/ Crash(w)
    BY <2>1 DEF StartAttempt, Crash
  <2>2. CASE Return(w)
    BY <2>2 DEF Return, OwnAttemptClosed
  <2>3. CASE Fail(w)
    <3>1. OwnAttemptClosed(w).status = run.status
      BY DEF OwnAttemptClosed
    <3>2. CASE run.status = "running"
      BY <2>3, <3>2 DEF Fail, OwnAttemptClosed, AfterFailure
    <3>3. CASE run.status = "cancel_requested"
      BY <2>3, <3>3 DEF Fail
    <3>4. CASE run.status \notin {"running", "cancel_requested"}
      BY <2>3, <3>1, <3>4 DEF Fail
    <3> QED
      BY <2>3, <3>2, <3>3, <3>4 DEF Fail
  <2> QED
    BY <1>1, <2>1, <2>2, <2>3
<1>2. ASSUME NEW w \in Workers, Commit(w)
      PROVE  \/ answers' = answers /\ (run'.status = "succeeded" <=> run.status = "succeeded")
             \/ /\ run.status = "running" /\ run'.status = "succeeded"
                /\ answers' = answers + 1 /\ worker[w].pc = "collecting"
  BY <1>2 DEF Commit
<1>3. ASSUME NEW w \in Workers, CommitCancellation(w)
      PROVE  answers' = answers /\ (run'.status = "succeeded" <=> run.status = "succeeded")
  BY <1>3 DEF CommitCancellation
<1>4. ASSUME CancelRun \/ Reclaim
      PROVE  answers' = answers /\ (run'.status = "succeeded" <=> run.status = "succeeded")
  BY <1>4 DEF CancelRun, Reclaim, AfterFailure
<1>5. \/ UNCHANGED <<run, answers>> \/ CancelRun \/ Reclaim
      \/ \E w \in Workers : \/ StartAttempt(w) \/ Fail(w) \/ Return(w) \/ Crash(w)
                             \/ Commit(w) \/ CommitCancellation(w)
  BY DEF Next, vars, Work, LeaseLapses, Enter, Reconcile, GetRecord, Claim, FindOwn, RunFresh,
     ReadFails, EndStream, Locate, BeginCall, EndCall,
     CallFails, RecordCheckpoint, Finalize, Watch
<1> QED
  BY <1>1, <1>2, <1>3, <1>4, <1>5

\* A worker starts to collect only what succeeded.
LEMMA CollectsSuccess ==
  ASSUME TypeOK, [Next]_vars, NEW w \in Workers,
         worker[w].pc # "collecting", worker'[w].pc = "collecting"
  PROVE  exec.state = "succeeded"
<1>0. worker \in [Workers -> Worker] /\ worker[w] \in Worker
  BY DEF TypeOK
<1>1. CASE StartAttempt(w) \/ Work(w) \/ Crash(w)
  <2> USE <1>0 DEF Goto, Raise, Worker
  <2>1. ~StartAttempt(w) /\ ~Crash(w) /\ ~Claim(w)
    <3>1. ~StartAttempt(w)
      BY DEF StartAttempt, IdleWorker
    <3>2. ~Crash(w)
      BY DEF Crash, IdleWorker
    <3>3. ~Claim(w)
      BY DEF Claim
    <3> QED
      BY <3>1, <3>2, <3>3
  <2>2. ~(Fail(w) \/ Return(w) \/ CommitCancellation(w) \/ Commit(w) \/ Enter(w))
    BY DEF Fail, Return, CommitCancellation, Commit, IdleWorker, Enter
  <2>3. ~(Locate(w) \/ BeginCall(w) \/ EndCall(w) \/ CallFails(w))
    BY DEF Locate, BeginCall, EndCall, CallFails, Finish
  <2>6. ~(GetRecord(w) \/ FindOwn(w) \/ RunFresh(w) \/ ReadFails(w) \/ EndStream(w))
    BY DEF GetRecord, FindOwn, RunFresh, ReadFails, EndStream, Finish
  <2>4. ~(RecordCheckpoint(w) \/ Finalize(w) \/ Watch(w))
    BY DEF RecordCheckpoint, Finalize, Watch
  <2>5. Reconcile(w)
    BY <1>1, <2>1, <2>2, <2>3, <2>4, <2>6 DEF Work
  <2> QED
    BY <2>5 DEF Reconcile
<1>2. ASSUME NEW v \in Workers \ {w}, StartAttempt(v) \/ Work(v) \/ Crash(v)
      PROVE  FALSE
  BY <1>2, OthersUntouched
<1>3. ~UNCHANGED worker
  OBVIOUS
<1> QED
  BY <1>1, <1>2, <1>3 DEF Next, vars, CancelRun, Reclaim, LeaseLapses

\* Every step keeps the results.
LEMMA ResultsStep ==
  TypeOK /\ TypeOK' /\ StepsFollow /\ ResultsExist /\ [Next]_vars => ResultsExist'
<1> SUFFICES ASSUME TypeOK, TypeOK', StepsFollow, ResultsExist, [Next]_vars
             PROVE  ResultsExist'
  OBVIOUS
<1>1. ASSUME exec.state = "succeeded"
      PROVE  exec' = exec
  BY <1>1, SucceededIsFinal DEF ResultsExist
<1>2. \A w \in Workers : worker'[w].pc = "collecting" => exec'.state = "succeeded"
  BY <1>1, CollectsSuccess DEF ResultsExist
<1>3. exec'.state = "succeeded" =>
        ~exec'.leased /\ (exec.checkpoint \in 1..Latest)' /\ StepAt(exec.checkpoint)' = Steps
  <2>1. CASE exec.state = "succeeded"
    <3>1. exec' = exec /\ ~exec.leased
          /\ exec.checkpoint \in 1..Latest /\ StepAt(exec.checkpoint) = Steps
      BY <1>1, <2>1 DEF ResultsExist, AnswerIsRuntimeResult
    <3>2. exec.checkpoint \in 1..Latest' /\ thread'[exec.checkpoint] = thread[exec.checkpoint]
      BY <3>1, ThreadGrows
    <3> QED
      BY <3>1, <3>2 DEF StepAt
  <2> QED
    BY <2>1, SucceedsByFinalizing
<1>4. answers' = (IF run'.status = "succeeded" THEN 1 ELSE 0)
      /\ (run'.status = "succeeded" => exec'.state = "succeeded")
  BY <1>1, SucceedsByCommit DEF ResultsExist, AnswerIsRuntimeResult
<1> QED
  BY <1>2, <1>3, <1>4 DEF ResultsExist, AnswerIsRuntimeResult

-----------------------------------------------------------------------------
(* The theorems *)

\* The invariant holds at first and after every step.
LEMMA RuntimeInductive ==
  /\ Init => RuntimeInv
  /\ RuntimeInv /\ [Next]_vars => RuntimeInv'
<1>1. Init => RuntimeInv
  BY InitType DEF Init, RuntimeInv, StepsFollow, StepFollows, FencesBelowRow, PermitsDistinct,
     ResultsExist, AnswerIsRuntimeResult, IdleWorker, NoExecution
<1>2. RuntimeInv /\ [Next]_vars => RuntimeInv'
  BY StepType, StepsFollowStep, FencesStep, ResultsStep DEF RuntimeInv
<1> QED
  BY <1>1, <1>2

\* RuntimeInv holds in every reachable state.
THEOREM RuntimeInvariant == Spec => []RuntimeInv
BY RuntimeInductive, PTL DEF Spec

\* No two workers ever hold the same fencing token: RuntimeExecution.claim hands
\* out the next one whenever the owner changes.
THEOREM NoSharedPermit == Spec => []PermitsDistinct
<1>1. RuntimeInv => PermitsDistinct
  BY DEF RuntimeInv
<1> QED
  BY <1>1, RuntimeInvariant, PTL

\* A Run succeeds with exactly one answer, that of a complete checkpoint which
\* the RuntimeExecution names.
THEOREM AnswerIsResult == Spec => []AnswerIsRuntimeResult
<1>1. RuntimeInv => AnswerIsRuntimeResult
  BY DEF RuntimeInv, ResultsExist
<1> QED
  BY <1>1, RuntimeInvariant, PTL

\* Of the active holder's lease and record nobody but the holder changes more
\* than that the lease lapses, while the Run is RUNNING.
THEOREM HolderWrites == Spec => OnlyHolderWrites
<1>1. ASSUME RuntimeInv, [Next]_vars, NEW w \in Workers,
             Active(w), exec' # exec, run.status = "running", worker'[w] = worker[w]
      PROVE  exec' = [exec EXCEPT !.leased = FALSE]
  <2>0. /\ worker \in [Workers -> Worker] /\ w # NoOwner
        /\ exec.owner = w /\ exec.state = "running" /\ exec.leased
        /\ exec.attempt = run.attempt /\ exec.fence = worker[w].fence
    BY <1>1, RuntimeAssumption DEF Active, RuntimeInv, TypeOK
  <2>1. ASSUME NEW v \in Workers, StartAttempt(v) \/ Work(v) \/ Crash(v)
        PROVE  FALSE
    <3>1. Claim(v) \/ CallFails(v) \/ RecordCheckpoint(v) \/ Finalize(v)
      BY <1>1, <2>1 DEF Work, StartAttempt, Enter, Reconcile, GetRecord, FindOwn, ReadFails, EndStream, Finish,
       RunFresh, Locate, BeginCall, EndCall,
         Watch, CommitCancellation, Commit, Fail, Return, Crash
    <3>2. CASE v = w
      BY <1>1, <2>0, <3>1, <3>2 DEF Claim, CallFails, RecordCheckpoint, Finalize, Goto, Raise, Worker
    <3>3. CASE v # w
      <4>1. ~Active(v) /\ ~Claimable(v)
        BY <1>1, <2>0, <3>3 DEF Active, Claimable, Orphaned
      <4> QED
        BY <1>1, <3>1, <4>1 DEF Claim, CallFails, RecordCheckpoint, Finalize
    <3> QED
      BY <3>2, <3>3
  <2> QED
    BY <1>1, <2>1 DEF Next, vars, CancelRun, Reclaim, LeaseLapses
<1>2. RuntimeInv /\ [Next]_vars =>
        [\A w \in Workers : (Active(w) /\ exec' # exec /\ run.status = "running") =>
                               \/ worker'[w] # worker[w]
                               \/ exec' = [exec EXCEPT !.leased = FALSE]]_vars
  BY <1>1
<1> QED
  BY <1>2, RuntimeInvariant, PTL DEF Spec, OnlyHolderWrites


-----------------------------------------------------------------------------
(* The Run of a Turn is a Run of RunLifecycle *)

\* Its row as RunMoves moves it.
RowOfRun == [status |-> run.status, attempts |-> run.attempt, open |-> run.live]
Moves == INSTANCE RunMoves WITH row <- RowOfRun

\* A step makes a move of RunMoves, or leaves the row alone.
RowMove == Moves!Next \/ UNCHANGED RowOfRun

\* A row with another status.
LEMMA RowWith ==
  ASSUME TypeOK, NEW status, run' = [run EXCEPT !.status = status]
  PROVE  RowOfRun' = [RowOfRun EXCEPT !.status = status]
<1>1. run'.status = status /\ run'.attempt = run.attempt /\ run'.live = run.live
  BY DEF TypeOK
<1> QED
  BY <1>1 DEF RowOfRun

\* A row with another status, and with its Attempt closed.
LEMMA RowFields ==
  ASSUME TypeOK
  PROVE  /\ \A new : [RowOfRun EXCEPT !.status = new] =
                       [status |-> new, attempts |-> run.attempt, open |-> run.live]
         /\ \A new : [[RowOfRun EXCEPT !.status = new] EXCEPT !.open = FALSE] =
                       [status |-> new, attempts |-> run.attempt, open |-> FALSE]
         /\ [RowOfRun EXCEPT !.open = FALSE] =
              [status |-> run.status, attempts |-> run.attempt, open |-> FALSE]
<1>1. run.live \in BOOLEAN
  BY DEF TypeOK
<1>2. \A new : [RowOfRun EXCEPT !.status = new] =
                 [status |-> new, attempts |-> run.attempt, open |-> run.live]
  BY DEF RowOfRun
<1>3. ASSUME NEW status, NEW open \in BOOLEAN
      PROVE  [[status |-> status, attempts |-> run.attempt, open |-> open] EXCEPT !.open = FALSE] =
               [status |-> status, attempts |-> run.attempt, open |-> FALSE]
  <2> DEFINE closed == FALSE
  <2> HIDE DEF closed
  <2>1. [[status |-> status, attempts |-> run.attempt, open |-> open] EXCEPT !.open = closed] =
          [status |-> status, attempts |-> run.attempt, open |-> closed]
    OBVIOUS
  <2> QED
    BY <2>1, Zenon DEF closed
<1> QED
  BY <1>1, <1>2, <1>3 DEF RowOfRun

\* The own Attempt is closed, and that is the latest one or not.
LEMMA OwnAttemptMove ==
  ASSUME TypeOK, NEW w \in Workers, run' = OwnAttemptClosed(w)
  PROVE  RowMove
<1>1. CASE run.attempt = worker[w].attempt
  <2>1. RowOfRun' = [RowOfRun EXCEPT !.open = FALSE]
    <3>1. run' = [run EXCEPT !.live = FALSE]
      BY <1>1 DEF OwnAttemptClosed
    <3>2. RowOfRun' = [status |-> run.status, attempts |-> run.attempt, open |-> FALSE]
      BY <3>1 DEF TypeOK, RowOfRun
    <3> QED
      BY <3>2, RowFields DEF RowOfRun
  <2>2. Moves!Close
    BY <2>1 DEF RowOfRun, Moves!Close, Moves!Closed
  <2> QED
    BY <2>2 DEF RowMove, Moves!Next
<1>2. CASE run.attempt # worker[w].attempt
  BY <1>2 DEF TypeOK, OwnAttemptClosed, RowOfRun, RowMove
<1> QED
  BY <1>1, <1>2

\* An executor raised: its Run fails or is tried again also when a newer Attempt
\* is under way, which then stays open.
LEMMA FailMove ==
  ASSUME TypeOK, NEW w \in Workers, Fail(w)
  PROVE  RowMove
<1>1. CASE run.status = "cancel_requested"
  BY <1>1 DEF Fail, RowMove, RowOfRun
<1>2. CASE run.status \notin {"running", "cancel_requested"}
  BY <1>2, OwnAttemptMove DEF Fail
<1>3. CASE run.status = "running"
  <2>1. PICK final \in BOOLEAN :
          run' = [OwnAttemptClosed(w) EXCEPT !.status = AfterFailure(final)]
    <3>1. worker[w].permanent \in BOOLEAN
      BY DEF TypeOK, Worker
    <3> QED
      BY <1>3, <3>1 DEF Fail, Finality
  <2>2. Moves!AfterFailure(RowOfRun, final) = [RowOfRun EXCEPT !.status = AfterFailure(final)]
    <3>1. (run.attempt >= MaxAttempts) <=> ~(run.attempt < MaxAttempts)
      BY RuntimeAssumption DEF TypeOK
    <3> QED
      BY <1>3, <3>1 DEF RowOfRun, AfterFailure, Moves!AfterFailure, Moves!Running
  <2>3. CASE run.attempt # worker[w].attempt
    <3>1. RowOfRun' = [RowOfRun EXCEPT !.status = AfterFailure(final)]
      BY <2>1, <2>3 DEF TypeOK, OwnAttemptClosed, RowOfRun
    <3>2. Moves!MarkFailed
      BY <2>2, <3>1 DEF Moves!MarkFailed
    <3> QED
      BY <3>2 DEF RowMove, Moves!Next
  <2>4. CASE run.attempt = worker[w].attempt
    <3>1. RowOfRun' = [status |-> AfterFailure(final), attempts |-> run.attempt, open |-> FALSE]
      BY <2>1, <2>4 DEF TypeOK, OwnAttemptClosed, RowOfRun
    <3>2. Moves!FailedRun(RowOfRun, RowOfRun.attempts, final) = RowOfRun'
      BY <1>3, <2>2, <3>1 DEF RowOfRun, Moves!FailedRun, Moves!Closed
    <3>3. Moves!Fail
      BY <3>2 DEF Moves!Fail
    <3> QED
      BY <3>3 DEF RowMove, Moves!Next
  <2> QED
    BY <2>3, <2>4
<1> QED
  BY <1>1, <1>2, <1>3

LEMMA ReclaimMove ==
  ASSUME TypeOK, Reclaim
  PROVE  RowMove
<1>1. PICK final \in BOOLEAN :
        run' = [run EXCEPT !.live = FALSE, !.status = IF run.status = "running"
                                                      THEN AfterFailure(final) ELSE "cancelled"]
  BY DEF Reclaim
<1>2. RowOfRun' = [status |-> IF run.status = "running" THEN AfterFailure(final) ELSE "cancelled",
                   attempts |-> run.attempt, open |-> FALSE]
  BY <1>1 DEF TypeOK, RowOfRun
<1>3. (run.attempt >= MaxAttempts) <=> ~(run.attempt < MaxAttempts)
  BY RuntimeAssumption DEF TypeOK
<1>4. Moves!Reclaimed(RowOfRun, final) = RowOfRun'
  <2>1. CASE run.status = "running"
    <3>1. Moves!AfterFailure(RowOfRun, final) = [RowOfRun EXCEPT !.status = AfterFailure(final)]
      BY <1>3, <2>1 DEF RowOfRun, AfterFailure, Moves!AfterFailure, Moves!Running
    <3> QED
      <4>1. RowOfRun' = [[RowOfRun EXCEPT !.status = AfterFailure(final)] EXCEPT !.open = FALSE]
        BY <1>2, <2>1, RowFields DEF RowOfRun
      <4> QED
        BY <2>1, <3>1, <4>1 DEF RowOfRun, Moves!Reclaimed, Moves!Running
  <2>2. CASE run.status # "running"
    <3>1. RowOfRun' = [[RowOfRun EXCEPT !.status = "cancelled"] EXCEPT !.open = FALSE]
      BY <1>2, <2>2, RowFields DEF RowOfRun
    <3> QED
      BY <2>2, <3>1 DEF RowOfRun, Moves!Reclaimed, Moves!Running
  <2> QED
    BY <2>1, <2>2
<1>5. Moves!Reclaimable(RowOfRun)
  BY DEF Reclaim, RowOfRun, Moves!Reclaimable
<1>6. Moves!Reclaim
  BY <1>4, <1>5 DEF Moves!Reclaim
<1> QED
  BY <1>6 DEF RowMove, Moves!Next

\* The other steps that write the Run.
LEMMA PlainMove ==
  ASSUME TypeOK,
         CancelRun \/ \E w \in Workers : StartAttempt(w) \/ CommitCancellation(w) \/ Commit(w)
  PROVE  RowMove
<1> USE DEF RowMove, Moves!Next
<1>1. RowOfRun.status = run.status /\ RowOfRun.attempts = run.attempt
  BY DEF RowOfRun
<1>2. CASE CancelRun
  <2>1. Moves!Cancellable(RowOfRun) /\ RowOfRun' = Moves!Cancelled(RowOfRun)
    BY <1>1, <1>2, RowWith DEF CancelRun, Moves!Cancellable, Moves!Cancelled, Moves!Terminal,
       Moves!Running
  <2> QED
    BY <2>1 DEF Moves!Cancel
<1>3. ASSUME NEW w \in Workers, StartAttempt(w) PROVE Moves!Claim
  BY <1>1, <1>3 DEF StartAttempt, RowOfRun, Moves!Claim, Moves!Started
<1>4. ASSUME NEW w \in Workers, CommitCancellation(w) PROVE RowMove
  <2>1. CASE run.status = "cancel_requested"
    <3>1. Moves!Cancellable(RowOfRun) /\ RowOfRun' = Moves!Cancelled(RowOfRun)
      BY <1>1, <1>4, <2>1, RowWith DEF CommitCancellation, Moves!Cancellable, Moves!Cancelled,
         Moves!Terminal, Moves!Running
    <3> QED
      BY <3>1 DEF Moves!Cancel
  <2>2. CASE run.status # "cancel_requested"
    BY <1>4, <2>2 DEF CommitCancellation, RowOfRun
  <2> QED
    BY <2>1, <2>2
<1>5. ASSUME NEW w \in Workers, Commit(w) PROVE RowMove
  <2>1. CASE run' = [run EXCEPT !.status = "succeeded"] /\ run.status = "running"
    <3>1. Moves!Running(RowOfRun) /\ RowOfRun' = Moves!Succeeded(RowOfRun)
      BY <1>1, <2>1, RowWith DEF Moves!Succeeded, Moves!Running
    <3> QED
      BY <3>1 DEF Moves!Succeed
  <2>2. CASE run' = [run EXCEPT !.status = "cancelled"] /\ run.status = "cancel_requested"
    <3>1. Moves!Cancellable(RowOfRun) /\ RowOfRun' = Moves!Cancelled(RowOfRun)
      BY <1>1, <2>2, RowWith DEF Moves!Cancellable, Moves!Cancelled, Moves!Terminal, Moves!Running
    <3> QED
      BY <3>1 DEF Moves!Cancel
  <2>3. CASE UNCHANGED run
    BY <2>3 DEF RowOfRun
  <2> QED
    BY <1>5, <2>1, <2>2, <2>3 DEF Commit
<1> QED
  BY <1>2, <1>3, <1>4, <1>5

\* Every step moves the row of the Run as RunMoves does, or leaves it.
LEMMA NextMovesRun ==
  ASSUME TypeOK, [Next]_vars
  PROVE  RowMove
<1>1. ASSUME UNCHANGED run PROVE RowMove
  BY <1>1 DEF RowMove, RowOfRun
<1>2. ASSUME NEW w \in Workers, Return(w) PROVE RowMove
  BY <1>2, OwnAttemptMove DEF Return
<1>3. \/ UNCHANGED run \/ CancelRun \/ Reclaim
      \/ \E w \in Workers : \/ StartAttempt(w) \/ Fail(w) \/ Return(w)
                             \/ Commit(w) \/ CommitCancellation(w)
  BY DEF Next, vars, Work, Crash, LeaseLapses, Enter, Reconcile, GetRecord, Claim, FindOwn, RunFresh,
     ReadFails, EndStream, Locate, BeginCall, EndCall,
     CallFails, RecordCheckpoint, Finalize, Watch
<1> QED
  BY <1>1, <1>2, <1>3, FailMove, ReclaimMove, PlainMove

\* The Run of a Turn makes the moves of RunMoves only, as the machinery of
\* RunLifecycle does, for any number of workers that execute it at the same time.
THEOREM TurnRunMoves == Spec => Moves!Spec
<1>1. Init => Moves!Init
  BY DEF Init, RowOfRun, Moves!Init, Moves!NewRun
<1>2. RuntimeInv /\ [Next]_vars => [Moves!Next]_RowOfRun
  BY NextMovesRun DEF RuntimeInv, RowMove
<1> QED
  BY <1>1, <1>2, RuntimeInvariant, PTL DEF Spec, Moves!Spec

=============================================================================
