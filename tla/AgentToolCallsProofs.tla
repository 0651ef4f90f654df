------------------------- MODULE AgentToolCallsProofs -------------------------
(***************************************************************************)
(* Proofs about AgentToolCalls, for any number of workers, calls, Attempts *)
(* and artifacts and any limits of the policy.                             *)
(***************************************************************************)
EXTENDS AgentToolCalls, FiniteSetTheorems, TLAPS

-----------------------------------------------------------------------------
(* The inductive invariant *)

\* Where the tasks of each kind of call may be.
CommonPc == {"todo", "start", "guard", "returned", "recording", "saving", "finished", "raising",
             "raised"}
PcsOf(c) ==
  CommonPc \cup
    CASE Kind[c] = "plain" -> {"calling", "waiting"}
      [] HasEffect(c) -> {"begin", "check", "calling", "waiting", "recheck", "succeeding",
                          "failing"}
      [] OTHER -> {"begin", "writing", "fencing", "submitting", "rejecting", "refusing"}

PcsFollow == \A w \in Workers, c \in Calls : task[w][c].pc \in PcsOf(c)

\* A tool without a stored result has run, or is about to run in one task, only
\* after the one claim of its row.
AboutToRun(w, c) == task[w][c].pc \in {"guard", "calling"}
PlainFollows ==
  \A c \in Calls : Kind[c] = "plain" =>
    /\ executed[c] <= 1
    /\ call[c] \in {"none", "reserved"} =>
         executed[c] = 0 /\ \A w \in Workers : ~AboutToRun(w, c)
    /\ \A w \in Workers : AboutToRun(w, c) =>
         executed[c] = 0 /\ \A v \in Workers : AboutToRun(v, c) => v = w

\* A task that began an attempt of an effect has it for itself until the effect
\* leaves RUNNING, and its tool runs once for it.
InEffect(w, c) ==
  /\ HasEffect(c)
  /\ task[w][c].pc \in {"check", "calling", "waiting", "recheck", "succeeding", "failing"}
EffectsFollow ==
  /\ \A e \in Calls : effect[e].state = "none" => effect[e].attempts = 0
  /\ \A c \in Calls : HasEffect(c) => executed[EffectOf(c)] <= effect[EffectOf(c)].attempts
  /\ \A w \in Workers, c \in Calls : InEffect(w, c) =>
       /\ effect[EffectOf(c)].state = "running"
       /\ task[w][c].pc \in {"check", "calling"} =>
            executed[EffectOf(c)] < effect[EffectOf(c)].attempts
       /\ \A v \in Workers, d \in Calls :
            InEffect(v, d) /\ EffectOf(d) = EffectOf(c) => v = w /\ d = c

\* What a tool with a stored result has returned is stored.
Known(c) ==
  /\ HasEffect(c) => effect[EffectOf(c)].state = "succeeded"
  /\ c \in Submits => \E d \in Accepted : Signature[d] = Signature[c]
ResultsFollow ==
  /\ \A w \in Workers, c \in Calls : task[w][c].pc \in {"returned", "recording"} => Known(c)
  /\ \A c \in Calls : call[c] = "succeeded" => Known(c)

\* A Candidate has a content as long as it is accepted, and a file that is to
\* become one is in Storage before the Candidate is recorded.
CandidatesFollow ==
  /\ \A c \in Calls : candidate[c].content # NoContent <=> c \in Accepted
  /\ \A w \in Workers, c \in Calls :
       /\ task[w][c].pc \in {"writing", "fencing", "submitting"} => task[w][c].content \in Contents
       /\ task[w][c].pc \in {"fencing", "submitting"} => task[w][c].content \in stored

\* The inductive invariant behind the theorems on tool calls.
CallsInv ==
  /\ TypeOK /\ PcsFollow /\ BudgetKept /\ PlainFollows /\ EffectsFollow /\ ResultsFollow
  /\ CandidatesFollow /\ ArtifactsDelivered


-----------------------------------------------------------------------------
(* The Turn and the tasks *)

\* What CallsAssumption says of the Turn.
LEMMA TurnFacts ==
  ASSUME TypeOK
  PROVE  /\ IsFiniteSet(Calls)
         /\ MaxToolCalls \in Nat /\ MaxRepeated \in Nat
         /\ \A c \in Calls : /\ Kind[c] \in {"mcp", "project", "artifact", "plain"}
                             /\ Signature[c] \in Calls
                             /\ EffectOf(c) \in Calls /\ Kind[EffectOf(c)] = Kind[c]
BY CallsAssumption DEF TypeOK, Calls, Kind, Signature, MaxToolCalls, MaxRepeated, EffectOf

\* Effects of different kinds have different names.
LEMMA SameEffect ==
  ASSUME TypeOK, NEW c \in Calls, NEW d \in Calls, EffectOf(c) = EffectOf(d)
  PROVE  Kind[c] = Kind[d] /\ (Kind[c] = "mcp" => c = d)
<1>1. Kind[c] = Kind[d]
  BY TurnFacts
<1> QED
  BY <1>1 DEF EffectOf

\* A step of one task leaves the others where they are.
Tasks == [Workers -> [Calls -> Task]]
Moved(w, c) ==
  /\ task' \in Tasks
  /\ \A v \in Workers, d \in Calls : v # w \/ d # c => task'[v][d] = task[v][d]

\* An update of one task.
LEMMA UpdateMoves ==
  ASSUME task \in Tasks, NEW w \in Workers, NEW c \in Calls, NEW new \in Task,
         task' = [task EXCEPT ![w][c] = new]
  PROVE  Moved(w, c) /\ task'[w][c] = new
BY DEF Tasks, Moved

\* The same, for a task that only moves on.
LEMMA GotoMoves ==
  ASSUME task \in Tasks, NEW w \in Workers, NEW c \in Calls, NEW pc \in TaskPc, Goto(w, c, pc)
  PROVE  /\ Moved(w, c) /\ task'[w][c].pc = pc
         /\ task'[w][c].content = task[w][c].content
<1> DEFINE new == [task[w][c] EXCEPT !.pc = pc]
<1>1. task[w][c] \in Task
  BY DEF Tasks
<1>2. new \in Task /\ new.pc = pc /\ new.content = task[w][c].content
  BY <1>1 DEF Task
<1>3. task' = [task EXCEPT ![w][c] = new]
  BY DEF Goto
<1> HIDE DEF new
<1> QED
  BY <1>2, <1>3, UpdateMoves

\* And for one that is about to raise.
LEMMA RaiseMoves ==
  ASSUME task \in Tasks, NEW w \in Workers, NEW c \in Calls, NEW permanent \in BOOLEAN,
         Raise(w, c, permanent)
  PROVE  Moved(w, c) /\ task'[w][c].pc = "raising"
<1> DEFINE new == [task[w][c] EXCEPT !.pc = "raising", !.permanent = permanent]
<1>1. task[w][c] \in Task
  BY DEF Tasks
<1>2. new \in Task /\ new.pc = "raising"
  BY <1>1 DEF Task, TaskPc
<1>3. task' = [task EXCEPT ![w][c] = new]
  BY DEF Raise
<1> HIDE DEF new
<1> QED
  BY ZenonT(30), <1>2, <1>3, UpdateMoves

\* The tasks a new worker begins with, and those of one that stopped.
LEMMA NewTaskType ==
  ASSUME NEW pc \in TaskPc
  PROVE  NewTask(pc) \in Task /\ NewTask(pc).pc = pc
BY DEF NewTask, Task

\* The tasks of one worker are set anew.
Reset(w) ==
  /\ task' \in Tasks
  /\ \A v \in Workers, d \in Calls :
       IF v = w THEN task'[v][d].pc \in {"todo", "finished"} ELSE task'[v][d] = task[v][d]

\* A worker that stops forgets its tasks.
LEMMA StopResets ==
  ASSUME TypeOK, NEW w \in Workers, Stop(w)
  PROVE  Reset(w) /\ permit' \in [Workers -> Nat]
<1>1. NewTask("todo") \in Task /\ NewTask("todo").pc = "todo"
  BY NewTaskType DEF TaskPc
<1>2. task \in Tasks
  BY DEF TypeOK, Tasks
<1> QED
  BY <1>1, <1>2 DEF Stop, Reset, Tasks, TypeOK

\* The variables that the parts of the invariant do not read, or read with the
\* task that moved.
RestOK ==
  /\ turn' = turn
  /\ run' \in [status: RunStatus, fence: Nat, answered: BOOLEAN]
  /\ done' \subseteq Calls
  /\ permit' \in [Workers -> Nat]
  /\ lease' \in Lease
  /\ box' \in [Workers -> Nat]

\* A step that leaves them alone.
LEMMA RestKept ==
  ASSUME TypeOK, UNCHANGED <<turn, run, done, permit, lease, box>>
  PROVE  RestOK
BY DEF TypeOK, RestOK

-----------------------------------------------------------------------------
(* Steps that put nothing at risk *)

\* The Turn never changes, and what is read of it neither.
LEMMA TurnFixed ==
  ASSUME turn' = turn
  PROVE  /\ Calls' = Calls /\ Kind' = Kind /\ Signature' = Signature /\ Submits' = Submits
         /\ MaxToolCalls' = MaxToolCalls /\ MaxRepeated' = MaxRepeated
         /\ \A c : /\ EffectOf(c)' = EffectOf(c) /\ HasEffect(c)' = HasEffect(c)
                   /\ PcsOf(c)' = PcsOf(c)
BY DEF Calls, Kind, Signature, Submits, MaxToolCalls, MaxRepeated, EffectOf, HasEffect, PcsOf

\* A task that stays in the places of its kind, without a result or a file
\* that is not stored.
Sound(v, d) ==
  LET old == task[v][d].pc
      new == task'[v][d].pc
  IN /\ new \in PcsOf(d)
     /\ new \in {"returned", "recording"} => old \in {"returned", "recording"} \/ Known(d)'
     /\ new \in {"writing", "fencing", "submitting"} => task'[v][d].content \in Contents
     /\ new \in {"fencing", "submitting"} => task'[v][d].content \in stored'

\* One that comes no closer to running a tool without a stored result.
Running(pc) == pc \in {"guard", "calling"}
NoClaim(v, d) == Kind[d] = "plain" /\ Running(task'[v][d].pc) => Running(task[v][d].pc)

\* One that enters no effect.
Inside(pc) == pc \in {"check", "calling", "waiting", "recheck", "succeeding", "failing"}
NoEntry(v, d) ==
  HasEffect(d) =>
    /\ Inside(task'[v][d].pc) => Inside(task[v][d].pc)
    /\ task'[v][d].pc \in {"check", "calling"} => task[v][d].pc \in {"check", "calling"}

Harmless(v, d) == Sound(v, d) /\ NoClaim(v, d) /\ NoEntry(v, d)

TasksSound ==
  /\ task' \in Tasks
  /\ \A v \in Workers, d \in Calls : task'[v][d] = task[v][d] \/ Sound(v, d)
NoneClaims == \A v \in Workers, d \in Calls : NoClaim(v, d)
NoneEnters == \A v \in Workers, d \in Calls : NoEntry(v, d)
TasksQuiet == TasksSound /\ NoneClaims /\ NoneEnters

\* Claims are not given back, and no success is recorded that is not stored.
CallsQuiet ==
  /\ call' \in [Calls -> CallStatus]
  /\ \A c \in Calls :
       /\ call'[c] \in {"none", "reserved"} => call[c] \in {"none", "reserved"}
       /\ call'[c] = "succeeded" => call[c] = "succeeded" \/ Known(c)

\* No call is reserved.
SameReserved ==
  reserved' = reserved /\ \A c \in Calls : call'[c] = "none" <=> call[c] = "none"

\* Stored results stay.
ResultsStay ==
  /\ \A e \in Calls : effect[e].state = "succeeded" => effect'[e].state = "succeeded"
  /\ Accepted \subseteq Accepted'

\* One task moves, the others do not.
LEMMA MoveIsSound ==
  ASSUME NEW w \in Workers, NEW c \in Calls, Moved(w, c)
  PROVE  /\ Sound(w, c) => TasksSound
         /\ NoClaim(w, c) => NoneClaims
         /\ NoEntry(w, c) => NoneEnters
<1>1. Sound(w, c) => TasksSound
  BY DEF Moved, TasksSound
<1>2. \A v \in Workers, d \in Calls : v # w \/ d # c => NoClaim(v, d) /\ NoEntry(v, d)
  BY DEF Moved, NoClaim, NoEntry
<1> QED
  BY <1>1, <1>2 DEF NoneClaims, NoneEnters

\* One task moves harmlessly.
LEMMA MoveIsQuiet ==
  ASSUME NEW w \in Workers, NEW c \in Calls, Moved(w, c), Harmless(w, c)
  PROVE  TasksQuiet
BY MoveIsSound DEF Harmless, TasksQuiet

\* The tasks a worker begins with, or that it left, put nothing at risk.
LEMMA ResetIsQuiet ==
  ASSUME NEW w \in Workers, Reset(w)
  PROVE  TasksQuiet
<1>1. ASSUME NEW d \in Calls PROVE Harmless(w, d)
  <2>1. task'[w][d].pc \in {"todo", "finished"}
    BY DEF Reset
  <2> QED
    BY <2>1 DEF Harmless, Sound, NoClaim, NoEntry, PcsOf, CommonPc, Running, Inside
<1>2. ASSUME NEW v \in Workers, NEW d \in Calls, v # w PROVE task'[v][d] = task[v][d]
  BY <1>2 DEF Reset
<1>3. TasksSound
  BY <1>1, <1>2 DEF Reset, TasksSound, Harmless
<1>4. NoneClaims
  BY <1>1, <1>2 DEF NoneClaims, NoClaim, Harmless
<1>5. NoneEnters
  BY <1>1, <1>2 DEF NoneEnters, NoEntry, Harmless
<1> QED
  BY <1>3, <1>4, <1>5 DEF TasksQuiet

\* Tasks stay in the places of their kind.
LEMMA PcsQuiet ==
  ASSUME PcsFollow, TasksSound, turn' = turn
  PROVE  PcsFollow'
BY TurnFixed DEF PcsFollow, TasksSound, Sound

\* The budget does not move with the calls that have it.
LEMMA BudgetQuiet ==
  ASSUME BudgetKept, SameReserved, turn' = turn
  PROVE  BudgetKept'
<1>1. {c \in Calls : call'[c] # "none"} = {c \in Calls : call[c] # "none"}
  BY DEF SameReserved
<1>2. \A c \in Calls : Repeats(c)' = Repeats(c)
  <2> SUFFICES ASSUME NEW c \in Calls PROVE Repeats(c)' = Repeats(c)
    OBVIOUS
  <2>1. {d \in Calls : call'[d] # "none" /\ Signature[d] = Signature[c]}
          = {d \in Calls : call[d] # "none" /\ Signature[d] = Signature[c]}
    BY DEF SameReserved
  <2> QED
    BY <2>1, TurnFixed DEF Repeats
<1> QED
  BY <1>1, <1>2, TurnFixed DEF BudgetKept, SameReserved

\* Nothing new runs without a stored result.
LEMMA PlainQuiet ==
  ASSUME PlainFollows, NoneClaims, CallsQuiet, executed' = executed, turn' = turn
  PROVE  PlainFollows'
<1>1. \A w \in Workers, c \in Calls : Kind[c] = "plain" /\ AboutToRun(w, c)' => AboutToRun(w, c)
  BY DEF NoneClaims, NoClaim, AboutToRun, Running
<1> QED
  BY <1>1, TurnFixed DEF PlainFollows, CallsQuiet

\* No task enters an effect.
LEMMA EffectsQuiet ==
  ASSUME EffectsFollow, NoneEnters, UNCHANGED <<executed, effect, turn>>
  PROVE  EffectsFollow'
<1>1. \A w \in Workers, c \in Calls : InEffect(w, c)' => InEffect(w, c)
  BY TurnFixed DEF NoneEnters, NoEntry, InEffect, Inside
<1>2. \A w \in Workers, c \in Calls :
        HasEffect(c) /\ task'[w][c].pc \in {"check", "calling"}
          => task[w][c].pc \in {"check", "calling"}
  BY DEF NoneEnters, NoEntry
<1>3. \A w \in Workers, c \in Calls : InEffect(w, c)' => HasEffect(c)
  BY TurnFixed DEF InEffect
<1> QED
  BY <1>1, <1>2, <1>3, TurnFixed DEF EffectsFollow

\* What is stored stays stored.
LEMMA KnownStays ==
  ASSUME TypeOK, ResultsStay, turn' = turn, NEW c \in Calls, Known(c)
  PROVE  Known(c)'
BY TurnFacts, TurnFixed DEF Known, ResultsStay

\* No task returns what is not stored.
LEMMA ResultsQuiet ==
  ASSUME TypeOK, ResultsFollow, TasksSound, CallsQuiet, ResultsStay, turn' = turn
  PROVE  ResultsFollow'
<1>1. ASSUME NEW w \in Workers, NEW c \in Calls, task'[w][c].pc \in {"returned", "recording"}
      PROVE  Known(c)'
  BY <1>1, KnownStays DEF ResultsFollow, TasksSound, Sound
<1>2. ASSUME NEW c \in Calls, call'[c] = "succeeded" PROVE Known(c)'
  BY <1>2, KnownStays DEF ResultsFollow, CallsQuiet
<1> QED
  BY <1>1, <1>2, TurnFixed DEF ResultsFollow

\* Files that wait for their Candidates stay in Storage.
LEMMA FilesQuiet ==
  ASSUME CandidatesFollow, TasksSound, stored \subseteq stored', turn' = turn,
         \A c \in Calls : candidate'[c].content # NoContent <=> c \in Accepted'
  PROVE  CandidatesFollow'
<1>1. ASSUME NEW w \in Workers, NEW c \in Calls
      PROVE  /\ task'[w][c].pc \in {"writing", "fencing", "submitting"}
                  => task'[w][c].content \in Contents
             /\ task'[w][c].pc \in {"fencing", "submitting"} => task'[w][c].content \in stored'
  BY DEF CandidatesFollow, TasksSound, Sound
<1> QED
  BY <1>1, TurnFixed DEF CandidatesFollow

\* Without a new Candidate and without an end of the Run, as long as both agree.
LEMMA CandidatesQuiet ==
  ASSUME CandidatesFollow, ArtifactsDelivered, TasksSound, UNCHANGED <<turn, candidate>>,
         stored \subseteq stored', run'.status = "succeeded" <=> run.status = "succeeded"
  PROVE  CandidatesFollow' /\ ArtifactsDelivered'
<1>1. Accepted' = Accepted
  BY TurnFixed DEF Accepted
<1>2. CandidatesFollow'
  BY <1>1, FilesQuiet DEF CandidatesFollow
<1>3. ArtifactsDelivered'
  BY <1>1 DEF ArtifactsDelivered
<1> QED
  BY <1>2, <1>3

\* A step that is quiet in every respect.
QuietStep ==
  /\ RestOK /\ TasksQuiet /\ CallsQuiet /\ SameReserved
  /\ UNCHANGED <<effect, executed, candidate>>
  /\ stored \subseteq stored' /\ stored' \subseteq Contents
  /\ run'.status = "succeeded" <=> run.status = "succeeded"

\* Such a step keeps the invariant.
LEMMA QuietKeeps ==
  ASSUME CallsInv, QuietStep
  PROVE  CallsInv'
<1> USE DEF CallsInv, QuietStep
<1>1. turn' = turn
  BY DEF RestOK
<1>2. TypeOK'
  BY <1>1, TurnFixed DEF TypeOK, RestOK, TasksQuiet, TasksSound, CallsQuiet, SameReserved, Tasks
<1>3. ResultsStay
  BY <1>1, TurnFixed DEF ResultsStay, Accepted
<1> QED
  BY <1>1, <1>2, <1>3, PcsQuiet, BudgetQuiet, PlainQuiet, EffectsQuiet, ResultsQuiet,
     CandidatesQuiet DEF TasksQuiet


-----------------------------------------------------------------------------
(* The Run *)

\* A step that leaves the calls alone.
LEMMA CallsSame ==
  ASSUME TypeOK, UNCHANGED call
  PROVE  CallsQuiet /\ (reserved' = reserved => SameReserved)
BY DEF TypeOK, CallsQuiet, SameReserved, Calls

\* No task moves.
LEMMA TasksSame ==
  ASSUME TypeOK, UNCHANGED task
  PROVE  TasksQuiet
BY DEF TypeOK, TasksQuiet, TasksSound, NoneClaims, NoClaim, NoneEnters, NoEntry, Tasks

\* acquire keeps Lease and fences well-typed.
LEMMA AcquireType ==
  ASSUME TypeOK, NEW w \in Workers, Acquire(w)
  PROVE  lease' \in Lease /\ box' \in [Workers -> Nat]
<1>1. lease \in Lease /\ box \in [Workers -> Nat] /\ run.fence \in Nat
  BY DEF TypeOK
<1>2. CASE UNCHANGED <<lease, box>>
  BY <1>1, <1>2
<1>3. CASE ~UNCHANGED <<lease, box>>
  <2> DEFINE fence == IF lease.active THEN lease.fence ELSE lease.fence + 1
  <2>1. fence \in Nat
    BY <1>1 DEF Lease
  <2>2. lease' = [fence |-> fence, holder |-> run.fence + 1, active |-> TRUE]
        /\ box' = [box EXCEPT ![w] = lease'.fence]
    BY <1>3 DEF Acquire
  <2> HIDE DEF fence
  <2>3. lease' \in Lease /\ lease'.fence \in Nat
    BY <1>1, <2>1, <2>2 DEF Lease
  <2> QED
    BY <1>1, <2>2, <2>3
<1> QED
  BY <1>2, <1>3

\* mark_dirty keeps the Lease well-typed.
LEMMA DirtyType ==
  ASSUME TypeOK, NEW w \in Workers, MarkDirty(w)
  PROVE  lease' \in Lease /\ UNCHANGED <<candidate, stored, box>>
BY DEF TypeOK, MarkDirty, Lease

\* A Run that is to be tried again, or not.
LEMMA AfterFailureType ==
  ASSUME NEW permanent
  PROVE  AfterFailure(permanent) \in RunStatus /\ AfterFailure(permanent) # "succeeded"
BY DEF AfterFailure, RunStatus

\* A change of the status of the Run keeps its row well-typed.
LEMMA RunType ==
  ASSUME TypeOK, NEW status \in RunStatus
  PROVE  /\ [run EXCEPT !.status = status] \in [status: RunStatus, fence: Nat, answered: BOOLEAN]
         /\ [run EXCEPT !.status = status].status = status
BY DEF TypeOK

\* What happens to the Run, to its Lease and to whole workers is quiet.
LEMMA StartAttemptQuiet ==
  ASSUME CallsInv, NEW w \in Workers, StartAttempt(w)
  PROVE  QuietStep
<1> USE DEF CallsInv
<1>1. Reset(w)
  <2>1. \A c \in Calls : NewTask(IF c \in done THEN "finished" ELSE "todo") \in Task
                         /\ NewTask(IF c \in done THEN "finished" ELSE "todo").pc
                              \in {"todo", "finished"}
    BY NewTaskType DEF TaskPc
  <2>2. task \in Tasks
    BY DEF TypeOK, Tasks
  <2> QED
    BY <2>1, <2>2 DEF StartAttempt, Reset, Tasks
<1>2. run' \in [status: RunStatus, fence: Nat, answered: BOOLEAN]
      /\ (run'.status = "succeeded" <=> run.status = "succeeded")
  <2>1. run.fence + 1 \in Nat
    BY DEF TypeOK
  <2>2. "running" \in RunStatus
    BY DEF RunStatus
  <2>3. run' = [run EXCEPT !.status = "running", !.fence = run.fence + 1]
        /\ run.status = "queued"
    BY DEF StartAttempt
  <2> QED
    BY <2>1, <2>2, <2>3 DEF TypeOK
<1>3. permit' \in [Workers -> Nat]
  BY DEF StartAttempt, TypeOK
<1>4. RestOK
  BY <1>2, <1>3, AcquireType DEF StartAttempt, RestOK, TypeOK
<1> QED
  BY <1>1, <1>2, <1>4, ResetIsQuiet, CallsSame DEF StartAttempt, QuietStep, TypeOK

LEMMA WatchQuiet ==
  ASSUME CallsInv, NEW w \in Workers, Crash(w) \/ Watch(w)
  PROVE  QuietStep
<1> USE DEF CallsInv
<1>1. Reset(w) /\ permit' \in [Workers -> Nat]
  BY StopResets DEF Crash, Watch
<1>2. run' \in [status: RunStatus, fence: Nat, answered: BOOLEAN]
      /\ (run'.status = "succeeded" <=> run.status = "succeeded")
  BY RunType DEF Crash, Watch, TypeOK, RunStatus
<1>3. lease' \in Lease /\ UNCHANGED <<candidate, stored, box>>
  BY DirtyType DEF Crash, Watch, Delivery, TypeOK
<1>4. RestOK
  BY <1>1, <1>2, <1>3 DEF Crash, Watch, RestOK, TypeOK
<1> QED
  BY <1>1, <1>2, <1>3, <1>4, ResetIsQuiet, CallsSame DEF Crash, Watch, QuietStep, TypeOK

LEMMA FinishTurnQuiet ==
  ASSUME CallsInv, NEW w \in Workers, FinishTurn(w)
  PROVE  QuietStep
<1> USE DEF CallsInv
<1>1. TasksQuiet /\ permit' \in [Workers -> Nat]
  BY StopResets, ResetIsQuiet, TasksSame DEF FinishTurn, TypeOK
<1>2. run' \in [status: RunStatus, fence: Nat, answered: BOOLEAN]
      /\ (run'.status = "succeeded" <=> run.status = "succeeded")
  BY DEF FinishTurn, TypeOK
<1>3. RestOK
  BY <1>1, <1>2 DEF FinishTurn, RestOK, TypeOK, Delivery
<1> QED
  BY <1>1, <1>2, <1>3, CallsSame DEF FinishTurn, QuietStep, TypeOK, Delivery

LEMMA RunStepQuiet ==
  ASSUME CallsInv, CancelRun \/ Reclaim \/ RetireLease
  PROVE  QuietStep
<1> USE DEF CallsInv
<1>1. run' \in [status: RunStatus, fence: Nat, answered: BOOLEAN]
      /\ (run'.status = "succeeded" <=> run.status = "succeeded")
  BY ZenonT(30), RunType, AfterFailureType DEF CancelRun, Reclaim, RetireLease, TypeOK, RunStatus
<1>2. lease' \in Lease
  BY DEF CancelRun, Reclaim, RetireLease, TypeOK, Lease, Delivery
<1>3. RestOK
  BY <1>1, <1>2 DEF CancelRun, Reclaim, RetireLease, RestOK, TypeOK, Delivery
<1> QED
  BY <1>1, <1>2, <1>3, CallsSame, TasksSame
     DEF CancelRun, Reclaim, RetireLease, QuietStep, TypeOK, Delivery


\* The answer takes all validated Candidates with it, or nothing is committed.
LEMMA CommitTurnKeeps ==
  ASSUME CallsInv, NEW w \in Workers, CommitTurn(w)
  PROVE  CallsInv'
<1> USE DEF CallsInv
<1>1. Reset(w) /\ permit' \in [Workers -> Nat] /\ TasksQuiet /\ turn' = turn
  BY StopResets, ResetIsQuiet DEF CommitTurn
<1>2. CallsQuiet /\ SameReserved
  BY CallsSame DEF CommitTurn
<1>3. CASE ~Publishable
  <2>1. run' \in [status: RunStatus, fence: Nat, answered: BOOLEAN]
        /\ (run'.status = "succeeded" <=> run.status = "succeeded")
    <3>1. PICK final \in Finality(FALSE) :
            run' = [run EXCEPT !.status = AfterFailure(final)] /\ run.status = "running"
      BY <1>3 DEF CommitTurn
    <3> QED
      BY <3>1, RunType, AfterFailureType
  <2>2. RestOK
    BY <1>1, <2>1 DEF CommitTurn, RestOK, TypeOK
  <2>3. QuietStep
    BY <1>1, <1>2, <1>3, <2>1, <2>2 DEF CommitTurn, QuietStep, TypeOK
  <2> QED
    BY <2>3, QuietKeeps
<1>4. CASE Publishable
  <2>1. run' = [run EXCEPT !.status = "succeeded"] /\ candidate' = Published /\ run.status = "running"
    BY <1>4 DEF CommitTurn
  <2>2. run' \in [status: RunStatus, fence: Nat, answered: BOOLEAN] /\ run'.status = "succeeded"
    BY <2>1, RunType DEF RunStatus
  <2>3. RestOK
    BY <1>1, <2>2 DEF CommitTurn, RestOK, TypeOK
  <2>4. ASSUME NEW c \in Calls
        PROVE  /\ candidate'[c] \in Candidate /\ candidate'[c].content = candidate[c].content
               /\ candidate'[c].status = IF candidate[c].status = "validated" THEN "committed"
                                         ELSE candidate[c].status
    BY <2>1 DEF Published, TypeOK, Candidate
  <2>5. candidate' \in [Calls -> Candidate]
    BY <2>1, <2>4 DEF Published
  <2>6. Accepted' = Accepted
    BY <1>1, <2>4, TurnFixed DEF Accepted
  <2>7. TypeOK'
    BY <1>1, <1>2, <2>3, <2>5, TurnFixed DEF TypeOK, RestOK, CommitTurn, TasksQuiet,
       TasksSound, CallsQuiet, SameReserved, Tasks
  <2>8. ResultsStay
    BY <2>6 DEF CommitTurn, ResultsStay
  <2>9. CandidatesFollow'
    BY <1>1, <2>4, <2>6, FilesQuiet DEF CandidatesFollow, CommitTurn, TasksQuiet
  <2>10. ArtifactsDelivered'
    <3>1. \A c \in Accepted : candidate[c].status = "validated"
      BY <2>1 DEF ArtifactsDelivered, Accepted
    <3>2. \A c \in Accepted : candidate'[c].status = "committed"
      BY <2>4, <3>1 DEF Accepted
    <3>3. \A c \in Accepted : c \in Calls
      BY DEF Accepted
    <3> QED
      BY <2>2, <2>4, <2>6, <3>2, <3>3 DEF ArtifactsDelivered, CommitTurn
  <2> QED
    BY <1>1, <1>2, <2>7, <2>8, <2>9, <2>10, PcsQuiet, BudgetQuiet, PlainQuiet, EffectsQuiet,
       ResultsQuiet DEF CommitTurn, TasksQuiet
<1> QED
  BY <1>3, <1>4

-----------------------------------------------------------------------------
(* Tasks that keep quiet *)

\* A task that raises is harmless.
LEMMA RaiseQuiet ==
  ASSUME TypeOK, NEW w \in Workers, NEW c \in Calls, NEW permanent \in BOOLEAN,
         Raise(w, c, permanent)
  PROVE  TasksQuiet
<1>1. Moved(w, c) /\ task'[w][c].pc = "raising"
  BY RaiseMoves DEF TypeOK, Tasks
<1>2. Harmless(w, c)
  BY <1>1 DEF Harmless, Sound, NoClaim, NoEntry, PcsOf, CommonPc, Running, Inside
<1> QED
  BY <1>1, <1>2, MoveIsQuiet

\* So is one that goes to where nothing is at risk.
LEMMA GotoQuiet ==
  ASSUME TypeOK, NEW w \in Workers, NEW c \in Calls,
         NEW pc \in {"start", "saving", "finished", "raised"}, Goto(w, c, pc)
  PROVE  TasksQuiet
<1>1. Moved(w, c) /\ task'[w][c].pc = pc
  BY SMTT(30), GotoMoves DEF TypeOK, Tasks, TaskPc
<1>2. Harmless(w, c)
  BY <1>1 DEF Harmless, Sound, NoClaim, NoEntry, PcsOf, CommonPc, Running, Inside
<1> QED
  BY <1>1, <1>2, MoveIsQuiet

\* A step of a task that only moves the task.
LEMMA TaskOnly ==
  ASSUME CallsInv, TasksQuiet,
         UNCHANGED <<turn, run, call, reserved, effect, executed, done, permit, Delivery>>
  PROVE  CallsInv'
<1>1. RestOK /\ CallsQuiet /\ SameReserved
  BY RestKept, CallsSame DEF CallsInv, Delivery
<1> QED
  BY <1>1, QuietKeeps DEF CallsInv, QuietStep, TypeOK, Delivery

\* start_turn and assert_active before the tool. A tool without a stored result
\* goes from its claim to its only run.
LEMMA GuardKeeps ==
  ASSUME CallsInv, NEW w \in Workers, NEW c \in Calls, Guard(w, c)
  PROVE  CallsInv'
<1> USE DEF CallsInv
<1>1. CASE Raise(w, c, TRUE)
  BY <1>1, RaiseQuiet, TaskOnly DEF Guard
<1>2. CASE Goto(w, c, IF Replayable(c) THEN "begin" ELSE "calling")
  <2>1. Moved(w, c) /\ task'[w][c].pc = IF Replayable(c) THEN "begin" ELSE "calling"
    BY <1>2, GotoMoves DEF TypeOK, Tasks, TaskPc
  <2>2. Kind[c] \in {"mcp", "project", "artifact", "plain"} /\ task[w][c].pc = "guard"
    BY TurnFacts DEF Guard, Working
  <2>3. Harmless(w, c)
    BY <2>1, <2>2 DEF Harmless, Sound, NoClaim, NoEntry, Replayable, HasEffect, PcsOf,
       CommonPc, Running, Inside
  <2> QED
    BY <2>1, <2>3, MoveIsQuiet, TaskOnly DEF Guard
<1> QED
  BY <1>1, <1>2 DEF Guard

\* assert_active after the tool.
LEMMA ReturnKeeps ==
  ASSUME CallsInv, NEW w \in Workers, NEW c \in Calls, Return(w, c)
  PROVE  CallsInv'
<1> USE DEF CallsInv
<1>1. CASE ~Active(w)
  BY <1>1, RaiseQuiet, TaskOnly DEF Return
<1>2. CASE Active(w)
  <2>1. Moved(w, c) /\ task'[w][c].pc = "recording"
    BY <1>2, GotoMoves DEF Return, TypeOK, Tasks, TaskPc
  <2>2. Harmless(w, c)
    BY <2>1 DEF Harmless, Sound, NoClaim, NoEntry, PcsOf, CommonPc, Running, Inside, Return, Working
  <2> QED
    BY <2>1, <2>2, MoveIsQuiet, TaskOnly DEF Return
<1> QED
  BY <1>1, <1>2

\* The checks of the interceptor.
LEMMA CheckKeeps ==
  ASSUME CallsInv, NEW w \in Workers, NEW c \in Calls, Check(w, c)
  PROVE  CallsInv'
<1> USE DEF CallsInv
<1>1. CASE ~Active(w)
  BY <1>1, RaiseQuiet, TaskOnly DEF Check
<1>2. CASE Active(w)
  <2>1. /\ Moved(w, c) /\ task[w][c].pc \in {"check", "recheck"}
        /\ task'[w][c].pc = IF task[w][c].pc = "check" THEN "calling" ELSE "succeeding"
    BY <1>2, GotoMoves DEF Check, Working, TypeOK, Tasks, TaskPc
  <2>2. HasEffect(c) /\ Kind[c] # "plain"
    BY <2>1, TurnFacts DEF PcsFollow, PcsOf, CommonPc, HasEffect
  <2>3. Harmless(w, c)
    BY <2>1, <2>2 DEF Harmless, Sound, NoClaim, NoEntry, PcsOf, CommonPc, Running, Inside
  <2> QED
    BY <2>1, <2>3, MoveIsQuiet, TaskOnly DEF Check
<1> QED
  BY <1>1, <1>2

\* What the tool came to.
LEMMA OutcomeKeeps ==
  ASSUME CallsInv, NEW w \in Workers, NEW c \in Calls, Outcome(w, c)
  PROVE  CallsInv'
<1> USE DEF CallsInv
<1> DEFINE pcs == IF Kind[c] = "plain" THEN {"returned", "raising"}
                  ELSE {"recheck", "succeeding", "failing", "raising"}
<1>1. /\ Kind[c] \in {"plain", "mcp", "project"} /\ (HasEffect(c) <=> Kind[c] # "plain")
      /\ task[w][c].pc = "waiting"
  BY TurnFacts DEF PcsFollow, PcsOf, CommonPc, Outcome, Working, HasEffect
<1>2. Moved(w, c) /\ task'[w][c].pc \in pcs
  <2>1. task \in Tasks /\ task[w][c] \in Task
    BY DEF TypeOK, Tasks
  <2>2. ASSUME NEW pc \in pcs, Goto(w, c, pc) PROVE Moved(w, c) /\ task'[w][c].pc \in pcs
    BY <2>1, <2>2, GotoMoves DEF TaskPc
  <2>3. ASSUME NEW pc \in pcs, NEW t \in BOOLEAN, NEW p \in BOOLEAN,
               task' = [task EXCEPT ![w][c].pc = pc, ![w][c].temporary = t,
                                    ![w][c].permanent = p]
        PROVE  Moved(w, c) /\ task'[w][c].pc \in pcs
    <3> DEFINE new == [task[w][c] EXCEPT !.pc = pc, !.temporary = t, !.permanent = p]
    <3>1. pc \in TaskPc
      BY DEF TaskPc
    <3>2. new \in Task /\ new.pc = pc
      BY <2>1, <3>1 DEF Task
    <3>3. task' = [task EXCEPT ![w][c] = new]
      BY <2>1, <2>3 DEF Tasks, Task
    <3> HIDE DEF new
    <3> QED
      BY <2>1, <3>2, <3>3, UpdateMoves
  <2>4. CASE Goto(w, c, CASE Kind[c] = "plain" -> "returned" [] Kind[c] = "mcp" -> "recheck"
                          [] OTHER -> "succeeding")
    <3>1. (CASE Kind[c] = "plain" -> "returned" [] Kind[c] = "mcp" -> "recheck"
             [] OTHER -> "succeeding") \in pcs
      BY <1>1
    <3> QED
      BY <2>2, <2>4, <3>1
  <2>5. ASSUME NEW temporary \in BOOLEAN,
               task' = [task EXCEPT ![w][c].pc = IF Kind[c] = "plain" THEN "raising" ELSE "failing",
                                    ![w][c].temporary = temporary, ![w][c].permanent = ~temporary]
        PROVE  Moved(w, c) /\ task'[w][c].pc \in pcs
    <3>1. (IF Kind[c] = "plain" THEN "raising" ELSE "failing") \in pcs /\ (~temporary) \in BOOLEAN
      OBVIOUS
    <3> HIDE DEF pcs
    <3> QED
      BY <2>3, <2>5, <3>1
  <2>6. CASE task' = [task EXCEPT ![w][c].pc = IF Kind[c] = "mcp" THEN "failing" ELSE "raising",
                                  ![w][c].temporary = TRUE, ![w][c].permanent = TRUE]
    <3>1. (IF Kind[c] = "mcp" THEN "failing" ELSE "raising") \in pcs
      OBVIOUS
    <3> HIDE DEF pcs
    <3> QED
      BY <2>3, <2>6, <3>1
  <2> QED
    BY <2>4, <2>5, <2>6 DEF Outcome
<1>3. Harmless(w, c)
  <2>1. Kind[c] = "plain" => Known(c)'
    BY TurnFixed DEF Known, HasEffect, Submits, Outcome
  <2> QED
    BY <1>1, <1>2, <2>1 DEF Harmless, Sound, NoClaim, NoEntry, PcsOf, CommonPc, Running, Inside
<1> QED
  BY <1>2, <1>3, MoveIsQuiet, TaskOnly DEF Outcome


-----------------------------------------------------------------------------
(* The usage ledger *)

\* A new reservation takes one call of the budget, and one repetition.
LEMMA ReserveBudget ==
  ASSUME TypeOK, BudgetKept, NEW c \in Calls, turn' = turn, call[c] = "none",
         reserved < MaxToolCalls, Repeats(c) < MaxRepeated,
         call' = [call EXCEPT ![c] = "reserved"], reserved' = reserved + 1
  PROVE  BudgetKept'
<1> DEFINE Same(d) == {x \in Calls : call[x] # "none" /\ Signature[x] = Signature[d]}
<1> DEFINE Used == {x \in Calls : call[x] # "none"}
<1>1. call \in [Calls -> CallStatus] /\ IsFiniteSet(Calls) /\ MaxToolCalls \in Nat
      /\ MaxRepeated \in Nat
  BY TurnFacts DEF TypeOK
<1>2. IsFiniteSet(Used) /\ c \notin Used /\ \A d : IsFiniteSet(Same(d)) /\ c \notin Same(d)
  BY <1>1, FS_Subset
<1>3. {x \in Calls : call'[x] # "none"} = Used \cup {c}
  BY <1>1
<1>4. \A d \in Calls : {x \in Calls : call'[x] # "none" /\ Signature[x] = Signature[d]}
                         = IF Signature[d] = Signature[c] THEN Same(d) \cup {c} ELSE Same(d)
  BY <1>1
<1>5. \A d \in Calls : Signature[d] = Signature[c] => Same(d) = Same(c)
  OBVIOUS
<1>6. \A d \in Calls : Cardinality(Same(d)) \in Nat /\ Cardinality(Same(d)) <= MaxRepeated
  BY <1>2, FS_CardinalityType DEF BudgetKept, Repeats
<1>7. Cardinality(Same(c)) < MaxRepeated /\ reserved = Cardinality(Used) /\ reserved \in Nat
  BY DEF Repeats, BudgetKept, TypeOK
<1> HIDE DEF Same, Used
<1>8. Cardinality(Used \cup {c}) = Cardinality(Used) + 1
  BY <1>2, FS_AddElement
<1>9. \A d \in Calls : Cardinality(Same(d) \cup {c}) = Cardinality(Same(d)) + 1
  BY <1>2, FS_AddElement
<1>10. \A d \in Calls : Repeats(d)' <= MaxRepeated
  <2> SUFFICES ASSUME NEW d \in Calls PROVE Repeats(d)' <= MaxRepeated
    OBVIOUS
  <2>1. CASE Signature[d] = Signature[c]
    <3>1. Repeats(d)' = Cardinality(Same(d) \cup {c})
      BY <1>4, <2>1, TurnFixed DEF Repeats
    <3>2. Same(d) = Same(c)
      BY <1>5, <2>1
    <3> QED
      BY <1>1, <1>6, <1>7, <1>9, <3>1, <3>2
  <2>2. CASE Signature[d] # Signature[c]
    <3>1. Repeats(d)' = Cardinality(Same(d))
      BY <1>4, <2>2, TurnFixed DEF Repeats
    <3> QED
      BY <1>6, <3>1
  <2> QED
    BY <2>1, <2>2
<1> QED
  BY <1>1, <1>3, <1>7, <1>8, <1>10, TurnFixed DEF BudgetKept

\* reserve_tool_call: a repeated reservation changes nothing.
LEMMA ReserveKeeps ==
  ASSUME CallsInv, NEW w \in Workers, NEW c \in Calls, Reserve(w, c)
  PROVE  CallsInv'
<1> USE DEF CallsInv
<1>1. ASSUME NEW permanent \in BOOLEAN, Raise(w, c, permanent), UNCHANGED <<call, reserved>>
      PROVE  CallsInv'
  BY <1>1, RaiseQuiet, TaskOnly DEF Reserve
<1>2. ASSUME Goto(w, c, "guard"), Replayable(c), UNCHANGED <<call, reserved>>
      PROVE  CallsInv'
  <2>1. Moved(w, c) /\ task'[w][c].pc = "guard"
    BY <1>2, GotoMoves DEF TypeOK, Tasks, TaskPc
  <2>2. Harmless(w, c)
    BY <1>2, <2>1 DEF Harmless, Sound, NoClaim, NoEntry, PcsOf, CommonPc, Running, Inside, Replayable
  <2> QED
    BY <1>2, <2>1, <2>2, MoveIsQuiet, TaskOnly DEF Reserve
<1>3. ASSUME Goto(w, c, "start"), UNCHANGED <<call, reserved>> PROVE CallsInv'
  BY <1>3, GotoQuiet, TaskOnly DEF Reserve
<1>4. ASSUME call[c] = "none", reserved < MaxToolCalls, Repeats(c) < MaxRepeated,
             call' = [call EXCEPT ![c] = "reserved"], reserved' = reserved + 1,
             Goto(w, c, "start")
      PROVE  CallsInv'
  <2>1. TasksQuiet /\ turn' = turn
    BY <1>4, GotoQuiet DEF Reserve
  <2>2. CallsQuiet
    BY <1>4 DEF CallsQuiet, TypeOK, CallStatus
  <2>3. RestOK
    BY RestKept DEF Reserve, Delivery
  <2>4. BudgetKept'
    BY <1>4, <2>1, ReserveBudget
  <2>5. ResultsStay
    BY <2>1, TurnFixed DEF Reserve, Delivery, ResultsStay, Accepted
  <2>6. TypeOK'
    BY <1>4, <2>1, <2>2, <2>3, TurnFixed
       DEF TypeOK, RestOK, TasksQuiet, TasksSound, CallsQuiet, Tasks, Reserve, Delivery
  <2>7. UNCHANGED <<run, executed, effect, candidate, stored>>
    BY DEF Reserve, Delivery
  <2> QED
    BY <2>1, <2>2, <2>4, <2>5, <2>6, <2>7, PcsQuiet, PlainQuiet, EffectsQuiet, ResultsQuiet,
       CandidatesQuiet DEF TasksQuiet
<1> QED
  BY <1>1, <1>2, <1>3, <1>4 DEF Reserve

\* start_tool_call: the one claim after which a tool without a stored result
\* may run.
LEMMA StartKeeps ==
  ASSUME CallsInv, NEW w \in Workers, NEW c \in Calls, Start(w, c)
  PROVE  CallsInv'
<1> USE DEF CallsInv
<1>1. CASE Raise(w, c, TRUE) /\ UNCHANGED call
  BY <1>1, RaiseQuiet, TaskOnly DEF Start
<1>2. ASSUME run.status = "running", call[c] = "reserved", call' = [call EXCEPT ![c] = "running"],
             task' = [task EXCEPT ![w][c].pc = "guard", ![w][c].claimed = TRUE]
      PROVE  CallsInv'
  <2>1. Moved(w, c) /\ task'[w][c].pc = "guard"
    <3> DEFINE new == [task[w][c] EXCEPT !.pc = "guard", !.claimed = TRUE]
    <3>1. task \in Tasks /\ task[w][c] \in Task
      BY DEF TypeOK, Tasks
    <3>2. new \in Task /\ new.pc = "guard"
      BY <3>1 DEF Task, TaskPc
    <3>3. task' = [task EXCEPT ![w][c] = new]
      BY <1>2, <3>1 DEF Tasks, Task
    <3> HIDE DEF new
    <3> QED
      BY ZenonT(60), <3>1, <3>2, <3>3, UpdateMoves
  <2>2. Sound(w, c) /\ NoEntry(w, c)
    BY <2>1 DEF Sound, NoEntry, PcsOf, CommonPc, Inside
  <2>3. TasksSound /\ NoneEnters
    BY <2>1, <2>2, MoveIsSound
  <2>4. CallsQuiet /\ SameReserved
    BY <1>2 DEF Start, CallsQuiet, SameReserved, TypeOK, CallStatus
  <2>5. RestOK /\ turn' = turn
    BY RestKept DEF Start, Delivery
  <2>6. ResultsStay
    BY <2>5, TurnFixed DEF Start, Delivery, ResultsStay, Accepted
  <2>7. TypeOK'
    BY <2>3, <2>4, <2>5, TurnFixed
       DEF TypeOK, RestOK, TasksSound, CallsQuiet, SameReserved, Tasks, Start, Delivery
  <2>8. PlainFollows'
    <3>1. executed' = executed
      BY DEF Start
    <3>2. \A v \in Workers, d \in Calls : v # w \/ d # c => (AboutToRun(v, d)' <=> AboutToRun(v, d))
      BY <2>1 DEF Moved, AboutToRun
    <3>3. \A d \in Calls : d # c => call'[d] = call[d]
      BY <1>2 DEF TypeOK
    <3>4. call'[c] = "running"
      BY <1>2 DEF TypeOK
    <3>5. Kind[c] = "plain" => executed[c] = 0 /\ \A v \in Workers : ~AboutToRun(v, c)
      BY <1>2 DEF PlainFollows
    <3> SUFFICES ASSUME NEW d \in Calls, Kind[d] = "plain"
                 PROVE  /\ executed[d] <= 1
                        /\ call'[d] \in {"none", "reserved"} =>
                             executed[d] = 0 /\ \A v \in Workers : ~AboutToRun(v, d)'
                        /\ \A v \in Workers : AboutToRun(v, d)' =>
                             executed[d] = 0 /\ \A u \in Workers : AboutToRun(u, d)' => u = v
      BY <2>5, <3>1, TurnFixed DEF PlainFollows
    <3>6. CASE d = c
      BY <3>2, <3>4, <3>5, <3>6 DEF PlainFollows
    <3>7. CASE d # c
      BY <3>2, <3>3, <3>7 DEF PlainFollows
    <3> QED
      BY <3>6, <3>7
  <2>9. UNCHANGED <<run, executed, effect, candidate, stored>>
    BY DEF Start, Delivery
  <2> QED
    BY <2>3, <2>4, <2>5, <2>6, <2>7, <2>8, <2>9, PcsQuiet, BudgetQuiet, EffectsQuiet,
       ResultsQuiet, CandidatesQuiet
<1> QED
  BY <1>1, <1>2 DEF Start

\* succeed_tool_call and the failure of the task that claimed the row.
LEMMA RecordResultKeeps ==
  ASSUME CallsInv, NEW w \in Workers, NEW c \in Calls, RecordResult(w, c)
  PROVE  CallsInv'
<1> USE DEF CallsInv
<1>1. TasksQuiet
  BY RaiseQuiet, GotoQuiet DEF RecordResult
<1>2. Known(c)
  BY DEF RecordResult, Working, ResultsFollow
<1>3. CallsQuiet /\ SameReserved
  BY ZenonT(30), <1>2 DEF RecordResult, CallsQuiet, SameReserved, TypeOK, CallStatus
<1>4. RestOK
  BY RestKept DEF RecordResult, Delivery
<1>5. QuietStep
  BY <1>1, <1>3, <1>4 DEF RecordResult, QuietStep, TypeOK, Delivery
<1> QED
  BY <1>5, QuietKeeps

\* The checkpoint.
LEMMA SaveResultKeeps ==
  ASSUME CallsInv, NEW w \in Workers, NEW c \in Calls, SaveResult(w, c)
  PROVE  CallsInv'
<1> USE DEF CallsInv
<1>1. TasksQuiet
  BY GotoQuiet DEF SaveResult
<1>2. CallsQuiet /\ SameReserved
  BY CallsSame DEF SaveResult
<1>3. RestOK
  BY DEF SaveResult, RestOK, TypeOK, Delivery
<1>4. QuietStep
  BY <1>1, <1>2, <1>3 DEF SaveResult, QuietStep, TypeOK, Delivery
<1> QED
  BY <1>4, QuietKeeps

\* fail_tool_call by the task that claimed the row.
LEMMA RecordFailureKeeps ==
  ASSUME CallsInv, NEW w \in Workers, NEW c \in Calls, RecordFailure(w, c)
  PROVE  CallsInv'
<1> USE DEF CallsInv
<1>1. TasksQuiet
  BY GotoQuiet DEF RecordFailure, AfterError
<1>2. CallsQuiet /\ SameReserved
  BY DEF RecordFailure, CallsQuiet, SameReserved, TypeOK, CallStatus
<1>3. RestOK
  BY RestKept DEF RecordFailure, Delivery
<1>4. QuietStep
  BY <1>1, <1>2, <1>3 DEF RecordFailure, QuietStep, TypeOK, Delivery
<1> QED
  BY <1>4, QuietKeeps


-----------------------------------------------------------------------------
(* Effects *)

\* An effect leaves RUNNING together with the one task that was inside it.
EffectsClose ==
  /\ effect' \in [Calls -> Effect]
  /\ \A e \in Calls :
       \/ effect'[e] = effect[e]
       \/ /\ effect[e].state = "running" /\ effect'[e].state \in {"succeeded", "failed"}
          /\ effect'[e].attempts = effect[e].attempts
          /\ \A v \in Workers, d \in Calls : InEffect(v, d)' => EffectOf(d) # e

\* The tasks inside the other effects are not disturbed by it.
LEMMA EffectsCloseKeeps ==
  ASSUME TypeOK, EffectsFollow, EffectsClose, NoneEnters, UNCHANGED <<turn, executed>>
  PROVE  EffectsFollow'
<1>1. \A v \in Workers, d \in Calls : InEffect(v, d)' => InEffect(v, d)
  BY TurnFixed DEF NoneEnters, NoEntry, InEffect, Inside
<1>2. \A v \in Workers, d \in Calls :
        HasEffect(d) /\ task'[v][d].pc \in {"check", "calling"}
          => task[v][d].pc \in {"check", "calling"}
  BY DEF NoneEnters, NoEntry
<1>3. \A e \in Calls : effect'[e].attempts = effect[e].attempts
                       /\ (effect'[e].state = "none" => effect[e].state = "none")
  BY DEF EffectsClose
<1>4. \A d \in Calls : EffectOf(d) \in Calls
  BY TurnFacts
<1>5. ASSUME NEW v \in Workers, NEW d \in Calls, InEffect(v, d)'
      PROVE  /\ effect'[EffectOf(d)].state = "running"
             /\ task'[v][d].pc \in {"check", "calling"} =>
                  executed[EffectOf(d)] < effect'[EffectOf(d)].attempts
             /\ \A u \in Workers, c \in Calls :
                  InEffect(u, c)' /\ EffectOf(c) = EffectOf(d) => u = v /\ c = d
  <2>1. InEffect(v, d) /\ HasEffect(d)
    BY <1>1, <1>5 DEF InEffect
  <2>2. effect'[EffectOf(d)] = effect[EffectOf(d)]
    BY <1>4, <1>5 DEF EffectsClose
  <2> QED
    BY <1>1, <1>2, <2>1, <2>2 DEF EffectsFollow
<1>6. \A d \in Calls : HasEffect(d) => executed[EffectOf(d)] <= effect'[EffectOf(d)].attempts
  BY <1>3, <1>4 DEF EffectsFollow
<1> QED
  BY <1>3, <1>5, <1>6, TurnFixed DEF EffectsFollow

\* The rest of the invariant, for a step that closes effects.
LEMMA CloseKeeps ==
  ASSUME CallsInv, RestOK, EffectsClose, TasksQuiet, CallsQuiet, SameReserved,
         UNCHANGED <<executed, candidate, stored>>,
         run'.status = "succeeded" <=> run.status = "succeeded"
  PROVE  CallsInv'
<1> USE DEF CallsInv
<1>1. turn' = turn
  BY DEF RestOK
<1>2. TypeOK'
  BY <1>1, TurnFixed DEF TypeOK, RestOK, TasksQuiet, TasksSound, CallsQuiet, SameReserved, Tasks,
     EffectsClose
<1>3. ResultsStay
  BY <1>1, TurnFixed DEF ResultsStay, Accepted, EffectsClose
<1>4. EffectsFollow'
  BY <1>1, EffectsCloseKeeps DEF TasksQuiet
<1> QED
  BY <1>1, <1>2, <1>3, <1>4, PcsQuiet, BudgetQuiet, PlainQuiet, ResultsQuiet, CandidatesQuiet
     DEF TasksQuiet

\* A task inside an effect is alone in it; when it leaves, nobody is left.
LEMMA LastInside ==
  ASSUME TypeOK, EffectsFollow, NEW w \in Workers, NEW c \in Calls, InEffect(w, c), Moved(w, c),
         ~Inside(task'[w][c].pc), turn' = turn
  PROVE  /\ effect[EffectOf(c)].state = "running"
         /\ \A v \in Workers, d \in Calls : InEffect(v, d)' => EffectOf(d) # EffectOf(c)
<1>1. effect[EffectOf(c)].state = "running"
  BY DEF EffectsFollow
<1>2. ASSUME NEW v \in Workers, NEW d \in Calls, InEffect(v, d)' PROVE EffectOf(d) # EffectOf(c)
  <2>1. v # w \/ d # c
    BY <1>2 DEF InEffect, Inside
  <2>2. InEffect(v, d)
    BY <1>2, <2>1, TurnFixed DEF Moved, InEffect
  <2> QED
    BY <2>1, <2>2 DEF EffectsFollow
<1> QED
  BY <1>1, <1>2

\* The tool runs, once for the attempt that was begun, or once for the claim.
LEMMA ExecuteKeeps ==
  ASSUME CallsInv, NEW w \in Workers, NEW c \in Calls, Execute(w, c)
  PROVE  CallsInv'
<1> USE DEF CallsInv
<1> DEFINE e == EffectOf(c)
<1>1. /\ Moved(w, c) /\ task'[w][c].pc = "waiting" /\ task[w][c].pc = "calling"
      /\ executed' = [executed EXCEPT ![e] = executed[e] + 1]
  BY GotoMoves DEF Execute, Working, TypeOK, Tasks, TaskPc
<1>2. Kind[c] = "plain" \/ HasEffect(c)
  BY <1>1 DEF PcsFollow, PcsOf, CommonPc
<1>3. Harmless(w, c)
  BY <1>1, <1>2 DEF Harmless, Sound, NoClaim, NoEntry, PcsOf, CommonPc, Running, Inside, HasEffect
<1>4. TasksQuiet
  BY <1>1, <1>3, MoveIsQuiet
<1>5. CallsQuiet /\ SameReserved
  BY CallsSame DEF Execute
<1>6. RestOK /\ turn' = turn
  BY RestKept DEF Execute, Delivery
<1>7. e \in Calls /\ Kind[e] = Kind[c] /\ executed \in [Calls -> Nat]
  BY TurnFacts DEF TypeOK
<1>8. executed' \in [Calls -> Nat] /\ executed'[e] = executed[e] + 1
      /\ \A d \in Calls : d # e => executed'[d] = executed[d]
  <2> HIDE DEF e
  <2> QED
    BY <1>1, <1>7
<1>9. TypeOK'
  BY <1>4, <1>5, <1>6, <1>8, TurnFixed
     DEF TypeOK, RestOK, TasksQuiet, TasksSound, CallsQuiet, SameReserved, Tasks, Execute, Delivery
<1>10. ResultsStay
  BY <1>6, TurnFixed DEF Execute, Delivery, ResultsStay, Accepted
<1>11. PlainFollows'
  <2>1. \A v \in Workers, d \in Calls : Kind[d] = "plain" /\ AboutToRun(v, d)' => AboutToRun(v, d)
    BY <1>4 DEF TasksQuiet, NoneClaims, NoClaim, AboutToRun, Running
  <2>2. ~AboutToRun(w, c)' /\ AboutToRun(w, c)
    BY <1>1 DEF AboutToRun
  <2>3. \A d \in Calls : Kind[d] = "plain" /\ d = e => d = c
    BY <1>7 DEF EffectOf
  <2>4. ASSUME Kind[c] = "plain"
        PROVE  /\ executed[c] = 0 /\ call[c] \notin {"none", "reserved"}
               /\ \A v \in Workers : ~AboutToRun(v, c)'
    BY <2>1, <2>2, <2>4 DEF PlainFollows
  <2>5. call' = call
    BY DEF Execute
  <2> SUFFICES ASSUME NEW d \in Calls, Kind[d] = "plain"
               PROVE  /\ executed'[d] <= 1
                      /\ call[d] \in {"none", "reserved"} =>
                           executed'[d] = 0 /\ \A v \in Workers : ~AboutToRun(v, d)'
                      /\ \A v \in Workers : AboutToRun(v, d)' =>
                           executed'[d] = 0 /\ \A u \in Workers : AboutToRun(u, d)' => u = v
    BY <1>6, <2>5, TurnFixed DEF PlainFollows
  <2>6. CASE d = e
    BY <1>8, <2>3, <2>4, <2>6
  <2>7. CASE d # e
    BY <1>8, <2>1, <2>7 DEF PlainFollows
  <2> QED
    BY <2>6, <2>7
<1>12. EffectsFollow'
  <2>1. effect' = effect
    BY DEF Execute
  <2>2. \A v \in Workers, d \in Calls : InEffect(v, d)' => InEffect(v, d)
    BY <1>4, <1>6, TurnFixed DEF TasksQuiet, NoneEnters, NoEntry, InEffect, Inside
  <2>3. \A v \in Workers, d \in Calls :
          HasEffect(d) /\ task'[v][d].pc \in {"check", "calling"}
            => task[v][d].pc \in {"check", "calling"}
    BY <1>4 DEF TasksQuiet, NoneEnters, NoEntry
  <2>4. HasEffect(c) => InEffect(w, c)
    BY <1>1 DEF InEffect
  <2>5. HasEffect(c) => executed[e] < effect[e].attempts
    BY <1>1, <2>4 DEF EffectsFollow
  <2>6. \A d \in Calls : HasEffect(d) /\ EffectOf(d) = e => HasEffect(c)
    BY SameEffect DEF HasEffect
  <2>7. \A d \in Calls : EffectOf(d) \in Calls /\ effect[EffectOf(d)].attempts \in Nat
    BY TurnFacts DEF TypeOK, Effect
  <2> HIDE DEF e
  <2>8. \A d \in Calls : HasEffect(d) => executed'[EffectOf(d)] <= effect[EffectOf(d)].attempts
    BY <1>7, <1>8, <2>5, <2>6, <2>7 DEF EffectsFollow
  <2>9. ASSUME NEW v \in Workers, NEW d \in Calls, InEffect(v, d)'
        PROVE  /\ effect[EffectOf(d)].state = "running"
               /\ task'[v][d].pc \in {"check", "calling"} =>
                    executed'[EffectOf(d)] < effect[EffectOf(d)].attempts
               /\ \A u \in Workers, x \in Calls :
                    InEffect(u, x)' /\ EffectOf(x) = EffectOf(d) => u = v /\ x = d
    <3>1. InEffect(v, d) /\ HasEffect(d)
      BY <2>2, <2>9 DEF InEffect
    <3>2. CASE EffectOf(d) # e
      BY <1>8, <2>2, <2>3, <2>7, <3>1, <3>2 DEF EffectsFollow
    <3>3. CASE EffectOf(d) = e
      <4>1. v = w /\ d = c
        BY <2>4, <2>6, <3>1, <3>3 DEF EffectsFollow, e
      <4> QED
        BY <1>1, <2>2, <3>1, <4>1 DEF EffectsFollow
    <3> QED
      BY <3>2, <3>3
  <2> QED
    BY <1>6, <2>1, <2>8, <2>9, TurnFixed DEF EffectsFollow
<1>13. UNCHANGED <<run, candidate, stored>>
  BY DEF Execute, Delivery
<1> QED
  BY <1>4, <1>5, <1>6, <1>9, <1>10, <1>11, <1>12, <1>13, PcsQuiet, BudgetQuiet, ResultsQuiet,
     CandidatesQuiet DEF TasksQuiet


\* A new attempt is one more than the tool has run, and nobody is inside.
LEMMA BeganKeeps ==
  ASSUME CallsInv, NEW w \in Workers, NEW c \in Calls, NEW attempt \in Nat,
         HasEffect(c), task[w][c].pc = "begin", Began(w, c, attempt),
         \/ effect[EffectOf(c)].state = "failed" /\ attempt = effect[EffectOf(c)].attempts + 1
         \/ effect[EffectOf(c)].state = "none" /\ attempt = 1,
         UNCHANGED <<turn, run, call, reserved, executed, done, permit, Delivery>>
  PROVE  CallsInv'
<1> USE DEF CallsInv
<1> DEFINE e == EffectOf(c)
           new == [state |-> "running", temporary |-> FALSE, attempts |-> attempt]
           pc == IF Kind[c] = "mcp" THEN "check" ELSE "calling"
<1>1. Moved(w, c) /\ task'[w][c].pc = pc
  <2> DEFINE t == [task[w][c] EXCEPT !.pc = pc, !.attempt = attempt]
  <2>1. task \in Tasks /\ task[w][c] \in Task
    BY DEF TypeOK, Tasks
  <2>2. pc \in TaskPc
    BY DEF TaskPc
  <2>3. task' = [task EXCEPT ![w][c] = t]
    BY <2>1 DEF Began, Tasks, Task
  <2> HIDE DEF pc
  <2>4. t \in Task /\ t.pc = pc
    BY <2>1, <2>2 DEF Task
  <2> HIDE DEF t
  <2> QED
    BY <2>1, <2>3, <2>4, UpdateMoves
<1>2. Kind[c] # "plain"
  BY DEF HasEffect
<1>3. Sound(w, c) /\ NoClaim(w, c)
  BY <1>1, <1>2 DEF Sound, NoClaim, PcsOf, CommonPc
<1>4. TasksSound /\ NoneClaims
  BY <1>1, <1>3, MoveIsSound
<1>5. CallsQuiet /\ SameReserved
  BY CallsSame
<1>6. RestOK /\ turn' = turn
  BY RestKept DEF Delivery
<1>7. e \in Calls /\ effect \in [Calls -> Effect]
  BY TurnFacts DEF TypeOK
<1>8. new \in Effect /\ new.state = "running" /\ new.attempts = attempt
  BY DEF Effect
<1>9. effect' = [effect EXCEPT ![e] = new]
  BY DEF Began
<1>10. effect' \in [Calls -> Effect] /\ effect'[e] = new
       /\ \A d \in Calls : d # e => effect'[d] = effect[d]
  <2> HIDE DEF e, new
  <2> QED
    BY <1>7, <1>8, <1>9
<1>11. TypeOK'
  BY <1>4, <1>5, <1>6, <1>10, TurnFixed
     DEF TypeOK, RestOK, TasksSound, CallsQuiet, SameReserved, Tasks, Delivery
<1>12. ResultsStay
  BY <1>6, <1>10, TurnFixed DEF Delivery, ResultsStay, Accepted
<1>13. EffectsFollow'
  <2>1. \A d \in Calls : EffectOf(d) \in Calls /\ effect[EffectOf(d)].attempts \in Nat
    BY TurnFacts DEF TypeOK, Effect
  <2>2. executed[e] < attempt
    <3>1. executed[e] <= effect[e].attempts /\ effect[e].attempts \in Nat /\ executed[e] \in Nat
      BY <1>7, <2>1 DEF EffectsFollow, TypeOK
    <3> QED
      BY <1>7, <3>1 DEF EffectsFollow
  <2>3. \A v \in Workers, d \in Calls : InEffect(v, d) => EffectOf(d) # e
    BY DEF EffectsFollow
  <2>4. \A v \in Workers, d \in Calls : v # w \/ d # c =>
          (InEffect(v, d)' <=> InEffect(v, d)) /\ task'[v][d] = task[v][d]
    BY <1>1, <1>6, TurnFixed DEF Moved, InEffect
  <2>5. executed' = executed
    OBVIOUS
  <2>6. \A d \in Calls : HasEffect(d) => executed[EffectOf(d)] <= effect'[EffectOf(d)].attempts
    <3> SUFFICES ASSUME NEW d \in Calls, HasEffect(d)
                 PROVE  executed[EffectOf(d)] <= effect'[EffectOf(d)].attempts
      OBVIOUS
    <3>1. CASE EffectOf(d) = e
      <4>1. executed[e] \in Nat
        BY <1>7 DEF TypeOK
      <4> QED
        BY <1>8, <1>10, <2>2, <3>1, <4>1
    <3>2. CASE EffectOf(d) # e
      BY <1>10, <2>1, <3>2 DEF EffectsFollow
    <3> QED
      BY <3>1, <3>2
  <2>7. ASSUME NEW v \in Workers, NEW d \in Calls, InEffect(v, d)'
        PROVE  /\ effect'[EffectOf(d)].state = "running"
               /\ task'[v][d].pc \in {"check", "calling"} =>
                    executed[EffectOf(d)] < effect'[EffectOf(d)].attempts
               /\ \A u \in Workers, x \in Calls :
                    InEffect(u, x)' /\ EffectOf(x) = EffectOf(d) => u = v /\ x = d
    <3>1. CASE v = w /\ d = c
      <4>1. effect'[EffectOf(d)].state = "running" /\ executed[EffectOf(d)] < effect'[EffectOf(d)].attempts
        BY <1>8, <1>10, <2>2, <3>1
      <4> QED
        BY <2>3, <2>4, <3>1, <4>1
    <3>2. CASE v # w \/ d # c
      <4>1. InEffect(v, d) /\ EffectOf(d) # e /\ task'[v][d] = task[v][d]
        BY <2>3, <2>4, <2>7, <3>2
      <4>2. effect'[EffectOf(d)] = effect[EffectOf(d)]
        BY <1>10, <2>1, <4>1
      <4> QED
        BY <2>4, <4>1, <4>2 DEF EffectsFollow
    <3> QED
      BY <3>1, <3>2
  <2>8. \A d \in Calls : effect'[d].state = "none" => effect'[d].attempts = 0
    BY <1>8, <1>10 DEF EffectsFollow
  <2> QED
    BY <1>6, <2>5, <2>6, <2>7, <2>8, TurnFixed DEF EffectsFollow
<1>14. UNCHANGED <<candidate, stored>>
  BY DEF Delivery
<1> QED
  BY <1>4, <1>5, <1>6, <1>11, <1>12, <1>13, <1>14, PcsQuiet, BudgetQuiet, PlainQuiet,
     ResultsQuiet, CandidatesQuiet

\* begin: what is stored is returned, what is RUNNING is left alone.
LEMMA BeginKeeps ==
  ASSUME CallsInv, NEW w \in Workers, NEW c \in Calls, Begin(w, c)
  PROVE  CallsInv'
<1> USE DEF CallsInv
<1> DEFINE e == effect[EffectOf(c)]
<1>1. HasEffect(c) /\ task[w][c].pc = "begin" /\ e.attempts \in Nat
      /\ UNCHANGED <<turn, run, call, reserved, executed, done, permit, Delivery>>
  BY TurnFacts DEF Begin, Working, TypeOK, Effect
<1>2. ASSUME NEW permanent \in BOOLEAN, Raise(w, c, permanent), UNCHANGED effect PROVE CallsInv'
  BY <1>1, <1>2, RaiseQuiet, TaskOnly
<1>3. ASSUME e.state = "succeeded", Goto(w, c, "returned"), UNCHANGED effect PROVE CallsInv'
  <2>1. Moved(w, c) /\ task'[w][c].pc = "returned"
    BY <1>3, GotoMoves DEF TypeOK, Tasks, TaskPc
  <2>2. Known(c)'
    BY <1>1, <1>3, TurnFixed DEF Known, HasEffect, Submits
  <2>3. Harmless(w, c)
    BY <2>1, <2>2 DEF Harmless, Sound, NoClaim, NoEntry, PcsOf, CommonPc, Running, Inside
  <2> QED
    BY <1>1, <1>3, <2>1, <2>3, MoveIsQuiet, TaskOnly
<1>4. ASSUME e.state = "failed", Began(w, c, e.attempts + 1) PROVE CallsInv'
  <2>1. e.attempts + 1 \in Nat
    BY <1>1
  <2> QED
    BY <1>1, <1>4, <2>1, BeganKeeps
<1>5. ASSUME e.state = "none", Began(w, c, 1) PROVE CallsInv'
  BY <1>1, <1>5, BeganKeeps
<1> QED
  BY <1>2, <1>3, <1>4, <1>5 DEF Begin

\* A task that is about to save or to fail is inside its effect, unless it has none.
LEMMA InsideEffect ==
  ASSUME CallsInv, NEW w \in Workers, NEW c \in Calls,
         task[w][c].pc \in {"succeeding", "failing"}
  PROVE  InEffect(w, c)
BY TurnFacts DEF CallsInv, PcsFollow, PcsOf, CommonPc, InEffect, HasEffect

\* succeed: the result is stored before the tool returns it.
LEMMA EffectSucceedsKeeps ==
  ASSUME CallsInv, NEW w \in Workers, NEW c \in Calls, EffectSucceeds(w, c)
  PROVE  CallsInv'
<1> USE DEF CallsInv
<1> DEFINE e == EffectOf(c)
<1>1. InEffect(w, c) /\ HasEffect(c) /\ e \in Calls /\ task[w][c].pc = "succeeding"
      /\ UNCHANGED <<turn, run, call, reserved, executed, done, permit, Delivery>>
  BY InsideEffect, TurnFacts DEF EffectSucceeds, Working, InEffect
<1>2. ASSUME Owned(w, c), effect' = [effect EXCEPT ![e].state = "succeeded"],
             Goto(w, c, "returned")
      PROVE  CallsInv'
  <2>1. Moved(w, c) /\ task'[w][c].pc = "returned"
    BY <1>2, GotoMoves DEF TypeOK, Tasks, TaskPc
  <2>2. effect \in [Calls -> Effect] /\ effect[e].state = "running" /\ effect[e] \in Effect
    BY <1>1, <1>2 DEF TypeOK, Owned
  <2> DEFINE new == [effect[e] EXCEPT !.state = "succeeded"]
  <2>3. new \in Effect /\ new.state = "succeeded" /\ new.attempts = effect[e].attempts
    BY <2>2 DEF Effect
  <2>4. effect' \in [Calls -> Effect] /\ effect'[e] = new
        /\ \A d \in Calls : d # e => effect'[d] = effect[d]
    <3>1. effect' = [effect EXCEPT ![e] = new]
      BY <1>2, <2>2
    <3> HIDE DEF e, new
    <3> QED
      BY <1>1, <2>2, <2>3, <3>1
  <2>5. \A v \in Workers, d \in Calls : InEffect(v, d)' => EffectOf(d) # e
    BY <1>1, <2>1, LastInside DEF Inside
  <2>6. EffectsClose
    BY <2>2, <2>3, <2>4, <2>5 DEF EffectsClose
  <2>7. Known(c)'
    BY <1>1, <2>3, <2>4, TurnFixed DEF Known, HasEffect, Submits
  <2>8. Harmless(w, c)
    BY <2>1, <2>7 DEF Harmless, Sound, NoClaim, NoEntry, PcsOf, CommonPc, Running, Inside
  <2>9. TasksQuiet /\ RestOK /\ CallsQuiet /\ SameReserved
    BY <1>1, <2>1, <2>8, MoveIsQuiet, RestKept, CallsSame DEF Delivery
  <2> QED
    BY <1>1, <2>6, <2>9, CloseKeeps DEF Delivery
<1>3. ASSUME NEW t \in BOOLEAN, NEW p \in BOOLEAN, UNCHANGED effect,
             task' = [task EXCEPT ![w][c].pc = "failing", ![w][c].temporary = t,
                                  ![w][c].permanent = p]
      PROVE  CallsInv'
  <2>1. Moved(w, c) /\ task'[w][c].pc = "failing"
    <3> DEFINE new == [task[w][c] EXCEPT !.pc = "failing", !.temporary = t, !.permanent = p]
    <3>1. task \in Tasks /\ task[w][c] \in Task
      BY DEF TypeOK, Tasks
    <3>2. new \in Task /\ new.pc = "failing"
      BY <3>1 DEF Task, TaskPc
    <3>3. task' = [task EXCEPT ![w][c] = new]
      BY <1>3, <3>1 DEF Tasks, Task
    <3> HIDE DEF new
    <3> QED
      BY ZenonT(60), <3>1, <3>2, <3>3, UpdateMoves
  <2>2. Harmless(w, c)
    BY <1>1, <2>1 DEF Harmless, Sound, NoClaim, NoEntry, PcsOf, CommonPc, Running, Inside, HasEffect
  <2> QED
    BY <1>1, <1>3, <2>1, <2>2, MoveIsQuiet, TaskOnly
<1>4. (run.status = "running") \in BOOLEAN /\ (run.status # "running") \in BOOLEAN
  OBVIOUS
<1> QED
  BY <1>2, <1>3, <1>4 DEF EffectSucceeds

\* fail: the effect is closed by the task that is inside it, or left RUNNING.
LEMMA EffectFailsKeeps ==
  ASSUME CallsInv, NEW w \in Workers, NEW c \in Calls, EffectFails(w, c)
  PROVE  CallsInv'
<1> USE DEF CallsInv
<1> DEFINE e == EffectOf(c)
           permanent == task[w][c].permanent \/ (Kind[c] = "mcp" /\ ~Active(w))
<1>1. InEffect(w, c) /\ HasEffect(c) /\ e \in Calls /\ Raise(w, c, permanent)
      /\ UNCHANGED <<turn, run, call, reserved, executed, done, permit, Delivery>>
  BY InsideEffect, TurnFacts DEF EffectFails, Working, InEffect
<1>2. permanent \in BOOLEAN
  BY DEF TypeOK, Task
<1>3. Moved(w, c) /\ task'[w][c].pc = "raising" /\ TasksQuiet
  <2> HIDE DEF permanent
  <2> QED
    BY <1>1, <1>2, RaiseMoves, RaiseQuiet DEF TypeOK, Tasks
<1>4. CASE UNCHANGED effect
  BY <1>1, <1>3, <1>4, TaskOnly
<1>5. CASE ~UNCHANGED effect
  <2> DEFINE new == [effect[e] EXCEPT !.state = "failed", !.temporary = task[w][c].temporary]
  <2>1. effect \in [Calls -> Effect] /\ effect[e].state = "running" /\ effect[e] \in Effect
        /\ effect' = [effect EXCEPT ![e].state = "failed", ![e].temporary = task[w][c].temporary]
        /\ task[w][c].temporary \in BOOLEAN
    BY <1>1, <1>5 DEF TypeOK, Owned, EffectFails, Task
  <2>2. new \in Effect /\ new.state = "failed" /\ new.attempts = effect[e].attempts
    BY <2>1 DEF Effect
  <2>3. effect' = [effect EXCEPT ![e] = new]
    BY <2>1 DEF Effect
  <2>4. effect' \in [Calls -> Effect] /\ effect'[e] = new
        /\ \A d \in Calls : d # e => effect'[d] = effect[d]
    <3> HIDE DEF e, new
    <3> QED
      BY <1>1, <2>1, <2>2, <2>3
  <2>5. \A v \in Workers, d \in Calls : InEffect(v, d)' => EffectOf(d) # e
    BY <1>1, <1>3, LastInside DEF Inside
  <2>6. EffectsClose
    BY <2>1, <2>2, <2>4, <2>5 DEF EffectsClose
  <2>7. RestOK /\ CallsQuiet /\ SameReserved
    BY <1>1, RestKept, CallsSame DEF Delivery
  <2> QED
    BY <1>1, <1>3, <2>6, <2>7, CloseKeeps DEF Delivery
<1> QED
  BY <1>4, <1>5

\* A task raised: the effects inside of which its siblings were cancelled are closed.
LEMMA FailTurnKeeps ==
  ASSUME CallsInv, NEW w \in Workers, NEW c \in Calls, FailTurn(w, c)
  PROVE  CallsInv'
<1> USE DEF CallsInv
<1>1. Reset(w) /\ permit' \in [Workers -> Nat] /\ TasksQuiet
  BY StopResets, ResetIsQuiet DEF FailTurn
<1>2. CallsQuiet /\ SameReserved /\ turn' = turn
  BY CallsSame DEF FailTurn
<1>3. run' \in [status: RunStatus, fence: Nat, answered: BOOLEAN]
      /\ (run'.status = "succeeded" <=> run.status = "succeeded")
  <2>1. CASE run.status = "running"
    <3>1. PICK final \in Finality(task[w][c].permanent) :
            run' = [run EXCEPT !.status = AfterFailure(final)]
      BY <2>1 DEF FailTurn
    <3> QED
      BY <2>1, <3>1, RunType, AfterFailureType
  <2>2. CASE run.status # "running"
    BY <2>2 DEF FailTurn, TypeOK
  <2> QED
    BY <2>1, <2>2
<1>4. lease' \in Lease /\ UNCHANGED <<candidate, stored, box>>
  BY DirtyType DEF FailTurn
<1>5. RestOK
  BY <1>1, <1>3, <1>4 DEF FailTurn, RestOK, TypeOK
<1>6. EffectsClose
  <2>1. ASSUME NEW d \in Calls
        PROVE  effect'[d] = IF d \in Interrupted(w)
                            THEN [effect[d] EXCEPT !.state = "failed", !.temporary = TRUE]
                            ELSE effect[d]
    BY DEF FailTurn
  <2>2. \A d \in Calls : effect[d] \in Effect
                         /\ [effect[d] EXCEPT !.state = "failed", !.temporary = TRUE] \in Effect
    BY DEF TypeOK, Effect
  <2>3. effect' \in [Calls -> Effect]
    BY <2>2 DEF FailTurn
  <2>4. ASSUME NEW d \in Interrupted(w)
        PROVE  /\ d \in Calls /\ effect[d].state = "running" /\ effect'[d].state = "failed"
               /\ effect'[d].attempts = effect[d].attempts
               /\ \A v \in Workers, x \in Calls : InEffect(v, x)' => EffectOf(x) # d
    <3>1. d \in Calls /\ effect[d].state = "running" /\ Kind[d] = "mcp" /\ InEffect(w, d)
          /\ EffectOf(d) = d
      BY DEF Interrupted, InEffect, HasEffect, EffectOf
    <3>2. effect'[d].state = "failed" /\ effect'[d].attempts = effect[d].attempts
      BY <2>1, <2>2, <3>1 DEF Effect
    <3>3. ASSUME NEW v \in Workers, NEW x \in Calls, InEffect(v, x)' PROVE EffectOf(x) # d
      <4>1. v # w
        BY <1>1, <3>3 DEF Reset, InEffect
      <4>2. InEffect(v, x)
        BY <1>1, <1>2, <3>3, <4>1, TurnFixed DEF Reset, InEffect
      <4> QED
        BY <3>1, <4>1, <4>2 DEF EffectsFollow
    <3> QED
      BY <3>1, <3>2, <3>3
  <2> QED
    BY <2>1, <2>3, <2>4 DEF EffectsClose
<1> QED
  BY <1>1, <1>2, <1>3, <1>4, <1>5, <1>6, CloseKeeps DEF FailTurn


-----------------------------------------------------------------------------
(* Artifacts *)

\* What a file may be and where its task is.
LEMMA ArtifactTask ==
  ASSUME CallsInv, NEW w \in Workers, NEW c \in Calls,
         task[w][c].pc \in {"writing", "fencing", "submitting", "rejecting", "refusing"}
  PROVE  /\ Kind[c] = "artifact" /\ ~HasEffect(c) /\ c \in Submits
         /\ task[w][c].pc \in {"writing", "fencing", "submitting"} => task[w][c].content \in Contents
         /\ task[w][c].pc \in {"fencing", "submitting"} => task[w][c].content \in stored
BY TurnFacts DEF CallsInv, PcsFollow, PcsOf, CommonPc, HasEffect, Submits, CandidatesFollow

\* read_regular_file.
LEMMA ReadArtifactKeeps ==
  ASSUME CallsInv, NEW w \in Workers, NEW c \in Calls, ReadArtifact(w, c)
  PROVE  CallsInv'
<1> USE DEF CallsInv
<1>1. Kind[c] = "artifact" /\ ~HasEffect(c)
      /\ UNCHANGED <<turn, run, call, reserved, effect, executed, done, permit, Delivery>>
  BY DEF ReadArtifact, Submits, HasEffect
<1>2. ASSUME NEW permanent \in BOOLEAN, Raise(w, c, permanent) PROVE CallsInv'
  BY <1>1, <1>2, RaiseQuiet, TaskOnly
<1>3. ASSUME NEW k \in Contents,
             task' = [task EXCEPT ![w][c].pc = "writing", ![w][c].content = k]
      PROVE  CallsInv'
  <2> DEFINE new == [task[w][c] EXCEPT !.pc = "writing", !.content = k]
  <2>1. task \in Tasks /\ task[w][c] \in Task
    BY DEF TypeOK, Tasks
  <2>2. new \in Task /\ new.pc = "writing" /\ new.content = k
    BY <2>1 DEF Task, TaskPc
  <2>3. task' = [task EXCEPT ![w][c] = new]
    BY <1>3, <2>1 DEF Tasks, Task
  <2> HIDE DEF new
  <2>4. Moved(w, c) /\ task'[w][c] = new
    BY <2>1, <2>2, <2>3, UpdateMoves
  <2>5. Harmless(w, c)
    BY <1>1, <2>2, <2>4 DEF Harmless, Sound, NoClaim, NoEntry, PcsOf, CommonPc, Running, Inside
  <2> QED
    BY <1>1, <2>4, <2>5, MoveIsQuiet, TaskOnly
<1>4. CASE Goto(w, c, "rejecting")
  <2>1. Moved(w, c) /\ task'[w][c].pc = "rejecting"
    BY <1>4, GotoMoves DEF TypeOK, Tasks, TaskPc
  <2>2. Harmless(w, c)
    BY <1>1, <2>1 DEF Harmless, Sound, NoClaim, NoEntry, PcsOf, CommonPc, Running, Inside
  <2> QED
    BY <1>1, <2>1, <2>2, MoveIsQuiet, TaskOnly
<1> QED
  BY <1>2, <1>3, <1>4 DEF ReadArtifact

\* The write to Storage.
LEMMA WriteArtifactKeeps ==
  ASSUME CallsInv, NEW w \in Workers, NEW c \in Calls, WriteArtifact(w, c)
  PROVE  CallsInv'
<1> USE DEF CallsInv
<1>1. /\ task[w][c].pc = "writing" /\ Kind[c] = "artifact" /\ ~HasEffect(c)
      /\ task[w][c].content \in Contents
      /\ UNCHANGED <<turn, run, call, reserved, effect, executed, done, permit, candidate, lease,
                     box>>
  BY ArtifactTask DEF WriteArtifact, Working
<1>2. TasksQuiet /\ stored \subseteq stored' /\ stored' \subseteq Contents
  <2>1. CASE Goto(w, c, "fencing") /\ stored' = stored \cup {task[w][c].content}
    <3>1. Moved(w, c) /\ task'[w][c].pc = "fencing" /\ task'[w][c].content = task[w][c].content
      BY <2>1, GotoMoves DEF TypeOK, Tasks, TaskPc
    <3>2. Harmless(w, c)
      BY <1>1, <2>1, <3>1 DEF Harmless, Sound, NoClaim, NoEntry, PcsOf, CommonPc, Running, Inside
    <3> QED
      BY <1>1, <2>1, <3>1, <3>2, MoveIsQuiet DEF TypeOK
  <2>2. ASSUME NEW permanent \in BOOLEAN, Raise(w, c, permanent), UNCHANGED stored
        PROVE  TasksQuiet /\ stored \subseteq stored' /\ stored' \subseteq Contents
    BY <2>2, RaiseQuiet DEF TypeOK
  <2> QED
    BY <2>1, <2>2 DEF WriteArtifact
<1>3. RestOK /\ CallsQuiet /\ SameReserved
  BY <1>1, RestKept, CallsSame
<1>4. QuietStep
  BY <1>1, <1>2, <1>3 DEF QuietStep
<1> QED
  BY <1>4, QuietKeeps

\* _assert_current.
LEMMA AssertCurrentKeeps ==
  ASSUME CallsInv, NEW w \in Workers, NEW c \in Calls, AssertCurrent(w, c)
  PROVE  CallsInv'
<1> USE DEF CallsInv
<1>1. CASE ~Fenced(w)
  BY <1>1, RaiseQuiet, TaskOnly DEF AssertCurrent
<1>2. CASE Fenced(w)
  <2> DEFINE pc == IF task[w][c].pc = "fencing" THEN "submitting" ELSE "refusing"
  <2>1. Goto(w, c, pc) /\ pc \in TaskPc /\ task[w][c].pc \in {"fencing", "rejecting"}
    BY <1>2 DEF AssertCurrent, Working, TaskPc
  <2>2. Moved(w, c) /\ task'[w][c].pc = pc /\ task'[w][c].content = task[w][c].content
    <3> HIDE DEF pc
    <3> QED
      BY <2>1, GotoMoves DEF TypeOK, Tasks
  <2>3. stored' = stored
    BY DEF AssertCurrent, Delivery
  <2>4. Harmless(w, c)
    BY <2>1, <2>2, <2>3, ArtifactTask
       DEF Harmless, Sound, NoClaim, NoEntry, PcsOf, CommonPc, Running, Inside
  <2> QED
    BY <2>2, <2>4, MoveIsQuiet, TaskOnly DEF AssertCurrent
<1> QED
  BY <1>1, <1>2

\* A change of one Candidate, with what has to hold of it.
LEMMA CandidateKeeps ==
  ASSUME CallsInv, NEW c \in Calls, NEW new \in Candidate,
         candidate' = [candidate EXCEPT ![c] = new], TasksQuiet, c \notin Accepted,
         UNCHANGED <<turn, run, call, reserved, effect, executed, done, permit, stored, lease, box>>,
         \/ new.status = "rejected" /\ new.content = NoContent
         \/ /\ new.status = "validated" /\ new.content \in stored /\ run.status # "succeeded"
            /\ \A d \in Calls : candidate[d].content # new.content
            /\ Cardinality(Accepted) < MaxArtifacts
  PROVE  CallsInv'
<1> USE DEF CallsInv
<1>1. RestOK /\ CallsQuiet /\ SameReserved
  BY RestKept, CallsSame
<1>2. candidate' \in [Calls -> Candidate] /\ candidate'[c] = new
      /\ \A d \in Calls : d # c => candidate'[d] = candidate[d]
  BY DEF TypeOK
<1>3. Accepted' = IF new.status = "validated" THEN Accepted \cup {c} ELSE Accepted
  BY <1>2, TurnFixed DEF Accepted
<1>4. TypeOK'
  BY <1>1, <1>2, TurnFixed
     DEF TypeOK, RestOK, TasksQuiet, TasksSound, CallsQuiet, SameReserved, Tasks
<1>5. ResultsStay
  BY <1>3 DEF ResultsStay
<1>6. NoContent \notin stored
  BY CallsAssumption DEF TypeOK
<1>7. CandidatesFollow'
  <2>1. \A d \in Calls : candidate'[d].content # NoContent <=> d \in Accepted'
    BY <1>2, <1>3, <1>6 DEF CandidatesFollow
  <2> QED
    BY <2>1, FilesQuiet DEF TasksQuiet
<1>8. ArtifactsDelivered'
  <2>1. Accepted \subseteq Calls /\ c \notin Accepted
    BY DEF Accepted
  <2>2. CASE new.status = "rejected"
    BY <1>2, <1>3, <2>1, <2>2 DEF ArtifactsDelivered
  <2>3. CASE new.status = "validated"
    <3>1. Accepted' = Accepted \cup {c}
      BY <1>3, <2>3
    <3>2. IsFiniteSet(Accepted)
      BY <2>1, TurnFacts, FS_Subset
    <3>3. Cardinality(Accepted') = Cardinality(Accepted) + 1
      BY <2>1, <3>1, <3>2, FS_AddElement
    <3>4. Cardinality(Accepted') <= MaxArtifacts
      BY <2>3, <3>2, <3>3, FS_CardinalityType, CallsAssumption
    <3>5. \A d \in Accepted' : candidate'[d].status = "committed" <=> run.status = "succeeded"
      BY <1>2, <2>1, <2>3, <3>1 DEF ArtifactsDelivered
    <3>6. \A d \in Accepted' : candidate'[d].content \in stored
      BY <1>2, <2>1, <2>3, <3>1 DEF ArtifactsDelivered
    <3>7. \A d, x \in Accepted' : candidate'[d].content = candidate'[x].content => d = x
      BY <1>2, <2>1, <2>3, <3>1 DEF ArtifactsDelivered
    <3> QED
      BY <3>4, <3>5, <3>6, <3>7 DEF ArtifactsDelivered
  <2> QED
    BY <2>2, <2>3
<1> QED
  BY <1>1, <1>4, <1>5, <1>7, <1>8, PcsQuiet, BudgetQuiet, PlainQuiet, EffectsQuiet, ResultsQuiet
     DEF TasksQuiet

\* _record_candidate: the stored fact is returned, or a new one recorded.
LEMMA RecordCandidateKeeps ==
  ASSUME CallsInv, NEW w \in Workers, NEW c \in Calls, RecordCandidate(w, c)
  PROVE  CallsInv'
<1> USE DEF CallsInv
<1> DEFINE k == task[w][c].content
<1>1. /\ task[w][c].pc = "submitting" /\ Kind[c] = "artifact" /\ ~HasEffect(c) /\ c \in Submits
      /\ k \in Contents /\ k \in stored /\ k # NoContent
      /\ UNCHANGED <<turn, run, call, reserved, effect, executed, done, permit, stored, lease, box>>
  BY ArtifactTask, CallsAssumption DEF RecordCandidate, Working
<1>2. ASSUME NEW permanent \in BOOLEAN, Raise(w, c, permanent), UNCHANGED candidate PROVE CallsInv'
  BY <1>1, <1>2, RaiseQuiet, TaskOnly DEF Delivery
<1>3. Goto(w, c, "returned") => Moved(w, c) /\ task'[w][c].pc = "returned"
  BY GotoMoves DEF TypeOK, Tasks, TaskPc
<1>4. ASSUME Goto(w, c, "returned"), \E d \in Accepted' : Signature[d] = Signature[c]
      PROVE  TasksQuiet
  <2>1. Known(c)'
    BY <1>1, <1>4, TurnFixed DEF Known
  <2>2. Harmless(w, c)
    BY <1>3, <1>4, <2>1 DEF Harmless, Sound, NoClaim, NoEntry, PcsOf, CommonPc, Running, Inside
  <2> QED
    BY <1>3, <1>4, <2>2, MoveIsQuiet
<1>5. ASSUME Existing(c, k) # {}, \A d \in Existing(c, k) : SameFact(c, d, k),
             Goto(w, c, "returned"), UNCHANGED candidate
      PROVE  CallsInv'
  <2>1. PICK d \in Existing(c, k) : candidate[d].content = k /\ Signature[d] = Signature[c]
    BY <1>5 DEF SameFact
  <2>2. d \in Accepted
    BY <1>1, <2>1 DEF Existing, CandidatesFollow
  <2>3. Accepted' = Accepted
    BY <1>1, <1>5, TurnFixed DEF Accepted
  <2> QED
    BY <1>1, <1>4, <1>5, <2>1, <2>2, <2>3, TaskOnly DEF Delivery
<1>6. ASSUME run.status = "running", Existing(c, k) = {}, Cardinality(Accepted) < MaxArtifacts,
             candidate' = [candidate EXCEPT ![c] =
                             [status |-> "validated", fence |-> box[w], content |-> k]],
             Goto(w, c, "returned")
      PROVE  CallsInv'
  <2> DEFINE new == [status |-> "validated", fence |-> box[w], content |-> k]
  <2>1. new \in Candidate /\ new.status = "validated" /\ new.content = k
    BY <1>1 DEF Candidate, TypeOK
  <2>2. c \notin Accepted /\ \A d \in Calls : candidate[d].content # k
    BY <1>6 DEF Existing, Accepted
  <2>3. c \in Accepted'
    BY <1>1, <1>6, TurnFixed DEF Accepted, TypeOK
  <2>4. TasksQuiet
    BY <1>4, <1>6, <2>3
  <2> HIDE DEF new, k
  <2>5. candidate' = [candidate EXCEPT ![c] = new]
    BY <1>6 DEF new
  <2> QED
    BY <1>1, <1>6, <2>1, <2>2, <2>4, <2>5, CandidateKeeps
<1> QED
  BY <1>2, <1>5, <1>6 DEF RecordCandidate

\* _record_rejection.
LEMMA RecordRejectionKeeps ==
  ASSUME CallsInv, NEW w \in Workers, NEW c \in Calls, RecordRejection(w, c)
  PROVE  CallsInv'
<1> USE DEF CallsInv
<1>1. UNCHANGED <<turn, run, call, reserved, effect, executed, done, permit, stored, lease, box>>
  BY DEF RecordRejection
<1>2. TasksQuiet
  <2>1. PICK correctable \in BOOLEAN :
          task' = [task EXCEPT ![w][c].pc = "raising", ![w][c].permanent = TRUE,
                               ![w][c].correctable = correctable]
    BY DEF RecordRejection
  <2> DEFINE new == [task[w][c] EXCEPT !.pc = "raising", !.permanent = TRUE,
                                       !.correctable = correctable]
  <2>2. task \in Tasks /\ task[w][c] \in Task
    BY DEF TypeOK, Tasks
  <2>3. new \in Task /\ new.pc = "raising"
    BY <2>2 DEF Task, TaskPc
  <2>4. task' = [task EXCEPT ![w][c] = new]
    BY <2>1, <2>2 DEF Tasks, Task
  <2> HIDE DEF new
  <2>5. Moved(w, c) /\ task'[w][c].pc = "raising"
    BY ZenonT(60), <2>2, <2>3, <2>4, UpdateMoves
  <2>6. Harmless(w, c)
    BY <2>5 DEF Harmless, Sound, NoClaim, NoEntry, PcsOf, CommonPc, Running, Inside
  <2> QED
    BY <2>5, <2>6, MoveIsQuiet
<1>3. CASE UNCHANGED candidate
  BY <1>1, <1>2, <1>3, TaskOnly DEF Delivery
<1>4. CASE ~UNCHANGED candidate
  <2> DEFINE new == [candidate[c] EXCEPT !.status = "rejected"]
  <2>1. candidate[c] \in Candidate /\ candidate[c].status = "none"
        /\ candidate' = [candidate EXCEPT ![c].status = "rejected"]
    BY <1>4 DEF RecordRejection, TypeOK
  <2>2. new \in Candidate /\ new.status = "rejected" /\ new.content = candidate[c].content
    BY <2>1 DEF Candidate
  <2>3. candidate' = [candidate EXCEPT ![c] = new] /\ c \notin Accepted
    BY <2>1 DEF Accepted
  <2>4. new.content = NoContent
    BY <2>2, <2>3 DEF CandidatesFollow
  <2> HIDE DEF new
  <2> QED
    BY <1>1, <1>2, <2>2, <2>3, <2>4, CandidateKeeps
<1> QED
  BY <1>3, <1>4

-----------------------------------------------------------------------------
(* The theorems *)

\* The inductive invariant holds initially.
LEMMA InitCallsInv == Init => CallsInv
<1> SUFFICES ASSUME Init PROVE CallsInv
  OBVIOUS
<1> USE DEF Init
<1>1. NewTask("todo") \in Task /\ NewTask("todo").pc = "todo"
  BY NewTaskType DEF TaskPc
<1>2. TypeOK
  <2>1. NoEffect \in Effect /\ NoCandidate \in Candidate
    BY DEF NoEffect, Effect, NoCandidate, Candidate
  <2>2. task \in [Workers -> [Calls -> Task]]
    BY <1>1
  <2>3. run \in [status: RunStatus, fence: Nat, answered: BOOLEAN] /\ lease \in Lease
    BY DEF RunStatus, Lease
  <2>4. call \in [Calls -> CallStatus]
    BY DEF CallStatus
  <2> QED
    BY <2>1, <2>2, <2>3, <2>4 DEF TypeOK
<1>3. \A w \in Workers, c \in Calls : task[w][c].pc = "todo"
  BY <1>1
<1>4. PcsFollow
  BY <1>3 DEF PcsFollow, PcsOf, CommonPc
<1>5. BudgetKept
  <2>1. {c \in Calls : call[c] # "none"} = {}
    OBVIOUS
  <2>2. \A c \in Calls : {d \in Calls : call[d] # "none" /\ Signature[d] = Signature[c]} = {}
    OBVIOUS
  <2>3. MaxToolCalls \in Nat /\ MaxRepeated \in Nat
    BY <1>2, TurnFacts
  <2>4. Cardinality({}) = 0
    BY FS_EmptySet
  <2>5. reserved = Cardinality({c \in Calls : call[c] # "none"})
    BY <2>1, <2>4
  <2>6. reserved <= MaxToolCalls
    BY <2>3
  <2>7. ASSUME NEW c \in Calls PROVE Repeats(c) <= MaxRepeated
    <3>1. Repeats(c) = 0
      BY <2>2, <2>4 DEF Repeats
    <3> QED
      BY <3>1, <2>3
  <2> QED
    BY <2>5, <2>6, <2>7 DEF BudgetKept
<1>6. PlainFollows
  BY <1>3 DEF PlainFollows, AboutToRun
<1>7. EffectsFollow
  <2>1. \A c \in Calls : EffectOf(c) \in Calls
    BY <1>2, TurnFacts
  <2> QED
    BY <1>3, <2>1 DEF EffectsFollow, InEffect, NoEffect
<1>8. Accepted = {}
  BY DEF Accepted, NoCandidate
<1>9. ResultsFollow
  BY <1>3 DEF ResultsFollow
<1>10. CandidatesFollow
  BY <1>3, <1>8 DEF CandidatesFollow, NoCandidate
<1>11. ArtifactsDelivered
  BY <1>8, FS_EmptySet, CallsAssumption DEF ArtifactsDelivered
<1> QED
  BY <1>2, <1>4, <1>5, <1>6, <1>7, <1>9, <1>10, <1>11 DEF CallsInv

\* Every step of a task keeps the invariant.
LEMMA TaskStepKeeps ==
  ASSUME CallsInv, NEW w \in Workers, NEW c \in Calls, TaskStep(w, c)
  PROVE  CallsInv'
BY ReserveKeeps, StartKeeps, GuardKeeps, BeginKeeps, CheckKeeps, ExecuteKeeps, OutcomeKeeps,
   EffectSucceedsKeeps, EffectFailsKeeps, ReturnKeeps, RecordResultKeeps, SaveResultKeeps,
   RecordFailureKeeps, ReadArtifactKeeps, WriteArtifactKeeps, AssertCurrentKeeps,
   RecordCandidateKeeps, RecordRejectionKeeps, FailTurnKeeps DEF TaskStep

\* Every step keeps the invariant.
LEMMA NextCallsInv == CallsInv /\ [Next]_vars => CallsInv'
<1> SUFFICES ASSUME CallsInv, [Next]_vars PROVE CallsInv'
  OBVIOUS
<1>1. CASE UNCHANGED vars
  <2>1. TasksQuiet
    BY <1>1, TasksSame DEF vars, CallsInv
  <2> QED
    BY <1>1, <2>1, TaskOnly DEF vars
<1>2. ASSUME NEW w \in Workers, Work(w) \/ Crash(w) PROVE CallsInv'
  BY <1>2, StartAttemptQuiet, FinishTurnQuiet, WatchQuiet, QuietKeeps, CommitTurnKeeps,
     TaskStepKeeps DEF Work
<1>3. CASE CancelRun \/ Reclaim \/ RetireLease
  BY <1>3, RunStepQuiet, QuietKeeps
<1> QED
  BY <1>1, <1>2, <1>3 DEF Next

\* The two ledgers, the tasks of all workers and the Candidates stay in step.
THEOREM CallsInvariant == Spec => []CallsInv
BY InitCallsInv, NextCallsInv, PTL DEF Spec

\* A tool without a stored result runs at most once, and one with an effect at
\* most once for each attempt that was committed before, for any number of
\* workers with stale leases, resumed Turns and calls side by side.
THEOREM ToolsNeverRepeat == Spec => []ToolsRunOnce
<1>1. CallsInv => ToolsRunOnce
  BY DEF CallsInv, PlainFollows, EffectsFollow, ToolsRunOnce
<1> QED
  BY <1>1, CallsInvariant, PTL

\* Replays do not consume budget, and the limits of the policy hold.
THEOREM BudgetHolds == Spec => []BudgetKept
<1>1. CallsInv => BudgetKept
  BY DEF CallsInv
<1> QED
  BY <1>1, CallsInvariant, PTL

\* What the usage ledger shows as succeeded has a stored result or an accepted
\* Candidate, though no transaction writes both.
THEOREM SuccessesAreStored == Spec => []SuccessIsStored
<1>1. CallsInv => SuccessIsStored
  BY DEF CallsInv, ResultsFollow, Known, SuccessIsStored
<1> QED
  BY <1>1, CallsInvariant, PTL

\* A Turn succeeds with all of its artifacts, or not at all.
THEOREM AllArtifactsOrNone == Spec => []ArtifactsDelivered
<1>1. CallsInv => ArtifactsDelivered
  BY DEF CallsInv
<1> QED
  BY <1>1, CallsInvariant, PTL

=============================================================================
