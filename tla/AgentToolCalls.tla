---------------------------- MODULE AgentToolCalls ----------------------------
(***************************************************************************)
(* The tool calls of one AgentTurnRun and their two ledgers: the           *)
(* AgentToolCall rows that _PersistentUsageMiddleware reserves, claims and *)
(* closes through AgentUsageService, and the ToolExecution rows (effects)  *)
(* with which MCP and Project tools make a repeated call return the stored *)
(* result, and the AgentArtifactCandidates that do the same for            *)
(* submit_artifact and are published with the answer. Every method of the  *)
(* services is one transaction under the lock of the Run; the tool itself  *)
(* runs between transactions.                                              *)
(*                                                                         *)
(* The calls of one model message run side by side, those of the next one  *)
(* after them. A worker that lost its lease keeps running until a check of *)
(* its fencing token stops it, and the next worker repeats every call      *)
(* whose result is not checkpointed.                                       *)
(* Claims and leases are those of AgentRuntime: fence is the token of the  *)
(* latest Attempt, and each Attempt has its own. Of the sandbox Lease, the *)
(* subject of SandboxWorkspace, only what artifacts depend on is kept.     *)
(***************************************************************************)
EXTENDS Naturals, FiniteSets

CONSTANTS
  Workers,
  Turns,        \* the Turns to choose from
  MaxAttempts,  \* AGENT_MAX_RUN_ATTEMPTS
  MaxArtifacts, \* AGENT_ARTIFACT_MAX_PER_TURN
  Contents,     \* what a submitted file may contain
  NoContent

\* kind: "mcp", "project", "artifact" or "plain" (files, execute); signature:
\* tool name and args hash, named by one of the calls that have it; message:
\* the message of the model that asks for the call.
ASSUME CallsAssumption ==
  /\ MaxAttempts \in Nat \ {0} /\ MaxArtifacts \in Nat /\ NoContent \notin Contents
  /\ \A t \in Turns :
       /\ IsFiniteSet(DOMAIN t.kind) /\ DOMAIN t.signature = DOMAIN t.kind
       /\ \A c \in DOMAIN t.kind : t.kind[c] \in {"mcp", "project", "artifact", "plain"}
       /\ \A c \in DOMAIN t.kind :
            t.signature[c] \in DOMAIN t.kind /\ t.kind[t.signature[c]] = t.kind[c]
       /\ DOMAIN t.message = DOMAIN t.kind /\ \A c \in DOMAIN t.kind : t.message[c] \in Nat
       /\ t.maxToolCalls \in Nat /\ t.maxRepeated \in Nat

VARIABLES
  turn,      \* the model's message and the limits of the policy snapshot; fixed
  run,       \* the Run: its status, the fencing token of its latest Attempt, and
             \* whether its RuntimeExecution has succeeded
  call,      \* the status of each AgentToolCall row
  reserved,  \* usage.tool_calls_reserved
  effect,    \* the ToolExecution rows
  executed,  \* how often the tool behind each effect really ran
  done,      \* the calls whose result is in a checkpoint
  task,      \* what each worker does for each call
  permit,    \* the fencing token of each worker, 0 when it executes nothing
  candidate, \* the AgentArtifactCandidate of each call
  stored,    \* the contents in Storage
  lease,     \* the sandbox Lease of the Session, which this Turn holds
  box        \* the fence of the Lease that each worker acquired

Delivery == <<candidate, stored, lease, box>>
vars == <<turn, run, call, reserved, effect, executed, done, task, permit, Delivery>>

Calls == DOMAIN turn.kind       \* the tool_call_ids of the message
Kind == turn.kind
Signature == turn.signature
MaxToolCalls == turn.maxToolCalls  \* policy.max_tool_calls
MaxRepeated == turn.maxRepeated    \* usage.max_repeated_tool_calls

-----------------------------------------------------------------------------
RunStatus == {"queued", "running", "cancel_requested", "succeeded", "failed", "cancelled"}
CallStatus == {"none", "reserved", "running", "succeeded", "failed"}
Effect == [state: {"none", "running", "succeeded", "failed"}, temporary: BOOLEAN, attempts: Nat]
NoEffect == [state |-> "none", temporary |-> FALSE, attempts |-> 0]

\* A STAGED row is never visible: it is inserted and decided in one transaction.
Candidate == [status: {"none", "validated", "committed", "rejected"}, fence: Nat,
              content: Contents \cup {NoContent}]
NoCandidate == [status |-> "none", fence |-> 0, content |-> NoContent]
\* holder: the Attempt that renewed the row last.
Lease == [fence: Nat, holder: Nat, active: BOOLEAN]

TaskPc == {"todo", "start", "guard", "begin", "check", "calling", "waiting", "recheck",
           "succeeding", "failing", "returned", "recording", "saving", "finished",
           "raising", "raised", "writing", "fencing", "submitting", "rejecting", "refusing"}
\* claimed: this task moved the row to RUNNING; attempt: of the effect it began;
\* temporary: of the effect's failure; permanent, correctable: of the error being
\* raised; content: of the file that is submitted.
Task == [pc: TaskPc, claimed: BOOLEAN, attempt: Nat, temporary: BOOLEAN, permanent: BOOLEAN,
         correctable: BOOLEAN, content: Contents \cup {NoContent}]
NewTask(pc) == [pc |-> pc, claimed |-> FALSE, attempt |-> 0, temporary |-> FALSE,
                permanent |-> FALSE, correctable |-> FALSE, content |-> NoContent]

TypeOK ==
  /\ turn \in Turns
  /\ run \in [status: RunStatus, fence: Nat, answered: BOOLEAN]
  /\ call \in [Calls -> CallStatus]
  /\ reserved \in Nat
  /\ effect \in [Calls -> Effect]
  /\ executed \in [Calls -> Nat]
  /\ done \subseteq Calls
  /\ task \in [Workers -> [Calls -> Task]]
  /\ permit \in [Workers -> Nat]
  /\ candidate \in [Calls -> Candidate]
  /\ stored \subseteq Contents
  /\ lease \in Lease
  /\ box \in [Workers -> Nat]

Init ==
  /\ turn \in Turns
  /\ run = [status |-> "queued", fence |-> 0, answered |-> FALSE]
  /\ call = [c \in Calls |-> "none"]
  /\ reserved = 0
  /\ effect = [c \in Calls |-> NoEffect]
  /\ executed = [c \in Calls |-> 0]
  /\ done = {}
  /\ task = [w \in Workers |-> [c \in Calls |-> NewTask("todo")]]
  /\ permit = [w \in Workers |-> 0]
  /\ candidate = [c \in Calls |-> NoCandidate]
  /\ stored = {}
  /\ lease = [fence |-> 0, holder |-> 0, active |-> FALSE]
  /\ box = [w \in Workers |-> 0]

-----------------------------------------------------------------------------
\* create_tool_execution: an MCP effect is named by the invocation, a Project
\* effect by tool and arguments. _replayable_tool_names: those with an effect.
EffectOf(c) == IF Kind[c] = "project" THEN Signature[c] ELSE c
Replayable(c) == Kind[c] # "plain"
HasEffect(c) == Kind[c] \in {"mcp", "project"}
Submits == {c \in Calls : Kind[c] = "artifact"}

\* assert_active: the worker still holds the lease of a RUNNING Run.
Active(w) == run.status = "running" /\ permit[w] = run.fence

Goto(w, c, pc) == task' = [task EXCEPT ![w][c].pc = pc]
Raise(w, c, permanent) ==
  task' = [task EXCEPT ![w][c].pc = "raising", ![w][c].permanent = permanent]
Working(w, c, pc) == permit[w] # 0 /\ task[w][c].pc = pc

-----------------------------------------------------------------------------
(* The Run *)

\* SandboxWorkspaceManager.acquire, unless the Turn has been answered: a Lease
\* that is not ACTIVE is replaced by the next fence. A Turn that submits
\* nothing does not depend on it.
Acquire(w) ==
  IF run.answered \/ Submits = {} THEN UNCHANGED <<lease, box>>
  ELSE /\ lease' = [fence |-> IF lease.active THEN lease.fence ELSE lease.fence + 1,
                    holder |-> run.fence + 1, active |-> TRUE]
       /\ box' = [box EXCEPT ![w] = lease'.fence]

\* mark_dirty when the stream ends with an error: the workers of one Turn may
\* share the fence.
MarkDirty(w) ==
  /\ lease' = IF lease.fence = box[w] THEN [lease EXCEPT !.active = FALSE] ELSE lease
  /\ UNCHANGED <<candidate, stored, box>>

\* The Lease has expired, or its sandbox is gone: enqueue_due_cleanups.
RetireLease ==
  /\ lease.active
  /\ lease' = [lease EXCEPT !.active = FALSE]
  /\ UNCHANGED <<turn, run, call, reserved, effect, executed, done, task, permit, candidate,
                 stored, box>>

StartAttempt(w) ==
  /\ permit[w] = 0
  /\ run.status = "queued"
  /\ run' = [run EXCEPT !.status = "running", !.fence = run.fence + 1]
  /\ permit' = [permit EXCEPT ![w] = run.fence + 1]
  /\ task' = [task EXCEPT ![w] =
                [c \in Calls |-> NewTask(IF c \in done THEN "finished" ELSE "todo")]]
  /\ Acquire(w)
  /\ UNCHANGED <<turn, call, reserved, effect, executed, done, candidate, stored>>

\* cancel_run: a second request ends the Run whatever its executor does.
CancelRun ==
  /\ run.status \in {"queued", "running", "cancel_requested"}
  /\ run' = [run EXCEPT !.status = IF run.status = "running" THEN "cancel_requested"
                                   ELSE "cancelled"]
  /\ UNCHANGED <<turn, call, reserved, effect, executed, done, task, permit, Delivery>>

\* apply_run_failure, and the errors it may take as final: see AgentRuntime.
AfterFailure(final) ==
  IF final \/ run.fence >= MaxAttempts THEN "failed" ELSE "queued"
Finality(permanent) == {permanent, TRUE}

\* The heartbeat of the latest Attempt is overdue.
Reclaim ==
  /\ run.status \in {"running", "cancel_requested"}
  /\ \E final \in BOOLEAN :
       run' = [run EXCEPT !.status = IF run.status = "running" THEN AfterFailure(final)
                                     ELSE "cancelled"]
  /\ UNCHANGED <<turn, call, reserved, effect, executed, done, task, permit, Delivery>>

\* The tasks of a worker that stops are forgotten.
Stop(w) ==
  /\ permit' = [permit EXCEPT ![w] = 0]
  /\ task' = [task EXCEPT ![w] = [c \in Calls |-> NewTask("todo")]]

Crash(w) ==
  /\ permit[w] # 0
  /\ Stop(w)
  /\ UNCHANGED <<turn, run, call, reserved, effect, executed, done, Delivery>>

\* The cancellation watch: the Run is no longer RUNNING.
Watch(w) ==
  /\ permit[w] # 0
  /\ run.status # "running"
  /\ run' = IF run.status = "cancel_requested" THEN [run EXCEPT !.status = "cancelled"] ELSE run
  /\ Stop(w)
  /\ IF run.answered THEN UNCHANGED Delivery ELSE MarkDirty(w)
  /\ UNCHANGED <<turn, call, reserved, effect, executed, done>>

\* PlatformMcpToolInterceptor, CancelledError: the tasks beside one that
\* raised are cancelled, and their effects closed as temporary failures
\* unless the lease is lost.
Interrupted(w) ==
  {c \in Calls : /\ Kind[c] = "mcp" /\ Active(w)
                 /\ task[w][c].pc \in {"check", "calling", "waiting", "recheck", "succeeding"}
                 /\ effect[c].state = "running"}

\* The error of a task ends the Attempt (RunExecutionService._fail).
FailTurn(w, c) ==
  /\ Working(w, c, "raised")
  /\ \E final \in Finality(task[w][c].permanent) :
       run' = IF run.status = "running" THEN [run EXCEPT !.status = AfterFailure(final)] ELSE run
  /\ effect' = [d \in Calls |-> IF d \in Interrupted(w)
                                THEN [effect[d] EXCEPT !.state = "failed", !.temporary = TRUE]
                                ELSE effect[d]]
  /\ Stop(w)
  /\ MarkDirty(w)
  /\ UNCHANGED <<turn, call, reserved, executed, done>>

Finished(w) == permit[w] # 0 /\ \A c \in Calls : task[w][c].pc = "finished"

\* Every call has its result: the model answers, and the RuntimeExecution
\* succeeds.
FinishTurn(w) ==
  /\ Finished(w) /\ ~run.answered
  /\ \/ Active(w) /\ run' = [run EXCEPT !.answered = TRUE] /\ UNCHANGED <<permit, task>>
     \/ ~Active(w) /\ Stop(w) /\ UNCHANGED run
  /\ UNCHANGED <<turn, call, reserved, effect, executed, done, Delivery>>

\* is_sandbox_fence_current, for every Candidate that is to be published.
Publishable ==
  \A c \in Calls : candidate[c].status = "validated" =>
                      lease.active /\ candidate[c].fence = lease.fence

Published == [c \in Calls |-> IF candidate[c].status = "validated"
                              THEN [candidate[c] EXCEPT !.status = "committed"]
                              ELSE candidate[c]]

\* Mutant: the answer is committed without its artifacts if their fence is lost.
CommitWithoutArtifacts(w) ==
  /\ Finished(w) /\ run.answered /\ run.status = "running"
  /\ run' = [run EXCEPT !.status = "succeeded"]
  /\ candidate' = IF Publishable THEN Published ELSE candidate
  /\ Stop(w)
  /\ UNCHANGED <<turn, call, reserved, effect, executed, done, stored, lease, box>>

\* AgentTurnExecutor commits the answer together with publish_for_success, whose
\* ValueError rolls everything back and counts as temporary.
CommitTurn(w) ==
  /\ Finished(w) /\ run.answered /\ run.status = "running"
  /\ \/ /\ Publishable
        /\ run' = [run EXCEPT !.status = "succeeded"]
        /\ candidate' = Published
     \/ /\ ~Publishable
        /\ \E final \in Finality(FALSE) : run' = [run EXCEPT !.status = AfterFailure(final)]
        /\ UNCHANGED candidate
  /\ Stop(w)
  /\ UNCHANGED <<turn, call, reserved, effect, executed, done, stored, lease, box>>

-----------------------------------------------------------------------------
(* _PersistentUsageMiddleware and AgentUsageService *)

\* The call belongs to the latest message of the model.
Asked(w, c) ==
  /\ Working(w, c, "todo")
  /\ \A d \in Calls : turn.message[d] < turn.message[c] => task[w][d].pc = "finished"

Repeats(c) == Cardinality({d \in Calls : call[d] # "none" /\ Signature[d] = Signature[c]})

\* Mutant: the reservation is not looked up before it is counted.
ReserveAgain(w, c) ==
  /\ Asked(w, c)
  /\ run.status = "running" /\ reserved < MaxToolCalls
  /\ call' = [call EXCEPT ![c] = "reserved"]
  /\ reserved' = reserved + 1
  /\ Goto(w, c, "start")
  /\ UNCHANGED <<turn, run, effect, executed, done, permit, Delivery>>

\* Mutant: a repeated call of any tool reaches its handler.
ReserveReplaysAll(w, c) ==
  /\ Asked(w, c)
  /\ run.status = "running"
  /\ \/ call[c] \in {"none", "reserved"} /\ Goto(w, c, "start")
     \/ call[c] \notin {"none", "reserved"} /\ Goto(w, c, "guard")
  /\ call' = [call EXCEPT ![c] = IF call[c] = "none" THEN "reserved" ELSE call[c]]
  /\ reserved' = IF call[c] = "none" THEN reserved + 1 ELSE reserved
  /\ UNCHANGED <<turn, run, effect, executed, done, permit, Delivery>>

\* reserve_tool_call and the branch on the status it returns. A repeated
\* reservation is returned as it is; a new one needs budget. Deadline, policy
\* and schema are checked with the status of the Run.
Reserve(w, c) ==
  /\ Asked(w, c)
  /\ \/ Raise(w, c, TRUE) /\ UNCHANGED <<call, reserved>>
     \/ /\ run.status = "running" /\ call[c] # "none"
        /\ CASE call[c] = "reserved" -> Goto(w, c, "start")
             [] call[c] # "reserved" /\ Replayable(c) -> Goto(w, c, "guard")
             [] OTHER -> Raise(w, c, TRUE)
        /\ UNCHANGED <<call, reserved>>
     \/ /\ run.status = "running" /\ call[c] = "none"
        /\ reserved < MaxToolCalls /\ Repeats(c) < MaxRepeated
        /\ call' = [call EXCEPT ![c] = "reserved"]
        /\ reserved' = reserved + 1
        /\ Goto(w, c, "start")
  /\ UNCHANGED <<turn, run, effect, executed, done, permit, Delivery>>

\* start_tool_call: the claim RESERVED -> RUNNING.
Start(w, c) ==
  /\ Working(w, c, "start")
  /\ \/ /\ run.status = "running" /\ call[c] = "reserved"
        /\ call' = [call EXCEPT ![c] = "running"]
        /\ task' = [task EXCEPT ![w][c].pc = "guard", ![w][c].claimed = TRUE]
     \/ Raise(w, c, TRUE) /\ UNCHANGED call
  /\ UNCHANGED <<turn, run, reserved, effect, executed, done, permit, Delivery>>

\* start_turn, then assert_active in _RuntimeToolPolicyMiddleware and, for MCP,
\* once more in the interceptor. The deadline may have passed.
Guard(w, c) ==
  /\ Working(w, c, "guard")
  /\ \/ Active(w) /\ Goto(w, c, IF Replayable(c) THEN "begin" ELSE "calling")
     \/ Raise(w, c, TRUE)
  /\ UNCHANGED <<turn, run, call, reserved, effect, executed, done, permit, Delivery>>

\* assert_active after the tool returned.
Return(w, c) ==
  /\ Working(w, c, "returned")
  /\ IF Active(w) THEN Goto(w, c, "recording") ELSE Raise(w, c, TRUE)
  /\ UNCHANGED <<turn, run, call, reserved, effect, executed, done, permit, Delivery>>

\* succeed_tool_call; a result that reports an error is recorded as a failure
\* by the task that claimed the row and returned all the same. A result that
\* is too large is refused.
RecordResult(w, c) ==
  /\ Working(w, c, "recording")
  /\ \/ /\ run.status = "running" /\ call[c] \in {"running", "succeeded"}
        /\ call' = [call EXCEPT ![c] = "succeeded"]
        /\ Goto(w, c, "saving")
     \/ /\ task[w][c].claimed
        /\ call' = [call EXCEPT ![c] = IF call[c] = "running" THEN "failed" ELSE call[c]]
        /\ Goto(w, c, "saving")
     \/ Raise(w, c, TRUE) /\ UNCHANGED call
  /\ UNCHANGED <<turn, run, reserved, effect, executed, done, permit, Delivery>>

\* LangGraph writes the result of the call to the checkpoint (external).
SaveResult(w, c) ==
  /\ Working(w, c, "saving")
  /\ done' = done \cup {c}
  /\ Goto(w, c, "finished")
  /\ UNCHANGED <<turn, run, call, reserved, effect, executed, permit, Delivery>>

\* _CorrectableToolErrorMiddleware: what the model can correct is told to it,
\* any other error ends the Attempt.
AfterError(w, c) == IF task[w][c].correctable THEN "saving" ELSE "raised"

\* _record_tool_failure: fail_tool_call by the task that claimed the row,
\* whatever became of the Run and of the lease.
RecordFailure(w, c) ==
  /\ Working(w, c, "raising")
  /\ call' = [call EXCEPT ![c] = IF task[w][c].claimed /\ call[c] = "running" THEN "failed"
                                 ELSE call[c]]
  /\ Goto(w, c, AfterError(w, c))
  /\ UNCHANGED <<turn, run, reserved, effect, executed, done, permit, Delivery>>

-----------------------------------------------------------------------------
(* McpToolExecutionService and ProjectResearchContextService *)

Began(w, c, attempt) ==
  /\ effect' = [effect EXCEPT ![EffectOf(c)] =
                  [state |-> "running", temporary |-> FALSE, attempts |-> attempt]]
  /\ task' = [task EXCEPT ![w][c].pc = IF Kind[c] = "mcp" THEN "check" ELSE "calling",
                          ![w][c].attempt = attempt]
EffectCount == Cardinality({e \in Calls : effect[e].state # "none"})

\* begin: a stored success is returned, a RUNNING effect is left alone, a
\* temporary failure is tried again.
Begin(w, c) ==
  /\ Working(w, c, "begin") /\ HasEffect(c)
  /\ LET e == effect[EffectOf(c)]
     IN \/ run.status # "running" /\ Raise(w, c, TRUE) /\ UNCHANGED effect
        \/ /\ run.status = "running"
           /\ \/ e.state = "succeeded" /\ Goto(w, c, "returned") /\ UNCHANGED effect
              \/ e.state = "running" /\ Raise(w, c, FALSE) /\ UNCHANGED effect
              \/ e.state = "failed" /\ ~e.temporary /\ Raise(w, c, TRUE) /\ UNCHANGED effect
              \/ e.state = "failed" /\ e.temporary /\ Began(w, c, e.attempts + 1)
              \/ e.state = "none" /\ EffectCount < MaxToolCalls /\ Began(w, c, 1)
              \/ /\ e.state = "none" /\ EffectCount >= MaxToolCalls
                 /\ Raise(w, c, TRUE) /\ UNCHANGED effect
  /\ UNCHANGED <<turn, run, call, reserved, executed, done, permit, Delivery>>

\* The interceptor's checks before and after the remote call. One that fails
\* leaves the effect RUNNING: _fail_if_owned fails the same check.
Check(w, c) ==
  /\ Working(w, c, "check") \/ Working(w, c, "recheck")
  /\ IF Active(w)
     THEN Goto(w, c, IF task[w][c].pc = "check" THEN "calling" ELSE "succeeding")
     ELSE Raise(w, c, TRUE)
  /\ UNCHANGED <<turn, run, call, reserved, effect, executed, done, permit, Delivery>>

\* The tool runs (external).
Execute(w, c) ==
  /\ Working(w, c, "calling")
  /\ executed' = [executed EXCEPT ![EffectOf(c)] = executed[EffectOf(c)] + 1]
  /\ Goto(w, c, "waiting")
  /\ UNCHANGED <<turn, run, call, reserved, effect, done, permit, Delivery>>

\* Its result, or its failure: an error of the tool or the interceptor's
\* timeout, or the timeout of the middleware, which is permanent. The latter
\* cancels the handler: the interceptor closes its effect as a temporary
\* failure, the Project service leaves its own RUNNING.
Outcome(w, c) ==
  /\ Working(w, c, "waiting")
  /\ \/ Goto(w, c, CASE Kind[c] = "plain" -> "returned" [] Kind[c] = "mcp" -> "recheck"
                     [] OTHER -> "succeeding")
     \/ \E temporary \in BOOLEAN :
          task' = [task EXCEPT ![w][c].pc = IF Kind[c] = "plain" THEN "raising" ELSE "failing",
                               ![w][c].temporary = temporary, ![w][c].permanent = ~temporary]
     \/ task' = [task EXCEPT ![w][c].pc = IF Kind[c] = "mcp" THEN "failing" ELSE "raising",
                             ![w][c].temporary = TRUE, ![w][c].permanent = TRUE]
  /\ UNCHANGED <<turn, run, call, reserved, effect, executed, done, permit, Delivery>>

\* A save is conditional on RUNNING. The Project service also names the
\* attempt it began, the MCP service the one it finds.
Owned(w, c) ==
  /\ effect[EffectOf(c)].state = "running"
  /\ Kind[c] = "project" => effect[EffectOf(c)].attempts = task[w][c].attempt

\* Mutant: the session is closed without a commit.
SucceedsUncommitted(w, c) ==
  /\ Working(w, c, "succeeding")
  /\ run.status = "running" /\ Owned(w, c)
  /\ Goto(w, c, "returned")
  /\ UNCHANGED <<turn, run, call, reserved, effect, executed, done, permit, Delivery>>

\* succeed, and _finish of the Project service. A save that lost its condition
\* is a temporary failure, a Run that left RUNNING a permanent one.
EffectSucceeds(w, c) ==
  /\ Working(w, c, "succeeding")
  /\ \/ /\ run.status = "running" /\ Owned(w, c)
        /\ effect' = [effect EXCEPT ![EffectOf(c)].state = "succeeded"]
        /\ Goto(w, c, "returned")
     \/ /\ run.status # "running" \/ ~Owned(w, c)
        /\ task' = [task EXCEPT ![w][c].pc = "failing",
                                ![w][c].temporary = run.status = "running",
                                ![w][c].permanent = run.status # "running"]
        /\ UNCHANGED effect
  /\ UNCHANGED <<turn, run, call, reserved, executed, done, permit, Delivery>>

\* _fail_if_owned and fail; the Project service's _fail does not ask for the
\* lease.
EffectFails(w, c) ==
  /\ Working(w, c, "failing")
  /\ effect' = IF Owned(w, c) /\ (Kind[c] = "mcp" => Active(w))
               THEN [effect EXCEPT ![EffectOf(c)].state = "failed",
                                   ![EffectOf(c)].temporary = task[w][c].temporary]
               ELSE effect
  /\ Raise(w, c, task[w][c].permanent \/ (Kind[c] = "mcp" /\ ~Active(w)))
  /\ UNCHANGED <<turn, run, call, reserved, executed, done, permit, Delivery>>

-----------------------------------------------------------------------------
(* AgentArtifactSubmissionService.submit *)

\* _assert_current: the permit, and the row of the Lease as it was acquired.
Fenced(w) == Active(w) /\ lease.active /\ lease.holder = permit[w]

\* read_regular_file and the validation of its content
ReadArtifact(w, c) ==
  /\ Working(w, c, "begin") /\ c \in Submits
  /\ \/ ~Fenced(w) /\ Raise(w, c, TRUE)
     \/ /\ Fenced(w)
        /\ \/ \E k \in Contents :
                task' = [task EXCEPT ![w][c].pc = "writing", ![w][c].content = k]
           \/ Goto(w, c, "rejecting")
           \/ Raise(w, c, FALSE)
  /\ UNCHANGED <<turn, run, call, reserved, effect, executed, done, permit, Delivery>>

\* Storage is written, under the name of the content, between two checks.
WriteArtifact(w, c) ==
  /\ Working(w, c, "writing")
  /\ \/ Fenced(w) /\ stored' = stored \cup {task[w][c].content} /\ Goto(w, c, "fencing")
     \/ Fenced(w) /\ UNCHANGED stored /\ Raise(w, c, FALSE)
     \/ ~Fenced(w) /\ UNCHANGED stored /\ Raise(w, c, TRUE)
  /\ UNCHANGED <<turn, run, call, reserved, effect, executed, done, permit, candidate, lease,
                 box>>

AssertCurrent(w, c) ==
  /\ Working(w, c, "fencing") \/ Working(w, c, "rejecting")
  /\ IF Fenced(w)
     THEN Goto(w, c, IF task[w][c].pc = "fencing" THEN "submitting" ELSE "refusing")
     ELSE Raise(w, c, TRUE)
  /\ UNCHANGED <<turn, run, call, reserved, effect, executed, done, permit, Delivery>>

Accepted == {d \in Calls : candidate[d].status \in {"validated", "committed"}}

\* get_or_add_candidate finds the row of the call, or of the same content.
Existing(c, k) == {d \in Calls : \/ d = c /\ candidate[d].status # "none"
                                 \/ candidate[d].content = k}
SameFact(c, d, k) == candidate[d].content = k /\ Signature[d] = Signature[c]

\* _record_candidate: the same fact is returned with the fence that it has,
\* another one is a conflict, a new one needs budget.
RecordCandidate(w, c) ==
  /\ Working(w, c, "submitting")
  /\ LET k == task[w][c].content
         existing == Existing(c, k)
         same == existing # {} /\ \A d \in existing : SameFact(c, d, k)
     IN \/ run.status # "running" /\ Raise(w, c, TRUE) /\ UNCHANGED candidate
        \/ /\ run.status = "running" /\ existing # {}
           /\ IF same THEN Goto(w, c, "returned") ELSE Raise(w, c, FALSE)
           /\ UNCHANGED candidate
        \/ /\ run.status = "running" /\ existing = {}
           /\ IF Cardinality(Accepted) < MaxArtifacts
              THEN /\ candidate' = [candidate EXCEPT ![c] = [status |-> "validated",
                                       fence |-> box[w], content |-> k]]
                   /\ Goto(w, c, "returned")
              ELSE Raise(w, c, TRUE) /\ UNCHANGED candidate
  /\ UNCHANGED <<turn, run, call, reserved, effect, executed, done, permit, stored, lease, box>>

\* _record_rejection, whose own errors are swallowed; then the error, which the
\* model may be able to correct.
RecordRejection(w, c) ==
  /\ Working(w, c, "refusing")
  /\ candidate' = IF run.status = "running" /\ candidate[c].status = "none"
                  THEN [candidate EXCEPT ![c].status = "rejected"] ELSE candidate
  /\ \E correctable \in BOOLEAN :
       task' = [task EXCEPT ![w][c].pc = "raising", ![w][c].permanent = TRUE,
                            ![w][c].correctable = correctable]
  /\ UNCHANGED <<turn, run, call, reserved, effect, executed, done, permit, stored, lease, box>>

-----------------------------------------------------------------------------
TaskStep(w, c) ==
  \/ Reserve(w, c) \/ Start(w, c) \/ Guard(w, c) \/ Begin(w, c) \/ Check(w, c)
  \/ Execute(w, c) \/ Outcome(w, c) \/ EffectSucceeds(w, c) \/ EffectFails(w, c)
  \/ Return(w, c) \/ RecordResult(w, c) \/ SaveResult(w, c) \/ RecordFailure(w, c)
  \/ ReadArtifact(w, c) \/ WriteArtifact(w, c) \/ AssertCurrent(w, c) \/ RecordCandidate(w, c)
  \/ RecordRejection(w, c) \/ FailTurn(w, c)

Work(w) == \/ StartAttempt(w) \/ FinishTurn(w) \/ CommitTurn(w) \/ Watch(w)
           \/ \E c \in Calls : TaskStep(w, c)

Next ==
  \/ \E w \in Workers : Work(w) \/ Crash(w)
  \/ CancelRun
  \/ Reclaim
  \/ RetireLease

Spec == Init /\ [][Next]_vars

-----------------------------------------------------------------------------
(* Safety *)

\* A tool without a stored result runs at most once per invocation, however
\* often the Turn is resumed and whichever workers hold stale leases. Every run
\* of a tool with an effect belongs to an attempt of the effect that was
\* committed before it: two workers never run it on the same attempt.
ToolsRunOnce ==
  \A c \in Calls :
    /\ Kind[c] = "plain" => executed[c] <= 1
    /\ HasEffect(c) => executed[EffectOf(c)] <= effect[EffectOf(c)].attempts

\* Replays do not consume budget, the budget holds, and so does the limit on
\* identical calls.
BudgetKept ==
  /\ reserved = Cardinality({c \in Calls : call[c] # "none"})
  /\ reserved <= MaxToolCalls
  /\ \A c \in Calls : Repeats(c) <= MaxRepeated

\* The ledgers agree: what the usage ledger shows as succeeded has a stored
\* result, or a Candidate that is or will be published, though no two of them
\* are written together.
SuccessIsStored ==
  \A c \in Calls : call[c] = "succeeded" =>
    /\ HasEffect(c) => effect[EffectOf(c)].state = "succeeded"
    /\ c \in Submits => \E d \in Accepted : Signature[d] = Signature[c]

\* A Turn succeeds with all of its artifacts or not at all: each Candidate that
\* passed validation is published with the answer, none before, each with its
\* content in Storage, no content twice, and no more than the budget allows.
ArtifactsDelivered ==
  /\ \A c \in Accepted : candidate[c].status = "committed" <=> run.status = "succeeded"
  /\ \A c \in Accepted : candidate[c].content \in stored
  /\ \A c, d \in Accepted : candidate[c].content = candidate[d].content => c = d
  /\ Cardinality(Accepted) <= MaxArtifacts

=============================================================================
