--------------------------- MODULE SandboxWorkspace ---------------------------
(***************************************************************************)
(* The physical workspace of one AgentSession: SandboxWorkspaceManager,    *)
(* SandboxedResearchAgentRuntime around it, the Lease row with its fencing *)
(* token, the WorkspaceSnapshots of the Turns, and the cleanup of replaced *)
(* sandboxes (SandboxCleanupService). Every method of the repository is    *)
(* one transaction; calls of the Provider happen between transactions.     *)
(*                                                                         *)
(* The Turns of a Session follow one another. The Run of a Turn and its    *)
(* RuntimeExecution move as in AgentRuntime, reduced here to who may go    *)
(* on: a worker that lost its permit keeps running until a check stops it. *)
(* The files of a sandbox are the set of Turns that wrote to it.           *)
(***************************************************************************)
EXTENDS Naturals, FiniteSets

CONSTANTS
  Workers,
  NoWorker,
  Cleaners,      \* the cleanup loops of the worker processes
  NoCleaner,
  MaxTurns,      \* bound: Turns of the Session
  MaxAttempts,   \* AGENT_MAX_RUN_ATTEMPTS
  MaxStarts,     \* bound: an Attempt starts while its number and its Turn's stay within it
  MaxSandboxes,  \* bound: sandboxes the Provider creates
  MaxClaims      \* bound: claims of one cleanup; the last one is not disturbed

ASSUME WorkspaceAssumption ==
  /\ NoWorker \notin Workers /\ NoCleaner \notin Cleaners
  /\ MaxTurns \in Nat /\ MaxAttempts \in Nat \ {0} /\ MaxStarts \in Nat
  /\ MaxSandboxes \in Nat /\ MaxClaims \in Nat

Turns == 1..MaxTurns
Sandboxes == 1..MaxSandboxes

VARIABLES
  run,       \* the Run of the latest Turn
  exec,      \* its RuntimeExecution
  lease,     \* the agent_sandbox_leases row of the Session
  sandbox,   \* the Provider's sandboxes
  snapshot,  \* the WorkspaceSnapshot of each Turn
  cleanup,   \* the agent_sandbox_cleanups row of each sandbox
  worker,    \* what each worker is doing
  cleaner    \* what each cleaner is doing

vars == <<run, exec, lease, sandbox, snapshot, cleanup, worker, cleaner>>

-----------------------------------------------------------------------------
Final == {"succeeded", "failed", "cancelled"}
Run == [turn: 0..MaxTurns, status: {"queued", "running", "cancel_requested"} \cup Final,
        attempts: Nat]
\* answered: the thread has a checkpoint with the answer of the Turn.
Exec == [state: {"none", "running"} \cup Final, owner: Workers \cup {NoWorker},
         answered: BOOLEAN]
NoExec == [state |-> "none", owner |-> NoWorker, answered |-> FALSE]

\* box: the sandbox, one per generation; status "none": there is no row. In the
\* table "disowned" is ACTIVE too: the worker that wrote the row took the commit
\* for a failure and destroys the sandbox. No guard tells the two apart.
ActiveStatus == {"active", "disowned"}
Lease == [status: {"none", "dirty", "retired"} \cup ActiveStatus, holder: 0..MaxTurns,
          box: 0..MaxSandboxes, fence: Nat, expired: BOOLEAN]
NoLease == [status |-> "none", holder |-> 0, box |-> 0, fence |-> 0, expired |-> FALSE]

\* base: the version it was restored from. A Snapshot names its sandbox by the
\* generation.
Sandbox == [state: {"none", "alive", "gone"}, files: SUBSET Turns, base: Nat]
Snapshot == [status: {"none", "staged", "stable"}, version: Nat, files: SUBSET Turns,
             box: 0..MaxSandboxes]
NoSnapshot == [status |-> "none", version |-> 0, files |-> {}, box |-> 0]
Cleanup == [status: {"none", "pending", "running", "succeeded"},
            owner: Cleaners \cup {NoCleaner}, attempts: Nat]

WorkerPc == {"idle", "reading", "deciding", "renewed", "creating", "rejecting", "discarding",
             "discarded", "held", "claimed", "working", "writing", "listing", "staging", "succeeding",
             "committing", "dirtying", "failing"}
\* seen: the Lease as it was read; box, fence: of the Lease that is held; old:
\* the sandbox to be destroyed; won: the Lease was obtained; entered: the
\* runtime produced an event; version, files: of the Snapshot to be staged.
Worker == [pc: WorkerPc, turn: 0..MaxTurns, seen: Lease, box: 0..MaxSandboxes, fence: Nat,
           old: 0..MaxSandboxes, won: BOOLEAN, entered: BOOLEAN, version: Nat,
           files: SUBSET Turns, permanent: BOOLEAN]
IdleWorker == [pc |-> "idle", turn |-> 0, seen |-> NoLease, box |-> 0, fence |-> 0, old |-> 0,
               won |-> FALSE, entered |-> FALSE, version |-> 0, files |-> {},
               permanent |-> FALSE]

Cleaner == [pc: {"idle", "destroying", "completing", "retrying"}, box: 0..MaxSandboxes,
            attempt: Nat]
IdleCleaner == [pc |-> "idle", box |-> 0, attempt |-> 0]

TypeOK ==
  /\ run \in Run /\ exec \in Exec /\ lease \in Lease
  /\ sandbox \in [Sandboxes -> Sandbox]
  /\ snapshot \in [Turns -> Snapshot]
  /\ cleanup \in [Sandboxes -> Cleanup]
  /\ worker \in [Workers -> Worker]
  /\ cleaner \in [Cleaners -> Cleaner]

Init ==
  /\ run = [turn |-> 0, status |-> "succeeded", attempts |-> 0]
  /\ exec = NoExec
  /\ lease = NoLease
  /\ sandbox = [s \in Sandboxes |-> [state |-> "none", files |-> {}, base |-> 0]]
  /\ snapshot = [t \in Turns |-> NoSnapshot]
  /\ cleanup = [s \in Sandboxes |-> [status |-> "none", owner |-> NoCleaner, attempts |-> 0]]
  /\ worker = [w \in Workers |-> IdleWorker]
  /\ cleaner = [k \in Cleaners |-> IdleCleaner]

-----------------------------------------------------------------------------
\* latest_snapshot: the STABLE one with the highest version.
Stable == {t \in Turns : snapshot[t].status = "stable"}
LatestVersion == IF Stable = {} THEN 0
                 ELSE CHOOSE v \in {snapshot[t].version : t \in Stable} :
                        \A t \in Stable : snapshot[t].version <= v
\* Mutant: a new sandbox stays empty.
RestoresNothing == {}

\* _restore_latest
LatestFiles == UNION {snapshot[t].files : t \in {u \in Stable : snapshot[u].version = LatestVersion}}

Current(w) == run.turn = worker[w].turn

\* assert_active
Active(w) == /\ Current(w) /\ run.status = "running"
             /\ exec.state = "running" /\ exec.owner = w

Goto(w, pc) == worker' = [worker EXCEPT ![w].pc = pc]

\* The worker is done with the workspace: it commits, or reports its error.
Leave(w, pc, permanent) ==
  worker' = [worker EXCEPT ![w] = [IdleWorker EXCEPT !.pc = pc, !.turn = worker[w].turn,
                                                     !.permanent = permanent]]

\* An error leaves the stream: the Lease is marked DIRTY if the runtime has
\* produced an event.
Dirty(w, permanent) ==
  worker' = [worker EXCEPT ![w] = [IdleWorker EXCEPT
               !.pc = "dirtying", !.turn = worker[w].turn, !.box = worker[w].box,
               !.fence = worker[w].fence, !.permanent = permanent]]
Raise(w, permanent) ==
  IF worker[w].entered THEN Dirty(w, permanent) ELSE Leave(w, "failing", permanent)

-----------------------------------------------------------------------------
(* The Run and its RuntimeExecution *)

\* post_message: the Session has no unfinished Turn.
PostTurn ==
  /\ run.status \in Final /\ run.turn < MaxTurns
  /\ run' = [turn |-> run.turn + 1, status |-> "queued", attempts |-> 0]
  /\ exec' = NoExec
  /\ UNCHANGED <<lease, sandbox, snapshot, cleanup, worker, cleaner>>

\* cancel_run: a repeated request moves CANCEL_REQUESTED on to CANCELLED.
CancelRun ==
  /\ run.status \in {"queued", "running", "cancel_requested"}
  /\ run' = [run EXCEPT !.status = IF run.status = "running" THEN "cancel_requested"
                                   ELSE "cancelled"]
  /\ UNCHANGED <<exec, lease, sandbox, snapshot, cleanup, worker, cleaner>>

\* apply_run_failure, and the errors it may take as final: see AgentRuntime.
\* Waiting for the retry is part of being queued.
AfterFailure(final) ==
  IF final \/ run.attempts >= MaxAttempts THEN "failed" ELSE "queued"
Finality(permanent) == {permanent, TRUE}

\* The heartbeat of the Attempt is overdue.
Reclaim ==
  /\ run.status \in {"running", "cancel_requested"}
  /\ \E final \in BOOLEAN :
       run' = [run EXCEPT !.status = IF run.status = "running" THEN AfterFailure(final)
                                     ELSE "cancelled"]
  /\ UNCHANGED <<exec, lease, sandbox, snapshot, cleanup, worker, cleaner>>

\* The lease of the RuntimeExecution runs out: nobody or too late a heartbeat
\* renews it.
ExecLapses ==
  /\ exec.owner # NoWorker
  /\ exec' = [exec EXCEPT !.owner = NoWorker]
  /\ UNCHANGED <<run, lease, sandbox, snapshot, cleanup, worker, cleaner>>

\* An Attempt starts, and AgentTurnExecutor reconciles: only a Turn that has
\* no finished RuntimeExecution acquires the workspace.
StartAttempt(w) ==
  /\ worker[w].pc = "idle"
  /\ run.status = "queued" /\ run.turn + run.attempts < MaxStarts
  /\ run' = [run EXCEPT !.status = "running", !.attempts = run.attempts + 1]
  /\ worker' = [worker EXCEPT ![w] =
       [IdleWorker EXCEPT !.turn = run.turn,
                          !.permanent = exec.state \in {"failed", "cancelled"},
                          !.pc = CASE exec.state = "succeeded" -> "committing"
                                   [] exec.state = "none" -> "reading"
                                   [] exec.state = "running" /\ exec.owner = NoWorker -> "reading"
                                   [] OTHER -> "failing"]]
  /\ UNCHANGED <<exec, lease, sandbox, snapshot, cleanup, cleaner>>

\* RunExecutionService._fail, or the commit of a requested cancellation.
Fail(w) ==
  /\ worker[w].pc = "failing"
  /\ \E final \in Finality(worker[w].permanent) :
       run' = CASE Current(w) /\ run.status = "running" ->
                     [run EXCEPT !.status = AfterFailure(final)]
                [] Current(w) /\ run.status = "cancel_requested" ->
                     [run EXCEPT !.status = "cancelled"]
                [] OTHER -> run
  /\ worker' = [worker EXCEPT ![w] = IdleWorker]
  /\ UNCHANGED <<exec, lease, sandbox, snapshot, cleanup, cleaner>>

Crash(w) ==
  /\ worker[w].pc # "idle"
  /\ worker' = [worker EXCEPT ![w] = IdleWorker]
  /\ UNCHANGED <<run, exec, lease, sandbox, snapshot, cleanup, cleaner>>

\* The stream is cancelled because the Run left RUNNING (cancel_turn, or the
\* watch of the executor).
InStream(w) == worker[w].pc \in {"held", "claimed", "working", "writing", "listing", "staging", "succeeding"}
Watch(w) ==
  /\ InStream(w)
  /\ ~(Current(w) /\ run.status = "running")
  /\ exec' = IF Current(w) /\ run.status = "cancel_requested" /\ exec.state = "running"
             THEN [exec EXCEPT !.state = "cancelled", !.owner = NoWorker] ELSE exec
  /\ Raise(w, TRUE)
  /\ UNCHANGED <<run, lease, sandbox, snapshot, cleanup, cleaner>>

-----------------------------------------------------------------------------
(* SandboxWorkspaceManager.acquire *)

ReadLease(w) ==
  /\ worker[w].pc = "reading"
  /\ worker' = [worker EXCEPT ![w].seen = lease, ![w].pc = "deciding"]
  /\ UNCHANGED <<run, exec, lease, sandbox, snapshot, cleanup, cleaner>>

\* Mutant: a sandbox is reused whatever its previous Turn left in it.
HolderAlwaysStable(l) == TRUE

\* _previous_holder_is_stable
HolderStable(l) == snapshot[l.holder].status = "stable" /\ snapshot[l.holder].version = LatestVersion

Reusable(w) ==
  LET l == worker[w].seen
  IN l.status \in ActiveStatus /\ ~l.expired /\ (l.holder = worker[w].turn \/ HolderStable(l))

\* connect and renew, or create and restore the latest STABLE files. The
\* generation may also have reached its maximal age. The Provider refuses a
\* sandbox that is gone.
Provide(w) ==
  /\ worker[w].pc = "deciding"
  /\ \/ /\ Reusable(w)
        /\ IF sandbox[worker[w].seen.box].state = "alive" THEN Goto(w, "renewed")
           ELSE Raise(w, FALSE)
        /\ UNCHANGED sandbox
     \/ \E s \in Sandboxes :
          /\ sandbox[s].state = "none" /\ \A r \in 1..(s - 1) : sandbox[r].state # "none"
          /\ sandbox' = [sandbox EXCEPT ![s] = [state |-> "alive", files |-> LatestFiles,
                                                       base |-> LatestVersion]]
          /\ worker' = [worker EXCEPT ![w].pc = "creating", ![w].box = s]
  /\ UNCHANGED <<run, exec, lease, snapshot, cleanup, cleaner>>

Held(w, l, pc) ==
  worker' = [worker EXCEPT ![w].pc = pc, ![w].box = l.box, ![w].fence = l.fence, ![w].won = TRUE,
                           ![w].old = IF pc = "held" THEN 0 ELSE worker[w].seen.box,
                           ![w].seen = NoLease]

\* Mutant: the status of the row is not compared.
RenewRetired(w) ==
  /\ worker[w].pc = "renewed"
  /\ lease.fence = worker[w].seen.fence
  /\ lease' = [worker[w].seen EXCEPT !.holder = worker[w].turn, !.expired = FALSE]
  /\ Held(w, lease', "held")
  /\ UNCHANGED <<run, exec, sandbox, snapshot, cleanup, cleaner>>

\* replace_lease within the generation: the row must still be ACTIVE. The
\* fence advances with the Turn.
RenewLease(w) ==
  /\ worker[w].pc = "renewed"
  /\ LET l == worker[w].seen
         new == [l EXCEPT !.holder = worker[w].turn, !.expired = FALSE, !.status = lease.status,
                          !.fence = IF l.holder = worker[w].turn THEN l.fence ELSE l.fence + 1]
     IN IF lease.fence = l.fence /\ lease.status \in ActiveStatus
        THEN lease' = new /\ Held(w, new, "held")
        ELSE Raise(w, FALSE) /\ UNCHANGED lease
  /\ UNCHANGED <<run, exec, sandbox, snapshot, cleanup, cleaner>>

Enqueued(s) ==
  IF s \in Sandboxes /\ cleanup[s].status = "none"
  THEN [cleanup EXCEPT ![s].status = "pending"] ELSE cleanup

\* replace_lease to the next generation, with the cleanup of the one it
\* replaces; insert if there was no row. A cancellation or a lost connection may
\* hide the commit from the worker, which then rejects its own candidate.
RotateLease(w) ==
  /\ worker[w].pc = "creating"
  /\ LET l == worker[w].seen
         new == [status |-> "active", holder |-> worker[w].turn, box |-> worker[w].box,
                 fence |-> l.fence + 1, expired |-> FALSE]
     IN IF lease.fence = l.fence
        THEN /\ cleanup' = Enqueued(l.box)
             /\ \/ lease' = new /\ Held(w, new, IF l.box = 0 THEN "held" ELSE "discarding")
                \/ lease' = [new EXCEPT !.status = "disowned"] /\ Goto(w, "rejecting")
        ELSE Goto(w, "rejecting") /\ UNCHANGED <<lease, cleanup>>
  /\ UNCHANGED <<run, exec, sandbox, snapshot, cleaner>>

\* The files cannot be restored.
RestoreFails(w) ==
  /\ worker[w].pc = "creating"
  /\ Goto(w, "rejecting")
  /\ UNCHANGED <<run, exec, lease, sandbox, snapshot, cleanup, cleaner>>

\* _enqueue_and_destroy: the loser keeps nothing but its own sandbox in mind.
\* The row is a best effort.
Reject(w) ==
  /\ worker[w].pc = "rejecting"
  /\ cleanup' \in {cleanup, Enqueued(worker[w].box)}
  /\ worker' = [worker EXCEPT ![w] =
       [IdleWorker EXCEPT !.pc = "discarding", !.turn = worker[w].turn, !.box = worker[w].box,
                          !.old = worker[w].box]]
  /\ UNCHANGED <<run, exec, lease, sandbox, snapshot, cleaner>>

AfterDiscard(w) ==
  IF worker[w].won THEN worker' = [worker EXCEPT ![w].pc = "held", ![w].old = 0]
  ELSE Leave(w, "failing", FALSE)

\* _destroy_recorded_cleanup: destroy, which may fail, then
\* mark_cleanup_succeeded of a PENDING row.
Discard(w) ==
  /\ worker[w].pc = "discarding"
  /\ \/ /\ sandbox' = [sandbox EXCEPT ![worker[w].old].state = "gone"]
        /\ Goto(w, "discarded")
     \/ AfterDiscard(w) /\ UNCHANGED sandbox
  /\ UNCHANGED <<run, exec, lease, snapshot, cleanup, cleaner>>

Discarded(w) ==
  /\ worker[w].pc = "discarded"
  /\ cleanup' = IF cleanup[worker[w].old].status = "pending"
                THEN [cleanup EXCEPT ![worker[w].old].status = "succeeded"] ELSE cleanup
  /\ AfterDiscard(w)
  /\ UNCHANGED <<run, exec, lease, sandbox, snapshot, cleaner>>

-----------------------------------------------------------------------------
(* The Turn in its workspace *)

\* Before the runtime is entered, the inbox is filled and the MCP servers are
\* opened: a failure of the inbox or of the browser marks the Lease DIRTY.
PrepareFails(w) ==
  /\ worker[w].pc = "held"
  /\ \E permanent \in BOOLEAN : Dirty(w, permanent) \/ Leave(w, "failing", permanent)
  /\ UNCHANGED <<run, exec, lease, sandbox, snapshot, cleanup, cleaner>>

\* claim of the RuntimeExecution. A refused claim leaves the Lease alone.
Claim(w) ==
  /\ worker[w].pc = "held"
  /\ IF /\ Current(w) /\ run.status = "running"
        /\ exec.state = "none" \/ (exec.state = "running" /\ exec.owner = NoWorker)
     THEN exec' = [exec EXCEPT !.state = "running", !.owner = w] /\ Goto(w, "claimed")
     ELSE Raise(w, FALSE) /\ UNCHANGED exec
  /\ UNCHANGED <<run, lease, sandbox, snapshot, cleanup, cleaner>>

\* The first event, which makes the Turn entered; a resumed Turn whose
\* checkpoint has the answer is finished without one.
Begin(w) ==
  /\ worker[w].pc = "claimed"
  /\ \/ worker' = [worker EXCEPT ![w].pc = "working", ![w].entered = TRUE]
     \/ exec.answered /\ Current(w) /\ Goto(w, "listing")
  /\ UNCHANGED <<run, exec, lease, sandbox, snapshot, cleanup, cleaner>>

\* The checkpoints cannot be read; the record is not told.
ReadFails(w) ==
  /\ worker[w].pc = "claimed"
  /\ Raise(w, FALSE)
  /\ UNCHANGED <<run, exec, lease, sandbox, snapshot, cleanup, cleaner>>

Released(w) == IF Active(w) THEN [exec EXCEPT !.owner = NoWorker] ELSE exec
Ended(w, state) ==
  IF Active(w) THEN [exec EXCEPT !.state = state, !.owner = NoWorker] ELSE exec

\* A tool call: the permit is checked, then the files are written.
BeginWrite(w) ==
  /\ worker[w].pc = "working"
  /\ IF Active(w) THEN Goto(w, "writing") ELSE Raise(w, TRUE)
  /\ UNCHANGED <<run, exec, lease, sandbox, snapshot, cleanup, cleaner>>

Write(w) ==
  /\ worker[w].pc = "writing"
  /\ IF sandbox[worker[w].box].state = "alive"
     THEN /\ sandbox' = [sandbox EXCEPT ![worker[w].box].files = @ \cup {worker[w].turn}]
          /\ Goto(w, "working") /\ UNCHANGED exec
     ELSE exec' = Released(w) /\ Raise(w, FALSE) /\ UNCHANGED sandbox
  /\ UNCHANGED <<run, lease, snapshot, cleanup, cleaner>>

\* An error of a model or of a tool.
CallFails(w) ==
  /\ worker[w].pc = "working"
  /\ \E permanent \in BOOLEAN :
       /\ exec' = IF permanent THEN Ended(w, "failed") ELSE Released(w)
       /\ Raise(w, permanent)
  /\ UNCHANGED <<run, lease, sandbox, snapshot, cleanup, cleaner>>

Answer(w) ==
  /\ worker[w].pc = "working"
  /\ exec' = IF Current(w) THEN [exec EXCEPT !.answered = TRUE] ELSE exec
  /\ Goto(w, "listing")
  /\ UNCHANGED <<run, lease, sandbox, snapshot, cleanup, cleaner>>

\* stage_snapshot: an existing one is kept. The files are listed, downloaded
\* and stored; a violation of the limits is permanent and always marks the
\* Lease, an unavailable sandbox keeps it for a retry.
ListFiles(w) ==
  /\ worker[w].pc = "listing"
  /\ \/ /\ snapshot[worker[w].turn].status # "none"
        /\ Goto(w, "succeeding") /\ UNCHANGED exec
     \/ /\ snapshot[worker[w].turn].status = "none"
        /\ sandbox[worker[w].box].state = "alive"
        /\ worker' = [worker EXCEPT ![w].pc = "staging", ![w].version = LatestVersion + 1,
                                    ![w].files = sandbox[worker[w].box].files]
        /\ UNCHANGED exec
     \/ /\ snapshot[worker[w].turn].status = "none"
        /\ exec' = Ended(w, "failed") /\ Dirty(w, TRUE)
     \/ /\ snapshot[worker[w].turn].status = "none"
        /\ exec' = Released(w) /\ Leave(w, "failing", FALSE)
  /\ UNCHANGED <<run, lease, sandbox, snapshot, cleanup, cleaner>>

Holds(w) == /\ lease.status \in ActiveStatus /\ lease.holder = worker[w].turn
            /\ lease.box = worker[w].box /\ lease.fence = worker[w].fence

Staged(w) == worker' = [worker EXCEPT ![w].pc = "succeeding", ![w].version = 0, ![w].files = {}]

\* The repository's stage_snapshot, and the winner's Snapshot for a loser.
Stage(w) ==
  /\ worker[w].pc = "staging"
  /\ LET t == worker[w].turn
     IN \/ /\ Holds(w) /\ worker[w].version = LatestVersion + 1 /\ snapshot[t].status = "none"
           /\ snapshot' = [snapshot EXCEPT ![t] = [status |-> "staged",
                             version |-> worker[w].version, files |-> worker[w].files,
                             box |-> worker[w].box]]
           /\ Staged(w) /\ UNCHANGED exec
        \/ /\ snapshot[t].status # "none"
           /\ Staged(w) /\ UNCHANGED <<exec, snapshot>>
        \/ /\ snapshot[t].status = "none" /\ ~(Holds(w) /\ worker[w].version = LatestVersion + 1)
           /\ exec' = Released(w) /\ Leave(w, "failing", FALSE) /\ UNCHANGED snapshot
  /\ UNCHANGED <<run, lease, sandbox, cleanup, cleaner>>

\* RuntimeExecution.succeed, after the Snapshot is staged.
Succeed(w) ==
  /\ worker[w].pc = "succeeding"
  /\ IF Active(w)
     THEN exec' = Ended(w, "succeeded") /\ Leave(w, "committing", FALSE)
     ELSE Raise(w, TRUE) /\ UNCHANGED exec
  /\ UNCHANGED <<run, lease, sandbox, snapshot, cleanup, cleaner>>

\* publish_for_success accepts the Snapshot: it continues the STABLE versions.
Publishable(t) == snapshot[t].status = "staged" /\ snapshot[t].version = LatestVersion + 1

\* AgentTurnExecutor's transaction: answer, Run and Snapshot together.
Commit(w) ==
  /\ worker[w].pc = "committing"
  /\ IF Current(w) /\ run.status = "running" /\ exec.state = "succeeded"
          /\ Publishable(worker[w].turn)
     THEN /\ run' = [run EXCEPT !.status = "succeeded"]
          /\ snapshot' = [snapshot EXCEPT ![worker[w].turn].status = "stable"]
          /\ worker' = [worker EXCEPT ![w] = IdleWorker]
     ELSE Leave(w, "failing", FALSE) /\ UNCHANGED <<run, snapshot>>
  /\ UNCHANGED <<exec, lease, sandbox, cleanup, cleaner>>

\* mark_dirty: conditional on generation and fence, which the workers of one
\* Turn share.
MarkDirty(w) ==
  /\ worker[w].pc = "dirtying"
  /\ lease' = IF lease.status \in ActiveStatus /\ lease.box = worker[w].box
                   /\ lease.fence = worker[w].fence
              THEN [lease EXCEPT !.status = "dirty"] ELSE lease
  /\ Leave(w, "failing", worker[w].permanent)
  /\ UNCHANGED <<run, exec, sandbox, snapshot, cleanup, cleaner>>

-----------------------------------------------------------------------------
(* Expiry and SandboxCleanupService *)

\* A Turn is limited to 300 s and the Lease to 600 s: the Session idles, or a
\* worker stalls.
LeaseExpires ==
  /\ lease.status # "none" /\ ~lease.expired
  /\ lease' = [lease EXCEPT !.expired = TRUE]
  /\ UNCHANGED <<run, exec, sandbox, snapshot, cleanup, worker, cleaner>>

\* The Provider's own TTL, which create and renew set to that of the Lease.
ProviderExpires(s) ==
  /\ sandbox[s].state = "alive"
  /\ lease.box = s => lease.expired
  /\ \A w \in Workers : /\ ~(worker[w].pc = "renewed" /\ worker[w].seen.box = s)
                        /\ ~(worker[w].pc = "creating" /\ worker[w].box = s)
  /\ sandbox' = [sandbox EXCEPT ![s].state = "gone"]
  /\ UNCHANGED <<run, exec, lease, snapshot, cleanup, worker, cleaner>>

\* enqueue_due_cleanups. It retires the Lease of a CLOSED Session too, but no
\* code closes one.
EnqueueDue ==
  /\ lease.status \in {"dirty"} \cup ActiveStatus
  /\ lease.status = "dirty" \/ lease.expired
  /\ lease' = [lease EXCEPT !.status = "retired"]
  /\ cleanup' = Enqueued(lease.box)
  /\ UNCHANGED <<run, exec, sandbox, snapshot, worker, cleaner>>

\* claim_cleanup_tasks: a PENDING row, or a RUNNING one whose claim is overdue.
ClaimCleanup(k, s) ==
  /\ cleaner[k].pc = "idle"
  /\ cleanup[s].status \in {"pending", "running"}
  /\ cleanup[s].attempts < MaxClaims
  /\ cleanup' = [cleanup EXCEPT ![s] = [status |-> "running", owner |-> k,
                                        attempts |-> cleanup[s].attempts + 1]]
  /\ cleaner' = [cleaner EXCEPT ![k] = [pc |-> "destroying", box |-> s,
                                        attempt |-> cleanup[s].attempts + 1]]
  /\ UNCHANGED <<run, exec, lease, sandbox, snapshot, worker>>

\* destroy; a sandbox that does not exist any more counts as destroyed.
Destroy(k) ==
  /\ cleaner[k].pc = "destroying"
  /\ sandbox' = [sandbox EXCEPT ![cleaner[k].box].state = "gone"]
  /\ cleaner' = [cleaner EXCEPT ![k].pc = "completing"]
  /\ UNCHANGED <<run, exec, lease, snapshot, cleanup, worker>>

DestroyFails(k) ==
  /\ cleaner[k].pc = "destroying" /\ cleaner[k].attempt < MaxClaims
  /\ cleaner' = [cleaner EXCEPT ![k].pc = "retrying"]
  /\ UNCHANGED <<run, exec, lease, sandbox, snapshot, cleanup, worker>>

CleanerCrash(k) ==
  /\ cleaner[k].pc # "idle" /\ cleaner[k].attempt < MaxClaims
  /\ cleaner' = [cleaner EXCEPT ![k] = IdleCleaner]
  /\ UNCHANGED <<run, exec, lease, sandbox, snapshot, cleanup, worker>>

\* Mutant: a failed attempt stays claimed for good.
FinishLeavesRunning(k) ==
  /\ cleaner[k].pc \in {"completing", "retrying"}
  /\ cleanup' = [cleanup EXCEPT ![cleaner[k].box].attempts = MaxClaims,
                                ![cleaner[k].box].status =
                                  IF cleaner[k].pc = "completing" THEN "succeeded" ELSE @]
  /\ cleaner' = [cleaner EXCEPT ![k] = IdleCleaner]
  /\ UNCHANGED <<run, exec, lease, sandbox, snapshot, worker>>

\* complete_cleanup and retry_cleanup, conditional on the claim.
FinishCleanup(k) ==
  /\ cleaner[k].pc \in {"completing", "retrying"}
  /\ LET c == cleanup[cleaner[k].box]
     IN cleanup' = IF c.status = "running" /\ c.owner = k /\ c.attempts = cleaner[k].attempt
                   THEN [cleanup EXCEPT ![cleaner[k].box] =
                           [c EXCEPT !.owner = NoCleaner,
                                     !.status = IF cleaner[k].pc = "completing" THEN "succeeded"
                                                ELSE "pending"]]
                   ELSE cleanup
  /\ cleaner' = [cleaner EXCEPT ![k] = IdleCleaner]
  /\ UNCHANGED <<run, exec, lease, sandbox, snapshot, worker>>

-----------------------------------------------------------------------------
Acquire(w) ==
  \/ ReadLease(w) \/ Provide(w) \/ RenewLease(w) \/ RotateLease(w)
  \/ RestoreFails(w) \/ Reject(w) \/ Discard(w) \/ Discarded(w)

ExecuteTurn(w) ==
  \/ PrepareFails(w) \/ Claim(w) \/ Begin(w) \/ ReadFails(w) \/ BeginWrite(w) \/ Write(w) \/ CallFails(w) \/ Answer(w)
  \/ ListFiles(w) \/ Stage(w) \/ Succeed(w) \/ Commit(w) \/ MarkDirty(w) \/ Fail(w) \/ Watch(w)

Clean(k) == Destroy(k) \/ FinishCleanup(k) \/ \E s \in Sandboxes : ClaimCleanup(k, s)

Next ==
  \/ PostTurn \/ CancelRun \/ Reclaim \/ ExecLapses \/ LeaseExpires \/ EnqueueDue
  \/ \E w \in Workers : StartAttempt(w) \/ Acquire(w) \/ ExecuteTurn(w) \/ Crash(w)
  \/ \E k \in Cleaners : Clean(k) \/ DestroyFails(k) \/ CleanerCrash(k)
  \/ \E s \in Sandboxes : ProviderExpires(s)

Spec == Init /\ [][Next]_vars

\* The cleanup loop runs for ever, and so does the worker that has begun.
Fairness == \A k \in Cleaners : WF_vars(Clean(k))
FairSpec == Spec /\ Fairness

-----------------------------------------------------------------------------
(* Safety *)

\* The sandbox of a valid Lease exists: neither the loser of a rotation, nor
\* the cleanup of an earlier generation, nor a late renewal of a retired Lease
\* leaves the Session with a destroyed one; only a worker that took the commit
\* of its own Lease for a failure does. And a cleanup that is recorded as done
\* is done, whichever cleaner recorded it.
SandboxesMatchRows ==
  /\ lease.status = "active" /\ ~lease.expired => sandbox[lease.box].state = "alive"
  /\ \A s \in Sandboxes : cleanup[s].status = "succeeded" => sandbox[s].state = "gone"

\* The sandbox the Snapshot of t was staged in, or one restored from it.
Descends(t, s) == snapshot[t].box = s \/ sandbox[s].base = snapshot[t].version

\* What a Turn that failed or was cancelled wrote does not reach a later one:
\* a leased sandbox holds files of its own Turn and of Turns whose Snapshot
\* was published, though the worker of a failed Turn may still be writing.
OnlyCommittedFiles ==
  lease.status \in ActiveStatus => sandbox[lease.box].files \subseteq {lease.holder} \cup Stable

\* The published Snapshots are numbered without a gap in the order of their
\* Turns and belong to Turns that succeeded, and none has files of a Turn that was
\* not published by then. A Snapshot keeps the files of an earlier one if it was
\* staged in the same sandbox or in one restored from it. (From any other earlier
\* one files may be lost, see README.) And once the RuntimeExecution succeeded,
\* the publisher accepts the Snapshot of the Turn: the transaction that commits
\* the answer is not rolled back.
StableVersions ==
  /\ {snapshot[t].version : t \in Stable} = 1..Cardinality(Stable)
  /\ \A t, u \in Stable : t < u => snapshot[t].version < snapshot[u].version
  /\ \A t \in Stable : t = run.turn => run.status = "succeeded"
  /\ \A t \in Stable : snapshot[t].files \subseteq {u \in Stable : u <= t}
  /\ \A t, u \in Stable : t < u /\ Descends(t, snapshot[u].box) =>
       snapshot[t].files \subseteq snapshot[u].files
  /\ exec.state = "succeeded" /\ run.status # "succeeded" => Publishable(run.turn)

(* Liveness *)

\* A sandbox with a cleanup is destroyed and the cleanup recorded, though
\* cleaners crash, overlap and meet failures of the Provider.
CleanupConverges ==
  \A s \in Sandboxes : cleanup[s].status = "pending" ~> cleanup[s].status = "succeeded"
=============================================================================
