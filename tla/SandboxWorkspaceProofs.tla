------------------------ MODULE SandboxWorkspaceProofs ------------------------
(***************************************************************************)
(* Proofs about SandboxWorkspace, for any number of workers and cleaners   *)
(* and any of its bounds.                                                  *)
(***************************************************************************)
EXTENDS SandboxWorkspace, FiniteSetTheorems, TLAPS

-----------------------------------------------------------------------------
(* The inductive invariant: Turns and Snapshots *)

\* Workers and Snapshots belong to Turns that were posted.
TurnsFollow ==
  /\ run.turn = 0 => run.status \in Final
  /\ \A w \in Workers : worker[w].pc # "idle" => worker[w].turn \in Turns /\ worker[w].turn <= run.turn
  /\ \A t \in Turns : snapshot[t].status # "none" => t <= run.turn

\* The Snapshot of the latest Turn continues the STABLE versions until it is one
\* of them, and it exists before the RuntimeExecution succeeds.
SnapshotsFollow ==
  /\ {snapshot[t].version : t \in Stable} = 1..Cardinality(Stable)
  /\ \A t, u \in Stable : t < u => snapshot[t].version < snapshot[u].version
  /\ \A t \in Stable : t = run.turn => run.status = "succeeded"
  /\ \A t \in Turns : t = run.turn /\ snapshot[t].status = "staged" =>
       snapshot[t].version = Cardinality(Stable) + 1
  /\ \A w \in Workers : worker[w].pc = "succeeding" => snapshot[worker[w].turn].status # "none"
  /\ exec.state = "succeeded" => run.turn \in Turns /\ snapshot[run.turn].status # "none"

-----------------------------------------------------------------------------
(* The inductive invariant: Leases and sandboxes *)

Exists(s) == s \in Sandboxes /\ sandbox[s].state # "none"

\* The row names a sandbox and a Turn as soon as it exists.
LeaseFollows ==
  /\ lease.status = "none" => lease.box = 0
  /\ lease.status # "none" => Exists(lease.box) /\ lease.holder \in Turns
  /\ lease.status = "active" /\ ~lease.expired => sandbox[lease.box].state = "alive"

\* A sandbox that is to be cleaned up is not leased, and one that was is gone.
CleanupsFollow ==
  /\ \A s \in Sandboxes :
       /\ cleanup[s].status # "none" => Exists(s) /\ (lease.box = s => lease.status # "active")
       /\ cleanup[s].status = "succeeded" => sandbox[s].state = "gone"
  /\ \A k \in Cleaners : cleaner[k].pc # "idle" =>
       /\ cleaner[k].box \in Sandboxes /\ cleanup[cleaner[k].box].status # "none"
       /\ cleaner[k].pc = "completing" => sandbox[cleaner[k].box].state = "gone"

\* A fence is that of one sandbox and one holder, and never comes back.
Known(fence, box, holder) ==
  /\ fence <= lease.fence
  /\ fence = lease.fence => box = lease.box /\ holder = lease.holder

Stream == {"held", "claimed", "working", "writing", "listing", "staging", "succeeding"}
Discarding == {"discarding", "discarded"}
Holding(w) == worker[w].pc \in Stream \/ (worker[w].pc \in Discarding /\ worker[w].won)

\* The sandboxes a worker may yet write to or destroy.
Touched(w) ==
  (IF worker[w].pc \in {"creating", "rejecting"} \cup Stream \cup Discarding
   THEN {worker[w].box} ELSE {})
  \cup (IF worker[w].pc \in Discarding THEN {worker[w].old} ELSE {})

\* A worker acquires: it read the row, found a living sandbox of a Turn whose
\* files may stay, or has created one that nobody else knows.
AcquireFollows(w) ==
  /\ worker[w].pc \in {"deciding", "renewed", "creating"} =>
       /\ Known(worker[w].seen.fence, worker[w].seen.box, worker[w].seen.holder)
       /\ worker[w].seen.status = "none" => worker[w].seen.box = 0
       /\ worker[w].seen.status # "none" => Exists(worker[w].seen.box) /\ worker[w].seen.holder \in Turns
  /\ worker[w].pc = "renewed" =>
       /\ worker[w].seen.status \in ActiveStatus
       /\ worker[w].seen.holder = worker[w].turn \/ worker[w].seen.holder \in Stable
       /\ lease.status = "active" /\ lease.fence = worker[w].seen.fence =>
            sandbox[worker[w].seen.box].state = "alive"
  /\ worker[w].pc = "creating" =>
       /\ sandbox[worker[w].box].state = "alive" /\ sandbox[worker[w].box].files \subseteq Stable
       /\ lease.box # worker[w].box /\ cleanup[worker[w].box].status = "none"
       /\ \A v \in Workers \ {w} : worker[w].box \notin Touched(v)
  /\ worker[w].pc \in {"reading", "deciding", "renewed", "creating", "rejecting"} => ~worker[w].won

\* What a worker gives up is not leased, or its own disowned Lease names it.
DiscardFollows(w) ==
  /\ worker[w].pc = "rejecting" => (lease.box = worker[w].box => lease.status # "active")
  /\ worker[w].pc \in Discarding => (lease.box = worker[w].old => lease.status # "active")
  /\ worker[w].pc = "discarded" => sandbox[worker[w].old].state = "gone"

\* A worker with a sandbox was its holder, and what it has listed is what the
\* Snapshot of its Turn may contain.
HoldFollows(w) ==
  /\ \A s \in Touched(w) : Exists(s)
  /\ Holding(w) =>
       /\ Known(worker[w].fence, worker[w].box, worker[w].turn)
       /\ lease.status \in ActiveStatus /\ lease.box = worker[w].box =>
            worker[w].turn = lease.holder \/ worker[w].turn \in Stable
  /\ worker[w].pc = "staging" /\ Holds(w) => worker[w].files \subseteq {worker[w].turn} \cup Stable

\* Files of a Turn that was not published stay in its sandbox and its Snapshot.
FilesFollow ==
  /\ OnlyCommittedFiles
  /\ \A t \in Turns : snapshot[t].status # "none" => snapshot[t].files \subseteq {t} \cup Stable
  /\ \A t \in Stable : snapshot[t].files \subseteq {u \in Stable : u <= t}

WorkspaceInv ==
  /\ TypeOK /\ TurnsFollow /\ SnapshotsFollow /\ LeaseFollows /\ CleanupsFollow /\ FilesFollow
  /\ \A w \in Workers : AcquireFollows(w) /\ DiscardFollows(w) /\ HoldFollows(w)

-----------------------------------------------------------------------------
(* What a step does to the workers *)

Others(w) == \A v \in Workers \ {w} : worker'[v] = worker[v]
Updated(w) == worker' \in [Workers -> Worker] /\ Others(w)

\* The worker is in a place where it holds and remembers no sandbox.
LeftPcs == {"idle", "reading", "failing", "committing", "dirtying"}
Drops(w) ==
  /\ Updated(w) /\ worker'[w].pc \in LeftPcs /\ ~worker'[w].won
  /\ worker'[w].pc # "idle" => worker'[w].turn = worker[w].turn

\* The worker goes on with all that it knows.
Continues(w, pc) ==
  /\ Updated(w) /\ worker'[w].pc = pc
  /\ worker'[w].turn = worker[w].turn /\ worker'[w].seen = worker[w].seen
  /\ worker'[w].box = worker[w].box /\ worker'[w].fence = worker[w].fence
  /\ worker'[w].old = worker[w].old /\ worker'[w].won = worker[w].won
  /\ worker'[w].files = worker[w].files

\* The empty records are typed.
LEMMA EmptyType == NoLease \in Lease /\ IdleWorker \in Worker /\ IdleCleaner \in Cleaner /\ NoSnapshot \in Snapshot
<1>1. NoLease \in Lease
  BY WorkspaceAssumption DEF NoLease, Lease
<1>2. NoSnapshot \in Snapshot
  BY WorkspaceAssumption DEF NoSnapshot, Snapshot
<1>3. IdleCleaner \in Cleaner
  BY WorkspaceAssumption DEF IdleCleaner, Cleaner
<1>4. IdleWorker \in Worker
  BY <1>1, WorkspaceAssumption DEF IdleWorker, Worker, WorkerPc
<1> QED
  BY <1>1, <1>2, <1>3, <1>4

\* The initial state satisfies the invariant.
LEMMA InitInv == Init => WorkspaceInv
<1> SUFFICES ASSUME Init PROVE WorkspaceInv
  OBVIOUS
<1>1. TypeOK
  <2>1. run \in Run /\ exec \in Exec
    BY WorkspaceAssumption DEF Init, Run, Exec, NoExec, Final
  <2>2. sandbox \in [Sandboxes -> Sandbox] /\ cleanup \in [Sandboxes -> Cleanup]
    BY DEF Init, Sandbox, Cleanup
  <2> QED
    BY <2>1, <2>2, EmptyType DEF Init, TypeOK
<1>2. Stable = {}
  BY DEF Init, Stable, NoSnapshot
<1>3. TurnsFollow
  BY DEF Init, TurnsFollow, NoSnapshot, IdleWorker, Final
<1>4. SnapshotsFollow
  <2>1. {snapshot[t].version : t \in Stable} = 1..Cardinality(Stable)
    BY <1>2, FS_EmptySet
  <2> QED
    BY <1>2, <2>1 DEF Init, SnapshotsFollow, NoSnapshot, IdleWorker, NoExec
<1>5. LeaseFollows /\ CleanupsFollow /\ FilesFollow
  BY <1>2 DEF Init, LeaseFollows, CleanupsFollow, FilesFollow, OnlyCommittedFiles, NoLease, NoSnapshot,
              IdleCleaner, ActiveStatus
<1>6. \A w \in Workers : AcquireFollows(w) /\ DiscardFollows(w) /\ HoldFollows(w)
  BY DEF Init, AcquireFollows, DiscardFollows, HoldFollows, Touched, Holding, Stream, Discarding, IdleWorker
<1> QED
  BY <1>1, <1>3, <1>4, <1>5, <1>6 DEF WorkspaceInv

\* The ways in which an action moves its worker.
LEMMA WorkerMoves ==
  ASSUME TypeOK, NEW w \in Workers
  PROVE  /\ \A pc \in WorkerPc : Goto(w, pc) => Continues(w, pc)
         /\ \A pc \in LeftPcs : \A permanent \in BOOLEAN : Leave(w, pc, permanent) => Drops(w)
         /\ \A permanent \in BOOLEAN : Dirty(w, permanent) => Drops(w)
         /\ \A permanent \in BOOLEAN : Raise(w, permanent) => Drops(w)
         /\ worker' = [worker EXCEPT ![w] = IdleWorker] => Drops(w)
<1>1. worker \in [Workers -> Worker] /\ worker[w] \in Worker /\ IdleWorker \in Worker
  BY EmptyType DEF TypeOK
<1>2. ASSUME NEW pc \in WorkerPc, Goto(w, pc) PROVE Continues(w, pc)
  <2> DEFINE new == [worker[w] EXCEPT !.pc = pc]
  <2>1. /\ new \in Worker /\ new.pc = pc /\ new.turn = worker[w].turn /\ new.seen = worker[w].seen
        /\ new.box = worker[w].box /\ new.fence = worker[w].fence /\ new.old = worker[w].old
        /\ new.won = worker[w].won /\ new.files = worker[w].files
    BY <1>1 DEF Worker
  <2>2. worker' = [worker EXCEPT ![w] = new]
    BY <1>2 DEF Goto
  <2> HIDE DEF new
  <2> QED
    BY <1>1, <2>1, <2>2 DEF Continues, Updated, Others
<1>3. ASSUME NEW pc \in LeftPcs, NEW permanent \in BOOLEAN, Leave(w, pc, permanent) PROVE Drops(w)
  <2> DEFINE new == [IdleWorker EXCEPT !.pc = pc, !.turn = worker[w].turn, !.permanent = permanent]
  <2>1. new \in Worker /\ new.pc = pc /\ new.turn = worker[w].turn /\ ~new.won
    BY ZenonT(30), <1>1 DEF Worker, LeftPcs, WorkerPc, IdleWorker
  <2>2. worker' = [worker EXCEPT ![w] = new]
    BY <1>3 DEF Leave
  <2> HIDE DEF new
  <2> QED
    BY <1>1, <2>1, <2>2 DEF Drops, Updated, Others
<1>4. ASSUME NEW permanent \in BOOLEAN, Dirty(w, permanent) PROVE Drops(w)
  <2> DEFINE new == [IdleWorker EXCEPT !.pc = "dirtying", !.turn = worker[w].turn,
                       !.box = worker[w].box, !.fence = worker[w].fence, !.permanent = permanent]
  <2>1. new \in Worker /\ new.pc = "dirtying" /\ new.turn = worker[w].turn /\ ~new.won
    BY <1>1 DEF Worker, WorkerPc, IdleWorker
  <2>2. worker' = [worker EXCEPT ![w] = new]
    BY <1>4 DEF Dirty
  <2> HIDE DEF new
  <2> QED
    BY <1>1, <2>1, <2>2 DEF Drops, Updated, Others, LeftPcs
<1>5. ASSUME NEW permanent \in BOOLEAN, Raise(w, permanent) PROVE Drops(w)
  BY <1>3, <1>4, <1>5 DEF Raise, LeftPcs
<1>6. worker' = [worker EXCEPT ![w] = IdleWorker] => Drops(w)
  BY <1>1 DEF Drops, Updated, Others, LeftPcs, IdleWorker
<1> QED
  BY <1>2, <1>3, <1>4, <1>5, <1>6

-----------------------------------------------------------------------------
(* Steps that take nothing from the other workers *)

\* Nobody else relies on this sandbox being there, or being unknown.
Free(s) == \A v \in Workers : worker[v].pc = "creating" => worker[v].box # s
MayGo(s) ==
  /\ lease.box = s /\ lease.status = "active" => lease.expired
  /\ Free(s)
  /\ \A v \in Workers : worker[v].pc = "renewed" /\ worker[v].seen.box = s =>
       ~(lease.status = "active" /\ lease.fence = worker[v].seen.fence)

\* The row stays that of one sandbox, holder and fence; a sandbox that may goes,
\* and what is written to the leased one is its holder's or was published;
\* a sandbox that is not leased is to be cleaned up; Snapshots become STABLE.
Steady ==
  /\ lease'.fence = lease.fence /\ lease'.box = lease.box /\ lease'.holder = lease.holder
  /\ lease'.status = "none" <=> lease.status = "none"
  /\ lease'.status = "active" => lease.status = "active"
  /\ lease'.status \in ActiveStatus => lease.status \in ActiveStatus
  /\ lease.expired => lease'.expired
  /\ \A s \in Sandboxes :
       /\ \/ sandbox'[s].files = sandbox[s].files
          \/ /\ Free(s)
             /\ lease.status \in ActiveStatus /\ lease.box = s =>
                  sandbox'[s].files \subseteq sandbox[s].files \cup {lease.holder} \cup Stable
       /\ sandbox'[s].state # sandbox[s].state =>
            sandbox'[s].state = "gone" /\ Exists(s) /\ MayGo(s)
       /\ cleanup'[s].status # "none" /\ cleanup[s].status = "none" =>
            Exists(s) /\ Free(s) /\ (lease'.box = s => lease'.status # "active")
       /\ cleanup[s].status # "none" => cleanup'[s].status # "none"
       /\ cleanup'[s].status = "succeeded" =>
            cleanup[s].status = "succeeded" \/ sandbox[s].state = "gone"
  /\ \A t \in Turns : snapshot[t].status = "stable" => snapshot'[t].status = "stable"

\* No worker comes to touch a sandbox that another one has just created.
TouchesKept ==
  \A v \in Workers : \A s \in Sandboxes : s \in Touched(v)' => s \in Touched(v) \/ Free(s)

WorkerFollows(w) == AcquireFollows(w) /\ DiscardFollows(w) /\ HoldFollows(w)

\* A sandbox that exists does not become one to be created.
LEMMA SteadyExists ==
  ASSUME TypeOK, TypeOK', Steady, NEW s, Exists(s)
  PROVE  s \in Sandboxes /\ sandbox'[s].state # "none"
BY DEF TypeOK, Steady, Exists

\* Such a step keeps what the workers that do not move rely on.
LEMMA SteadyKeeps ==
  ASSUME WorkspaceInv, TypeOK', Steady, TouchesKept, NEW v \in Workers, worker'[v] = worker[v]
  PROVE  WorkerFollows(v)'
<1>1. /\ TypeOK /\ CleanupsFollow /\ LeaseFollows
      /\ AcquireFollows(v) /\ DiscardFollows(v) /\ HoldFollows(v)
  BY DEF WorkspaceInv
<1>2. /\ worker[v] \in Worker /\ lease \in Lease /\ lease' \in Lease
      /\ sandbox \in [Sandboxes -> Sandbox] /\ sandbox' \in [Sandboxes -> Sandbox]
  BY <1>1 DEF TypeOK
<1>3. \A s : Exists(s) => Exists(s)'
  BY <1>2 DEF Steady, Exists
<1>4. Stable \subseteq Stable'
  BY DEF Steady, Stable
<1>5. \A fence, box, holder : Known(fence, box, holder) =>
        Known(fence, box, holder)'
  BY DEF Known, Steady
<1>6. Touched(v)' = Touched(v) /\ (Holding(v)' <=> Holding(v))
  BY DEF Touched, Holding
<1>7. AcquireFollows(v)'
  <2>1. ASSUME worker[v].pc \in {"deciding", "renewed", "creating"}
        PROVE  /\ Known(worker[v].seen.fence, worker[v].seen.box, worker[v].seen.holder)'
               /\ worker[v].seen.status = "none" => worker[v].seen.box = 0
               /\ worker[v].seen.status # "none" => Exists(worker[v].seen.box)' /\ worker[v].seen.holder \in Turns
    <3>1. Known(worker[v].seen.fence, worker[v].seen.box, worker[v].seen.holder)
      BY <1>1, <2>1 DEF AcquireFollows
    <3>2. Known(worker[v].seen.fence, worker[v].seen.box, worker[v].seen.holder)'
      BY <3>1 DEF Known, Steady
    <3>3. worker[v].seen.status # "none" => Exists(worker[v].seen.box)'
      <4>1. worker[v].seen.status # "none" => Exists(worker[v].seen.box)
        BY <1>1, <2>1 DEF AcquireFollows
      <4> QED
        BY <4>1, <1>2 DEF Exists, Steady
    <3> QED
      BY <1>1, <2>1, <3>2, <3>3 DEF AcquireFollows
  <2>2. ASSUME worker[v].pc = "renewed"
        PROVE  /\ worker[v].seen.status \in ActiveStatus
               /\ worker[v].seen.holder = worker[v].turn \/ worker[v].seen.holder \in Stable'
               /\ lease'.status = "active" /\ lease'.fence = worker[v].seen.fence =>
                    sandbox'[worker[v].seen.box].state = "alive"
    <3>1. worker[v].seen.status \in ActiveStatus /\ Exists(worker[v].seen.box)
      BY <1>1, <2>2 DEF AcquireFollows, ActiveStatus
    <3>2. worker[v].seen.holder = worker[v].turn \/ worker[v].seen.holder \in Stable
      BY <1>1, <2>2 DEF AcquireFollows
    <3>3. lease'.status = "active" /\ lease'.fence = worker[v].seen.fence =>
            sandbox[worker[v].seen.box].state = "alive" /\ lease.status = "active"
            /\ lease.fence = worker[v].seen.fence
      BY <1>1, <2>2 DEF AcquireFollows, Steady
    <3> QED
      BY <1>2, <1>4, <2>2, <3>1, <3>2, <3>3 DEF Steady, MayGo, Exists
  <2>3. ASSUME worker[v].pc = "creating"
        PROVE  /\ sandbox'[worker[v].box].state = "alive" /\ sandbox'[worker[v].box].files \subseteq Stable'
               /\ lease'.box # worker[v].box /\ cleanup'[worker[v].box].status = "none"
               /\ \A u \in Workers \ {v} : worker[v].box \notin Touched(u)'
    <3>1. /\ sandbox[worker[v].box].state = "alive" /\ sandbox[worker[v].box].files \subseteq Stable
          /\ lease.box # worker[v].box /\ cleanup[worker[v].box].status = "none"
          /\ \A u \in Workers \ {v} : worker[v].box \notin Touched(u)
      BY <1>1, <2>3 DEF AcquireFollows
    <3>2. worker[v].box \in Sandboxes /\ ~Free(worker[v].box)
      <4>1. worker[v].box \in Touched(v)
        BY <2>3 DEF Touched
      <4> QED
        BY <1>1, <2>3, <4>1 DEF HoldFollows, Exists, Free
    <3>3. \A u \in Workers \ {v} : worker[v].box \notin Touched(u)'
      BY <3>1, <3>2 DEF TouchesKept
    <3> QED
      BY <1>4, <3>1, <3>2, <3>3 DEF Steady, MayGo
  <2> QED
    BY <1>1, <2>1, <2>2, <2>3 DEF AcquireFollows
<1>8. DiscardFollows(v)'
  <2>1. worker[v].pc = "discarded" => worker[v].old \in Sandboxes
    BY <1>1 DEF HoldFollows, Touched, Discarding, Exists
  <2> QED
    BY <1>1, <1>2, <2>1 DEF DiscardFollows, Steady, Discarding
<1>9. HoldFollows(v)'
  <2>1. \A s \in Touched(v)' : Exists(s)'
    BY <1>1, <1>3, <1>6 DEF HoldFollows
  <2>2. ASSUME Holding(v)
        PROVE  /\ Known(worker[v].fence, worker[v].box, worker[v].turn)'
               /\ lease'.status \in ActiveStatus /\ lease'.box = worker[v].box =>
                    worker[v].turn = lease'.holder \/ worker[v].turn \in Stable'
    <3>1. Known(worker[v].fence, worker[v].box, worker[v].turn)
      BY <1>1, <2>2 DEF HoldFollows
    <3>2. Known(worker[v].fence, worker[v].box, worker[v].turn)'
      BY <3>1 DEF Known, Steady
    <3> QED
      BY <1>1, <1>4, <2>2, <3>2 DEF HoldFollows, Steady
  <2>3. worker[v].pc = "staging" /\ Holds(v)' => worker[v].files \subseteq {worker[v].turn} \cup Stable'
    BY <1>1, <1>4 DEF HoldFollows, Holds, Steady
  <2> QED
    BY <1>6, <2>1, <2>2, <2>3 DEF HoldFollows
<1> QED
  BY <1>7, <1>8, <1>9 DEF WorkerFollows

\* And it keeps the rows in order.
LEMMA SteadyRows ==
  ASSUME WorkspaceInv, TypeOK', Steady
  PROVE  /\ LeaseFollows' /\ OnlyCommittedFiles'
         /\ \A s \in Sandboxes :
              /\ cleanup'[s].status # "none" => Exists(s)' /\ (lease'.box = s => lease'.status # "active")
              /\ cleanup'[s].status = "succeeded" => sandbox'[s].state = "gone"
         /\ \A s \in Sandboxes : sandbox[s].state = "gone" => sandbox'[s].state = "gone"
         /\ UNCHANGED cleaner => CleanupsFollow'
         /\ UNCHANGED snapshot => FilesFollow'
<1>1. TypeOK /\ CleanupsFollow /\ LeaseFollows /\ FilesFollow
  BY DEF WorkspaceInv
<1>2. /\ lease \in Lease /\ lease' \in Lease
      /\ sandbox \in [Sandboxes -> Sandbox] /\ sandbox' \in [Sandboxes -> Sandbox]
  BY <1>1 DEF TypeOK
<1>3. Stable \subseteq Stable'
  BY DEF Steady, Stable
<1>4. LeaseFollows'
  <2>1. lease.status # "none" => Exists(lease.box) /\ lease.holder \in Turns
    BY <1>1 DEF LeaseFollows
  <2>2. lease'.status # "none" => Exists(lease.box)'
    BY <1>2, <2>1 DEF Exists, Steady
  <2>3. ASSUME lease'.status = "active", ~lease'.expired PROVE sandbox'[lease'.box].state = "alive"
    <3>1. lease.status = "active" /\ ~lease.expired
      BY <2>3 DEF Steady
    <3>2. sandbox[lease.box].state = "alive" /\ lease.box \in Sandboxes
      BY <1>1, <3>1 DEF LeaseFollows, Exists
    <3> QED
      BY <3>1, <3>2 DEF Steady, MayGo
  <2> QED
    BY <1>1, <2>1, <2>2, <2>3 DEF LeaseFollows, Steady
<1>5. OnlyCommittedFiles'
  <2>1. lease'.status \in ActiveStatus => lease.status \in ActiveStatus /\ lease.box \in Sandboxes
    BY <1>1 DEF Steady, LeaseFollows, Exists, ActiveStatus
  <2> QED
    BY <1>1, <1>3, <2>1 DEF OnlyCommittedFiles, FilesFollow, Steady
<1>6. \A s \in Sandboxes : sandbox[s].state = "gone" => sandbox'[s].state = "gone"
  BY DEF Steady
<1>7. ASSUME NEW s \in Sandboxes
      PROVE  /\ cleanup'[s].status # "none" => Exists(s)' /\ (lease'.box = s => lease'.status # "active")
             /\ cleanup'[s].status = "succeeded" => sandbox'[s].state = "gone"
  <2>1. Exists(s) => Exists(s)'
    BY <1>2 DEF Exists, Steady
  <2> QED
    BY <1>1, <1>6, <2>1 DEF CleanupsFollow, Steady
<1>8. UNCHANGED cleaner => CleanupsFollow'
  BY <1>1, <1>6, <1>7 DEF CleanupsFollow, Steady
<1>9. UNCHANGED snapshot => FilesFollow'
  BY <1>1, <1>5 DEF FilesFollow, Stable
<1> QED
  BY <1>4, <1>5, <1>6, <1>7, <1>8, <1>9

\* Neither a Turn nor a success comes with the step.
RunKeeps ==
  /\ run'.turn = run.turn /\ (run.turn = 0 => run'.status \in Final)
  /\ run.status = "succeeded" => run'.status = "succeeded"
  /\ exec'.state = "succeeded" => exec.state = "succeeded"

\* The STABLE versions are numbered from 1, so the latest is their number.
LEMMA LatestIsCount ==
  ASSUME WorkspaceInv
  PROVE  /\ IsFiniteSet(Stable) /\ Cardinality(Stable) \in Nat
         /\ LatestVersion = Cardinality(Stable)
<1> DEFINE versions == {snapshot[t].version : t \in Stable}
           n == Cardinality(Stable)
<1>1. IsFiniteSet(Stable) /\ n \in Nat
  <2>1. IsFiniteSet(Turns)
    BY WorkspaceAssumption, FS_Interval DEF Turns
  <2>2. Stable \subseteq Turns
    BY DEF Stable
  <2> QED
    BY <2>1, <2>2, FS_Subset, FS_CardinalityType
<1>2. versions = 1..n
  BY DEF WorkspaceInv, SnapshotsFollow
<1>3. CASE Stable = {}
  BY <1>3, FS_EmptySet DEF LatestVersion
<1>4. CASE Stable # {}
  <2>1. n \in versions /\ \A t \in Stable : snapshot[t].version <= n
    <3>1. n # 0
      BY <1>1, <1>4, FS_EmptySet
    <3>2. \A t \in Stable : snapshot[t].version \in versions
      OBVIOUS
    <3> HIDE DEF versions, n
    <3> QED
      BY <1>1, <1>2, <3>1, <3>2
  <2>2. LatestVersion = CHOOSE v \in versions : \A t \in Stable : snapshot[t].version <= v
    BY <1>4 DEF LatestVersion
  <2>3. LatestVersion \in versions /\ \A t \in Stable : snapshot[t].version <= LatestVersion
    <3> HIDE DEF n
    <3> QED
      BY <2>1, <2>2
  <2>4. PICK t \in Stable : snapshot[t].version = n
    BY <2>1
  <2>5. n <= LatestVersion
    BY <2>3, <2>4
  <2> HIDE DEF versions, n
  <2> QED
    BY <1>1, <1>2, <2>3, <2>5 DEF n
<1> QED
  BY <1>1, <1>3, <1>4

\* Nothing but a worker's Turn and place matters to the Turns.
LEMMA TurnsKept ==
  ASSUME WorkspaceInv, TypeOK', RunKeeps, UNCHANGED snapshot,
         \A v \in Workers : worker'[v].pc # "idle" =>
           /\ worker'[v].turn \in Turns /\ worker'[v].turn <= run.turn
           /\ worker'[v].pc = "succeeding" => snapshot[worker'[v].turn].status # "none"
  PROVE  TurnsFollow' /\ SnapshotsFollow'
<1>1. TurnsFollow /\ SnapshotsFollow
  BY DEF WorkspaceInv
<1>2. Stable' = Stable
  BY DEF Stable
<1>3. TurnsFollow'
  BY <1>1 DEF TurnsFollow, RunKeeps
<1>4. SnapshotsFollow'
  BY <1>1, <1>2 DEF SnapshotsFollow, RunKeeps
<1> QED
  BY <1>3, <1>4

\* A step of one worker that takes nothing from the others.
LEMMA AllFollow ==
  ASSUME WorkspaceInv, TypeOK', Steady, NEW w \in Workers, Updated(w), WorkerFollows(w)',
         \A s \in Sandboxes : s \in Touched(w)' => s \in Touched(w) \/ Free(s)
  PROVE  \A v \in Workers : WorkerFollows(v)'
<1>1. \A v \in Workers \ {w} : Touched(v)' = Touched(v)
  BY DEF Updated, Others, Touched
<1>2. TouchesKept
  BY <1>1 DEF TouchesKept
<1>3. \A v \in Workers \ {w} : WorkerFollows(v)'
  BY <1>2, SteadyKeeps DEF Updated, Others
<1> QED
  BY <1>3

\* The same with the Turns.
LEMMA WorkerSteps ==
  ASSUME WorkspaceInv, TypeOK', Steady, RunKeeps, UNCHANGED <<snapshot, cleaner>>,
         NEW w \in Workers, Updated(w), WorkerFollows(w)',
         \A s \in Sandboxes : s \in Touched(w)' => s \in Touched(w) \/ Free(s),
         worker'[w].pc # "idle" => worker'[w].turn \in Turns /\ worker'[w].turn <= run.turn,
         worker'[w].pc = "succeeding" => snapshot[worker'[w].turn].status # "none"
  PROVE  WorkspaceInv'
<1>1. TurnsFollow /\ SnapshotsFollow
  BY DEF WorkspaceInv
<1>2. \A v \in Workers : worker'[v].pc # "idle" =>
        /\ worker'[v].turn \in Turns /\ worker'[v].turn <= run.turn
        /\ worker'[v].pc = "succeeding" => snapshot[worker'[v].turn].status # "none"
  BY <1>1 DEF TurnsFollow, SnapshotsFollow, Updated, Others
<1>3. TurnsFollow' /\ SnapshotsFollow'
  BY <1>2, TurnsKept
<1>4. \A v \in Workers : WorkerFollows(v)'
  BY AllFollow
<1> QED
  BY <1>3, <1>4, SteadyRows DEF WorkspaceInv, WorkerFollows

\* A worker that has left its sandbox has nothing to rely on.
LEMMA DropSteps ==
  ASSUME WorkspaceInv, TypeOK', Steady, RunKeeps, UNCHANGED <<snapshot, cleaner>>,
         NEW w \in Workers, worker[w].pc # "idle", Drops(w)
  PROVE  WorkspaceInv'
<1>1. Touched(w)' = {} /\ ~Holding(w)' /\ WorkerFollows(w)'
  BY DEF Drops, LeftPcs, Touched, Holding, Stream, Discarding, WorkerFollows, AcquireFollows,
         DiscardFollows, HoldFollows
<1>2. worker'[w].pc # "idle" => worker'[w].turn \in Turns /\ worker'[w].turn <= run.turn
  BY DEF WorkspaceInv, TurnsFollow, Drops
<1> QED
  BY <1>1, <1>2, WorkerSteps DEF Drops, LeftPcs

\* A worker goes on in its sandbox.
LEMMA StreamFollows ==
  ASSUME WorkspaceInv, TypeOK', Steady,
         NEW w \in Workers, worker[w].pc \in Stream, Updated(w),
         worker'[w].pc \in Stream,
         worker'[w].pc = "staging" /\ Holds(w)' =>
           worker'[w].files \subseteq {worker[w].turn} \cup Stable,
         worker'[w].turn = worker[w].turn, worker'[w].box = worker[w].box,
         worker'[w].fence = worker[w].fence
  PROVE  /\ WorkerFollows(w)' /\ Touched(w)' = Touched(w)
         /\ worker[w].turn \in Turns /\ worker[w].turn <= run.turn
<1>1. HoldFollows(w)
  BY DEF WorkspaceInv
<1>2. Touched(w) = {worker[w].box} /\ Touched(w)' = {worker[w].box} /\ Holding(w)
  BY DEF Touched, Stream, Discarding, Holding
<1>3. /\ Known(worker[w].fence, worker[w].box, worker[w].turn) /\ Exists(worker[w].box)
      /\ lease.status \in ActiveStatus /\ lease.box = worker[w].box =>
           worker[w].turn = lease.holder \/ worker[w].turn \in Stable
  BY <1>1, <1>2 DEF HoldFollows
<1>4. worker[w].box \in Sandboxes /\ sandbox'[worker[w].box].state # "none"
  BY <1>3, SteadyExists DEF WorkspaceInv, Exists
<1>5. HoldFollows(w)'
  <2>1. /\ worker[w].fence <= lease'.fence
        /\ worker[w].fence = lease'.fence =>
             worker[w].box = lease'.box /\ worker[w].turn = lease'.holder
    BY <1>3 DEF Known, Steady
  <2>2. lease'.status \in ActiveStatus /\ lease'.box = worker[w].box =>
           worker[w].turn = lease'.holder \/ worker[w].turn \in Stable'
    BY <1>3 DEF Steady, Stable
  <2>3. Stable \subseteq Stable'
    BY DEF Steady, Stable
  <2> QED
    BY <1>2, <1>4, <2>1, <2>2, <2>3 DEF HoldFollows, Known, Exists
<1>6. AcquireFollows(w)' /\ DiscardFollows(w)'
  BY DEF AcquireFollows, DiscardFollows, Stream, Discarding
<1>7. worker[w].turn \in Turns /\ worker[w].turn <= run.turn
  BY DEF WorkspaceInv, TurnsFollow, Stream
<1> QED
  BY <1>2, <1>5, <1>6, <1>7 DEF WorkerFollows

\* The same with the Turns.
LEMMA StreamSteps ==
  ASSUME WorkspaceInv, TypeOK', Steady, RunKeeps, UNCHANGED <<snapshot, cleaner>>,
         NEW w \in Workers, worker[w].pc \in Stream, Updated(w),
         worker'[w].pc \in Stream,
         worker'[w].pc = "staging" /\ Holds(w)' =>
           worker'[w].files \subseteq {worker[w].turn} \cup Stable,
         worker'[w].turn = worker[w].turn, worker'[w].box = worker[w].box,
         worker'[w].fence = worker[w].fence,
         worker'[w].pc = "succeeding" => snapshot[worker[w].turn].status # "none"
  PROVE  WorkspaceInv'
BY StreamFollows, WorkerSteps

-----------------------------------------------------------------------------
(* Steps without a worker *)

\* A step that leaves the rows and the sandboxes alone.
LEMMA QuietSteady == UNCHANGED <<lease, sandbox, cleanup, snapshot>> => Steady
BY DEF Steady

\* Workers and cleaners rest while a step takes nothing from them.
LEMMA RestSteps ==
  ASSUME WorkspaceInv, TypeOK', Steady, RunKeeps, UNCHANGED <<snapshot, worker>>,
         UNCHANGED cleaner \/ CleanupsFollow'
  PROVE  WorkspaceInv'
<1>1. TurnsFollow' /\ SnapshotsFollow'
  BY TurnsKept DEF WorkspaceInv, TurnsFollow, SnapshotsFollow
<1>2. TouchesKept
  BY DEF TouchesKept, Touched
<1>3. \A v \in Workers : WorkerFollows(v)'
  BY <1>2, SteadyKeeps
<1> QED
  BY <1>1, <1>3, SteadyRows DEF WorkspaceInv, WorkerFollows

\* A cleanup is enqueued at most once.
LEMMA EnqueuedMoves ==
  ASSUME TypeOK, NEW r \in Sandboxes, cleanup' = Enqueued(r)
  PROVE  /\ cleanup' \in [Sandboxes -> Cleanup]
         /\ \A s \in Sandboxes : s # r => cleanup'[s] = cleanup[s]
         /\ cleanup[r].status # "none" => cleanup'[r] = cleanup[r]
         /\ cleanup[r].status = "none" => cleanup'[r].status = "pending"
<1>1. cleanup \in [Sandboxes -> Cleanup]
  BY DEF TypeOK
<1>2. CASE cleanup[r].status = "none"
  <2>1. [cleanup[r] EXCEPT !.status = "pending"] \in Cleanup
    BY <1>1 DEF Cleanup
  <2>2. cleanup' = [cleanup EXCEPT ![r] = [cleanup[r] EXCEPT !.status = "pending"]]
    BY <1>1, <1>2 DEF Enqueued
  <2> QED
    BY <1>1, <1>2, <2>1, <2>2 DEF Cleanup
<1>3. CASE cleanup[r].status # "none"
  BY <1>1, <1>3 DEF Enqueued
<1> QED
  BY <1>2, <1>3

\* A sandbox that is gone.
LEMMA GoneMoves ==
  ASSUME TypeOK, NEW s \in Sandboxes, sandbox' = [sandbox EXCEPT ![s].state = "gone"]
  PROVE  /\ sandbox' \in [Sandboxes -> Sandbox]
         /\ sandbox'[s].state = "gone" /\ sandbox'[s].files = sandbox[s].files
         /\ \A r \in Sandboxes : r # s => sandbox'[r] = sandbox[r]
<1>1. sandbox \in [Sandboxes -> Sandbox]
  BY DEF TypeOK
<1>2. [sandbox[s] EXCEPT !.state = "gone"] \in Sandbox
  BY <1>1 DEF Sandbox
<1>3. sandbox' = [sandbox EXCEPT ![s] = [sandbox[s] EXCEPT !.state = "gone"]]
  BY <1>1
<1> QED
  BY <1>1, <1>2, <1>3 DEF Sandbox

\* What is not leased and nobody's new sandbox may go: a worker that is about to
\* renew relies on the sandbox of an ACTIVE Lease only.
LEMMA MayGoWhen ==
  ASSUME WorkspaceInv, NEW s \in Sandboxes, Free(s), lease.box = s => lease.status # "active"
  PROVE  MayGo(s)
BY DEF WorkspaceInv, AcquireFollows, Known, MayGo

\* A sandbox with a cleanup is no worker's new one.
LEMMA CleanedIsFree ==
  ASSUME WorkspaceInv, NEW s \in Sandboxes, cleanup[s].status # "none"
  PROVE  Free(s) /\ Exists(s) /\ MayGo(s)
<1>1. Free(s)
  BY DEF Free, WorkspaceInv, AcquireFollows
<1>2. Exists(s) /\ (lease.box = s => lease.status # "active")
  BY DEF WorkspaceInv, CleanupsFollow
<1> QED
  BY <1>1, <1>2, MayGoWhen

\* The Turn moves on, its Run is cancelled or reclaimed, or its lease lapses.
LEMMA RunSteps ==
  ASSUME WorkspaceInv, PostTurn \/ CancelRun \/ Reclaim \/ ExecLapses
  PROVE  WorkspaceInv'
<1>1. TypeOK /\ TurnsFollow /\ SnapshotsFollow
      /\ UNCHANGED <<lease, sandbox, snapshot, cleanup, worker, cleaner>>
  BY DEF WorkspaceInv, PostTurn, CancelRun, Reclaim, ExecLapses
<1>2. run \in Run /\ exec \in Exec
  BY <1>1 DEF TypeOK
<1>3. CASE PostTurn
  <2>1. run' = [turn |-> run.turn + 1, status |-> "queued", attempts |-> 0]
        /\ exec' = NoExec /\ exec'.state = "none" /\ run.turn < MaxTurns
    BY <1>3 DEF PostTurn, NoExec
  <2>2. run' \in Run /\ exec' \in Exec /\ run.turn \in Nat /\ run.turn + 1 \in Turns
    BY <1>2, <2>1, WorkspaceAssumption DEF Run, Exec, NoExec, Turns
  <2>3. TypeOK'
    BY <1>1, <2>2 DEF TypeOK
  <2>4. \A t \in Turns : snapshot[t].status # "none" => t # run.turn + 1
    BY <1>1, <2>2 DEF TurnsFollow, Turns
  <2>5. Stable' = Stable /\ \A t \in Stable : t \in Turns /\ snapshot[t].status # "none"
    BY <1>1 DEF Stable
  <2>6. TurnsFollow'
    <3>1. \A t \in Turns : t <= run.turn => t <= run.turn + 1
      BY <2>2 DEF Turns
    <3> QED
      BY <1>1, <2>1, <2>2, <3>1 DEF TurnsFollow
  <2>7. SnapshotsFollow'
    BY <1>1, <2>1, <2>4, <2>5 DEF SnapshotsFollow
  <2>8. Steady /\ TouchesKept
    BY <1>1, QuietSteady DEF TouchesKept, Touched
  <2>9. \A v \in Workers : WorkerFollows(v)'
    BY <1>1, <2>3, <2>8, SteadyKeeps
  <2> QED
    BY <1>1, <2>3, <2>6, <2>7, <2>8, <2>9, SteadyRows DEF WorkspaceInv, WorkerFollows
<1>4. ASSUME RunKeeps, run' \in Run, exec' \in Exec PROVE WorkspaceInv'
  BY <1>1, <1>4, QuietSteady, RestSteps DEF TypeOK
<1>5. CASE CancelRun
  <2>1. PICK status \in {"cancel_requested", "cancelled"} : run' = [run EXCEPT !.status = status]
    BY <1>5 DEF CancelRun
  <2>2. run' \in Run /\ run'.turn = run.turn /\ exec' = exec /\ run.turn # 0 /\ run.status # "succeeded"
    BY <1>1, <1>2, <1>5, <2>1 DEF CancelRun, Run, Final, TurnsFollow
  <2> QED
    BY <1>2, <1>4, <2>2 DEF RunKeeps
<1>6. CASE Reclaim
  <2>1. PICK status \in {"queued", "failed", "cancelled"} : run' = [run EXCEPT !.status = status]
    BY <1>6 DEF Reclaim, AfterFailure
  <2>2. run' \in Run /\ run'.turn = run.turn /\ run.turn # 0 /\ run.status # "succeeded"
    BY <1>1, <1>2, <1>6, <2>1 DEF Reclaim, Run, Final, TurnsFollow
  <2> QED
    BY <1>2, <1>4, <1>6, <2>2 DEF Reclaim, RunKeeps
<1>7. CASE ExecLapses
  <2>1. exec' \in Exec /\ exec'.state = exec.state /\ UNCHANGED run
    BY <1>2, <1>7 DEF ExecLapses, Exec
  <2> QED
    BY <1>1, <1>2, <1>4, <2>1 DEF RunKeeps, TurnsFollow
<1> QED
  BY <1>3, <1>5, <1>6, <1>7

\* The Lease and the Provider expire, and the Lease is retired with the cleanup
\* of its sandbox.
LEMMA ExpirySteps ==
  ASSUME WorkspaceInv, LeaseExpires \/ EnqueueDue \/ (\E s \in Sandboxes : ProviderExpires(s))
  PROVE  WorkspaceInv'
<1>1. TypeOK /\ LeaseFollows /\ UNCHANGED <<run, exec, snapshot, worker, cleaner>> /\ RunKeeps
  BY DEF WorkspaceInv, TurnsFollow, RunKeeps, LeaseExpires, EnqueueDue, ProviderExpires
<1>2. /\ lease \in Lease /\ sandbox \in [Sandboxes -> Sandbox] /\ cleanup \in [Sandboxes -> Cleanup]
  BY <1>1 DEF TypeOK
<1>3. ASSUME LeaseExpires PROVE TypeOK' /\ Steady
  <2>1. lease' = [lease EXCEPT !.expired = TRUE] /\ UNCHANGED <<sandbox, cleanup>>
    BY <1>3 DEF LeaseExpires
  <2>2. lease' \in Lease
    BY <1>2, <2>1 DEF Lease
  <2> QED
    BY <1>1, <1>2, <2>1, <2>2 DEF TypeOK, Steady, Lease
<1>4. ASSUME EnqueueDue PROVE TypeOK' /\ Steady
  <2>1. lease' = [lease EXCEPT !.status = "retired"] /\ cleanup' = Enqueued(lease.box)
        /\ UNCHANGED sandbox /\ lease.status # "none"
    BY <1>4 DEF EnqueueDue, ActiveStatus
  <2>2. lease' \in Lease /\ lease'.status = "retired" /\ lease'.fence = lease.fence
        /\ lease'.box = lease.box /\ lease'.holder = lease.holder /\ lease'.expired = lease.expired
    BY <1>2, <2>1 DEF Lease
  <2>3. Exists(lease.box)
    BY <1>1, <2>1 DEF LeaseFollows
  <2>4. /\ cleanup' \in [Sandboxes -> Cleanup]
        /\ \A s \in Sandboxes : s # lease.box => cleanup'[s] = cleanup[s]
        /\ cleanup[lease.box].status # "none" => cleanup'[lease.box] = cleanup[lease.box]
        /\ cleanup[lease.box].status = "none" => cleanup'[lease.box].status = "pending"
    BY <1>1, <2>1, <2>3, EnqueuedMoves DEF Exists
  <2>5. Free(lease.box)
    BY DEF Free, WorkspaceInv, AcquireFollows
  <2>6. TypeOK'
    BY <1>1, <1>2, <2>1, <2>2, <2>4 DEF TypeOK
  <2>7. Steady
    BY <1>1, <2>1, <2>2, <2>3, <2>4, <2>5 DEF Steady, ActiveStatus
  <2> QED
    BY <2>6, <2>7
<1>5. ASSUME NEW s \in Sandboxes, ProviderExpires(s) PROVE TypeOK' /\ Steady
  <2>1. sandbox' = [sandbox EXCEPT ![s].state = "gone"] /\ UNCHANGED <<lease, cleanup>>
        /\ sandbox[s].state = "alive"
    BY <1>5 DEF ProviderExpires
  <2>2. /\ sandbox' \in [Sandboxes -> Sandbox]
        /\ sandbox'[s].state = "gone" /\ sandbox'[s].files = sandbox[s].files
        /\ \A r \in Sandboxes : r # s => sandbox'[r] = sandbox[r]
    BY <1>1, <2>1, GoneMoves
  <2>3. MayGo(s) /\ Exists(s)
    BY <1>5, <2>1 DEF ProviderExpires, MayGo, Exists, Free
  <2>4. TypeOK'
    BY <1>1, <2>1, <2>2 DEF TypeOK
  <2>5. Steady
    BY <1>1, <2>1, <2>2, <2>3 DEF Steady
  <2> QED
    BY <2>4, <2>5
<1> QED
  BY <1>1, <1>3, <1>4, <1>5, RestSteps

\* The cleanup of replaced sandboxes.
LEMMA CleanerSteps ==
  ASSUME WorkspaceInv, NEW k \in Cleaners, Clean(k) \/ DestroyFails(k) \/ CleanerCrash(k)
  PROVE  WorkspaceInv'
<1>1. TypeOK /\ CleanupsFollow /\ UNCHANGED <<run, exec, lease, snapshot, worker>> /\ RunKeeps
  BY DEF WorkspaceInv, TurnsFollow, RunKeeps, Clean, Destroy, FinishCleanup, ClaimCleanup,
         DestroyFails, CleanerCrash
<1>2. /\ sandbox \in [Sandboxes -> Sandbox] /\ cleanup \in [Sandboxes -> Cleanup]
      /\ cleaner \in [Cleaners -> Cleaner] /\ cleaner[k] \in Cleaner
  BY <1>1 DEF TypeOK
<1>3. ASSUME TypeOK', Steady, \A j \in Cleaners \ {k} : cleaner'[j] = cleaner[j],
             cleaner'[k].pc # "idle" =>
               /\ cleaner'[k].box \in Sandboxes /\ cleanup'[cleaner'[k].box].status # "none"
               /\ cleaner'[k].pc = "completing" => sandbox'[cleaner'[k].box].state = "gone"
      PROVE  WorkspaceInv'
  <2>1. \A j \in Cleaners \ {k} : cleaner[j].pc # "idle" =>
          /\ cleaner[j].box \in Sandboxes /\ cleanup'[cleaner[j].box].status # "none"
          /\ cleaner[j].pc = "completing" => sandbox'[cleaner[j].box].state = "gone"
    BY <1>1, <1>3, SteadyRows DEF CleanupsFollow, Steady
  <2>2. CleanupsFollow'
    BY <1>1, <1>3, <2>1, SteadyRows DEF CleanupsFollow
  <2> QED
    BY <1>1, <1>3, <2>2, RestSteps
<1>4. ASSUME NEW s \in Sandboxes, ClaimCleanup(k, s) PROVE WorkspaceInv'
  <2> DEFINE row == [status |-> "running", owner |-> k, attempts |-> cleanup[s].attempts + 1]
             new == [pc |-> "destroying", box |-> s, attempt |-> cleanup[s].attempts + 1]
  <2>1. row \in Cleanup /\ row.status = "running"
    BY <1>2 DEF Cleanup
  <2>2. new \in Cleaner /\ new.pc = "destroying" /\ new.box = s
    BY <1>2, WorkspaceAssumption DEF Cleaner, Cleanup, Sandboxes
  <2>3. cleanup' = [cleanup EXCEPT ![s] = row] /\ cleaner' = [cleaner EXCEPT ![k] = new]
        /\ UNCHANGED sandbox /\ cleanup[s].status \in {"pending", "running"}
    BY <1>4 DEF ClaimCleanup
  <2> HIDE DEF row, new
  <2>4. TypeOK'
    BY <1>1, <1>2, <2>1, <2>2, <2>3 DEF TypeOK
  <2>5. Steady
    BY <1>1, <1>2, <2>1, <2>3 DEF Steady
  <2> QED
    BY <1>2, <1>3, <2>1, <2>2, <2>3, <2>4, <2>5
<1>5. ASSUME Destroy(k) PROVE WorkspaceInv'
  <2> DEFINE s == cleaner[k].box
  <2>1. /\ sandbox' = [sandbox EXCEPT ![s].state = "gone"] /\ UNCHANGED cleanup
        /\ cleaner' = [cleaner EXCEPT ![k].pc = "completing"] /\ cleaner[k].pc = "destroying"
    BY <1>5 DEF Destroy
  <2>2. s \in Sandboxes /\ cleanup[s].status # "none"
    BY <1>1, <2>1 DEF CleanupsFollow
  <2>3. /\ sandbox' \in [Sandboxes -> Sandbox]
        /\ sandbox'[s].state = "gone" /\ sandbox'[s].files = sandbox[s].files
        /\ \A r \in Sandboxes : r # s => sandbox'[r] = sandbox[r]
    BY <1>1, <2>1, <2>2, GoneMoves
  <2>4. [cleaner[k] EXCEPT !.pc = "completing"] \in Cleaner
    BY <1>2 DEF Cleaner
  <2>5. /\ cleaner' \in [Cleaners -> Cleaner] /\ cleaner'[k].pc = "completing" /\ cleaner'[k].box = s
        /\ \A j \in Cleaners \ {k} : cleaner'[j] = cleaner[j]
    BY <1>2, <2>1, <2>4 DEF Cleaner
  <2>6. Exists(s) /\ MayGo(s)
    BY <2>2, CleanedIsFree
  <2>7. TypeOK'
    BY <1>1, <2>1, <2>3, <2>5 DEF TypeOK
  <2>8. Steady
    BY <1>1, <2>1, <2>3, <2>6 DEF Steady
  <2> QED
    BY <1>3, <2>1, <2>2, <2>3, <2>5, <2>7, <2>8
<1>6. ASSUME FinishCleanup(k) PROVE WorkspaceInv'
  <2> DEFINE s == cleaner[k].box
             row == [cleanup[s] EXCEPT !.owner = NoCleaner,
                       !.status = IF cleaner[k].pc = "completing" THEN "succeeded" ELSE "pending"]
  <2>1. /\ cleaner' = [cleaner EXCEPT ![k] = IdleCleaner] /\ UNCHANGED sandbox
        /\ cleanup' \in {cleanup, [cleanup EXCEPT ![s] = row]}
        /\ cleaner[k].pc \in {"completing", "retrying"}
    BY <1>6 DEF FinishCleanup
  <2>2. s \in Sandboxes /\ cleanup[s].status # "none"
        /\ (cleaner[k].pc = "completing" => sandbox[s].state = "gone")
    BY <1>1, <2>1 DEF CleanupsFollow
  <2>3. row \in Cleanup /\ row.status \in {"pending", "succeeded"}
        /\ (row.status = "succeeded" => cleaner[k].pc = "completing")
    BY ZenonT(30), <1>2, <2>2 DEF Cleanup
  <2> HIDE DEF row
  <2>4. cleaner' \in [Cleaners -> Cleaner] /\ cleaner'[k].pc = "idle"
        /\ \A j \in Cleaners \ {k} : cleaner'[j] = cleaner[j]
    BY <1>2, <2>1, EmptyType DEF IdleCleaner
  <2>5. TypeOK'
    BY <1>1, <1>2, <2>1, <2>2, <2>3, <2>4 DEF TypeOK
  <2>6. Steady
    BY <1>1, <1>2, <2>1, <2>2, <2>3 DEF Steady
  <2> QED
    BY <1>3, <2>4, <2>5, <2>6
<1>7. ASSUME DestroyFails(k) \/ CleanerCrash(k) PROVE WorkspaceInv'
  <2>1. UNCHANGED <<sandbox, cleanup>>
    BY <1>7 DEF DestroyFails, CleanerCrash
  <2>2. PICK new \in Cleaner : cleaner' = [cleaner EXCEPT ![k] = new]
                             /\ (new.pc = "idle" \/ (new.pc = "retrying" /\ new.box = cleaner[k].box
                                                      /\ cleaner[k].pc # "idle"))
    <3>1. CASE DestroyFails(k)
      <4>1. [cleaner[k] EXCEPT !.pc = "retrying"] \in Cleaner
            /\ [cleaner[k] EXCEPT !.pc = "retrying"].pc = "retrying"
            /\ [cleaner[k] EXCEPT !.pc = "retrying"].box = cleaner[k].box
        BY <1>2 DEF Cleaner
      <4>2. cleaner' = [cleaner EXCEPT ![k] = [cleaner[k] EXCEPT !.pc = "retrying"]]
            /\ cleaner[k].pc = "destroying"
        BY <3>1 DEF DestroyFails
      <4> QED
        BY <4>1, <4>2
    <3>2. CASE CleanerCrash(k)
      BY <3>2, EmptyType DEF CleanerCrash, IdleCleaner
    <3> QED
      BY <1>7, <3>1, <3>2
  <2>3. TypeOK'
    BY <1>1, <1>2, <2>1, <2>2 DEF TypeOK
  <2>4. Steady
    BY <1>1, <2>1, QuietSteady
  <2> QED
    BY <1>1, <1>2, <1>3, <2>1, <2>2, <2>3, <2>4 DEF CleanupsFollow
<1> QED
  BY <1>4, <1>5, <1>6, <1>7 DEF Clean

-----------------------------------------------------------------------------
(* The Run of the Turn *)

\* The worker starts an Attempt, without a sandbox yet.
LEMMA StartSteps ==
  ASSUME WorkspaceInv, NEW w \in Workers, StartAttempt(w)
  PROVE  WorkspaceInv'
<1> DEFINE new == [IdleWorker EXCEPT !.turn = run.turn,
                          !.permanent = exec.state \in {"failed", "cancelled"},
                          !.pc = CASE exec.state = "succeeded" -> "committing"
                                   [] exec.state = "none" -> "reading"
                                   [] exec.state = "running" /\ exec.owner = NoWorker -> "reading"
                                   [] OTHER -> "failing"]
<1>1. TypeOK /\ TurnsFollow /\ UNCHANGED <<exec, lease, sandbox, snapshot, cleanup, cleaner>>
  BY DEF WorkspaceInv, StartAttempt
<1>2. run' = [run EXCEPT !.status = "running", !.attempts = run.attempts + 1]
      /\ worker' = [worker EXCEPT ![w] = new] /\ run.status = "queued"
  BY DEF StartAttempt
<1>3. run \in Run /\ worker \in [Workers -> Worker] /\ IdleWorker \in Worker
  BY <1>1, EmptyType DEF TypeOK
<1>4. run' \in Run /\ run'.turn = run.turn /\ run.turn # 0
  <2>1. [run EXCEPT !.status = "running"] \in Run /\ run.attempts + 1 \in Nat
    BY <1>3 DEF Run
  <2> QED
    BY <1>1, <1>2, <1>3, <2>1 DEF Run, TurnsFollow, Final
<1>5. run.turn \in Turns /\ run.turn <= run.turn /\ run.turn \in 0..MaxTurns
  BY <1>3, <1>4, WorkspaceAssumption DEF Run, Turns
<1>6. new \in Worker /\ new.turn = run.turn /\ new.pc \in LeftPcs /\ ~new.won
  <2> DEFINE pc == CASE exec.state = "succeeded" -> "committing"
                     [] exec.state = "none" -> "reading"
                     [] exec.state = "running" /\ exec.owner = NoWorker -> "reading"
                     [] OTHER -> "failing"
             permanent == exec.state \in {"failed", "cancelled"}
  <2>1. pc \in {"committing", "reading", "failing"} /\ permanent \in BOOLEAN
    <3>1. pc \in {"committing", "reading", "failing"}
      BY Zenon
    <3>2. permanent \in BOOLEAN
      OBVIOUS
    <3> QED
      BY <3>1, <3>2
  <2>2. new = [IdleWorker EXCEPT !.turn = run.turn, !.permanent = permanent, !.pc = pc]
    OBVIOUS
  <2> HIDE DEF new, pc, permanent
  <2>3. pc \in WorkerPc /\ pc \in LeftPcs
    BY <2>1 DEF WorkerPc, LeftPcs
  <2> QED
    BY <1>3, <1>5, <2>1, <2>2, <2>3 DEF Worker, IdleWorker
<1> HIDE DEF new
<1>7. Updated(w) /\ worker'[w] = new
  BY <1>2, <1>3, <1>6 DEF Updated, Others
<1>8. TypeOK'
  BY <1>1, <1>4, <1>7 DEF TypeOK, Updated
<1>9. Touched(w)' = {} /\ WorkerFollows(w)'
  BY <1>6, <1>7 DEF LeftPcs, Touched, Holding, Stream, Discarding, WorkerFollows, AcquireFollows,
         DiscardFollows, HoldFollows
<1>10. RunKeeps
  BY <1>1, <1>2, <1>4 DEF RunKeeps
<1> QED
  BY <1>1, <1>5, <1>6, <1>7, <1>8, <1>9, <1>10, QuietSteady, WorkerSteps DEF LeftPcs

\* The worker leaves: its error is handled, it crashes, or it is told to stop.
LEMMA LeaveSteps ==
  ASSUME WorkspaceInv, NEW w \in Workers,
         Fail(w) \/ Crash(w) \/ Watch(w) \/ PrepareFails(w) \/ ReadFails(w) \/ CallFails(w) \/ MarkDirty(w)
  PROVE  WorkspaceInv'
<1>1. TypeOK /\ TurnsFollow /\ UNCHANGED <<sandbox, snapshot, cleanup, cleaner>>
      /\ worker[w].pc # "idle"
  BY DEF WorkspaceInv, Fail, Crash, Watch, PrepareFails, ReadFails, CallFails, MarkDirty, InStream
<1>2. run \in Run /\ exec \in Exec /\ lease \in Lease /\ worker[w] \in Worker
  BY <1>1 DEF TypeOK
<1>3. Drops(w)
  <2>1. CASE Fail(w) \/ Crash(w)
    BY <1>1, <2>1, WorkerMoves DEF Fail, Crash
  <2>2. CASE Watch(w)
    BY <1>1, <2>2, WorkerMoves DEF Watch
  <2>3. CASE PrepareFails(w)
    <3>1. "failing" \in LeftPcs
      BY DEF LeftPcs
    <3> QED
      BY <1>1, <2>3, <3>1, WorkerMoves DEF PrepareFails
  <2>4. CASE ReadFails(w) \/ CallFails(w)
    BY <1>1, <2>4, WorkerMoves DEF ReadFails, CallFails
  <2>5. CASE MarkDirty(w)
    <3>1. "failing" \in LeftPcs /\ worker[w].permanent \in BOOLEAN
      BY <1>2 DEF LeftPcs, Worker
    <3> QED
      BY <1>1, <2>5, <3>1, WorkerMoves DEF MarkDirty
  <2> QED
    BY <2>1, <2>2, <2>3, <2>4, <2>5
<1>4. exec' \in Exec /\ (exec'.state = "succeeded" => exec.state = "succeeded")
  <2>1. CASE Watch(w)
    BY <1>2, <2>1, WorkspaceAssumption DEF Watch, Exec, Final
  <2>2. CASE CallFails(w)
    <3>1. Released(w) \in Exec /\ Released(w).state = exec.state
      BY <1>2 DEF Released, Exec
    <3>2. Ended(w, "failed") \in Exec /\ (Ended(w, "failed").state = "succeeded" => exec.state = "succeeded")
      BY <1>2 DEF Ended, Exec, Final
    <3> QED
      BY <2>2, <3>1, <3>2 DEF CallFails
  <2>3. CASE UNCHANGED exec
    BY <1>2, <2>3
  <2> QED
    BY <2>1, <2>2, <2>3 DEF Fail, Crash, PrepareFails, ReadFails, MarkDirty
<1>5. run' \in Run /\ run'.turn = run.turn /\ (run.turn = 0 => run'.status \in Final)
      /\ (run.status = "succeeded" => run'.status = "succeeded")
  <2>1. CASE Fail(w)
    <3>1. PICK status \in {run.status, "queued", "failed", "cancelled"} :
            run' = [run EXCEPT !.status = status]
            /\ (status # run.status => run.status \in {"running", "cancel_requested"})
      <4>1. run = [run EXCEPT !.status = run.status]
        BY <1>2 DEF Run
      <4>2. \A final : AfterFailure(final) \in {"queued", "failed"}
        BY DEF AfterFailure
      <4>3. CASE Current(w) /\ run.status = "running"
        BY <2>1, <4>2, <4>3 DEF Fail
      <4>4. CASE Current(w) /\ run.status = "cancel_requested"
        BY <2>1, <4>4 DEF Fail
      <4>5. CASE ~(Current(w) /\ run.status = "running") /\ ~(Current(w) /\ run.status = "cancel_requested")
        BY <2>1, <4>1, <4>5 DEF Fail
      <4> QED
        BY <4>3, <4>4, <4>5
    <3> QED
      BY <1>1, <1>2, <3>1 DEF Run, Final, TurnsFollow
  <2>2. CASE UNCHANGED run
    BY <1>1, <1>2, <2>2 DEF TurnsFollow
  <2> QED
    BY <2>1, <2>2 DEF Crash, Watch, PrepareFails, ReadFails, CallFails, MarkDirty
<1>6. lease' \in Lease /\ Steady
  <2>1. CASE MarkDirty(w)
    <3>1. lease' \in {lease, [lease EXCEPT !.status = "dirty"]}
          /\ (lease' # lease => lease.status \in ActiveStatus)
      BY <2>1 DEF MarkDirty
    <3>2. [lease EXCEPT !.status = "dirty"] \in Lease
      BY <1>2 DEF Lease
    <3> QED
      BY <1>1, <1>2, <3>1, <3>2 DEF Steady, Lease, ActiveStatus
  <2>2. CASE UNCHANGED lease
    BY <1>1, <1>2, <2>2, QuietSteady
  <2> QED
    BY <2>1, <2>2 DEF Fail, Crash, Watch, PrepareFails, ReadFails, CallFails
<1>7. TypeOK'
  BY <1>1, <1>3, <1>4, <1>5, <1>6 DEF TypeOK, Drops, Updated
<1>8. RunKeeps
  BY <1>4, <1>5 DEF RunKeeps
<1> QED
  BY <1>1, <1>3, <1>6, <1>7, <1>8, DropSteps

-----------------------------------------------------------------------------
(* The Turn in its workspace *)

\* The runtime is entered, calls its tools and answers.
LEMMA CallSteps ==
  ASSUME WorkspaceInv, NEW w \in Workers, Claim(w) \/ Begin(w) \/ BeginWrite(w) \/ Write(w) \/ Answer(w)
  PROVE  WorkspaceInv'
<1>1. TypeOK /\ TurnsFollow /\ UNCHANGED <<run, lease, snapshot, cleanup, cleaner>>
      /\ worker[w].pc \in Stream
  BY DEF WorkspaceInv, Claim, Begin, BeginWrite, Write, Answer, Stream
<1>2. exec \in Exec /\ worker \in [Workers -> Worker] /\ sandbox \in [Sandboxes -> Sandbox]
  BY <1>1 DEF TypeOK
<1>3. /\ worker[w].turn \in Turns /\ worker[w].box \in Sandboxes /\ worker[w].pc # "idle"
      /\ Exists(worker[w].box)
      /\ lease.status \in ActiveStatus /\ lease.box = worker[w].box =>
           worker[w].turn = lease.holder \/ worker[w].turn \in Stable
  BY <1>1 DEF TurnsFollow, WorkspaceInv, HoldFollows, Touched, Exists, Stream, Holding
<1>4. ASSUME TypeOK', Steady, RunKeeps, Drops(w) PROVE WorkspaceInv'
  BY <1>1, <1>3, <1>4, DropSteps
<1>5. ASSUME TypeOK', Steady, RunKeeps, NEW pc \in {"claimed", "working", "writing", "listing"}, Continues(w, pc)
      PROVE  WorkspaceInv'
  BY <1>1, <1>5, StreamSteps DEF Continues, Stream
<1>6. run'.turn = run.turn /\ (run.turn = 0 => run'.status \in Final)
  BY <1>1 DEF TurnsFollow
<1>7. ASSUME Drops(w) \/ \E pc \in {"claimed", "working", "writing", "listing"} : Continues(w, pc),
             UNCHANGED sandbox, exec' \in Exec,
             exec'.state = "succeeded" => exec.state = "succeeded"
      PROVE  WorkspaceInv'
  <2>1. TypeOK' /\ Steady /\ RunKeeps
    BY <1>1, <1>6, <1>7, QuietSteady DEF TypeOK, Drops, Continues, Updated, RunKeeps
  <2> QED
    BY <1>4, <1>5, <1>7, <2>1
<1>8. "claimed" \in WorkerPc /\ "working" \in WorkerPc /\ "writing" \in WorkerPc /\ "listing" \in WorkerPc
  BY DEF WorkerPc
<1>9. CASE Claim(w)
  <2>1. CASE Raise(w, FALSE) /\ UNCHANGED exec
    BY <1>1, <1>2, <1>7, <1>9, <2>1, WorkerMoves DEF Claim
  <2>2. CASE exec' = [exec EXCEPT !.state = "running", !.owner = w] /\ Goto(w, "claimed")
    <3>1. exec' \in Exec /\ exec'.state # "succeeded"
      BY <1>2, <2>2 DEF Exec
    <3> QED
      BY <1>1, <1>7, <1>8, <1>9, <2>2, <3>1, WorkerMoves DEF Claim
  <2> QED
    BY <1>9, <2>1, <2>2 DEF Claim
<1>13. CASE Begin(w)
  <2>1. CASE worker' = [worker EXCEPT ![w].pc = "working", ![w].entered = TRUE]
    <3> DEFINE new == [worker[w] EXCEPT !.pc = "working", !.entered = TRUE]
    <3>1. /\ new \in Worker /\ new.pc = "working" /\ new.turn = worker[w].turn
          /\ new.seen = worker[w].seen /\ new.box = worker[w].box /\ new.fence = worker[w].fence
          /\ new.old = worker[w].old /\ new.won = worker[w].won /\ new.files = worker[w].files
      BY <1>2, <1>8 DEF Worker
    <3>2. worker' = [worker EXCEPT ![w] = new]
      BY <1>2, <2>1
    <3> HIDE DEF new
    <3>3. Continues(w, "working")
      BY <1>2, <3>1, <3>2 DEF Continues, Updated, Others
    <3> QED
      BY <1>2, <1>7, <1>13, <3>3 DEF Begin
  <2>2. CASE Goto(w, "listing")
    BY <1>1, <1>2, <1>7, <1>8, <1>13, <2>2, WorkerMoves DEF Begin
  <2> QED
    BY <1>13, <2>1, <2>2 DEF Begin
<1>10. CASE BeginWrite(w)
  BY <1>1, <1>2, <1>7, <1>8, <1>10, WorkerMoves DEF BeginWrite
<1>11. CASE Answer(w)
  <2>1. exec' \in Exec /\ exec'.state = exec.state
    BY <1>2, <1>11 DEF Answer, Exec
  <2> QED
    BY <1>1, <1>7, <1>8, <1>11, <2>1, WorkerMoves DEF Answer
<1>12. CASE Write(w)
  <2>1. CASE exec' = Released(w) /\ Raise(w, FALSE) /\ UNCHANGED sandbox
    <3>1. exec' \in Exec /\ exec'.state = exec.state
      BY <1>2, <2>1 DEF Released, Exec
    <3> QED
      BY <1>1, <1>7, <2>1, <3>1, WorkerMoves
  <2>2. CASE /\ sandbox' = [sandbox EXCEPT ![worker[w].box].files = @ \cup {worker[w].turn}]
             /\ Goto(w, "working") /\ UNCHANGED exec
    <3> DEFINE b == worker[w].box
    <3>1. Continues(w, "working")
      BY <1>1, <1>8, <2>2, WorkerMoves
    <3>2. /\ sandbox' \in [Sandboxes -> Sandbox] /\ sandbox'[b].state = sandbox[b].state
          /\ sandbox'[b].files = sandbox[b].files \cup {worker[w].turn}
          /\ \A s \in Sandboxes : s # b => sandbox'[s] = sandbox[s]
      <4>1. [sandbox[b] EXCEPT !.files = @ \cup {worker[w].turn}] \in Sandbox
        BY <1>2, <1>3 DEF Sandbox
      <4>2. sandbox' = [sandbox EXCEPT ![b] = [sandbox[b] EXCEPT !.files = @ \cup {worker[w].turn}]]
        BY <1>2, <2>2
      <4> QED
        BY <1>2, <1>3, <4>1, <4>2 DEF Sandbox
    <3>3. Free(b)
      <4>1. b \in Touched(w) /\ worker[w].pc # "creating"
        BY <1>1 DEF Touched, Stream
      <4> QED
        BY <4>1 DEF WorkspaceInv, AcquireFollows, Free
    <3>4. TypeOK'
      BY <1>1, <2>2, <3>1, <3>2 DEF TypeOK, Continues, Updated
    <3>5. Steady
      BY <1>1, <1>3, <3>2, <3>3 DEF Steady
    <3>6. RunKeeps
      BY <1>1, <1>6, <2>2 DEF RunKeeps
    <3> QED
      BY <1>5, <3>1, <3>4, <3>5, <3>6
  <2> QED
    BY <1>12, <2>1, <2>2 DEF Write
<1> QED
  BY <1>9, <1>10, <1>11, <1>12, <1>13

\* The files are listed for the Snapshot, or nothing is staged.
LEMMA ListSteps ==
  ASSUME WorkspaceInv, NEW w \in Workers, ListFiles(w)
  PROVE  WorkspaceInv'
<1>1. TypeOK /\ TurnsFollow /\ UNCHANGED <<run, lease, sandbox, snapshot, cleanup, cleaner>>
      /\ worker[w].pc = "listing"
  BY DEF WorkspaceInv, ListFiles
<1>2. exec \in Exec /\ worker \in [Workers -> Worker] /\ sandbox \in [Sandboxes -> Sandbox]
      /\ snapshot \in [Turns -> Snapshot]
  BY <1>1 DEF TypeOK
<1>3. Steady /\ run'.turn = run.turn /\ (run.turn = 0 => run'.status \in Final)
  BY <1>1, QuietSteady DEF TurnsFollow
<1>4. ASSUME Drops(w), exec' \in Exec, exec'.state = "succeeded" => exec.state = "succeeded"
      PROVE  WorkspaceInv'
  <2>1. TypeOK' /\ RunKeeps
    BY <1>1, <1>3, <1>4 DEF TypeOK, Drops, Updated, RunKeeps
  <2> QED
    BY <1>1, <1>3, <1>4, <2>1, DropSteps
<1>5. Released(w) \in Exec /\ Released(w).state = exec.state
  BY <1>2 DEF Released, Exec
<1>6. Ended(w, "failed") \in Exec /\ (Ended(w, "failed").state = "succeeded" => exec.state = "succeeded")
  BY <1>2 DEF Ended, Exec, Final
<1>7. CASE snapshot[worker[w].turn].status # "none" /\ Goto(w, "succeeding") /\ UNCHANGED exec
  <2>1. Continues(w, "succeeding")
    BY <1>1, <1>7, WorkerMoves DEF WorkerPc
  <2>2. TypeOK' /\ RunKeeps
    BY <1>1, <1>2, <1>3, <1>7, <2>1 DEF TypeOK, Continues, Updated, RunKeeps
  <2> QED
    BY <1>1, <1>3, <1>7, <2>1, <2>2, StreamSteps DEF Continues, Stream
<1>8. CASE /\ worker' = [worker EXCEPT ![w].pc = "staging", ![w].version = LatestVersion + 1,
                                       ![w].files = sandbox[worker[w].box].files]
           /\ UNCHANGED exec
  <2> DEFINE files == sandbox[worker[w].box].files
             new == [worker[w] EXCEPT !.pc = "staging", !.version = LatestVersion + 1, !.files = files]
  <2>1. worker[w].box \in Sandboxes /\ HoldFollows(w)
    BY <1>1 DEF WorkspaceInv, HoldFollows, Touched, Exists, Stream
  <2>2. LatestVersion + 1 \in Nat
    BY LatestIsCount
  <2>3. files \in SUBSET Turns
    BY <1>2, <2>1 DEF Sandbox
  <2> HIDE DEF files
  <2>4. /\ new \in Worker /\ new.pc = "staging" /\ new.turn = worker[w].turn
        /\ new.box = worker[w].box /\ new.fence = worker[w].fence /\ new.files = files
    BY ZenonT(60), <1>2, <2>2, <2>3 DEF Worker, WorkerPc
  <2>5. worker' = [worker EXCEPT ![w] = new]
    BY <1>2, <1>8 DEF files
  <2> HIDE DEF new
  <2>6. Updated(w) /\ worker'[w] = new
    BY <1>2, <2>4, <2>5 DEF Updated, Others
  <2>7. Holds(w)' => files \subseteq {worker[w].turn} \cup Stable
    BY <1>1, <2>4, <2>6 DEF Holds, WorkspaceInv, FilesFollow, OnlyCommittedFiles, files
  <2>8. TypeOK' /\ RunKeeps
    BY <1>1, <1>2, <1>3, <1>8, <2>6 DEF TypeOK, Updated, RunKeeps
  <2> QED
    BY <1>1, <1>3, <2>4, <2>6, <2>7, <2>8, StreamSteps DEF Stream
<1>9. CASE exec' = Ended(w, "failed") /\ Dirty(w, TRUE)
  BY <1>1, <1>4, <1>6, <1>9, WorkerMoves
<1>10. CASE exec' = Released(w) /\ Leave(w, "failing", FALSE)
  <2>1. "failing" \in LeftPcs
    BY DEF LeftPcs
  <2> QED
    BY <1>1, <1>4, <1>5, <1>10, <2>1, WorkerMoves
<1> QED
  BY <1>7, <1>8, <1>9, <1>10 DEF ListFiles

\* The Snapshot is staged, found staged, or refused.
LEMMA StageSteps ==
  ASSUME WorkspaceInv, NEW w \in Workers, Stage(w)
  PROVE  WorkspaceInv'
<1> DEFINE t == worker[w].turn
           row == [status |-> "staged", version |-> worker[w].version, files |-> worker[w].files,
                   box |-> worker[w].box]
<1>1. TypeOK /\ TurnsFollow /\ SnapshotsFollow /\ FilesFollow
      /\ UNCHANGED <<run, lease, sandbox, cleanup, cleaner>> /\ worker[w].pc = "staging"
  BY DEF WorkspaceInv, Stage
<1>2. exec \in Exec /\ worker \in [Workers -> Worker] /\ snapshot \in [Turns -> Snapshot]
      /\ t \in Turns /\ t <= run.turn
  BY <1>1 DEF TypeOK, TurnsFollow
<1>3. run'.turn = run.turn /\ (run.turn = 0 => run'.status \in Final)
  BY <1>1 DEF TurnsFollow
<1>4. ASSUME Staged(w)
      PROVE  /\ Updated(w) /\ worker'[w].pc = "succeeding" /\ worker'[w].turn = t
             /\ worker'[w].box = worker[w].box /\ worker'[w].fence = worker[w].fence
  <2> DEFINE new == [worker[w] EXCEPT !.pc = "succeeding", !.version = 0, !.files = {}]
  <2>1. /\ new \in Worker /\ new.pc = "succeeding" /\ new.turn = t
        /\ new.box = worker[w].box /\ new.fence = worker[w].fence
    BY ZenonT(30), <1>2 DEF Worker, WorkerPc
  <2>2. worker' = [worker EXCEPT ![w] = new]
    BY <1>2, <1>4 DEF Staged
  <2> HIDE DEF new
  <2> QED
    BY <1>2, <2>1, <2>2 DEF Updated, Others
<1>5. ASSUME Holds(w), worker[w].version = LatestVersion + 1, snapshot[t].status = "none",
             snapshot' = [snapshot EXCEPT ![t] = row], Staged(w), UNCHANGED exec
      PROVE  WorkspaceInv'
  <2>1. row \in Snapshot /\ row.status = "staged" /\ row.version = Cardinality(Stable) + 1
        /\ row.files \subseteq {t} \cup Stable
    <3>1. worker[w].files \subseteq {t} \cup Stable
      BY <1>1, <1>5 DEF WorkspaceInv, HoldFollows
    <3> QED
      BY <1>2, <1>5, <3>1, LatestIsCount DEF Snapshot, Worker
  <2> HIDE DEF row
  <2>2. /\ snapshot' \in [Turns -> Snapshot] /\ snapshot'[t] = row
        /\ \A u \in Turns : u # t => snapshot'[u] = snapshot[u]
    BY <1>2, <1>5, <2>1
  <2>3. Stable' = Stable /\ t \notin Stable
    BY <1>2, <1>5, <2>1, <2>2 DEF Stable
  <2>4. TypeOK' /\ Steady
    <3>1. TypeOK'
      BY <1>1, <1>2, <1>4, <1>5, <2>2 DEF TypeOK, Updated
    <3>2. \A u \in Turns : snapshot[u].status = "stable" => snapshot'[u].status = "stable"
      BY <1>5, <2>2
    <3> QED
      BY <1>1, <3>1, <3>2 DEF Steady
  <2>5. WorkerFollows(w)' /\ Touched(w)' = Touched(w)
    BY <1>1, <1>4, <1>5, <2>4, StreamFollows DEF Stream
  <2>6. \A v \in Workers : WorkerFollows(v)'
    BY <1>4, <1>5, <2>4, <2>5, AllFollow
  <2>7. TurnsFollow'
    BY <1>1, <1>2, <1>3, <1>4, <1>5, <2>2 DEF TurnsFollow, Updated, Others
  <2>8. {snapshot'[u].version : u \in Stable} = {snapshot[u].version : u \in Stable}
    BY <2>2, <2>3 DEF Stable
  <2>9. SnapshotsFollow'
    <3>1. \A u, v \in Stable : u < v => snapshot'[u].version < snapshot'[v].version
      BY <1>1, <2>2, <2>3 DEF SnapshotsFollow, Stable
    <3>2. \A u \in Turns : u = run.turn /\ snapshot'[u].status = "staged" =>
            snapshot'[u].version = Cardinality(Stable) + 1
      BY <1>1, <2>1, <2>2 DEF SnapshotsFollow
    <3>3. \A v \in Workers : worker'[v].pc = "succeeding" => snapshot'[worker'[v].turn].status # "none"
      <4>1. ASSUME NEW v \in Workers, worker'[v].pc = "succeeding"
            PROVE  snapshot'[worker'[v].turn].status # "none"
        <5>1. CASE v = w
          BY <1>4, <1>5, <2>1, <2>2, <5>1
        <5>2. CASE v # w
          <6>1. worker'[v] = worker[v] /\ worker[v].turn \in Turns
            BY <1>1, <1>4, <1>5, <4>1, <5>2 DEF Updated, Others, TurnsFollow
          <6> QED
            BY <1>1, <1>5, <2>1, <2>2, <4>1, <6>1 DEF SnapshotsFollow
        <5> QED
          BY <5>1, <5>2
      <4> QED
        BY <4>1
    <3>4. exec'.state = "succeeded" => run.turn \in Turns /\ snapshot'[run.turn].status # "none"
      BY <1>1, <1>5, <2>1, <2>2 DEF SnapshotsFollow
    <3> QED
      BY <1>1, <2>3, <2>8, <3>1, <3>2, <3>3, <3>4 DEF SnapshotsFollow
  <2>10. FilesFollow'
    <3>1. OnlyCommittedFiles'
      BY <2>4, SteadyRows
    <3>2. \A u \in Turns : snapshot'[u].status # "none" => snapshot'[u].files \subseteq {u} \cup Stable
      BY <1>1, <2>1, <2>2 DEF FilesFollow
    <3>3. \A u \in Stable : snapshot'[u].files \subseteq {v \in Stable : v <= u}
      BY <1>1, <2>2, <2>3 DEF FilesFollow, Stable
    <3> QED
      BY <2>3, <3>1, <3>2, <3>3 DEF FilesFollow
  <2> QED
    BY <1>1, <2>4, <2>6, <2>7, <2>9, <2>10, SteadyRows DEF WorkspaceInv, WorkerFollows
<1>6. ASSUME snapshot[t].status # "none", Staged(w), UNCHANGED <<exec, snapshot>>
      PROVE  WorkspaceInv'
  <2>1. TypeOK' /\ Steady /\ RunKeeps
    BY <1>1, <1>3, <1>4, <1>6, QuietSteady DEF TypeOK, Updated, RunKeeps
  <2> QED
    BY <1>1, <1>4, <1>6, <2>1, StreamSteps DEF Stream
<1>7. ASSUME exec' = Released(w), Leave(w, "failing", FALSE), UNCHANGED snapshot
      PROVE  WorkspaceInv'
  <2>1. Released(w) \in Exec /\ Released(w).state = exec.state
    BY <1>2 DEF Released, Exec
  <2>2. Drops(w)
    BY <1>1, <1>7, WorkerMoves DEF LeftPcs
  <2>3. TypeOK' /\ Steady /\ RunKeeps
    BY <1>1, <1>3, <1>7, <2>1, <2>2, QuietSteady DEF TypeOK, Drops, Updated, RunKeeps
  <2> QED
    BY <1>1, <1>7, <2>2, <2>3, DropSteps
<1> QED
  BY <1>5, <1>6, <1>7 DEF Stage

\* The RuntimeExecution succeeds behind a Snapshot, or the worker is told to stop.
LEMMA SucceedSteps ==
  ASSUME WorkspaceInv, NEW w \in Workers, Succeed(w)
  PROVE  WorkspaceInv'
<1>1. TypeOK /\ TurnsFollow /\ SnapshotsFollow
      /\ UNCHANGED <<run, lease, sandbox, snapshot, cleanup, cleaner>> /\ worker[w].pc = "succeeding"
  BY DEF WorkspaceInv, Succeed
<1>2. exec \in Exec
  BY <1>1 DEF TypeOK
<1>3. Drops(w)
  BY <1>1, WorkerMoves DEF Succeed, LeftPcs
<1>4. exec' \in Exec
  <2>1. Ended(w, "succeeded") \in Exec
    BY <1>2 DEF Ended, Exec, Final
  <2> QED
    BY <1>2, <2>1 DEF Succeed
<1>5. TypeOK' /\ Steady
  BY <1>1, <1>3, <1>4, QuietSteady DEF TypeOK, Drops, Updated
<1>6. CASE Active(w)
  <2>1. run.turn \in Turns /\ snapshot[run.turn].status # "none"
    BY <1>1, <1>6 DEF Active, Current, TurnsFollow, SnapshotsFollow
  <2>2. Stable' = Stable
    BY <1>1 DEF Stable
  <2>3. TurnsFollow'
    BY <1>1, <1>3 DEF TurnsFollow, Drops, Updated, Others
  <2>4. SnapshotsFollow'
    BY <1>1, <1>3, <2>1, <2>2 DEF SnapshotsFollow, Drops, Updated, Others, LeftPcs
  <2>5. WorkerFollows(w)' /\ Touched(w)' = {}
    BY <1>3 DEF Drops, LeftPcs, Touched, Holding, Stream, Discarding, WorkerFollows, AcquireFollows,
         DiscardFollows, HoldFollows
  <2>6. \A v \in Workers : WorkerFollows(v)'
    BY <1>3, <1>5, <2>5, AllFollow DEF Drops
  <2> QED
    BY <1>1, <1>5, <2>3, <2>4, <2>6, SteadyRows DEF WorkspaceInv, WorkerFollows
<1>7. CASE ~Active(w)
  <2>1. RunKeeps
    BY <1>1, <1>7 DEF RunKeeps, Succeed, TurnsFollow
  <2> QED
    BY <1>1, <1>3, <1>5, <2>1, DropSteps
<1> QED
  BY <1>6, <1>7

\* The answer, the Run and the Snapshot are committed together: the latest Turn
\* appends its version to those that are STABLE.
LEMMA CommitSteps ==
  ASSUME WorkspaceInv, NEW w \in Workers, Commit(w)
  PROVE  WorkspaceInv'
<1> DEFINE t == worker[w].turn
           n == Cardinality(Stable)
<1>1. TypeOK /\ TurnsFollow /\ SnapshotsFollow /\ FilesFollow
      /\ UNCHANGED <<exec, lease, sandbox, cleanup, cleaner>> /\ worker[w].pc = "committing"
  BY DEF WorkspaceInv, Commit
<1>2. /\ run \in Run /\ worker \in [Workers -> Worker] /\ snapshot \in [Turns -> Snapshot]
      /\ t \in Turns /\ t <= run.turn
  BY <1>1 DEF TypeOK, TurnsFollow
<1>3. CASE Leave(w, "failing", FALSE) /\ UNCHANGED <<run, snapshot>>
  <2>1. Drops(w)
    BY <1>1, <1>3, WorkerMoves DEF LeftPcs
  <2>2. TypeOK' /\ Steady /\ RunKeeps
    BY <1>1, <1>3, <2>1, QuietSteady DEF TypeOK, Drops, Updated, RunKeeps, TurnsFollow
  <2> QED
    BY <1>1, <1>3, <2>1, <2>2, DropSteps
<1>4. ASSUME Current(w), Publishable(t), run' = [run EXCEPT !.status = "succeeded"],
             snapshot' = [snapshot EXCEPT ![t].status = "stable"],
             worker' = [worker EXCEPT ![w] = IdleWorker]
      PROVE  WorkspaceInv'
  <2>1. t = run.turn /\ snapshot[t].status = "staged" /\ snapshot[t].version = n + 1
        /\ IsFiniteSet(Stable) /\ n \in Nat
    BY <1>4, LatestIsCount DEF Current, Publishable
  <2>2. /\ snapshot' \in [Turns -> Snapshot] /\ snapshot'[t].status = "stable"
        /\ snapshot'[t].version = n + 1 /\ snapshot'[t].files = snapshot[t].files
        /\ \A u \in Turns : u # t => snapshot'[u] = snapshot[u]
    <3>1. [snapshot[t] EXCEPT !.status = "stable"] \in Snapshot
      BY <1>2 DEF Snapshot
    <3>2. snapshot' = [snapshot EXCEPT ![t] = [snapshot[t] EXCEPT !.status = "stable"]]
      BY <1>2, <1>4
    <3> QED
      BY <1>2, <2>1, <3>1, <3>2 DEF Snapshot
  <2>3. Stable' = Stable \cup {t} /\ t \notin Stable /\ \A u \in Stable : u \in Turns /\ u < t
    <3>1. Stable' = Stable \cup {t} /\ t \notin Stable /\ Stable \subseteq Turns
      BY <1>2, <2>1, <2>2 DEF Stable
    <3>2. \A u \in Stable : u <= run.turn /\ u # t
      BY <1>1, <3>1 DEF TurnsFollow, Stable
    <3> QED
      BY <1>2, <2>1, <3>1, <3>2 DEF Turns
  <2>4. Cardinality(Stable') = n + 1
    <3> HIDE DEF n
    <3>1. Cardinality(Stable \cup {t}) = Cardinality(Stable) + 1
      BY <2>1, <2>3, FS_AddElement
    <3> QED
      BY <2>3, <3>1 DEF n
  <2>5. run' \in Run /\ run'.turn = run.turn /\ run'.status = "succeeded"
    BY <1>2, <1>4 DEF Run, Final
  <2>6. Drops(w) /\ worker'[w].pc = "idle"
    <3>1. Drops(w)
      BY <1>1, <1>4, WorkerMoves
    <3> QED
      BY <1>2, <1>4, <3>1 DEF IdleWorker
  <2>7. TypeOK' /\ Steady
    <3>1. TypeOK'
      BY <1>1, <2>2, <2>5, <2>6 DEF TypeOK, Drops, Updated
    <3>2. \A u \in Turns : snapshot[u].status = "stable" => snapshot'[u].status = "stable"
      BY <2>2
    <3> QED
      BY <1>1, <3>1, <3>2 DEF Steady
  <2>8. TurnsFollow'
    BY <1>1, <2>1, <2>2, <2>5, <2>6 DEF TurnsFollow, Drops, Updated, Others, Final
  <2>9. SnapshotsFollow'
    <3> HIDE DEF n
    <3>1. {snapshot[u].version : u \in Stable} = 1..n
      BY <1>1 DEF SnapshotsFollow, n
    <3>2. {snapshot'[u].version : u \in Stable'} = 1..(n + 1)
      <4>1. {snapshot'[u].version : u \in Stable'} = {snapshot[u].version : u \in Stable} \cup {n + 1}
        BY <2>2, <2>3
      <4>2. 1..(n + 1) = (1..n) \cup {n + 1}
        BY <2>1
      <4> QED
        BY <3>1, <4>1, <4>2
    <3>3. \A u \in Stable : snapshot[u].version \in Nat /\ snapshot[u].version < n + 1
      <4>1. \A u \in Stable : snapshot[u].version \in 1..n
        BY <3>1
      <4> QED
        BY <2>1, <4>1
    <3>4. \A u, v \in Stable' : u < v => snapshot'[u].version < snapshot'[v].version
      <4>1. ASSUME NEW u \in Stable', NEW v \in Stable', u < v
            PROVE  snapshot'[u].version < snapshot'[v].version
        <5>1. u # t
          BY <1>2, <2>3, <4>1 DEF Turns
        <5>2. CASE v = t
          BY <2>2, <2>3, <3>3, <5>1, <5>2
        <5>3. CASE v # t
          BY <1>1, <2>2, <2>3, <4>1, <5>1, <5>3 DEF SnapshotsFollow
        <5> QED
          BY <5>2, <5>3
      <4> QED
        BY <4>1
    <3>5. \A v \in Workers : worker'[v].pc = "succeeding" =>
            worker[v].turn \in Turns /\ worker'[v] = worker[v] /\ snapshot[worker[v].turn].status # "none"
      BY <1>1, <2>6 DEF SnapshotsFollow, TurnsFollow, Drops, Updated, Others
    <3>6. \A u \in Turns : snapshot[u].status # "none" => snapshot'[u].status # "none"
      BY <2>2
    <3>7. exec'.state = "succeeded" => run.turn \in Turns /\ snapshot'[run.turn].status # "none"
      BY <1>1, <3>6 DEF SnapshotsFollow
    <3>8. \A u \in Turns : u = run.turn => snapshot'[u].status # "staged"
      BY <2>1, <2>2
    <3> QED
      BY <2>4, <2>5, <3>2, <3>4, <3>5, <3>6, <3>7, <3>8 DEF SnapshotsFollow
  <2>10. FilesFollow'
    <3>1. OnlyCommittedFiles'
      BY <2>7, SteadyRows
    <3>2. \A u \in Turns : snapshot'[u].status # "none" => snapshot'[u].files \subseteq {u} \cup Stable'
      BY <1>1, <2>1, <2>2, <2>3 DEF FilesFollow
    <3>3. \A u \in Stable' : snapshot'[u].files \subseteq {v \in Stable' : v <= u}
      <4>1. ASSUME NEW u \in Stable' PROVE snapshot'[u].files \subseteq {v \in Stable' : v <= u}
        <5>1. CASE u = t
          <6>1. snapshot'[t].files \subseteq Stable'
            BY <1>1, <1>2, <2>1, <2>2, <2>3 DEF FilesFollow
          <6>2. \A v \in Stable' : v <= t
            BY <1>2, <2>3 DEF Turns
          <6> QED
            BY <5>1, <6>1, <6>2
        <5>2. CASE u # t
          <6>1. u \in Stable /\ snapshot'[u].files = snapshot[u].files
            BY <2>2, <2>3, <5>2
          <6>2. snapshot[u].files \subseteq {v \in Stable : v <= u}
            BY <1>1, <6>1 DEF FilesFollow
          <6> QED
            BY <2>3, <6>1, <6>2
        <5> QED
          BY <5>1, <5>2
      <4> QED
        BY <4>1
    <3> QED
      BY <3>1, <3>2, <3>3 DEF FilesFollow
  <2>11. WorkerFollows(w)' /\ Touched(w)' = {}
    BY <2>6 DEF Touched, Holding, Stream, Discarding, WorkerFollows, AcquireFollows,
         DiscardFollows, HoldFollows
  <2>12. \A v \in Workers : WorkerFollows(v)'
    BY <2>6, <2>7, <2>11, AllFollow DEF Drops
  <2> QED
    BY <1>1, <2>7, <2>8, <2>9, <2>10, <2>12, SteadyRows DEF WorkspaceInv, WorkerFollows
<1> QED
  BY <1>3, <1>4 DEF Commit

-----------------------------------------------------------------------------
(* Acquiring the workspace *)

\* The row is read before anything else is.
LEMMA ReadSteps ==
  ASSUME WorkspaceInv, NEW w \in Workers, ReadLease(w)
  PROVE  WorkspaceInv'
<1> DEFINE new == [worker[w] EXCEPT !.seen = lease, !.pc = "deciding"]
<1>1. TypeOK /\ TurnsFollow /\ LeaseFollows /\ AcquireFollows(w)
      /\ UNCHANGED <<run, exec, lease, sandbox, snapshot, cleanup, cleaner>> /\ worker[w].pc = "reading"
  BY DEF WorkspaceInv, ReadLease
<1>2. lease \in Lease /\ worker \in [Workers -> Worker]
  BY <1>1 DEF TypeOK
<1>3. new \in Worker /\ new.pc = "deciding" /\ new.seen = lease /\ new.turn = worker[w].turn
      /\ new.won = worker[w].won
  BY ZenonT(30), <1>2 DEF Worker, WorkerPc
<1>4. worker' = [worker EXCEPT ![w] = new]
  BY <1>2 DEF ReadLease
<1> HIDE DEF new
<1>5. Updated(w) /\ worker'[w] = new
  BY <1>2, <1>3, <1>4 DEF Updated, Others
<1>6. TypeOK' /\ Steady /\ RunKeeps
  BY <1>1, <1>5, QuietSteady DEF TypeOK, Updated, RunKeeps, TurnsFollow
<1>7. Touched(w)' = {} /\ ~Holding(w)'
  BY <1>3, <1>5 DEF Touched, Holding, Stream, Discarding
<1>8. AcquireFollows(w)'
  <2>1. Known(lease.fence, lease.box, lease.holder)'
    BY <1>1, <1>2 DEF Known, Lease
  <2>2. /\ lease.status = "none" => lease.box = 0
        /\ lease.status # "none" => Exists(lease.box)' /\ lease.holder \in Turns
    BY <1>1 DEF LeaseFollows, Exists
  <2> QED
    BY <1>1, <1>3, <1>5, <2>1, <2>2 DEF AcquireFollows, Known, Exists
<1>9. DiscardFollows(w)' /\ HoldFollows(w)'
  BY <1>3, <1>5, <1>7 DEF DiscardFollows, HoldFollows, Discarding
<1> QED
  BY <1>1, <1>3, <1>5, <1>6, <1>7, <1>8, <1>9, WorkerSteps DEF WorkerFollows, TurnsFollow

\* The loser of a rotation gives up the sandbox that it created.
LEMMA RejectSteps ==
  ASSUME WorkspaceInv, NEW w \in Workers, RestoreFails(w) \/ Reject(w)
  PROVE  WorkspaceInv'
<1>1. TypeOK /\ TurnsFollow /\ AcquireFollows(w) /\ DiscardFollows(w) /\ HoldFollows(w)
      /\ UNCHANGED <<run, exec, lease, sandbox, snapshot, cleaner>>
  BY DEF WorkspaceInv, RestoreFails, Reject
<1>2. worker \in [Workers -> Worker] /\ RunKeeps
  BY <1>1 DEF TypeOK, RunKeeps, TurnsFollow
<1>3. ASSUME RestoreFails(w) PROVE WorkspaceInv'
  <2>1. Continues(w, "rejecting") /\ worker[w].pc = "creating" /\ UNCHANGED cleanup
    BY <1>1, <1>3, WorkerMoves DEF RestoreFails, WorkerPc
  <2>2. TypeOK' /\ Steady
    BY <1>1, <2>1, QuietSteady DEF TypeOK, Continues, Updated
  <2>3. Touched(w)' = {worker[w].box} /\ Touched(w) = {worker[w].box} /\ ~Holding(w)'
    BY <2>1 DEF Touched, Holding, Stream, Discarding, Continues
  <2>4. WorkerFollows(w)'
    BY <1>1, <2>1, <2>3 DEF WorkerFollows, AcquireFollows, DiscardFollows, HoldFollows, Continues,
         Discarding, Exists
  <2> QED
    BY <1>1, <1>2, <2>1, <2>2, <2>3, <2>4, WorkerSteps DEF Continues, TurnsFollow
<1>4. ASSUME Reject(w) PROVE WorkspaceInv'
  <2> DEFINE new == [IdleWorker EXCEPT !.pc = "discarding", !.turn = worker[w].turn,
                                       !.box = worker[w].box, !.old = worker[w].box]
  <2>1. worker[w].pc = "rejecting" /\ worker[w].box \in Touched(w)
    BY <1>4 DEF Reject, Touched
  <2>2. /\ new \in Worker /\ new.pc = "discarding" /\ new.old = worker[w].box /\ new.box = worker[w].box
        /\ new.turn = worker[w].turn /\ ~new.won
    BY <1>1, <1>2, <2>1, EmptyType DEF Worker, WorkerPc, IdleWorker
  <2>3. worker' = [worker EXCEPT ![w] = new]
    BY <1>2, <1>4 DEF Reject
  <2> HIDE DEF new
  <2>4. Updated(w) /\ worker'[w] = new
    BY <1>2, <2>2, <2>3 DEF Updated, Others
  <2>5. worker[w].box \in Sandboxes /\ Exists(worker[w].box)
        /\ (lease.box = worker[w].box => lease.status # "active")
    BY <1>1, <2>1 DEF HoldFollows, Exists, DiscardFollows
  <2>6. Free(worker[w].box)
    BY <2>1 DEF Free, WorkspaceInv, AcquireFollows
  <2>7. cleanup' \in [Sandboxes -> Cleanup]
        /\ \A s \in Sandboxes : cleanup'[s] = cleanup[s]
             \/ (s = worker[w].box /\ cleanup'[s].status = "pending")
    BY <1>1, <1>4, <2>5, EnqueuedMoves DEF Reject, TypeOK
  <2>8. TypeOK'
    BY <1>1, <2>4, <2>7 DEF TypeOK, Updated
  <2>9. Steady
    BY <1>1, <2>5, <2>6, <2>7 DEF Steady
  <2>10. Touched(w)' = {worker[w].box} /\ ~Holding(w)'
    BY <2>2, <2>4 DEF Touched, Holding, Stream, Discarding
  <2>11. WorkerFollows(w)'
    BY <1>1, <2>2, <2>4, <2>5, <2>10 DEF WorkerFollows, AcquireFollows, DiscardFollows, HoldFollows,
         Discarding, Exists
  <2> QED
    BY <1>1, <1>2, <2>1, <2>2, <2>4, <2>8, <2>9, <2>10, <2>11, WorkerSteps DEF TurnsFollow
<1> QED
  BY <1>3, <1>4

\* Once the old sandbox has been dealt with, the winner holds its own.
LEMMA AfterDiscardSteps ==
  ASSUME WorkspaceInv, NEW w \in Workers, worker[w].pc \in Discarding, AfterDiscard(w),
         worker' \in [Workers -> Worker] => TypeOK',
         Steady, RunKeeps, UNCHANGED <<snapshot, cleaner>>
  PROVE  WorkspaceInv'
<1>1. TypeOK /\ TurnsFollow /\ HoldFollows(w) /\ worker[w].pc # "idle"
  BY DEF WorkspaceInv, Discarding
<1>2. worker \in [Workers -> Worker]
  BY <1>1 DEF TypeOK
<1>3. ASSUME ~worker[w].won PROVE WorkspaceInv'
  <2>1. Drops(w)
    BY <1>1, <1>3, WorkerMoves DEF AfterDiscard, LeftPcs
  <2> QED
    BY <1>1, <2>1, DropSteps DEF Drops, Updated
<1>4. ASSUME worker[w].won PROVE WorkspaceInv'
  <2> DEFINE new == [worker[w] EXCEPT !.pc = "held", !.old = 0]
  <2>1. /\ new \in Worker /\ new.pc = "held" /\ new.box = worker[w].box /\ new.fence = worker[w].fence
        /\ new.turn = worker[w].turn
    <3>1. 0 \in 0..MaxSandboxes
      BY WorkspaceAssumption
    <3> QED
      BY ZenonT(30), <1>2, <3>1 DEF Worker, WorkerPc
  <2>2. worker' = [worker EXCEPT ![w] = new]
    BY <1>2, <1>4 DEF AfterDiscard
  <2> HIDE DEF new
  <2>3. Updated(w) /\ worker'[w] = new /\ TypeOK'
    BY <1>2, <2>1, <2>2 DEF Updated, Others
  <2>4. Touched(w)' = {worker[w].box} /\ worker[w].box \in Touched(w) /\ Holding(w)
    BY <1>4, <2>1, <2>3 DEF Touched, Stream, Discarding, Holding
  <2>5. /\ Known(worker[w].fence, worker[w].box, worker[w].turn) /\ Exists(worker[w].box)
        /\ lease.status \in ActiveStatus /\ lease.box = worker[w].box =>
             worker[w].turn = lease.holder \/ worker[w].turn \in Stable
    BY <1>1, <2>4 DEF HoldFollows
  <2>6. worker[w].box \in Sandboxes /\ sandbox'[worker[w].box].state # "none"
    BY <1>1, <2>3, <2>5, SteadyExists
  <2>7. HoldFollows(w)'
    <3>1. /\ worker[w].fence <= lease'.fence
          /\ worker[w].fence = lease'.fence =>
               worker[w].box = lease'.box /\ worker[w].turn = lease'.holder
      BY <2>5 DEF Known, Steady
    <3>2. lease'.status \in ActiveStatus /\ lease'.box = worker[w].box =>
             worker[w].turn = lease'.holder \/ worker[w].turn \in Stable'
      BY <2>5 DEF Steady, Stable
    <3> QED
      BY <2>1, <2>3, <2>4, <2>6, <3>1, <3>2 DEF HoldFollows, Known, Exists
  <2>8. AcquireFollows(w)' /\ DiscardFollows(w)'
    BY <2>1, <2>3 DEF AcquireFollows, DiscardFollows, Discarding
  <2> QED
    BY <1>1, <2>1, <2>3, <2>4, <2>7, <2>8, WorkerSteps DEF WorkerFollows, TurnsFollow
<1> QED
  BY <1>3, <1>4

\* What a worker is about to destroy is neither leased nor anybody's new sandbox.
LEMMA OldMayGo ==
  ASSUME WorkspaceInv, NEW w \in Workers, worker[w].pc \in Discarding
  PROVE  worker[w].old \in Sandboxes /\ Exists(worker[w].old) /\ MayGo(worker[w].old)
<1>1. worker[w].old \in Touched(w)
  BY DEF Touched
<1>2. Exists(worker[w].old) /\ (lease.box = worker[w].old => lease.status # "active")
  BY <1>1 DEF WorkspaceInv, HoldFollows, DiscardFollows
<1>3. Free(worker[w].old)
  BY <1>1 DEF WorkspaceInv, AcquireFollows, Free, Discarding
<1> QED
  BY <1>2, <1>3, MayGoWhen DEF Exists

\* A sandbox that was replaced, or that lost, is destroyed and its cleanup recorded.
LEMMA DiscardSteps ==
  ASSUME WorkspaceInv, NEW w \in Workers, Discard(w) \/ Discarded(w)
  PROVE  WorkspaceInv'
<1> DEFINE s == worker[w].old
<1>1. TypeOK /\ TurnsFollow /\ DiscardFollows(w) /\ HoldFollows(w)
      /\ UNCHANGED <<run, exec, lease, snapshot, cleaner>> /\ worker[w].pc \in Discarding
  BY DEF WorkspaceInv, Discard, Discarded, Discarding
<1>2. /\ worker \in [Workers -> Worker] /\ cleanup \in [Sandboxes -> Cleanup]
      /\ sandbox \in [Sandboxes -> Sandbox] /\ RunKeeps
  BY <1>1 DEF TypeOK, RunKeeps, TurnsFollow
<1>3. s \in Sandboxes /\ Exists(s) /\ MayGo(s)
  BY <1>1, OldMayGo
<1> HIDE DEF s
<1>4. ASSUME Discard(w) PROVE WorkspaceInv'
  <2>1. CASE sandbox' = [sandbox EXCEPT ![s].state = "gone"] /\ Goto(w, "discarded")
    <3>1. Continues(w, "discarded") /\ UNCHANGED cleanup
      BY <1>1, <1>4, <2>1, WorkerMoves DEF Discard, WorkerPc
    <3>2. /\ sandbox' \in [Sandboxes -> Sandbox]
          /\ sandbox'[s].state = "gone" /\ sandbox'[s].files = sandbox[s].files
          /\ \A r \in Sandboxes : r # s => sandbox'[r] = sandbox[r]
      BY <1>1, <1>3, <2>1, GoneMoves
    <3>3. TypeOK' /\ Steady
      <4>1. TypeOK'
        BY <1>1, <3>1, <3>2 DEF TypeOK, Continues, Updated
      <4> QED
        BY <1>1, <1>3, <3>1, <3>2, <4>1 DEF Steady
    <3>4. Touched(w)' = Touched(w) /\ (Holding(w)' <=> Holding(w)) /\ worker'[w].pc = "discarded"
      BY <1>1, <3>1 DEF Touched, Holding, Stream, Discarding, Continues
    <3>5. \A r : Exists(r) => Exists(r)'
      BY <3>2 DEF Exists
    <3>6. HoldFollows(w)'
      <4>1. \A r \in Touched(w)' : Exists(r)'
        BY <1>1, <3>4, <3>5 DEF HoldFollows
      <4>2. Stable' = Stable
        BY <1>1 DEF Stable
      <4>3. ASSUME Holding(w)
            PROVE /\ Known(worker[w].fence, worker[w].box, worker[w].turn)'
                  /\ lease'.status \in ActiveStatus /\ lease'.box = worker[w].box =>
                       worker[w].turn = lease'.holder \/ worker[w].turn \in Stable
        <5>1. Known(worker[w].fence, worker[w].box, worker[w].turn)
          BY <1>1, <4>3 DEF HoldFollows
        <5> QED
          BY <1>1, <3>1, <4>3, <5>1 DEF HoldFollows, Known, Continues
      <4> QED
        BY <3>1, <3>4, <4>1, <4>2, <4>3 DEF HoldFollows, Continues, Known
    <3>7. AcquireFollows(w)' /\ DiscardFollows(w)'
      BY <1>1, <3>1, <3>2 DEF AcquireFollows, DiscardFollows, Discarding, Continues, s
    <3> QED
      BY <1>1, <1>2, <3>1, <3>3, <3>4, <3>6, <3>7, WorkerSteps
         DEF WorkerFollows, TurnsFollow, Continues, Discarding
  <2>2. CASE AfterDiscard(w) /\ UNCHANGED sandbox
    <3>1. Steady /\ (worker' \in [Workers -> Worker] => TypeOK')
      BY <1>1, <1>4, <2>2, QuietSteady DEF TypeOK, Discard
    <3> QED
      BY <1>1, <1>2, <2>2, <3>1, AfterDiscardSteps
  <2> QED
    BY <1>4, <2>1, <2>2 DEF Discard, s
<1>5. ASSUME Discarded(w) PROVE WorkspaceInv'
  <2>1. sandbox[s].state = "gone" /\ UNCHANGED sandbox /\ AfterDiscard(w)
    BY <1>1, <1>5 DEF Discarded, DiscardFollows, s
  <2>2. cleanup' \in [Sandboxes -> Cleanup]
        /\ \A r \in Sandboxes : cleanup'[r] = cleanup[r]
             \/ (r = s /\ cleanup[s].status = "pending" /\ cleanup'[s].status = "succeeded")
    <3>1. [cleanup[s] EXCEPT !.status = "succeeded"] \in Cleanup
      BY <1>2, <1>3 DEF Cleanup
    <3>2. cleanup' = cleanup \/ (cleanup[s].status = "pending" /\
            cleanup' = [cleanup EXCEPT ![s] = [cleanup[s] EXCEPT !.status = "succeeded"]])
      BY <1>2, <1>3, <1>5 DEF Discarded, s
    <3> QED
      BY <1>2, <1>3, <3>1, <3>2 DEF Cleanup
  <2>3. Steady
    BY <1>1, <2>1, <2>2 DEF Steady
  <2>4. worker' \in [Workers -> Worker] => TypeOK'
    BY <1>1, <2>1, <2>2 DEF TypeOK
  <2> QED
    BY <1>1, <1>2, <2>1, <2>3, <2>4, AfterDiscardSteps
<1> QED
  BY <1>4, <1>5

\* A worker that has read the row reuses the sandbox, or creates one with the
\* files of the latest STABLE Snapshot that nobody else knows.
LEMMA ProvideSteps ==
  ASSUME WorkspaceInv, NEW w \in Workers, Provide(w)
  PROVE  WorkspaceInv'
<1>1. TypeOK /\ TurnsFollow /\ LeaseFollows /\ CleanupsFollow /\ FilesFollow /\ AcquireFollows(w)
      /\ UNCHANGED <<run, exec, lease, snapshot, cleanup, cleaner>> /\ worker[w].pc = "deciding"
  BY DEF WorkspaceInv, Provide
<1>2. worker \in [Workers -> Worker] /\ sandbox \in [Sandboxes -> Sandbox] /\ lease \in Lease /\ RunKeeps
  BY <1>1 DEF TypeOK, RunKeeps, TurnsFollow
<1>3. ASSUME Reusable(w), Raise(w, FALSE), UNCHANGED sandbox PROVE WorkspaceInv'
  <2>1. Drops(w)
    BY <1>1, <1>3, WorkerMoves
  <2>2. TypeOK' /\ Steady
    BY <1>1, <1>3, <2>1, QuietSteady DEF TypeOK, Drops, Updated
  <2> QED
    BY <1>1, <1>2, <2>1, <2>2, DropSteps
<1>4. ASSUME Reusable(w), sandbox[worker[w].seen.box].state = "alive", Goto(w, "renewed"), UNCHANGED sandbox
      PROVE  WorkspaceInv'
  <2>1. Continues(w, "renewed")
    BY <1>1, <1>4, WorkerMoves DEF WorkerPc
  <2>2. TypeOK' /\ Steady
    BY <1>1, <1>4, <2>1, QuietSteady DEF TypeOK, Continues, Updated
  <2>3. Touched(w)' = {} /\ ~Holding(w)'
    BY <2>1 DEF Touched, Holding, Stream, Discarding, Continues
  <2>4. worker[w].seen.status \in ActiveStatus
        /\ (worker[w].seen.holder = worker[w].turn \/ worker[w].seen.holder \in Stable)
    <3>1. worker[w].seen.status \in ActiveStatus
          /\ (worker[w].seen.holder = worker[w].turn \/ snapshot[worker[w].seen.holder].status = "stable")
      BY <1>4 DEF Reusable, HolderStable
    <3>2. worker[w].seen.holder \in Turns
      BY <1>1, <3>1 DEF AcquireFollows, ActiveStatus
    <3> QED
      BY <3>1, <3>2 DEF Stable
  <2>5. AcquireFollows(w)'
    <3>1. Stable' = Stable
      BY <1>1 DEF Stable
    <3>2. /\ Known(worker[w].seen.fence, worker[w].seen.box, worker[w].seen.holder)
          /\ worker[w].seen.status = "none" => worker[w].seen.box = 0
          /\ worker[w].seen.status # "none" => Exists(worker[w].seen.box) /\ worker[w].seen.holder \in Turns
          /\ ~worker[w].won
      BY <1>1 DEF AcquireFollows
    <3>3. worker'[w].seen = worker[w].seen /\ worker'[w].pc = "renewed" /\ worker'[w].turn = worker[w].turn
          /\ ~worker'[w].won
      BY <2>1, <3>2 DEF Continues
    <3> QED
      BY <1>1, <1>4, <2>4, <3>1, <3>2, <3>3 DEF AcquireFollows, Known, Exists
  <2>6. DiscardFollows(w)' /\ HoldFollows(w)'
    BY <2>1, <2>3 DEF DiscardFollows, HoldFollows, Discarding, Continues
  <2> QED
    BY <1>1, <1>2, <2>1, <2>2, <2>3, <2>5, <2>6, WorkerSteps DEF WorkerFollows, TurnsFollow, Continues
<1>5. ASSUME NEW s \in Sandboxes, sandbox[s].state = "none",
             sandbox' = [sandbox EXCEPT ![s] = [state |-> "alive", files |-> LatestFiles, base |-> LatestVersion]],
             worker' = [worker EXCEPT ![w].pc = "creating", ![w].box = s]
      PROVE  WorkspaceInv'
  <2> DEFINE new == [worker[w] EXCEPT !.pc = "creating", !.box = s]
             row == [state |-> "alive", files |-> LatestFiles, base |-> LatestVersion]
  <2>1. LatestFiles \subseteq Stable /\ row \in Sandbox /\ row.state = "alive" /\ row.files \subseteq Stable
    <3>1. LatestFiles \subseteq Stable
      BY <1>1 DEF FilesFollow, LatestFiles
    <3>2. Stable \subseteq Turns
      BY DEF Stable
    <3>3. LatestVersion \in Nat
      BY LatestIsCount
    <3> QED
      BY <3>1, <3>2, <3>3 DEF Sandbox
  <2>2. /\ new \in Worker /\ new.pc = "creating" /\ new.box = s /\ new.seen = worker[w].seen
        /\ new.turn = worker[w].turn /\ ~new.won
    <3>1. s \in 0..MaxSandboxes
      BY WorkspaceAssumption DEF Sandboxes
    <3> QED
      BY ZenonT(30), <1>1, <1>2, <3>1 DEF Worker, WorkerPc, AcquireFollows
  <2>3. worker' = [worker EXCEPT ![w] = new] /\ sandbox' = [sandbox EXCEPT ![s] = row]
    BY <1>2, <1>5
  <2> HIDE DEF new, row
  <2>4. Updated(w) /\ worker'[w] = new
    BY <1>2, <2>2, <2>3 DEF Updated, Others
  <2>5. sandbox' \in [Sandboxes -> Sandbox] /\ sandbox'[s] = row
        /\ \A r \in Sandboxes : r # s => sandbox'[r] = sandbox[r]
    BY <1>2, <2>1, <2>3
  <2>6. \A r : Exists(r) => r # s
    BY <1>5 DEF Exists
  <2>7. \A r : Exists(r) => sandbox'[r] = sandbox[r] /\ Exists(r)'
    BY <2>5, <2>6 DEF Exists
  <2>8. lease.box # s /\ cleanup[s].status = "none" /\ \A v \in Workers : s \notin Touched(v)
    <3>1. lease.box # s
      <4>1. s # 0
        BY DEF Sandboxes
      <4> QED
        BY <1>1, <2>6, <4>1 DEF LeaseFollows
    <3> QED
      BY <1>1, <2>6, <3>1 DEF CleanupsFollow, WorkspaceInv, HoldFollows
  <2>9. TypeOK' /\ Stable' = Stable
    BY <1>1, <2>4, <2>5 DEF TypeOK, Updated, Stable
  <2>10. Touched(w)' = {s} /\ ~Holding(w)' /\ worker'[w].pc = "creating"
    BY <2>2, <2>4 DEF Touched, Holding, Stream, Discarding
  <2>11. TurnsFollow' /\ SnapshotsFollow'
    <3>1. \A v \in Workers : worker'[v].pc # "idle" =>
            /\ worker'[v].turn \in Turns /\ worker'[v].turn <= run.turn
            /\ worker'[v].pc = "succeeding" => snapshot[worker'[v].turn].status # "none"
      BY <1>1, <2>2, <2>4 DEF TurnsFollow, SnapshotsFollow, WorkspaceInv, Updated, Others
    <3> QED
      BY <1>1, <1>2, <2>9, <3>1, TurnsKept
  <2>12. LeaseFollows' /\ CleanupsFollow' /\ FilesFollow'
    <3>1. LeaseFollows'
      BY <1>1, <2>7 DEF LeaseFollows
    <3>2. CleanupsFollow'
      <4>1. \A r \in Sandboxes : cleanup[r].status # "none" =>
              Exists(r)' /\ (lease.box = r => lease.status # "active") /\ sandbox'[r] = sandbox[r]
        BY <1>1, <2>7 DEF CleanupsFollow
      <4>2. \A r \in Sandboxes : cleanup[r].status = "succeeded" => sandbox'[r].state = "gone"
        BY <1>1, <4>1 DEF CleanupsFollow
      <4> QED
        BY <1>1, <4>1, <4>2 DEF CleanupsFollow
    <3>3. OnlyCommittedFiles'
      <4>1. lease.status \in ActiveStatus => sandbox'[lease.box] = sandbox[lease.box]
        BY <1>1, <2>7 DEF LeaseFollows, ActiveStatus
      <4> QED
        BY <1>1, <2>9, <4>1 DEF OnlyCommittedFiles, FilesFollow
    <3> QED
      BY <1>1, <2>9, <3>1, <3>2, <3>3 DEF FilesFollow
  <2>13. ASSUME NEW v \in Workers \ {w} PROVE WorkerFollows(v)'
    <3>1. worker'[v] = worker[v] /\ Touched(v)' = Touched(v) /\ (Holding(v)' <=> Holding(v))
      BY <2>4 DEF Updated, Others, Touched, Holding
    <3>2. AcquireFollows(v) /\ DiscardFollows(v) /\ HoldFollows(v)
      BY DEF WorkspaceInv
    <3>3. \A r \in Touched(v) : Exists(r) /\ r # s /\ Exists(r)' /\ sandbox'[r] = sandbox[r]
      BY <2>6, <2>7, <3>2 DEF HoldFollows
    <3>4. \A fence, box, holder : Known(fence, box, holder)' = Known(fence, box, holder)
      BY <1>1 DEF Known
    <3>5. AcquireFollows(v)'
      <4>1. ASSUME worker[v].pc \in {"deciding", "renewed", "creating"}
            PROVE  /\ Known(worker[v].seen.fence, worker[v].seen.box, worker[v].seen.holder)'
                   /\ worker[v].seen.status = "none" => worker[v].seen.box = 0
                   /\ worker[v].seen.status # "none" => Exists(worker[v].seen.box)' /\ worker[v].seen.holder \in Turns
        <5>1. Known(worker[v].seen.fence, worker[v].seen.box, worker[v].seen.holder)
          BY <3>2, <4>1 DEF AcquireFollows
        <5> QED
          BY <1>1, <2>7, <3>1, <3>2, <4>1, <5>1 DEF AcquireFollows, Known
      <4>2. ASSUME worker[v].pc = "renewed"
            PROVE  /\ worker[v].seen.status \in ActiveStatus
                   /\ worker[v].seen.holder = worker[v].turn \/ worker[v].seen.holder \in Stable
                   /\ lease.status = "active" /\ lease.fence = worker[v].seen.fence =>
                        sandbox'[worker[v].seen.box].state = "alive"
        BY <2>7, <3>2, <4>2 DEF AcquireFollows, ActiveStatus
      <4>3. ASSUME worker[v].pc = "creating"
            PROVE  /\ sandbox'[worker[v].box].state = "alive" /\ sandbox'[worker[v].box].files \subseteq Stable
                   /\ lease.box # worker[v].box /\ cleanup[worker[v].box].status = "none"
                   /\ \A u \in Workers \ {v} : worker[v].box \notin Touched(u)'
        <5>1. worker[v].box \in Touched(v)
          BY <4>3 DEF Touched
        <5>2. \A u \in Workers \ {w} : Touched(u)' = Touched(u)
          BY <2>4 DEF Updated, Others, Touched
        <5>3. worker[v].box # s /\ sandbox'[worker[v].box] = sandbox[worker[v].box]
          BY <3>3, <5>1
        <5> QED
          BY <2>10, <3>2, <4>3, <5>2, <5>3 DEF AcquireFollows
      <4> QED
        BY <1>1, <2>9, <3>1, <3>2, <4>1, <4>2, <4>3 DEF AcquireFollows
    <3>6. DiscardFollows(v)'
      <4>1. worker[v].pc = "discarded" => worker[v].old \in Touched(v)
        BY DEF Touched, Discarding
      <4> QED
        BY <1>1, <3>1, <3>2, <3>3, <4>1 DEF DiscardFollows
    <3>7. HoldFollows(v)'
      <4>1. ASSUME Holding(v)
            PROVE  /\ Known(worker[v].fence, worker[v].box, worker[v].turn)'
                   /\ lease.status \in ActiveStatus /\ lease.box = worker[v].box =>
                        worker[v].turn = lease.holder \/ worker[v].turn \in Stable
        <5>1. Known(worker[v].fence, worker[v].box, worker[v].turn)
          BY <3>2, <4>1 DEF HoldFollows
        <5> QED
          BY <1>1, <3>1, <3>2, <4>1, <5>1 DEF HoldFollows, Known
      <4> QED
        BY <1>1, <2>9, <3>1, <3>2, <3>3, <4>1 DEF HoldFollows, Holds, Known
    <3> QED
      BY <3>5, <3>6, <3>7 DEF WorkerFollows
  <2>14. WorkerFollows(w)'
    <3>1. AcquireFollows(w)'
      <4>1. /\ Known(worker[w].seen.fence, worker[w].seen.box, worker[w].seen.holder)
            /\ worker[w].seen.status = "none" => worker[w].seen.box = 0
            /\ worker[w].seen.status # "none" => Exists(worker[w].seen.box)' /\ worker[w].seen.holder \in Turns
        BY <1>1, <2>2, <2>4, <2>7 DEF AcquireFollows
      <4>2. \A v \in Workers \ {w} : s \notin Touched(v)'
        BY <2>4, <2>8 DEF Updated, Others, Touched
      <4> QED
        BY <1>1, <2>1, <2>2, <2>4, <2>5, <2>8, <2>9, <2>10, <4>1, <4>2 DEF AcquireFollows, Known
    <3>2. DiscardFollows(w)'
      BY <2>10 DEF DiscardFollows, Discarding
    <3>3. HoldFollows(w)'
      BY <2>1, <2>5, <2>10 DEF HoldFollows, Exists
    <3> QED
      BY <3>1, <3>2, <3>3 DEF WorkerFollows
  <2> QED
    BY <2>9, <2>11, <2>12, <2>13, <2>14 DEF WorkspaceInv, WorkerFollows
<1> QED
  BY <1>3, <1>4, <1>5 DEF Provide

\* The row becomes that of the worker: it renews the leased sandbox, whose holder's
\* files may stay, or replaces it by one that nobody else knows.
Renews(w) ==
  /\ lease'.box = lease.box /\ lease'.status = lease.status
  /\ lease.holder = worker[w].turn \/ lease.holder \in Stable
  /\ UNCHANGED cleanup /\ worker'[w].pc = "held"
Replaces(w) ==
  /\ lease'.box # lease.box /\ lease'.fence # lease.fence
  /\ \A v \in Workers \ {w} : lease'.box \notin Touched(v)
  /\ cleanup[lease'.box].status = "none"
  /\ \A s \in Sandboxes : cleanup'[s] = cleanup[s]
       \/ (s = lease.box /\ Exists(s) /\ cleanup'[s].status = "pending")
  /\ \/ worker'[w].pc = "held"
     \/ worker'[w].pc = "discarding" /\ worker'[w].old = lease.box /\ Exists(lease.box)
     \/ worker'[w].pc = "rejecting" /\ lease'.status = "disowned"
Granted(w) ==
  /\ lease'.status \in ActiveStatus /\ lease'.holder = worker[w].turn
  /\ lease'.status = "active" => sandbox[lease'.box].state = "alive"
  /\ Exists(lease'.box)
  /\ sandbox[lease'.box].files \subseteq {worker[w].turn} \cup Stable
  /\ lease.fence <= lease'.fence
  /\ lease'.fence = lease.fence => lease'.holder = lease.holder
  /\ Renews(w) \/ Replaces(w)
  /\ worker'[w].box = lease'.box /\ worker'[w].turn = worker[w].turn
  /\ IF worker'[w].pc = "rejecting" THEN ~worker'[w].won
     ELSE worker'[w].won /\ worker'[w].fence = lease'.fence

\* Whoever knew the row knows that it is another one, or still knows it.
LEMMA GrantKnown ==
  ASSUME TypeOK, TypeOK', NEW w \in Workers, Granted(w),
         NEW fence \in Nat, NEW box, NEW holder, Known(fence, box, holder)
  PROVE  /\ fence <= lease'.fence
         /\ fence = lease'.fence => /\ box = lease'.box /\ holder = lease'.holder
                                    /\ fence = lease.fence /\ lease.status = lease'.status
                                    /\ box = lease.box /\ holder = lease.holder
<1>1. lease.fence \in Nat /\ lease'.fence \in Nat
  BY DEF TypeOK, Lease
<1>2. fence <= lease.fence
  BY DEF Known
<1>3. ASSUME fence = lease'.fence
      PROVE  fence = lease.fence /\ box = lease.box /\ holder = lease.holder
  BY <1>1, <1>2, <1>3 DEF Known, Granted
<1>4. lease'.fence = lease.fence => lease'.box = lease.box /\ lease'.status = lease.status
  BY DEF Granted, Renews, Replaces
<1>5. lease'.fence = lease.fence => lease'.holder = lease.holder
  BY DEF Granted
<1> QED
  BY <1>1, <1>2, <1>3, <1>4, <1>5 DEF Granted

\* The workers that do not get the row keep what they rely on.
LEMMA GrantKeeps ==
  ASSUME WorkspaceInv, TypeOK', NEW w \in Workers, worker[w].pc \in {"renewed", "creating"}, Updated(w), Granted(w),
         UNCHANGED <<run, exec, sandbox, snapshot, cleaner>>, NEW v \in Workers \ {w}
  PROVE  WorkerFollows(v)'
<1>1. TypeOK /\ AcquireFollows(v) /\ DiscardFollows(v) /\ HoldFollows(v)
  BY DEF WorkspaceInv
<1>2. worker'[v] = worker[v] /\ Touched(v)' = Touched(v) /\ (Holding(v)' <=> Holding(v))
  BY DEF Updated, Others, Touched, Holding
<1>3. /\ worker[v] \in Worker /\ worker[v].fence \in Nat
      /\ worker[v].seen.fence \in Nat /\ Stable' = Stable
  BY <1>1 DEF TypeOK, Worker, Lease, Stable
<1>4. \A s : Exists(s)' = Exists(s)
  BY DEF Exists
<1>5. AcquireFollows(v)'
  <2>1. ASSUME worker[v].pc \in {"deciding", "renewed", "creating"}
        PROVE  /\ Known(worker[v].seen.fence, worker[v].seen.box, worker[v].seen.holder)'
               /\ worker[v].seen.status = "none" => worker[v].seen.box = 0
               /\ worker[v].seen.status # "none" => Exists(worker[v].seen.box)' /\ worker[v].seen.holder \in Turns
    <3>1. Known(worker[v].seen.fence, worker[v].seen.box, worker[v].seen.holder)
      BY <1>1, <2>1 DEF AcquireFollows
    <3>2. Known(worker[v].seen.fence, worker[v].seen.box, worker[v].seen.holder)'
      BY <1>1, <1>2, <1>3, <3>1, GrantKnown DEF Known
    <3> QED
      BY <1>1, <1>2, <2>1, <3>2 DEF AcquireFollows, Exists
  <2>2. ASSUME worker[v].pc = "renewed"
        PROVE  /\ worker[v].seen.status \in ActiveStatus
               /\ worker[v].seen.holder = worker[v].turn \/ worker[v].seen.holder \in Stable
               /\ lease'.status = "active" /\ lease'.fence = worker[v].seen.fence =>
                    sandbox[worker[v].seen.box].state = "alive"
    <3>1. Known(worker[v].seen.fence, worker[v].seen.box, worker[v].seen.holder)
      BY <1>1, <2>2 DEF AcquireFollows
    <3>2. lease'.fence = worker[v].seen.fence => worker[v].seen.box = lease'.box
      BY <1>1, <1>3, <3>1, GrantKnown
    <3> QED
      BY <1>1, <2>2, <3>2 DEF AcquireFollows, Granted
  <2>3. ASSUME worker[v].pc = "creating"
        PROVE  /\ sandbox[worker[v].box].state = "alive" /\ sandbox[worker[v].box].files \subseteq Stable
               /\ lease'.box # worker[v].box /\ cleanup'[worker[v].box].status = "none"
               /\ \A u \in Workers \ {v} : worker[v].box \notin Touched(u)'
    <3>1. /\ sandbox[worker[v].box].state = "alive" /\ sandbox[worker[v].box].files \subseteq Stable
          /\ lease.box # worker[v].box /\ cleanup[worker[v].box].status = "none"
          /\ \A u \in Workers \ {v} : worker[v].box \notin Touched(u)
      BY <1>1, <2>3 DEF AcquireFollows
    <3>2. worker[v].box \in Touched(v) /\ worker[v].box \in Sandboxes
      BY <1>1, <2>3 DEF Touched, HoldFollows, Exists
    <3>3. lease'.box # worker[v].box
      BY <3>1, <3>2 DEF Granted, Renews, Replaces
    <3>4. cleanup'[worker[v].box].status = "none"
      BY <3>1, <3>2 DEF Granted, Renews, Replaces
    <3>5. \A u \in Workers \ {w} : Touched(u)' = Touched(u)
      BY DEF Updated, Others, Touched
    <3>6. Touched(w)' \subseteq {lease'.box, lease.box}
      BY DEF Granted, Renews, Replaces, Touched, Stream, Discarding
    <3> QED
      BY <3>1, <3>3, <3>4, <3>5, <3>6
  <2> QED
    BY <1>1, <1>2, <1>3, <2>1, <2>2, <2>3 DEF AcquireFollows
<1>6. DiscardFollows(v)'
  <2>1. worker[v].pc = "rejecting" => worker[v].box \in Touched(v)
    BY DEF Touched
  <2>2. worker[v].pc \in Discarding => worker[v].old \in Touched(v)
    BY DEF Touched
  <2> QED
    BY <1>1, <1>2, <2>1, <2>2 DEF DiscardFollows, Granted, Renews, Replaces
<1>7. HoldFollows(v)'
  <2>1. \A s \in Touched(v) : Exists(s)'
    BY <1>1, <1>4 DEF HoldFollows
  <2>2. ASSUME Holding(v)
        PROVE  /\ Known(worker[v].fence, worker[v].box, worker[v].turn)'
               /\ lease'.status \in ActiveStatus /\ lease'.box = worker[v].box =>
                    worker[v].turn = lease'.holder \/ worker[v].turn \in Stable
    <3>1. Known(worker[v].fence, worker[v].box, worker[v].turn)
      BY <1>1, <2>2 DEF HoldFollows
    <3>2. Known(worker[v].fence, worker[v].box, worker[v].turn)'
      BY <1>1, <1>2, <1>3, <3>1, GrantKnown DEF Known
    <3>3. worker[v].box \in Touched(v)
      BY <2>2 DEF Holding, Touched
    <3>4. CASE Renews(w)
      BY <1>1, <2>2, <3>2, <3>4 DEF HoldFollows, Renews, Granted
    <3>5. CASE Replaces(w)
      BY <3>2, <3>3, <3>5 DEF Replaces
    <3> QED
      BY <3>4, <3>5 DEF Granted
  <2>3. ASSUME worker[v].pc = "staging", Holds(v)' PROVE worker[v].files \subseteq {worker[v].turn} \cup Stable
    <3>1. Known(worker[v].fence, worker[v].box, worker[v].turn)
      BY <1>1, <2>3 DEF HoldFollows, Holding, Stream
    <3>2. lease'.fence = worker[v].fence
      BY <1>2, <2>3 DEF Holds
    <3>3. lease.fence = worker[v].fence /\ lease.status = lease'.status
          /\ worker[v].box = lease.box /\ worker[v].turn = lease.holder
      BY <1>1, <1>3, <3>1, <3>2, GrantKnown
    <3>4. Holds(v)
      BY <1>2, <2>3, <3>3 DEF Holds
    <3> QED
      BY <1>1, <2>3, <3>4 DEF HoldFollows
  <2> QED
    BY <1>2, <1>3, <2>1, <2>2, <2>3 DEF HoldFollows
<1> QED
  BY <1>5, <1>6, <1>7 DEF WorkerFollows

\* The worker that gets the row holds it, and all else follows.
LEMMA GrantSteps ==
  ASSUME WorkspaceInv, TypeOK', NEW w \in Workers, worker[w].pc \in {"renewed", "creating"}, Updated(w), Granted(w),
         UNCHANGED <<run, exec, sandbox, snapshot, cleaner>>
  PROVE  WorkspaceInv'
<1>1. TypeOK /\ TurnsFollow /\ LeaseFollows /\ CleanupsFollow /\ FilesFollow
  BY DEF WorkspaceInv
<1>2. Stable' = Stable /\ \A s : Exists(s)' = Exists(s)
  BY DEF Stable, Exists
<1>3. worker[w].turn \in Turns /\ worker[w].turn <= run.turn /\ worker'[w].pc \in {"held", "discarding", "rejecting"}
  BY <1>1 DEF TurnsFollow, Granted, Renews, Replaces
<1>4. TurnsFollow' /\ SnapshotsFollow'
  <2>1. RunKeeps
    BY <1>1 DEF RunKeeps, TurnsFollow
  <2>2. \A v \in Workers : worker'[v].pc # "idle" =>
          /\ worker'[v].turn \in Turns /\ worker'[v].turn <= run.turn
          /\ worker'[v].pc = "succeeding" => snapshot[worker'[v].turn].status # "none"
    BY <1>1, <1>3 DEF TurnsFollow, SnapshotsFollow, WorkspaceInv, Updated, Others, Granted
  <2> QED
    BY <2>1, <2>2, TurnsKept
<1>5. Exists(lease'.box) /\ Exists(lease.box)'
  BY DEF Granted, Exists
<1>6. LeaseFollows'
  BY <1>1, <1>3, <1>5 DEF LeaseFollows, Granted, ActiveStatus
<1>7. CleanupsFollow'
  <2>1. lease'.status = "active" => cleanup'[lease'.box].status = "none"
    <3>1. CASE Renews(w)
      BY <1>1, <3>1 DEF CleanupsFollow, Renews, Granted, Exists
    <3>2. CASE Replaces(w)
      BY <3>2 DEF Replaces, Granted, Exists
    <3> QED
      BY <3>1, <3>2 DEF Granted
  <2>2. \A s \in Sandboxes : cleanup'[s] = cleanup[s] \/ (Exists(s) /\ cleanup'[s].status = "pending")
    BY DEF Granted, Renews, Replaces
  <2>3. \A s \in Sandboxes : cleanup[s].status # "none" => Exists(s)
    BY <1>1 DEF CleanupsFollow
  <2>4. ASSUME NEW s \in Sandboxes
        PROVE  /\ cleanup'[s].status # "none" => Exists(s)' /\ (lease'.box = s => lease'.status # "active")
               /\ cleanup'[s].status = "succeeded" => sandbox[s].state = "gone"
    <3>1. cleanup[s].status = "succeeded" => sandbox[s].state = "gone"
      BY <1>1 DEF CleanupsFollow
    <3> QED
      BY <1>2, <2>1, <2>2, <2>3, <3>1
  <2>5. \A s \in Sandboxes : cleanup[s].status # "none" => cleanup'[s].status # "none"
    BY <2>2
  <2> QED
    BY <1>1, <2>4, <2>5 DEF CleanupsFollow
<1>8. FilesFollow'
  BY <1>1, <1>2 DEF FilesFollow, OnlyCommittedFiles, Granted
<1>9. Touched(w)' \subseteq {lease'.box} \cup {s \in {lease.box} : Exists(s)}
  BY DEF Granted, Renews, Replaces, Touched, Stream, Discarding
<1>10. WorkerFollows(w)'
  <2>1. AcquireFollows(w)' /\ worker'[w].pc # "staging"
    BY <1>3 DEF AcquireFollows, Granted
  <2>2. DiscardFollows(w)'
    BY <1>3 DEF DiscardFollows, Granted, Renews, Replaces, Discarding
  <2>3. HoldFollows(w)'
    <3>1. \A s \in Touched(w)' : Exists(s)'
      BY <1>2, <1>5, <1>9
    <3>2. ASSUME Holding(w)' PROVE Known(worker[w].fence, worker[w].box, worker[w].turn)'
      <4>1. lease'.fence <= lease'.fence
        BY DEF TypeOK, Lease
      <4>2. worker'[w].pc # "rejecting"
        BY <3>2 DEF Holding, Stream, Discarding
      <4> QED
        BY <4>1, <4>2 DEF Known, Granted
    <3> QED
      BY <2>1, <3>1, <3>2 DEF HoldFollows, Granted
  <2> QED
    BY <2>1, <2>2, <2>3 DEF WorkerFollows
<1>11. \A v \in Workers : WorkerFollows(v)'
  BY <1>10, GrantKeeps
<1> QED
  BY <1>4, <1>6, <1>7, <1>8, <1>11 DEF WorkspaceInv, WorkerFollows

\* The fence lets only one of the workers that read the same row have it.
LEMMA RenewSteps ==
  ASSUME WorkspaceInv, NEW w \in Workers, RenewLease(w)
  PROVE  WorkspaceInv'
<1> DEFINE l == worker[w].seen
           new == [l EXCEPT !.holder = worker[w].turn, !.expired = FALSE, !.status = lease.status,
                            !.fence = IF l.holder = worker[w].turn THEN l.fence ELSE l.fence + 1]
           own == [worker[w] EXCEPT !.pc = "held", !.box = new.box, !.fence = new.fence, !.won = TRUE,
                                    !.old = 0, !.seen = NoLease]
<1>1. TypeOK /\ TurnsFollow /\ FilesFollow /\ AcquireFollows(w)
      /\ UNCHANGED <<run, exec, sandbox, snapshot, cleanup, cleaner>> /\ worker[w].pc = "renewed"
  BY DEF WorkspaceInv, RenewLease
<1>2. worker \in [Workers -> Worker] /\ worker[w] \in Worker /\ l \in Lease /\ lease \in Lease
  BY <1>1 DEF TypeOK, Worker
<1>3. ASSUME Raise(w, FALSE), UNCHANGED lease PROVE WorkspaceInv'
  <2>1. Drops(w)
    BY <1>1, <1>3, WorkerMoves
  <2>2. TypeOK' /\ Steady /\ RunKeeps
    BY <1>1, <1>3, <2>1, QuietSteady DEF TypeOK, Drops, Updated, RunKeeps, TurnsFollow
  <2> QED
    BY <1>1, <2>1, <2>2, DropSteps
<1>4. ASSUME lease.fence = l.fence, lease.status \in ActiveStatus, lease' = new, Held(w, new, "held")
      PROVE  WorkspaceInv'
  <2>1. /\ l.box = lease.box /\ l.holder = lease.holder /\ Exists(l.box)
        /\ l.holder = worker[w].turn \/ l.holder \in Stable
        /\ lease.status = "active" => sandbox[l.box].state = "alive"
    BY <1>1, <1>4 DEF AcquireFollows, Known, ActiveStatus
  <2>2. /\ new \in Lease /\ new.status = lease.status /\ new.box = l.box /\ new.holder = worker[w].turn
        /\ new.fence = IF l.holder = worker[w].turn THEN l.fence ELSE l.fence + 1
    <3> DEFINE fence == IF l.holder = worker[w].turn THEN l.fence ELSE l.fence + 1
    <3>1. fence \in Nat
      BY <1>2 DEF Lease
    <3>2. new = [l EXCEPT !.holder = worker[w].turn, !.expired = FALSE, !.status = lease.status,
                          !.fence = fence]
      OBVIOUS
    <3>3. fence = IF l.holder = worker[w].turn THEN l.fence ELSE l.fence + 1
      OBVIOUS
    <3> HIDE DEF new, fence
    <3> QED
      BY <1>2, <2>1, <3>1, <3>2, <3>3 DEF Lease, Worker
  <2> HIDE DEF new
  <2>3. worker' = [worker EXCEPT ![w] = own]
    BY <1>2, <1>4 DEF Held
  <2>4. /\ own \in Worker /\ own.pc = "held" /\ own.box = new.box /\ own.fence = new.fence /\ own.won
        /\ own.turn = worker[w].turn
    <3>1. 0 \in 0..MaxSandboxes /\ NoLease \in Lease /\ "held" \in WorkerPc
      BY WorkspaceAssumption, EmptyType DEF WorkerPc
    <3>2. new.box \in 0..MaxSandboxes /\ new.fence \in Nat
      BY <2>2 DEF Lease
    <3> QED
      BY <1>2, <3>1, <3>2 DEF Worker
  <2> HIDE DEF own
  <2>5. Updated(w) /\ worker'[w] = own
    BY <1>2, <2>3, <2>4 DEF Updated, Others
  <2>6. TypeOK'
    BY <1>1, <1>4, <2>2, <2>5 DEF TypeOK, Updated
  <2>7. Renews(w)
    BY <1>1, <1>4, <2>1, <2>2, <2>4, <2>5 DEF Renews
  <2>8. sandbox[lease'.box].files \subseteq {worker[w].turn} \cup Stable
    BY <1>1, <1>4, <2>1, <2>2 DEF FilesFollow, OnlyCommittedFiles
  <2>9. lease.fence <= lease'.fence /\ (lease'.fence = lease.fence => lease'.holder = lease.holder)
    <3>1. l.fence \in Nat
      BY <1>2 DEF Lease
    <3> QED
      BY <1>4, <2>1, <2>2, <3>1
  <2>10. Granted(w)
    BY <1>4, <2>1, <2>2, <2>4, <2>5, <2>7, <2>8, <2>9 DEF Granted, Exists
  <2> QED
    BY <1>1, <2>5, <2>6, <2>10, GrantSteps
<1> QED
  BY <1>3, <1>4 DEF RenewLease

\* The same for the next generation, whose sandbox the winner has created.
LEMMA RotateSteps ==
  ASSUME WorkspaceInv, NEW w \in Workers, RotateLease(w)
  PROVE  WorkspaceInv'
<1> DEFINE l == worker[w].seen
           new == [status |-> "active", holder |-> worker[w].turn, box |-> worker[w].box,
                   fence |-> l.fence + 1, expired |-> FALSE]
           pc == IF l.box = 0 THEN "held" ELSE "discarding"
           own == [worker[w] EXCEPT !.pc = pc, !.box = new.box, !.fence = new.fence, !.won = TRUE,
                                    !.old = IF pc = "held" THEN 0 ELSE l.box, !.seen = NoLease]
<1>1. TypeOK /\ TurnsFollow /\ AcquireFollows(w) /\ HoldFollows(w)
      /\ UNCHANGED <<run, exec, sandbox, snapshot, cleaner>> /\ worker[w].pc = "creating"
  BY DEF WorkspaceInv, RotateLease
<1>2. worker \in [Workers -> Worker] /\ worker[w] \in Worker /\ l \in Lease /\ lease \in Lease
  BY <1>1 DEF TypeOK, Worker
<1>3. ASSUME Goto(w, "rejecting"), UNCHANGED <<lease, cleanup>> PROVE WorkspaceInv'
  <2>1. RestoreFails(w)
    BY <1>1, <1>3 DEF RestoreFails
  <2> QED
    BY <2>1, RejectSteps
<1>5. l.fence + 1 \in Nat /\ lease.fence \in Nat
  BY <1>2 DEF Lease
<1>6. /\ sandbox[worker[w].box].state = "alive" /\ sandbox[worker[w].box].files \subseteq Stable
      /\ lease.box # worker[w].box /\ cleanup[worker[w].box].status = "none"
      /\ \A v \in Workers \ {w} : worker[w].box \notin Touched(v)
      /\ Exists(worker[w].box)
  <2>1. worker[w].box \in Touched(w)
    BY <1>1 DEF Touched
  <2> QED
    BY <1>1, <2>1 DEF AcquireFollows, HoldFollows
<1>7. ASSUME lease.fence = l.fence, cleanup' = Enqueued(l.box)
      PROVE  /\ l.box = lease.box /\ (l.box # 0 => Exists(l.box))
             /\ cleanup' \in [Sandboxes -> Cleanup]
             /\ \A s \in Sandboxes : cleanup'[s] = cleanup[s]
                  \/ (s = lease.box /\ Exists(s) /\ cleanup'[s].status = "pending")
  <2>1. l.box = lease.box /\ (l.box # 0 => Exists(l.box))
    BY <1>1, <1>7 DEF AcquireFollows, Known
  <2>2. CASE l.box = 0
    <3>1. l.box \notin Sandboxes
      BY <2>2 DEF Sandboxes
    <3> QED
      BY <1>1, <1>7, <2>1, <3>1 DEF Enqueued, TypeOK
  <2>3. CASE l.box # 0
    <3>1. l.box \in Sandboxes
      BY <2>1, <2>3 DEF Exists
    <3> QED
      BY <1>1, <1>7, <2>1, <2>3, <3>1, EnqueuedMoves
  <2> QED
    BY <2>2, <2>3
<1>8. ASSUME lease.fence = l.fence, lease' = [new EXCEPT !.status = "disowned"],
             cleanup' = Enqueued(l.box), Goto(w, "rejecting")
      PROVE  WorkspaceInv'
  <2>1. /\ lease' \in Lease /\ lease'.status = "disowned" /\ lease'.box = worker[w].box
        /\ lease'.holder = worker[w].turn /\ lease'.fence = lease.fence + 1
    BY <1>2, <1>5, <1>8 DEF Lease, Worker, ActiveStatus
  <2>2. Continues(w, "rejecting")
    BY <1>1, <1>8, WorkerMoves DEF WorkerPc
  <2>3. TypeOK'
    BY <1>1, <1>7, <1>8, <2>1, <2>2 DEF TypeOK, Continues, Updated
  <2>4. Replaces(w)
    BY <1>5, <1>6, <1>7, <1>8, <2>1, <2>2 DEF Replaces, Continues
  <2>5. Granted(w)
    BY <1>1, <1>5, <1>6, <2>1, <2>2, <2>4 DEF Granted, Continues, ActiveStatus, AcquireFollows
  <2> QED
    BY <1>1, <2>2, <2>3, <2>5, GrantSteps DEF Continues
<1>4. ASSUME lease.fence = l.fence, lease' = new, cleanup' = Enqueued(l.box), Held(w, new, pc)
      PROVE  WorkspaceInv'
  <2>1. l.box = lease.box /\ l.holder = lease.holder /\ (l.box # 0 => Exists(l.box))
    BY <1>1, <1>4 DEF AcquireFollows, Known
  <2>2. /\ new \in Lease /\ new.status = "active" /\ new.box = worker[w].box /\ new.holder = worker[w].turn
        /\ new.fence = l.fence + 1
    BY <1>2, <1>5 DEF Lease, Worker, ActiveStatus
  <2>3. worker' = [worker EXCEPT ![w] = own]
    BY <1>2, <1>4 DEF Held
  <2>4. pc \in {"held", "discarding"} /\ (pc = "discarding" => l.box # 0)
    OBVIOUS
  <2> HIDE DEF new, pc
  <2>5. /\ own \in Worker /\ own.pc = pc /\ own.box = new.box /\ own.fence = new.fence /\ own.won
        /\ own.turn = worker[w].turn /\ (pc = "discarding" => own.old = l.box)
    <3> DEFINE old == IF pc = "held" THEN 0 ELSE l.box
    <3>1. old \in 0..MaxSandboxes /\ NoLease \in Lease /\ pc \in WorkerPc
      BY <1>2, <2>4, WorkspaceAssumption, EmptyType DEF WorkerPc, Lease
    <3>2. new.box \in 0..MaxSandboxes /\ new.fence \in Nat
      BY <2>2 DEF Lease
    <3>3. pc = "discarding" => old = l.box
      OBVIOUS
    <3> HIDE DEF old
    <3>4. own = [worker[w] EXCEPT !.pc = pc, !.box = new.box, !.fence = new.fence, !.won = TRUE,
                                  !.old = old, !.seen = NoLease]
      BY DEF old
    <3> HIDE DEF own
    <3> QED
      BY <1>2, <3>1, <3>2, <3>3, <3>4 DEF Worker
  <2> HIDE DEF own
  <2>6. Updated(w) /\ worker'[w] = own
    BY <1>2, <2>3, <2>5 DEF Updated, Others
  <2>7. cleanup' \in [Sandboxes -> Cleanup]
        /\ \A s \in Sandboxes : cleanup'[s] = cleanup[s]
             \/ (s = lease.box /\ Exists(s) /\ cleanup'[s].status = "pending")
    BY <1>4, <1>7
  <2>8. TypeOK'
    BY <1>1, <1>4, <2>2, <2>6, <2>7 DEF TypeOK, Updated
  <2>10. lease.fence <= lease'.fence /\ lease'.fence # lease.fence
    <3>1. l.fence \in Nat
      BY <1>2 DEF Lease
    <3> QED
      BY <1>4, <2>2, <3>1
  <2>11. Replaces(w)
    BY <1>4, <2>1, <2>2, <2>4, <2>5, <2>6, <2>7, <2>10, <1>6 DEF Replaces
  <2>12. Granted(w)
    BY <1>4, <1>6, <2>2, <2>4, <2>5, <2>6, <2>10, <2>11 DEF Granted, ActiveStatus
  <2> QED
    BY <1>1, <2>6, <2>8, <2>12, GrantSteps
<1> QED
  BY <1>3, <1>4, <1>8 DEF RotateLease

-----------------------------------------------------------------------------
(* What sandboxes and Snapshots keep *)

\* A sandbox keeps the files of the version it was restored from.
SandboxesKeep ==
  \A s \in Sandboxes : Exists(s) =>
    /\ sandbox[s].base <= Cardinality(Stable)
    /\ \A t \in Stable : sandbox[s].base = snapshot[t].version =>
         snapshot[t].files \subseteq sandbox[s].files

\* So does a Snapshot, and its sandbox keeps the files it was made of.
SnapshotsKeep ==
  \A u \in Turns : snapshot[u].status # "none" =>
    /\ Exists(snapshot[u].box) /\ snapshot[u].files \subseteq sandbox[snapshot[u].box].files
    /\ \A t \in Stable : t < u /\ Descends(t, snapshot[u].box) => snapshot[t].files \subseteq snapshot[u].files

\* And what a worker has listed for its Snapshot.
ListsKeep ==
  \A w \in Workers : worker[w].pc = "staging" =>
    /\ worker[w].files \subseteq sandbox[worker[w].box].files
    /\ \A t \in Stable : t < worker[w].turn /\ Descends(t, worker[w].box) =>
         snapshot[t].files \subseteq worker[w].files

KeepsInv == SandboxesKeep /\ SnapshotsKeep /\ ListsKeep

\* Sandboxes only gain files, and a new one has those of the latest version.
SandboxesGrow ==
  \A s \in Sandboxes :
    /\ Exists(s) => /\ sandbox'[s].state # "none" /\ sandbox'[s].base = sandbox[s].base
                    /\ sandbox[s].files \subseteq sandbox'[s].files
    /\ ~Exists(s) /\ sandbox'[s].state # "none" =>
         sandbox'[s].base = LatestVersion /\ sandbox'[s].files = LatestFiles

\* What is listed is in the sandbox.
ListsGrow ==
  \A w \in Workers : worker'[w].pc = "staging" =>
    /\ worker'[w].turn = worker[w].turn /\ worker'[w].box = worker[w].box
    /\ \/ worker[w].pc = "staging" /\ worker'[w].files = worker[w].files
       \/ worker[w].pc = "listing" /\ worker'[w].files = sandbox[worker[w].box].files

\* A Snapshot is what a worker has listed, and does not change; the one that
\* becomes STABLE is that of the latest Turn.
SnapshotsGrow ==
  \A t \in Turns :
    /\ snapshot[t].status # "none" =>
         /\ snapshot'[t].status # "none" /\ snapshot'[t].version = snapshot[t].version
         /\ snapshot'[t].box = snapshot[t].box /\ snapshot'[t].files = snapshot[t].files
    /\ snapshot[t].status = "stable" => snapshot'[t].status = "stable"
    /\ snapshot[t].status = "none" /\ snapshot'[t].status # "none" =>
         \E w \in Workers : /\ worker[w].pc = "staging" /\ worker[w].turn = t
                            /\ snapshot'[t].box = worker[w].box /\ snapshot'[t].files = worker[w].files
    /\ snapshot[t].status # "stable" /\ snapshot'[t].status = "stable" =>
         /\ t = run.turn /\ snapshot[t].status = "staged"
         /\ snapshot[t].version = LatestVersion + 1

\* Such a step keeps the files.
LEMMA KeepSteps ==
  ASSUME WorkspaceInv, TypeOK', KeepsInv, SandboxesGrow, ListsGrow, SnapshotsGrow
  PROVE  KeepsInv'
<1>1. TypeOK /\ TurnsFollow /\ SandboxesKeep /\ SnapshotsKeep /\ ListsKeep
  BY DEF WorkspaceInv, KeepsInv
<1>2. LatestVersion = Cardinality(Stable) /\ Cardinality(Stable) \in Nat
      /\ Cardinality(Stable) <= Cardinality(Stable')
  <2>1. LatestVersion = Cardinality(Stable)
    BY LatestIsCount
  <2>2. Stable \subseteq Stable' /\ IsFiniteSet(Stable) /\ IsFiniteSet(Stable')
    <3>1. IsFiniteSet(Turns)
      BY WorkspaceAssumption, FS_Interval DEF Turns
    <3>2. Stable \subseteq Turns /\ Stable' \subseteq Turns
      BY DEF Stable
    <3>3. Stable \subseteq Stable'
      BY DEF Stable, SnapshotsGrow
    <3> QED
      BY <3>1, <3>2, <3>3, FS_Subset
  <2> QED
    BY <2>1, <2>2, FS_Subset, FS_CardinalityType
<1>3. \A t \in Stable' : \/ /\ t \in Stable /\ snapshot'[t].version = snapshot[t].version
                            /\ snapshot'[t].box = snapshot[t].box /\ snapshot'[t].files = snapshot[t].files
                         \/ t = run.turn /\ snapshot'[t].version = Cardinality(Stable) + 1
  BY <1>2 DEF Stable, SnapshotsGrow
<1>4. \A s : Exists(s) => Exists(s)' /\ sandbox'[s].base = sandbox[s].base
                          /\ sandbox[s].files \subseteq sandbox'[s].files
  BY DEF Exists, SandboxesGrow
<1>5. \A t \in Stable', s \in Sandboxes : t # run.turn /\ Exists(s) =>
        /\ t \in Stable /\ snapshot'[t].files = snapshot[t].files
        /\ snapshot'[t].box = s \/ sandbox'[s].base = snapshot'[t].version => Descends(t, s)
  BY <1>3, <1>4 DEF Descends
<1>6. Turns \subseteq Nat /\ run.turn \in Nat /\ Stable \subseteq Turns /\ Stable' \subseteq Turns
  BY <1>1 DEF Turns, TypeOK, Run, Stable
<1>7. SandboxesKeep'
  <2>1. ASSUME NEW s \in Sandboxes, Exists(s)'
        PROVE  /\ sandbox'[s].base <= Cardinality(Stable)
               /\ \A t \in Stable : sandbox'[s].base = snapshot[t].version =>
                    snapshot[t].files \subseteq sandbox'[s].files
    <3>1. CASE Exists(s)
      BY <1>1, <1>4, <3>1 DEF SandboxesKeep
    <3>2. CASE ~Exists(s)
      <4>1. sandbox'[s].base = LatestVersion /\ sandbox'[s].files = LatestFiles
        BY <2>1, <3>2 DEF SandboxesGrow, Exists
      <4>2. \A t \in Stable : snapshot[t].version = LatestVersion => snapshot[t].files \subseteq LatestFiles
        BY DEF LatestFiles
      <4> QED
        BY <1>2, <4>1, <4>2
    <3> QED
      BY <3>1, <3>2
  <2>2. ASSUME NEW s \in Sandboxes, Exists(s)' PROVE sandbox'[s].base \in Nat
    BY DEF TypeOK, Sandbox
  <2>3. ASSUME NEW s \in Sandboxes, Exists(s)', NEW t \in Stable', sandbox'[s].base = snapshot'[t].version
        PROVE  snapshot'[t].files \subseteq sandbox'[s].files
    BY <1>2, <1>3, <2>1, <2>2, <2>3
  <2>4. ASSUME NEW s \in Sandboxes, Exists(s)' PROVE sandbox'[s].base <= Cardinality(Stable')
    <3>1. Cardinality(Stable') \in Nat
      <4>1. IsFiniteSet(Turns)
        BY WorkspaceAssumption, FS_Interval DEF Turns
      <4>2. IsFiniteSet(Stable')
        BY <1>6, <4>1, FS_Subset
      <4> QED
        BY <4>2, FS_CardinalityType
    <3> QED
      BY <1>2, <2>1, <2>2, <2>4, <3>1
  <2> QED
    BY <2>3, <2>4 DEF SandboxesKeep
<1>8. SnapshotsKeep'
  <2>1. ASSUME NEW u \in Turns, snapshot[u].status # "none", snapshot'[u].status # "none"
        PROVE  /\ Exists(snapshot[u].box)' /\ snapshot'[u].files \subseteq sandbox'[snapshot'[u].box].files
               /\ \A t \in Stable' : t < u /\ Descends(t, snapshot[u].box)' => snapshot'[t].files \subseteq snapshot'[u].files
    <3>1. snapshot'[u].box = snapshot[u].box /\ snapshot'[u].files = snapshot[u].files
      BY <2>1 DEF SnapshotsGrow
    <3>2. /\ Exists(snapshot[u].box) /\ snapshot[u].files \subseteq sandbox[snapshot[u].box].files
          /\ \A t \in Stable : t < u /\ Descends(t, snapshot[u].box) => snapshot[t].files \subseteq snapshot[u].files
      BY <1>1, <2>1 DEF SnapshotsKeep
    <3>3. u <= run.turn
      BY <1>1, <2>1 DEF TurnsFollow
    <3>4. snapshot[u].box \in Sandboxes
      BY <3>2 DEF Exists
    <3> QED
      <4>1. Exists(snapshot[u].box)' /\ snapshot'[u].files \subseteq sandbox'[snapshot'[u].box].files
        BY <1>4, <3>1, <3>2 DEF Exists
      <4>2. ASSUME NEW t \in Stable', t < u, Descends(t, snapshot[u].box)'
            PROVE  snapshot'[t].files \subseteq snapshot'[u].files
        <5>1. t # run.turn
          BY <1>6, <3>3, <4>2
        <5>2. t \in Stable /\ snapshot'[t].files = snapshot[t].files /\ Descends(t, snapshot[u].box)
          BY <1>5, <3>1, <3>2, <3>4, <4>2, <5>1 DEF Descends
        <5> QED
          BY <3>1, <3>2, <4>2, <5>2
      <4> QED
        BY <4>1, <4>2
  <2>2. ASSUME NEW u \in Turns, snapshot[u].status = "none", snapshot'[u].status # "none"
        PROVE  /\ Exists(snapshot[u].box)' /\ snapshot'[u].files \subseteq sandbox'[snapshot'[u].box].files
               /\ \A t \in Stable' : t < u /\ Descends(t, snapshot[u].box)' => snapshot'[t].files \subseteq snapshot'[u].files
    <3>1. PICK w \in Workers : /\ worker[w].pc = "staging" /\ worker[w].turn = u
                               /\ snapshot'[u].box = worker[w].box /\ snapshot'[u].files = worker[w].files
      BY <2>2 DEF SnapshotsGrow
    <3>2. /\ worker[w].files \subseteq sandbox[worker[w].box].files
          /\ \A t \in Stable : t < u /\ Descends(t, worker[w].box) => snapshot[t].files \subseteq worker[w].files
      BY <1>1, <3>1 DEF ListsKeep
    <3>3. u <= run.turn
      BY <1>1, <3>1 DEF TurnsFollow
    <3>4. Exists(worker[w].box) /\ worker[w].box \in Sandboxes
      BY <3>1 DEF WorkspaceInv, HoldFollows, Touched, Stream, Exists
    <3> QED
      <4>1. Exists(snapshot[u].box)' /\ snapshot'[u].files \subseteq sandbox'[snapshot'[u].box].files
        BY <1>4, <3>1, <3>2, <3>4 DEF Exists
      <4>2. ASSUME NEW t \in Stable', t < u, Descends(t, snapshot[u].box)'
            PROVE  snapshot'[t].files \subseteq snapshot'[u].files
        <5>1. t # run.turn
          BY <1>6, <3>3, <4>2
        <5>2. t \in Stable /\ snapshot'[t].files = snapshot[t].files /\ Descends(t, worker[w].box)
          BY <1>5, <3>1, <3>4, <4>2, <5>1 DEF Descends
        <5> QED
          BY <3>1, <3>2, <4>2, <5>2
      <4> QED
        BY <4>1, <4>2
  <2> QED
    BY <2>1, <2>2 DEF SnapshotsKeep, Stable
<1>9. ListsKeep'
  <2>1. ASSUME NEW w \in Workers, worker'[w].pc = "staging"
        PROVE  /\ worker'[w].files \subseteq sandbox'[worker'[w].box].files
               /\ \A t \in Stable' : t < worker'[w].turn /\ Descends(t, worker[w].box)' =>
                    snapshot'[t].files \subseteq worker'[w].files
    <3>1. /\ worker'[w].turn = worker[w].turn /\ worker'[w].box = worker[w].box
          /\ \/ worker[w].pc = "staging" /\ worker'[w].files = worker[w].files
             \/ worker[w].pc = "listing" /\ worker'[w].files = sandbox[worker[w].box].files
      BY <2>1 DEF ListsGrow
    <3>2. Exists(worker[w].box) /\ worker[w].box \in Sandboxes
      BY <3>1 DEF WorkspaceInv, HoldFollows, Touched, Stream, Exists
    <3>3. worker[w].turn <= run.turn /\ worker[w].turn \in Turns
      BY <1>1, <3>1 DEF TurnsFollow
    <3>4. ASSUME NEW t \in Stable, t < worker[w].turn, Descends(t, worker[w].box)
          PROVE  snapshot[t].files \subseteq worker'[w].files
      <4>1. CASE worker[w].pc = "staging" /\ worker'[w].files = worker[w].files
        BY <1>1, <3>4, <4>1 DEF ListsKeep
      <4>2. CASE worker[w].pc = "listing" /\ worker'[w].files = sandbox[worker[w].box].files
        <5>1. CASE snapshot[t].box = worker[w].box
          BY <1>1, <1>6, <4>2, <5>1 DEF SnapshotsKeep, Stable
        <5>2. CASE sandbox[worker[w].box].base = snapshot[t].version
          BY <1>1, <3>2, <4>2, <5>2 DEF SandboxesKeep
        <5> QED
          BY <3>4, <5>1, <5>2 DEF Descends
      <4> QED
        BY <3>1, <4>1, <4>2
    <3>5. worker'[w].files \subseteq sandbox[worker[w].box].files
      BY <1>1, <3>1 DEF ListsKeep
    <3> QED
      <4>1. worker'[w].files \subseteq sandbox'[worker'[w].box].files
        BY <1>4, <3>1, <3>2, <3>5
      <4>2. ASSUME NEW t \in Stable', t < worker'[w].turn, Descends(t, worker[w].box)'
            PROVE  snapshot'[t].files \subseteq worker'[w].files
        <5>1. t # run.turn
          <6>1. t \in Nat /\ worker[w].turn \in Nat /\ t < worker[w].turn
            BY <1>6, <3>1, <3>3, <4>2
          <6> QED
            BY <1>6, <3>3, <6>1
        <5>2. t \in Stable /\ snapshot'[t].files = snapshot[t].files /\ Descends(t, worker[w].box)
          BY <1>5, <3>1, <3>2, <4>2, <5>1 DEF Descends
        <5> QED
          BY <3>1, <3>4, <4>2, <5>2
      <4> QED
        BY <4>1, <4>2
  <2> QED
    BY <2>1 DEF ListsKeep
<1> QED
  BY <1>7, <1>8, <1>9 DEF KeepsInv

\* The sandboxes that a step leaves alone, creates, destroys or writes to.
LEMMA SandboxesSteps == WorkspaceInv /\ [Next]_vars => SandboxesGrow
<1> SUFFICES ASSUME WorkspaceInv, [Next]_vars PROVE SandboxesGrow
  OBVIOUS
<1>1. sandbox \in [Sandboxes -> Sandbox] /\ worker \in [Workers -> Worker]
  BY DEF WorkspaceInv, TypeOK
<1>2. ASSUME UNCHANGED sandbox PROVE SandboxesGrow
  BY <1>2 DEF SandboxesGrow, Exists
<1>3. ASSUME NEW s, Exists(s), sandbox' = [sandbox EXCEPT ![s].state = "gone"] PROVE SandboxesGrow
  <2>1. \A r \in Sandboxes :
          /\ sandbox'[r].base = sandbox[r].base /\ sandbox'[r].files = sandbox[r].files
          /\ sandbox'[r].state = sandbox[r].state \/ (r = s /\ sandbox'[r].state = "gone")
    BY <1>1, <1>3 DEF Sandbox
  <2> QED
    BY <1>3, <2>1 DEF SandboxesGrow, Exists
<1>4. ASSUME NEW w \in Workers, Provide(w) PROVE SandboxesGrow
  <2> DEFINE row == [state |-> "alive", files |-> LatestFiles, base |-> LatestVersion]
  <2>1. ASSUME NEW s \in Sandboxes, sandbox[s].state = "none", sandbox' = [sandbox EXCEPT ![s] = row]
        PROVE  SandboxesGrow
    <3>1. row.state = "alive" /\ row.files = LatestFiles /\ row.base = LatestVersion
      OBVIOUS
    <3> HIDE DEF row
    <3>2. sandbox'[s] = row /\ \A r \in Sandboxes : r # s => sandbox'[r] = sandbox[r]
      BY <1>1, <2>1
    <3> QED
      BY <2>1, <3>1, <3>2 DEF SandboxesGrow, Exists
  <2> QED
    BY <1>2, <1>4, <2>1 DEF Provide
<1>5. ASSUME NEW w \in Workers, Write(w) PROVE SandboxesGrow
  <2>1. ASSUME sandbox' = [sandbox EXCEPT ![worker[w].box].files = @ \cup {worker[w].turn}]
        PROVE  SandboxesGrow
    <3>1. \A r \in Sandboxes :
            /\ sandbox'[r].base = sandbox[r].base /\ sandbox'[r].state = sandbox[r].state
            /\ sandbox[r].files \subseteq sandbox'[r].files
      BY <1>1, <2>1 DEF Sandbox
    <3> QED
      BY <3>1 DEF SandboxesGrow, Exists
  <2> QED
    BY <1>2, <1>5, <2>1 DEF Write
<1>6. ASSUME NEW w \in Workers, Acquire(w) PROVE SandboxesGrow
  <2>1. worker[w].pc = "discarding" => Exists(worker[w].old)
    BY DEF WorkspaceInv, HoldFollows, Touched, Discarding
  <2> QED
    BY <1>2, <1>3, <1>4, <1>6, <2>1 DEF Acquire, ReadLease, RenewLease, RotateLease, RestoreFails, Reject,
       Discard, Discarded
<1>7. ASSUME NEW w \in Workers, StartAttempt(w) \/ ExecuteTurn(w) \/ Crash(w) PROVE SandboxesGrow
  BY <1>2, <1>5, <1>7 DEF StartAttempt, Crash, ExecuteTurn, PrepareFails, Claim, Begin, ReadFails, BeginWrite,
     CallFails, Answer, ListFiles, Stage, Succeed, Commit, MarkDirty, Fail, Watch
<1>8. ASSUME NEW k \in Cleaners, Clean(k) \/ DestroyFails(k) \/ CleanerCrash(k) PROVE SandboxesGrow
  <2>1. cleaner[k].pc = "destroying" => Exists(cleaner[k].box)
    BY DEF WorkspaceInv, CleanupsFollow
  <2> QED
    BY <1>2, <1>3, <1>8, <2>1 DEF Clean, Destroy, FinishCleanup, ClaimCleanup, DestroyFails, CleanerCrash
<1>9. CASE PostTurn \/ CancelRun \/ Reclaim \/ ExecLapses \/ LeaseExpires \/ EnqueueDue
  BY <1>2, <1>9 DEF PostTurn, CancelRun, Reclaim, ExecLapses, LeaseExpires, EnqueueDue
<1>10. CASE \E s \in Sandboxes : ProviderExpires(s)
  BY <1>3, <1>10 DEF ProviderExpires, Exists
<1>11. CASE UNCHANGED vars
  BY <1>2, <1>11 DEF vars
<1> QED
  BY <1>6, <1>7, <1>8, <1>9, <1>10, <1>11 DEF Next

\* The Snapshots that a step stages or publishes.
LEMMA SnapshotsSteps == WorkspaceInv /\ [Next]_vars => SnapshotsGrow
<1> SUFFICES ASSUME WorkspaceInv, [Next]_vars PROVE SnapshotsGrow
  OBVIOUS
<1>1. /\ snapshot \in [Turns -> Snapshot] /\ worker \in [Workers -> Worker]
      /\ \A w \in Workers : worker[w].pc # "idle" => worker[w].turn \in Turns
  BY DEF WorkspaceInv, TypeOK, TurnsFollow
<1>2. ASSUME UNCHANGED snapshot PROVE SnapshotsGrow
  BY <1>2 DEF SnapshotsGrow
<1>3. ASSUME NEW w \in Workers, Stage(w) PROVE SnapshotsGrow
  <2> DEFINE row == [status |-> "staged", version |-> worker[w].version, files |-> worker[w].files,
                     box |-> worker[w].box]
  <2>1. CASE UNCHANGED snapshot
    BY <1>2, <2>1
  <2>2. CASE snapshot' = [snapshot EXCEPT ![worker[w].turn] = row] /\ snapshot[worker[w].turn].status = "none"
    <3>1. \A t \in Turns : snapshot'[t] = IF t = worker[w].turn THEN row ELSE snapshot[t]
      BY <1>1, <2>2
    <3>2. row.status = "staged" /\ row.box = worker[w].box /\ row.files = worker[w].files
      OBVIOUS
    <3>3. worker[w].pc = "staging"
      BY <1>3 DEF Stage
    <3> HIDE DEF row
    <3> QED
      BY <2>2, <3>1, <3>2, <3>3 DEF SnapshotsGrow
  <2> QED
    BY <1>3, <2>1, <2>2 DEF Stage
<1>4. ASSUME NEW w \in Workers, Commit(w) PROVE SnapshotsGrow
  <2>1. CASE UNCHANGED snapshot
    BY <1>2, <2>1
  <2>2. CASE /\ Current(w) /\ Publishable(worker[w].turn)
             /\ snapshot' = [snapshot EXCEPT ![worker[w].turn].status = "stable"]
    <3>1. worker[w].turn \in Turns /\ worker[w].turn = run.turn
      BY <1>1, <1>4, <2>2 DEF Commit, Current
    <3> QED
      BY <1>1, <2>2, <3>1 DEF SnapshotsGrow, Publishable, Snapshot
  <2> QED
    BY <1>4, <2>1, <2>2 DEF Commit
<1>5. ASSUME NEW w \in Workers, Acquire(w) PROVE SnapshotsGrow
  BY <1>2, <1>5 DEF Acquire, ReadLease, Provide, RenewLease, RotateLease, RestoreFails, Reject, Discard, Discarded
<1>6. ASSUME NEW w \in Workers, StartAttempt(w) \/ ExecuteTurn(w) \/ Crash(w) PROVE SnapshotsGrow
  BY <1>2, <1>3, <1>4, <1>6 DEF StartAttempt, Crash, ExecuteTurn, PrepareFails, Claim, Begin, ReadFails, BeginWrite,
     Write, CallFails, Answer, ListFiles, Succeed, MarkDirty, Fail, Watch
<1>7. ASSUME NEW k \in Cleaners, Clean(k) \/ DestroyFails(k) \/ CleanerCrash(k) PROVE SnapshotsGrow
  BY <1>2, <1>7 DEF Clean, Destroy, FinishCleanup, ClaimCleanup, DestroyFails, CleanerCrash
<1>8. CASE PostTurn \/ CancelRun \/ Reclaim \/ ExecLapses \/ LeaseExpires \/ EnqueueDue
           \/ \E s \in Sandboxes : ProviderExpires(s)
  BY <1>2, <1>8 DEF PostTurn, CancelRun, Reclaim, ExecLapses, LeaseExpires, EnqueueDue, ProviderExpires
<1>9. CASE UNCHANGED vars
  BY <1>2, <1>9 DEF vars
<1> QED
  BY <1>5, <1>6, <1>7, <1>8, <1>9 DEF Next

\* Only ListFiles lists.
LEMMA ListsSteps == WorkspaceInv /\ [Next]_vars => ListsGrow
<1> SUFFICES ASSUME WorkspaceInv, [Next]_vars PROVE ListsGrow
  OBVIOUS
<1>1. TypeOK /\ worker \in [Workers -> Worker]
  BY DEF WorkspaceInv, TypeOK
<1>2. ASSUME UNCHANGED worker PROVE ListsGrow
  <2>1. \A w \in Workers : worker[w].pc = "staging" => worker'[w] = worker[w]
    BY <1>2
  <2> QED
    BY <1>2, <2>1 DEF ListsGrow
<1>3. ASSUME NEW w \in Workers, Others(w), worker'[w].pc # "staging" PROVE ListsGrow
  BY <1>3 DEF ListsGrow, Others
<1>4. ASSUME NEW w \in Workers, NEW new, new.pc # "staging", worker' = [worker EXCEPT ![w] = new] PROVE ListsGrow
  BY <1>1, <1>3, <1>4 DEF Others
<1>5. ASSUME NEW w \in Workers, NEW pc \in WorkerPc \ {"staging"}, Goto(w, pc) PROVE ListsGrow
  BY <1>1, <1>3, <1>5, WorkerMoves DEF Continues, Updated
<1>6. ASSUME NEW w \in Workers, Drops(w) PROVE ListsGrow
  BY <1>3, <1>6 DEF Drops, Updated, LeftPcs
<1>7. ASSUME NEW w \in Workers, NEW permanent \in BOOLEAN,
             \/ Raise(w, permanent) \/ Dirty(w, permanent)
             \/ \E pc \in LeftPcs : Leave(w, pc, permanent)
             \/ worker' = [worker EXCEPT ![w] = IdleWorker]
      PROVE  ListsGrow
  BY <1>1, <1>6, <1>7, WorkerMoves
<1>8. ASSUME NEW w \in Workers, ListFiles(w) PROVE ListsGrow
  <2>1. CASE /\ snapshot[worker[w].turn].status = "none" /\ sandbox[worker[w].box].state = "alive"
             /\ worker' = [worker EXCEPT ![w].pc = "staging", ![w].version = LatestVersion + 1,
                                         ![w].files = sandbox[worker[w].box].files]
    <3> DEFINE new == [worker[w] EXCEPT !.pc = "staging", !.version = LatestVersion + 1,
                                        !.files = sandbox[worker[w].box].files]
    <3>1. worker[w] \in Worker /\ worker[w].pc = "listing"
      BY <1>1, <1>8 DEF ListFiles
    <3>2. /\ new.turn = worker[w].turn /\ new.box = worker[w].box
          /\ new.files = sandbox[worker[w].box].files
      BY <3>1 DEF Worker
    <3>3. worker' = [worker EXCEPT ![w] = new]
      BY <1>1, <2>1
    <3> HIDE DEF new
    <3>4. worker'[w] = new /\ \A v \in Workers \ {w} : worker'[v] = worker[v]
      BY <1>1, <3>3
    <3> QED
      BY <3>1, <3>2, <3>4 DEF ListsGrow
  <2>2. CASE Goto(w, "succeeding")
    BY <1>5, <2>2 DEF WorkerPc
  <2>3. CASE Dirty(w, TRUE) \/ Leave(w, "failing", FALSE)
    BY <1>7, <2>3 DEF LeftPcs
  <2> QED
    BY <1>8, <2>1, <2>2, <2>3 DEF ListFiles
<1>9. ASSUME NEW w \in Workers, StartAttempt(w) PROVE ListsGrow
  <2>1. worker'[w].pc # "staging" /\ Others(w)
    BY <1>1, <1>9 DEF StartAttempt, Others, IdleWorker
  <2> QED
    BY <1>3, <2>1
<1>10. ASSUME NEW w \in Workers, Reject(w) \/ AfterDiscard(w) \/ ReadLease(w) PROVE ListsGrow
  <2>1. CASE Leave(w, "failing", FALSE)
    BY <1>7, <2>1 DEF LeftPcs
  <2>2. CASE Reject(w) \/ ReadLease(w) \/ worker' = [worker EXCEPT ![w].pc = "held", ![w].old = 0]
    <3>1. Others(w)
      BY <1>1, <2>2 DEF Reject, ReadLease, Others
    <3>2. worker'[w].pc \in {"discarding", "deciding", "held"}
      BY <1>1, <2>2 DEF Reject, ReadLease, Worker, IdleWorker
    <3> QED
      BY <1>3, <3>1, <3>2
  <2> QED
    BY <1>10, <2>1, <2>2 DEF AfterDiscard
<1>11. ASSUME NEW w \in Workers, Provide(w) PROVE ListsGrow
  <2>1. CASE Goto(w, "renewed")
    BY <1>5, <2>1 DEF WorkerPc
  <2>2. CASE Raise(w, FALSE)
    BY <1>7, <2>2
  <2>3. ASSUME NEW s \in Sandboxes, worker' = [worker EXCEPT ![w].pc = "creating", ![w].box = s] PROVE ListsGrow
    <3>1. worker'[w].pc = "creating" /\ Others(w)
      BY <1>1, <2>3 DEF Others
    <3> QED
      BY <1>3, <3>1
  <2> QED
    BY <1>11, <2>1, <2>2, <2>3 DEF Provide
<1>12. ASSUME NEW w \in Workers, NEW l, NEW pc \in {"held", "discarding"}, Held(w, l, pc) PROVE ListsGrow
  <2>1. worker'[w].pc = pc /\ Others(w)
    BY <1>1, <1>12 DEF Held, Others
  <2> QED
    BY <1>3, <2>1
<1>13. ASSUME NEW w \in Workers, Acquire(w) PROVE ListsGrow
  <2>1. CASE RenewLease(w)
    BY <1>7, <1>12, <2>1 DEF RenewLease
  <2>2. CASE RotateLease(w)
    BY <1>5, <1>12, <2>2 DEF RotateLease, WorkerPc
  <2>3. CASE RestoreFails(w) \/ Discard(w) \/ Discarded(w)
    BY <1>5, <1>10, <2>3 DEF RestoreFails, Discard, Discarded, WorkerPc
  <2> QED
    BY <1>10, <1>11, <1>13, <2>1, <2>2, <2>3 DEF Acquire
<1>14. ASSUME NEW w \in Workers, ExecuteTurn(w) \/ Crash(w) PROVE ListsGrow
  <2>1. CASE PrepareFails(w) \/ Claim(w) \/ ReadFails(w) \/ BeginWrite(w) \/ CallFails(w)
    BY <1>5, <1>7, <2>1 DEF PrepareFails, Claim, ReadFails, BeginWrite, CallFails, WorkerPc, LeftPcs
  <2>2. CASE Begin(w)
    <3>1. CASE worker' = [worker EXCEPT ![w].pc = "working", ![w].entered = TRUE]
      <4>1. worker'[w].pc = "working" /\ Others(w)
        BY <1>1, <3>1 DEF Others
      <4> QED
        BY <1>3, <4>1
    <3> QED
      BY <1>5, <2>2, <3>1 DEF Begin, WorkerPc
  <2>3. CASE Write(w) \/ Answer(w) \/ Succeed(w)
    BY <1>5, <1>7, <2>3 DEF Write, Answer, Succeed, WorkerPc, LeftPcs
  <2>4. CASE Stage(w)
    <3>1. CASE Staged(w)
      <4>1. worker'[w].pc = "succeeding" /\ Others(w)
        BY <1>1, <3>1 DEF Staged, Others
      <4> QED
        BY <1>3, <4>1
    <3> QED
      BY <1>7, <2>4, <3>1 DEF Stage, LeftPcs
  <2>5. CASE Commit(w) \/ MarkDirty(w) \/ Fail(w) \/ Watch(w) \/ Crash(w)
    <3>1. worker[w].permanent \in BOOLEAN
      BY <1>1 DEF Worker
    <3> QED
      BY <1>7, <2>5, <3>1 DEF Commit, MarkDirty, Fail, Watch, Crash, LeftPcs
  <2> QED
    BY <1>8, <1>14, <2>1, <2>2, <2>3, <2>4, <2>5 DEF ExecuteTurn
<1>15. CASE PostTurn \/ CancelRun \/ Reclaim \/ ExecLapses \/ LeaseExpires \/ EnqueueDue
            \/ \E s \in Sandboxes : ProviderExpires(s)
  BY <1>2, <1>15 DEF PostTurn, CancelRun, Reclaim, ExecLapses, LeaseExpires, EnqueueDue, ProviderExpires
<1>16. ASSUME NEW k \in Cleaners, Clean(k) \/ DestroyFails(k) \/ CleanerCrash(k) PROVE ListsGrow
  BY <1>2, <1>16 DEF Clean, Destroy, FinishCleanup, ClaimCleanup, DestroyFails, CleanerCrash
<1>17. CASE UNCHANGED vars
  BY <1>2, <1>17 DEF vars
<1> QED
  BY <1>9, <1>13, <1>14, <1>15, <1>16, <1>17 DEF Next

-----------------------------------------------------------------------------
(* Theorems *)

\* The invariant is inductive.
LEMMA WorkspaceInductive == WorkspaceInv /\ [Next]_vars => WorkspaceInv'
<1> SUFFICES ASSUME WorkspaceInv, [Next]_vars PROVE WorkspaceInv'
  OBVIOUS
<1>1. CASE UNCHANGED vars
  <2>1. TypeOK' /\ Steady /\ RunKeeps
    BY <1>1, QuietSteady DEF vars, WorkspaceInv, TypeOK, RunKeeps, TurnsFollow
  <2> QED
    BY <1>1, <2>1, RestSteps DEF vars
<1>2. CASE PostTurn \/ CancelRun \/ Reclaim \/ ExecLapses
  BY <1>2, RunSteps
<1>3. CASE LeaseExpires \/ EnqueueDue \/ (\E s \in Sandboxes : ProviderExpires(s))
  BY <1>3, ExpirySteps
<1>4. ASSUME NEW w \in Workers, StartAttempt(w) PROVE WorkspaceInv'
  BY <1>4, StartSteps
<1>5. ASSUME NEW w \in Workers, Acquire(w) PROVE WorkspaceInv'
  BY <1>5, ReadSteps, ProvideSteps, RenewSteps, RotateSteps, RejectSteps, DiscardSteps DEF Acquire
<1>6. ASSUME NEW w \in Workers, ExecuteTurn(w) \/ Crash(w) PROVE WorkspaceInv'
  BY <1>6, LeaveSteps, CallSteps, ListSteps, StageSteps, SucceedSteps, CommitSteps DEF ExecuteTurn
<1>7. ASSUME NEW k \in Cleaners, Clean(k) \/ DestroyFails(k) \/ CleanerCrash(k) PROVE WorkspaceInv'
  BY <1>7, CleanerSteps
<1> QED
  BY <1>1, <1>2, <1>3, <1>4, <1>5, <1>6, <1>7 DEF Next

\* The invariant holds in every reachable state, for any number of workers,
\* cleaners, Turns and sandboxes.
THEOREM WorkspaceInvariant == Spec => []WorkspaceInv
<1>1. Init => WorkspaceInv
  BY InitInv
<1>2. WorkspaceInv /\ [Next]_vars => WorkspaceInv'
  BY WorkspaceInductive
<1> QED
  BY <1>1, <1>2, PTL DEF Spec

\* The sandbox of a valid Lease exists, and a cleanup recorded as done is done:
\* no rotation, late renewal or overlapping cleanup destroys the sandbox in use.
THEOREM LeasedSandboxExists == Spec => []SandboxesMatchRows
<1>1. WorkspaceInv => SandboxesMatchRows
  BY DEF WorkspaceInv, LeaseFollows, CleanupsFollow, SandboxesMatchRows
<1> QED
  BY <1>1, WorkspaceInvariant, PTL

\* A leased sandbox holds no file of a failed or cancelled Turn but its holder's.
THEOREM FailedTurnsLeaveNothing == Spec => []OnlyCommittedFiles
<1>1. WorkspaceInv => OnlyCommittedFiles
  BY DEF WorkspaceInv, FilesFollow
<1> QED
  BY <1>1, WorkspaceInvariant, PTL

\* Sandboxes and Snapshots keep the files they came from.
LEMMA FilesKept == Spec => []KeepsInv
<1>1. Init => KeepsInv
  BY DEF Init, KeepsInv, SandboxesKeep, SnapshotsKeep, ListsKeep, Exists, NoSnapshot, IdleWorker
<1>2. WorkspaceInv /\ KeepsInv /\ [Next]_vars => KeepsInv'
  <2> SUFFICES ASSUME WorkspaceInv, KeepsInv, [Next]_vars PROVE KeepsInv'
    OBVIOUS
  <2>1. TypeOK'
    BY WorkspaceInductive DEF WorkspaceInv
  <2> QED
    BY <2>1, SandboxesSteps, SnapshotsSteps, ListsSteps, KeepSteps
<1> QED
  BY <1>1, <1>2, WorkspaceInvariant, PTL DEF Spec

\* The published versions are gapless and ordered, contain only published Turns,
\* keep the files of those they descend from, and a succeeded RuntimeExecution
\* can always be published.
THEOREM PublishedInOrder == Spec => []StableVersions
<1>1. ASSUME WorkspaceInv, KeepsInv PROVE StableVersions
  <2>1. SnapshotsFollow /\ FilesFollow
    BY <1>1 DEF WorkspaceInv
  <2>2. LatestVersion = Cardinality(Stable)
    BY <1>1, LatestIsCount
  <2>3. ASSUME exec.state = "succeeded", run.status # "succeeded" PROVE Publishable(run.turn)
    <3>1. run.turn \in Turns /\ snapshot[run.turn].status # "none"
      BY <2>1, <2>3 DEF SnapshotsFollow
    <3>2. snapshot[run.turn].status # "stable"
      BY <2>1, <2>3, <3>1 DEF SnapshotsFollow, Stable
    <3>3. snapshot[run.turn].status = "staged"
      BY <1>1, <3>1, <3>2 DEF WorkspaceInv, TypeOK, Snapshot
    <3> QED
      BY <2>1, <2>2, <3>1, <3>3 DEF SnapshotsFollow, Publishable
  <2> QED
    BY <1>1, <2>1, <2>3 DEF StableVersions, SnapshotsFollow, FilesFollow, KeepsInv, SnapshotsKeep, Stable
<1> QED
  BY <1>1, WorkspaceInvariant, FilesKept, PTL

=============================================================================
