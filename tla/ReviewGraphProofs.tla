--------------------------- MODULE ReviewGraphProofs ---------------------------
(***************************************************************************)
(* Proofs about ReviewGraph, for any number of workers, papers, sections,  *)
(* outlines and Attempts, and both versions of the workflow; and, at the   *)
(* end, about ReviewSources, the half of a Review before it.               *)
(***************************************************************************)
EXTENDS ReviewGraph, FiniteSetTheorems, WellFoundedInduction, TLAPS

-----------------------------------------------------------------------------
(* The inductive invariant: the rows of the Review *)

Done(k) == review.step[k] = "succeeded"
Decided == {o \in Outlines : review.request[o] \in {"approve", "edit"}}

\* A person decides once, about an outline that can still be edited, and the
\* outline that is current from then on is the approved one.
RequestsFollow ==
  /\ \A o \in Outlines : review.request[o] # "none" => o <= MaxOutlines /\ Done("propose")
  /\ \A o \in Outlines : review.request[o] = "feedback" => o < MaxOutlines
  /\ \A o \in Outlines : review.outline[o] = "model" => Done("propose")
  /\ \A o \in Outlines : review.outline[o] = "edit" =>
       o - 1 \in Outlines /\ review.request[o - 1] = "edit"
  /\ \A o \in Decided : Done("review")
  /\ \A o, p \in Decided : o = p
  /\ Done("review") => review.current \in ApprovedOutlines /\ Done("propose")

SectionsFollow ==
  \A s \in Sections : review.section[s] # 0 => review.section[s] \in ApprovedOutlines

\* A Step succeeds on top of the one before it and of what it has to write.
StepsFollow ==
  /\ Done("draft") => /\ Done("matrix") /\ Done("review")
                      /\ \A s \in Sections : review.section[s] # 0
  /\ Done("validate") => Done("draft")
  /\ Done("consistency") => Done("validate") /\ review.report
  /\ Done("export") => Done("consistency")
  /\ Done("export") <=> review.artifact # 0
  /\ run.status = "succeeded" => Done("export") /\ Done("finalize")

\* The part of EventsMatchFacts that is about Events and files.
Asked == {o \in Outlines : review.request[o] # "none"}
Drafted == {s \in Sections : review.section[s] # 0}
One(b) == IF b THEN 1 ELSE 0
CountsFollow ==
  /\ review.events["evidence_matrix_completed"] = One(Done("matrix"))
  /\ review.events["outline_proposed"] = Cardinality(Asked)
  /\ review.events["section_draft_completed"] = Cardinality(Drafted)
  /\ review.events["citation_validation_completed"]
       = One(review.step["validate"] \in {"succeeded", "failed"})
  /\ review.events["review_artifact_created"] = One(review.artifact # 0)
  /\ review.artifact # 0 => review.artifact \in review.files

RowsFollow ==
  OneQuestion /\ RequestsFollow /\ SectionsFollow /\ StepsFollow /\ CountsFollow

-----------------------------------------------------------------------------
(* The inductive invariant: the graph and the workers *)

\* A decision is about an outline. In review.v2 no feedback gets beyond the
\* node that would propose the next outline.
GraphFollows(g) ==
  /\ g.next = "apply" => g.outline # 0
  /\ version = "review.v2" /\ g.round # 0 => g.round = 1 /\ g.next = "propose" /\ g.feedback # 0

\* What a worker has found or written stays: an outline that may be proposed, the
\* approved outline and all the sections that are not drafted, the Step before
\* the one it executes, the files it has exported.
WorkFollows(w) ==
  LET g == work[w].graph
  IN /\ At(w, "persist") \/ At(w, "pause") =>
          /\ g.next = "propose" /\ g.round + 1 <= MaxOutlines
          /\ version = "review.v2" => g.round = 0
     /\ At(w, "pause") => Done("propose")
     /\ At(w, "draft") => g.next = "draft"
     /\ At(w, "draft") \/ (At(w, "step") /\ g.next = "draft") =>
          /\ g.approved \in ApprovedOutlines
          /\ Done("matrix") /\ Done("review")
          /\ work[w].todo \subseteq Sections
          /\ \A s \in Sections : review.section[s] = 0 => s \in work[w].todo
     /\ At(w, "step") => \/ g.next = "draft"
                         \/ g.next = "validate" /\ Done("draft")
                         \/ g.next = "consistency" /\ Done("validate")
     /\ At(w, "spoil") => g.next \in {"draft", "consistency"}
     /\ At(w, "write") => \/ g.next = "validate" /\ Done("draft")
                          \/ g.next = "consistency" /\ Done("validate")
     /\ At(w, "commit") =>
          \/ g.next = "consistency" /\ Done("validate") /\ review.report
          \/ g.next = "export" /\ Done("consistency") /\ work[w].content \in review.files

GraphsFollow ==
  /\ GraphFollows(ckpt)
  /\ \A w \in Workers : GraphFollows(work[w].graph) /\ WorkFollows(w)

ReviewInv == TypeOK /\ RowsFollow /\ GraphsFollow

-----------------------------------------------------------------------------
(* What a step may do *)

\* Nothing that a worker may rely on is taken back.
Grows ==
  /\ \A k \in StepKeys : Done(k) => Done(k)'
  /\ ApprovedOutlines \subseteq ApprovedOutlines'
  /\ \A s \in Sections : review.section[s] # 0 => review'.section[s] = review.section[s]
  /\ review.report => review'.report
  /\ review.files \subseteq review'.files

\* A step is not about the outline: neither what a person is asked or has decided
\* changes nor what is current, and it leaves the stage of a Run that waits alone.
Silent ==
  /\ review'.request = review.request /\ review'.current = review.current
  /\ review'.step["review"] = review.step["review"]
  /\ Done("propose") => Done("propose")'
  /\ \A o \in Outlines : review'.outline[o] = "edit" <=> review.outline[o] = "edit"
  /\ \A o \in Outlines : review'.outline[o] = "model" => Done("propose")'
  /\ run.status = "waiting" => review'.stage = review.stage

\* Besides, it writes no Event and completes no Step but that of the proposal.
Quiet ==
  /\ Silent
  /\ review'.section = review.section /\ review'.events = review.events
  /\ review'.artifact = review.artifact
  /\ \A k \in StepKeys \ {"propose"} : Done(k)' <=> Done(k)
  /\ review'.step["validate"] = "failed" <=> review.step["validate"] = "failed"
  /\ review.report => review'.report
  /\ review.files \subseteq review'.files

\* A Run that waits may be cancelled meanwhile, but not go on, and none begins to wait.
Patient(old, new) ==
  /\ new \in RunRow
  /\ new.status = "waiting" => old.status = "waiting"
  /\ old.status = "waiting" => new.status \in {"waiting", "cancelled"}
  /\ old.status = "cancelled" => new.status = "cancelled"

\* The same of a Run that does not succeed.
RunMoved(old, new) ==
  Patient(old, new) /\ (new.status = "succeeded" <=> old.status = "succeeded")

\* One worker goes on, to a place that it may be in.
Acts(w) ==
  /\ work' \in [Workers -> Work]
  /\ \A v \in Workers : v # w => work'[v] = work[v]
  /\ GraphFollows(work[w].graph)' /\ WorkFollows(w)'

-----------------------------------------------------------------------------
(* First and last elements *)

\* Some finitely many numbers, if there are any, have a first one.
LEMMA FirstOfFinite ==
  ASSUME NEW S, S \subseteq Nat, IsFiniteSet(S), S # {}
  PROVE  \E i \in S : \A j \in S : i <= j
<1> DEFINE Below(i) == {j \in S : j < i}
           T == {Below(i) : i \in S}
<1>1. T \subseteq FiniteSubsetsOf(S) /\ T # {}
  <2>1. ASSUME NEW i \in S PROVE Below(i) \in FiniteSubsetsOf(S)
    <3>1. Below(i) \in SUBSET S /\ IsFiniteSet(S)
      OBVIOUS
    <3> HIDE DEF Below
    <3> QED
      BY <3>1, FS_Subset DEF FiniteSubsetsOf
  <2> HIDE DEF Below
  <2> QED
    BY <2>1
<1>2. PICK x \in T : \A y \in T : ~(<<y, x>> \in StrictSubsetOrdering(S))
  <2>1. IsWellFoundedOn(StrictSubsetOrdering(S), FiniteSubsetsOf(S))
    BY FS_StrictSubsetOrderingWellFounded
  <2> HIDE DEF T
  <2> QED
    BY <1>1, <2>1, WFMin
<1>3. PICK i \in S : x = Below(i)
  BY <1>2
<1>4. ASSUME NEW j \in S, j < i PROVE FALSE
  <2>1. i \in Nat /\ j \in Nat /\ \A k \in S : k \in Nat
    OBVIOUS
  <2>2. j \in Below(i) /\ j \notin Below(j) /\ Below(j) \in T
    BY <1>4, <2>1
  <2>3. \A k \in Below(j) : k \in Below(i)
    BY <1>4, <2>1
  <2>4. <<Below(j), x>> \in StrictSubsetOrdering(S)
    BY <1>3, <2>2, <2>3 DEF StrictSubsetOrdering
  <2> QED
    BY <1>2, <2>2, <2>4
<1>5. \A j \in S : i <= j
  BY <1>4
<1> QED
  BY <1>5

\* Some numbers up to n, if there are any, have a first one.
LEMMA FirstExists ==
  ASSUME NEW n \in Nat, NEW S \in SUBSET (1..n), S # {}
  PROVE  \E i \in S : \A j \in S : i <= j
<1>1. S \subseteq 1..n /\ S \subseteq Nat /\ IsFiniteSet(1..n)
  BY FS_Interval
<1> QED
  BY <1>1, FS_Subset, FirstOfFinite

\* The same from the other end.
LEMMA LastExists ==
  ASSUME NEW n \in Nat, NEW S \in SUBSET (1..n), S # {}
  PROVE  \E i \in S : \A j \in S : j <= i
<1> DEFINE T == {n + 1 - i : i \in S}
<1>1. T \in SUBSET (1..n) /\ T # {}
  <2>1. ASSUME NEW i \in S PROVE n + 1 - i \in 1..n
    <3>1. i \in 1..n
      OBVIOUS
    <3> QED
      BY <3>1
  <2> QED
    BY <2>1
<1>2. PICK t \in T : \A u \in T : t <= u
  <2> HIDE DEF T
  <2> QED
    BY <1>1, FirstExists
<1>3. PICK i \in S : t = n + 1 - i
  BY <1>2
<1>4. ASSUME NEW j \in S PROVE j <= i
  <2>1. n + 1 - j \in T
    OBVIOUS
  <2>2. n + 1 - i <= n + 1 - j
    BY <1>2, <1>3, <2>1
  <2> QED
    BY <2>2
<1> QED
  BY <1>4

\* Papers and sections are numbered.
LEMMA Numbered ==
  /\ Cardinality(Sections) \in Nat /\ Sections = 1 .. Cardinality(Sections)
  /\ Papers \subseteq Nat /\ Sections \subseteq Nat /\ IsFiniteSet(Sections)
<1>1. Cardinality(Papers) \in Nat /\ Cardinality(Sections) \in Nat
  BY GraphAssumption, FS_CardinalityType
<1>2. Papers = 1 .. Cardinality(Papers) /\ Sections = 1 .. Cardinality(Sections)
  BY GraphAssumption
<1> QED
  BY <1>1, <1>2, GraphAssumption

\* The outlines are numbered, and there is one more than a person may ask for.
LEMMA OutlineFacts ==
  /\ MaxOutlines \in Nat /\ 1 <= MaxOutlines
  /\ \A n : n \in Outlines <=> n \in Nat /\ 1 <= n /\ n <= MaxOutlines + 1
  /\ IsFiniteSet(Outlines)
<1>1. MaxOutlines \in Nat /\ 1 <= MaxOutlines
  BY GraphAssumption
<1>2. IsFiniteSet(Outlines)
  BY <1>1, FS_Interval DEF Outlines
<1> QED
  BY <1>1, <1>2 DEF Outlines

\* The names of the stages.
LEMMA StageNames ==
  {Stages[i] : i \in DOMAIN Stages}
    = {"build_evidence_matrix", "propose_outline", "review_outline", "draft_sections",
       "validate_sections", "consistency_check", "export_review", "finalize"}
<1>1. DOMAIN Stages = 1..8
  BY DEF Stages
<1>2. 1..8 = {1, 2, 3, 4, 5, 6, 7, 8}
  OBVIOUS
<1>3. /\ Stages[1] = "build_evidence_matrix" /\ Stages[2] = "propose_outline"
      /\ Stages[3] = "review_outline" /\ Stages[4] = "draft_sections"
      /\ Stages[5] = "validate_sections" /\ Stages[6] = "consistency_check"
      /\ Stages[7] = "export_review" /\ Stages[8] = "finalize"
  BY DEF Stages
<1> QED
  BY <1>1, <1>2, <1>3

\* The newest answer is one of the outlines, or none.
LEMMA LatestInputType == TypeOK => LatestInput \in Nat
<1> SUFFICES ASSUME TypeOK, Resolved # {} PROVE LatestInput \in Nat
  BY OutlineFacts DEF LatestInput, Selection
<1>1. Resolved \in SUBSET (1 .. (MaxOutlines + 1)) /\ MaxOutlines + 1 \in Nat
  BY OutlineFacts DEF Resolved, Outlines
<1>2. \E o \in Resolved : \A q \in Resolved : q <= o
  BY <1>1, LastExists
<1>3. LatestInput \in Resolved
  BY <1>2 DEF LatestInput
<1> QED
  BY <1>1, <1>3

-----------------------------------------------------------------------------
(* Types *)

\* The empty records are typed.
LEMMA EmptyType ==
  /\ NoCheckpoint \in GraphState /\ InitialState \in GraphState /\ Idle \in Work
  /\ NewReview \in Review /\ NewRun \in RunRow
<1>1. NoCheckpoint \in GraphState /\ InitialState \in GraphState
  BY DEF NoCheckpoint, InitialState, GraphState, Nodes
<1>2. Idle \in Work
  BY <1>1 DEF Idle, Work, Pcs, Exports
<1>3. NewReview \in Review
  BY StageNames DEF NewReview, Review, StepStatus
<1>4. NewRun \in RunRow
  BY DEF NewRun, RunRow, RowStatus
<1> QED
  BY <1>1, <1>2, <1>3, <1>4

\* Every move of the row but Paused, Resumed and Succeeded is of the quiet kind.
LEMMA RowMoves ==
  ASSUME NEW row \in RunRow
  PROVE  /\ RunMoved(row, row)
         /\ row.status = "queued" => RunMoved(row, Started(row))
         /\ Cancellable(row) => RunMoved(row, Cancelled(row))
         /\ Reclaimable(row) =>
              \A final \in BOOLEAN : RunMoved(row, Reclaimed(row, final))
         /\ \A attempt : RunMoved(row, Closed(row, attempt))
         /\ \A attempt : \A final \in BOOLEAN :
              RunMoved(row, FailedRun(row, attempt, final))
<1> USE DEF RunRow, RowStatus, Terminal, RunMoved, Patient
<1>1. RunMoved(row, row) /\ (row.status = "queued" => RunMoved(row, Started(row)))
  BY DEF Started
<1>2. Cancellable(row) => RunMoved(row, Cancelled(row))
  BY DEF Cancellable, Cancelled, Running
<1>3. \A final \in BOOLEAN : RunMoved(row, AfterFailure(row, final))
  BY DEF AfterFailure, Running
<1>4. ASSUME NEW old \in RunRow, NEW attempt
      PROVE  Closed(old, attempt) \in RunRow /\ Closed(old, attempt).status = old.status
  BY DEF Closed
<1>5. \A attempt : RunMoved(row, Closed(row, attempt))
  BY <1>4
<1>6. \A attempt : \A final \in BOOLEAN : RunMoved(row, FailedRun(row, attempt, final))
  BY <1>1, <1>3, <1>4 DEF FailedRun
<1>7. ASSUME Reclaimable(row), NEW final \in BOOLEAN PROVE RunMoved(row, Reclaimed(row, final))
  <2>1. AfterFailure(row, final) \in RunRow
    BY <1>3
  <2> QED
    BY <1>3, <1>7, <2>1 DEF Reclaimable, Reclaimed, Running
<1> QED
  BY <1>1, <1>2, <1>5, <1>6, <1>7

\* A stage that is at least s is s or the stage there was.
LEMMA AtLeastStage ==
  ASSUME NEW s
  PROVE  AtLeast(s) \in {s, review.stage}
BY DEF AtLeast

-----------------------------------------------------------------------------
(* Quiet steps *)

\* What stays keeps the outlines approved.
LEMMA ApprovedStay ==
  ASSUME TypeOK, RequestsFollow,
         \A o \in Outlines : review.request[o] \in {"approve", "edit"} =>
           review'.request[o] = review.request[o],
         \A o \in Outlines : review.outline[o] = "edit" => review'.outline[o] = "edit"
  PROVE  ApprovedOutlines \subseteq ApprovedOutlines'
<1>1. ASSUME NEW o \in ApprovedOutlines PROVE o \in ApprovedOutlines'
  <2>1. o \in Outlines
    BY DEF ApprovedOutlines
  <2>2. CASE review.request[o] = "approve"
    BY <2>1, <2>2 DEF ApprovedOutlines
  <2>3. CASE review.outline[o] = "edit"
    <3>1. o - 1 \in Outlines /\ review.request[o - 1] = "edit"
      BY <2>1, <2>3 DEF RequestsFollow
    <3> QED
      BY <2>1, <2>3, <3>1 DEF ApprovedOutlines
  <2> QED
    BY <2>2, <2>3 DEF ApprovedOutlines
<1> QED
  BY <1>1

\* There is one approved outline at most.
LEMMA OneApproved ==
  ASSUME TypeOK, RequestsFollow
  PROVE  \A o, p \in ApprovedOutlines : o = p
<1> SUFFICES ASSUME NEW o \in ApprovedOutlines, NEW p \in ApprovedOutlines PROVE o = p
  OBVIOUS
<1> DEFINE Source(x) == IF review.request[x] = "approve" THEN x ELSE x - 1
<1>1. ASSUME NEW x \in ApprovedOutlines
      PROVE  /\ x \in Nat /\ Source(x) \in Decided
             /\ review.request[x] = "approve" <=> review.request[Source(x)] = "approve"
  <2>1. x \in Outlines /\ x \in Nat
    BY OutlineFacts DEF ApprovedOutlines
  <2>2. CASE review.request[x] = "approve"
    BY <2>1, <2>2 DEF Decided
  <2>3. CASE review.request[x] # "approve"
    <3>1. review.outline[x] = "edit"
      BY <2>3 DEF ApprovedOutlines
    <3>2. x - 1 \in Outlines /\ review.request[x - 1] = "edit"
      BY <2>1, <3>1 DEF RequestsFollow
    <3> QED
      BY <2>1, <2>3, <3>2 DEF Decided
  <2> QED
    BY <2>2, <2>3
<1>2. Source(o) = Source(p)
  <2>1. Source(o) \in Decided /\ Source(p) \in Decided
    BY <1>1
  <2> HIDE DEF Source
  <2> QED
    BY <2>1 DEF RequestsFollow
<1>3. review.request[o] = "approve" <=> review.request[p] = "approve"
  BY <1>1, <1>2
<1> QED
  BY <1>1, <1>2, <1>3

\* A step that is not about the outline keeps what is said of it.
LEMMA SilentKeeps ==
  ASSUME TypeOK, RowsFollow, Silent, Patient(run, run')
  PROVE  OneQuestion' /\ RequestsFollow' /\ ApprovedOutlines' = ApprovedOutlines
<1> USE DEF RowsFollow
<1>1. OpenRequest' = OpenRequest
  BY DEF Silent, OpenRequest
<1>2. OneQuestion'
  BY <1>1 DEF Silent, Patient, OneQuestion
<1>3. ApprovedOutlines' = ApprovedOutlines
  <2>1. review'.request = review.request
    BY DEF Silent
  <2>2. \A o \in Outlines : review'.outline[o] = "edit" <=> review.outline[o] = "edit"
    BY DEF Silent
  <2> QED
    BY <2>1, <2>2 DEF ApprovedOutlines
<1>4. Decided' = Decided /\ (Done("review")' <=> Done("review"))
  BY DEF Silent, Decided, Done
<1>5. RequestsFollow'
  BY <1>3, <1>4 DEF Silent, RequestsFollow
<1> QED
  BY <1>2, <1>3, <1>5

\* A quiet step takes nothing back.
LEMMA QuietGrows ==
  ASSUME TypeOK, RequestsFollow, Quiet
  PROVE  Grows
<1>1. ApprovedOutlines \subseteq ApprovedOutlines'
  BY ApprovedStay DEF Quiet, Silent
<1>2. \A k \in StepKeys : Done(k) => Done(k)'
  BY DEF Quiet, Silent
<1> QED
  BY <1>1, <1>2 DEF Quiet, Grows

\* A quiet step keeps the invariant of the rows.
LEMMA QuietKeeps ==
  ASSUME TypeOK, RowsFollow, Quiet, RunMoved(run, run')
  PROVE  RowsFollow'
<1> USE DEF RowsFollow
<1>1. OneQuestion' /\ RequestsFollow' /\ ApprovedOutlines' = ApprovedOutlines
  BY SilentKeeps DEF Quiet, RunMoved
<1>2. SectionsFollow'
  BY <1>1 DEF Quiet, SectionsFollow
<1>3. /\ Done("matrix")' <=> Done("matrix")
      /\ Done("review")' <=> Done("review")
      /\ Done("draft")' <=> Done("draft")
      /\ Done("validate")' <=> Done("validate")
      /\ Done("consistency")' <=> Done("consistency")
      /\ Done("export")' <=> Done("export")
      /\ Done("finalize")' <=> Done("finalize")
  BY DEF Quiet, StepKeys
<1>4. StepsFollow'
  BY <1>3 DEF Quiet, StepsFollow, RunMoved
<1>5. CountsFollow'
  <2>1. Asked' = Asked /\ Drafted' = Drafted
    BY DEF Quiet, Silent, Asked, Drafted
  <2>2. (review.step["validate"] \in {"succeeded", "failed"})'
          <=> review.step["validate"] \in {"succeeded", "failed"}
    BY <1>3 DEF Quiet, Done
  <2> QED
    BY <1>3, <2>1, <2>2 DEF Quiet, CountsFollow, One
<1> QED
  BY <1>1, <1>2, <1>4, <1>5

\* A step that leaves the Review alone is quiet.
LEMMA SameIsQuiet ==
  ASSUME TypeOK, RequestsFollow, review' = review
  PROVE  Quiet
BY DEF Quiet, Silent, Done, RequestsFollow

-----------------------------------------------------------------------------
(* The workers *)

PlainPcs == {"idle", "load", "papers", "input", "stage", "thread", "start", "command", "node",
             "raise", "return"}

\* What a worker that goes on has to be.
LEMMA UpdateActs ==
  ASSUME TypeOK, version' = version, NEW w \in Workers, NEW new \in Work,
         work' = [work EXCEPT ![w] = new], GraphFollows(new.graph), WorkFollows(w)'
  PROVE  Acts(w)
<1>1. work' \in [Workers -> Work] /\ \A v \in Workers : v # w => work'[v] = work[v]
  BY DEF TypeOK
<1>2. work'[w] = new
  BY DEF TypeOK
<1>3. GraphFollows(work[w].graph)'
  BY <1>2 DEF GraphFollows
<1> QED
  BY <1>1, <1>3 DEF Acts

\* In most places there is nothing to rely on.
LEMMA PlainActs ==
  ASSUME TypeOK, version' = version, NEW w \in Workers, NEW new \in Work,
         work' = [work EXCEPT ![w] = new], GraphFollows(new.graph), new.pc \in PlainPcs
  PROVE  Acts(w)
<1>1. work'[w] = new
  BY DEF TypeOK
<1>2. WorkFollows(w)'
  BY <1>1 DEF WorkFollows, At, PlainPcs
<1> QED
  BY <1>2, UpdateActs

\* A worker that raises keeps its graph.
LEMMA RaiseActs ==
  ASSUME TypeOK, GraphsFollow, version' = version, NEW w \in Workers,
         NEW permanent \in BOOLEAN,
         NEW why \in {"none", "no_checkpoint", "outline_state", "feedback_round"},
         Raise(w, permanent, why)
  PROVE  Acts(w)
<1> DEFINE new == [work[w] EXCEPT !.pc = "raise", !.todo = {}, !.previous = 0, !.content = 0,
                                  !.permanent = permanent, !.why = why]
<1>1. work[w] \in Work /\ GraphFollows(work[w].graph)
  BY DEF TypeOK, GraphsFollow
<1>2. new \in Work
  BY <1>1 DEF Work, Pcs
<1>3. work' = [work EXCEPT ![w] = new]
  BY DEF Raise
<1>4. new.pc \in PlainPcs /\ new.graph = work[w].graph
  BY <1>1 DEF Work, PlainPcs
<1> HIDE DEF new
<1> QED
  BY <1>1, <1>2, <1>3, <1>4, PlainActs

\* The two usual errors.
LEMMA ErrorActs ==
  ASSUME TypeOK, GraphsFollow, version' = version, NEW w \in Workers, Retry(w) \/ Reject(w)
  PROVE  Acts(w)
BY RaiseActs DEF Retry, Reject

\* A worker that finished a node has merged its update.
LEMMA FinishActs ==
  ASSUME TypeOK, version' = version, NEW w \in Workers,
         NEW state \in GraphState, GraphFollows(state), Finish(w, state)
  PROVE  Acts(w)
<1> DEFINE graph == [state EXCEPT !.resume = 0]
           new == [work[w] EXCEPT !.pc = "node", !.todo = {}, !.content = 0, !.previous = 0,
                                  !.dirty = TRUE, !.graph = graph]
<1>1. graph \in GraphState /\ GraphFollows(graph)
  BY DEF GraphState, GraphFollows
<1>2. work[w] \in Work
  BY DEF TypeOK
<1> HIDE DEF graph
<1>3. new \in Work
  BY <1>1, <1>2 DEF Work, Pcs
<1>4. work' = [work EXCEPT ![w] = new]
  BY DEF Finish, graph
<1>5. new.pc \in PlainPcs /\ new.graph = graph
  BY <1>2 DEF Work, PlainPcs
<1> HIDE DEF new
<1> QED
  BY <1>1, <1>3, <1>4, <1>5, PlainActs

\* Nodes other than the decision ask nothing of the graph state.
LEMMA NextNodeActs ==
  ASSUME TypeOK, GraphsFollow, version' = version, NEW w \in Workers,
         NEW n \in {"validate", "consistency", "export", "finalize", "end"},
         work[w].graph.next # "propose", NextNode(w, n)
  PROVE  Acts(w)
<1> DEFINE state == [work[w].graph EXCEPT !.next = n]
<1>1. work[w].graph \in GraphState /\ GraphFollows(work[w].graph)
  BY DEF TypeOK, Work, GraphsFollow
<1>2. state \in GraphState
  BY <1>1 DEF GraphState, Nodes
<1>3. GraphFollows(state)
  BY <1>1 DEF GraphState, GraphFollows
<1> QED
  BY <1>2, <1>3, FinishActs DEF NextNode

\* What a worker relies on stays while it waits.
LEMMA WorkStays ==
  ASSUME ReviewInv, version' = version, review' \in Review, Grows, NEW w \in Workers,
         work'[w] = work[w]
  PROVE  GraphFollows(work[w].graph)' /\ WorkFollows(w)'
<1>1. GraphFollows(work[w].graph) /\ WorkFollows(w) /\ work[w] \in Work
  BY DEF ReviewInv, GraphsFollow, TypeOK
<1>2. GraphFollows(work[w].graph)'
  BY <1>1 DEF GraphFollows
<1>3. \A k \in StepKeys : Done(k) => Done(k)'
  BY DEF Grows
<1>4. /\ Done("propose") => Done("propose")'
      /\ Done("matrix") => Done("matrix")'
      /\ Done("review") => Done("review")'
      /\ Done("draft") => Done("draft")'
      /\ Done("validate") => Done("validate")'
      /\ Done("consistency") => Done("consistency")'
  BY <1>3 DEF StepKeys
<1>5. \A s \in Sections : review'.section[s] = 0 => review.section[s] = 0
  BY DEF Grows
<1>6. WorkFollows(w)'
  BY <1>1, <1>4, <1>5 DEF WorkFollows, At, Grows
<1> QED
  BY <1>2, <1>6

\* The parts of the invariant put together.
LEMMA PartsKeep ==
  ASSUME ReviewInv, version' = version, run' \in RunRow, review' \in Review,
         ckpt' \in GraphState, GraphFollows(ckpt'), Grows, RowsFollow',
         work' \in [Workers -> Work],
         \A v \in Workers : work'[v] = work[v] \/ (GraphFollows(work[v].graph) /\ WorkFollows(v))'
  PROVE  ReviewInv'
<1>1. TypeOK'
  BY DEF ReviewInv, TypeOK
<1>2. GraphFollows(ckpt)'
  BY DEF GraphFollows
<1>3. \A v \in Workers : GraphFollows(work[v].graph)' /\ WorkFollows(v)'
  BY WorkStays
<1> QED
  BY <1>1, <1>2, <1>3 DEF ReviewInv, GraphsFollow

\* One worker goes on, and the rows grow.
LEMMA WorkerKeeps ==
  ASSUME ReviewInv, NEW w \in Workers, Acts(w), UNCHANGED <<version, ckpt>>,
         run' \in RunRow, review' \in Review, Grows, RowsFollow'
  PROVE  ReviewInv'
<1>1. ckpt' \in GraphState /\ GraphFollows(ckpt')
  BY DEF ReviewInv, TypeOK, GraphsFollow
<1>2. work' \in [Workers -> Work]
  BY DEF Acts
<1>3. \A v \in Workers : work'[v] = work[v] \/ (GraphFollows(work[v].graph) /\ WorkFollows(v))'
  BY DEF Acts
<1> QED
  BY <1>1, <1>2, <1>3, PartsKeep

\* One worker goes on, and nobody is told.
LEMMA QuietWorkerKeeps ==
  ASSUME ReviewInv, NEW w \in Workers, Acts(w), UNCHANGED <<version, run, ckpt>>,
         review' \in Review, Quiet
  PROVE  ReviewInv'
<1>1. TypeOK /\ RowsFollow /\ RequestsFollow /\ run' \in RunRow
  BY DEF ReviewInv, RowsFollow, TypeOK
<1>2. RunMoved(run, run')
  BY <1>1, RowMoves DEF TypeOK
<1> QED
  BY <1>1, <1>2, QuietGrows, QuietKeeps, WorkerKeeps

\* The same, when the Review stays as it is.
LEMMA SameWorkerKeeps ==
  ASSUME ReviewInv, NEW w \in Workers, Acts(w), UNCHANGED <<version, run, review, ckpt>>
  PROVE  ReviewInv'
<1>1. Quiet /\ review' \in Review
  BY SameIsQuiet DEF ReviewInv, RowsFollow, TypeOK
<1> QED
  BY <1>1, QuietWorkerKeeps

-----------------------------------------------------------------------------
(* The Run *)

\* The row of the Run moves, and some worker with it.
LEMMA RowStepKeeps ==
  ASSUME ReviewInv, UNCHANGED <<version, review>>, RunMoved(run, run'),
         ckpt' = ckpt \/ \E w \in Workers : ckpt' = work[w].graph,
         work' = work \/ \E w \in Workers : Acts(w)
  PROVE  ReviewInv'
<1>1. TypeOK /\ RowsFollow /\ RequestsFollow /\ GraphsFollow
  BY DEF ReviewInv, RowsFollow
<1>2. ckpt' \in GraphState /\ GraphFollows(ckpt')
  BY <1>1 DEF TypeOK, Work, GraphsFollow
<1>3. work' \in [Workers -> Work]
  BY <1>1 DEF TypeOK, Acts
<1>4. \A v \in Workers : work'[v] = work[v] \/ (GraphFollows(work[v].graph) /\ WorkFollows(v))'
  BY DEF Acts
<1>5. Quiet /\ review' \in Review
  BY <1>1, SameIsQuiet DEF TypeOK
<1>6. Grows /\ RowsFollow' /\ run' \in RunRow
  BY <1>1, <1>5, QuietGrows, QuietKeeps DEF RunMoved, Patient
<1> QED
  BY <1>2, <1>3, <1>4, <1>5, <1>6, PartsKeep

\* A worker starts the Run from nothing.
LEMMA StartKeeps ==
  ASSUME ReviewInv, NEW w \in Workers, Start(w)
  PROVE  ReviewInv'
<1>1. TypeOK /\ run \in RunRow
  BY DEF ReviewInv, TypeOK
<1> DEFINE new == [Idle EXCEPT !.pc = "load", !.attempt = run.attempts + 1]
<1>2. new \in Work
  <2>1. run.attempts + 1 \in Nat
    BY <1>1 DEF RunRow
  <2> QED
    BY <2>1, EmptyType DEF Work, Pcs
<1>3. new.pc \in PlainPcs /\ GraphFollows(new.graph)
  BY DEF PlainPcs, Idle, NoCheckpoint, GraphFollows
<1>4. work' = [work EXCEPT ![w] = new] /\ UNCHANGED <<version, review, ckpt>>
  BY DEF Start
<1>5. Acts(w)
  <2> HIDE DEF new
  <2> QED
    BY <1>1, <1>2, <1>3, <1>4, PlainActs
<1>6. RunMoved(run, run')
  BY <1>1, RowMoves DEF Start
<1> QED
  BY <1>4, <1>5, <1>6, RowStepKeeps

\* A worker that has ended or died forgets everything.
LEMMA IdleActs ==
  ASSUME TypeOK, version' = version, NEW w \in Workers, work' = [work EXCEPT ![w] = Idle]
  PROVE  Acts(w)
<1>1. Idle.pc \in PlainPcs /\ GraphFollows(Idle.graph) /\ Idle \in Work
  BY EmptyType DEF PlainPcs, Idle, NoCheckpoint, GraphFollows
<1> QED
  BY <1>1, PlainActs

\* What happens to the Run around its executors.
LEMMA RunStepKeeps ==
  ASSUME ReviewInv, Cancel \/ Reclaim \/ \E w \in Workers : Crash(w) \/ Fail(w) \/ Return(w)
  PROVE  ReviewInv'
<1>1. TypeOK /\ run \in RunRow
  BY DEF ReviewInv, TypeOK
<1>2. CASE Cancel
  BY <1>1, <1>2, RowMoves, RowStepKeeps DEF Cancel
<1>3. CASE Reclaim
  BY <1>1, <1>3, RowMoves, RowStepKeeps DEF Reclaim
<1>4. ASSUME NEW w \in Workers, Crash(w) PROVE ReviewInv'
  <2>1. Acts(w)
    BY <1>1, <1>4, IdleActs DEF Crash
  <2> QED
    BY <1>1, <1>4, <2>1, SameWorkerKeeps DEF Crash
<1>5. ASSUME NEW w \in Workers, Fail(w) \/ Return(w) PROVE ReviewInv'
  <2>1. Acts(w)
    BY <1>1, <1>5, IdleActs DEF Fail, Return
  <2>2. RunMoved(run, run')
    <3>1. \/ \E final \in BOOLEAN : run' = FailedRun(run, work[w].attempt, final)
          \/ run' = Closed(run, work[w].attempt)
      <4>1. work[w].permanent \in BOOLEAN
        BY <1>1 DEF TypeOK, Work
      <4> QED
        BY <1>5, <4>1 DEF Fail, Return, Finality
    <3> QED
      BY <1>1, <3>1, RowMoves
  <2>3. ckpt' = ckpt \/ ckpt' = work[w].graph
    BY <1>5 DEF Fail, Return, Saved
  <2>4. UNCHANGED <<version, review>>
    BY <1>5 DEF Fail, Return
  <2> QED
    BY <2>1, <2>2, <2>3, <2>4, RowStepKeeps
<1> QED
  BY <1>2, <1>3, <1>4, <1>5

\* The checkpoint is written after its node.
LEMMA SaveCheckpointKeeps ==
  ASSUME ReviewInv, NEW w \in Workers, SaveCheckpoint(w)
  PROVE  ReviewInv'
<1> DEFINE new == [work[w] EXCEPT !.dirty = FALSE]
<1>1. TypeOK /\ run \in RunRow /\ work[w] \in Work /\ GraphFollows(work[w].graph) /\ WorkFollows(w)
  BY DEF ReviewInv, TypeOK, GraphsFollow
<1>2. UNCHANGED <<version, run, review>> /\ work' = [work EXCEPT ![w] = new]
  BY DEF SaveCheckpoint
<1>3. new \in Work /\ new.pc = work[w].pc /\ new.graph = work[w].graph
      /\ new.todo = work[w].todo /\ new.content = work[w].content
  BY <1>1 DEF Work
<1> HIDE DEF new
<1>4. Acts(w)
  <2>1. work'[w] = new
    BY <1>1, <1>2 DEF TypeOK
  <2>2. WorkFollows(w)'
    BY <1>1, <1>2, <1>3, <2>1 DEF WorkFollows, At, ApprovedOutlines, Done
  <2> QED
    BY <1>1, <1>2, <1>3, <2>2, UpdateActs
<1>5. ckpt' = work[w].graph
  BY DEF SaveCheckpoint, Saved
<1>6. RunMoved(run, run')
  BY <1>1, <1>2, RowMoves
<1> QED
  BY <1>2, <1>4, <1>5, <1>6, RowStepKeeps

-----------------------------------------------------------------------------
(* Quiet steps of the executor *)

\* A worker that raises changes nothing.
LEMMA ErrorKeeps ==
  ASSUME ReviewInv, NEW w \in Workers, Retry(w) \/ Reject(w),
         UNCHANGED <<version, run, review, ckpt>>
  PROVE  ReviewInv'
BY ErrorActs, SameWorkerKeeps DEF ReviewInv

\* A Step that is not the proposal or the review moves, but does not succeed.
LEMMA StepIsQuiet ==
  ASSUME TypeOK, RequestsFollow, NEW k \in {"matrix", "draft", "validate", "consistency"},
         NEW status \in StepStatus, NEW stage \in {Stages[i] : i \in DOMAIN Stages},
         status = "succeeded" <=> Done(k),
         k = "validate" => (status = "failed" <=> review.step[k] = "failed"),
         run.status = "waiting" => stage = review.stage,
         review' = [review EXCEPT !.step[k] = status, !.stage = stage]
  PROVE  Quiet /\ review' \in Review
<1>1. review \in Review
  BY DEF TypeOK
<1>2. review' \in Review
  BY <1>1 DEF Review, StepKeys
<1>3. /\ review'.step = [review.step EXCEPT ![k] = status] /\ review'.stage = stage
      /\ review'.request = review.request /\ review'.current = review.current
      /\ review'.section = review.section /\ review'.events = review.events
      /\ review'.artifact = review.artifact /\ review'.outline = review.outline
      /\ review'.report = review.report /\ review'.files = review.files
  BY <1>1 DEF Review
<1>4. \A j \in StepKeys : j # k => review'.step[j] = review.step[j]
  BY <1>1, <1>3 DEF Review
<1>5. review'.step[k] = status
  BY <1>1, <1>3 DEF Review, StepKeys
<1>6. \A j \in StepKeys : Done(j)' <=> Done(j)
  BY <1>4, <1>5 DEF Done
<1>7. Silent
  BY <1>3, <1>4, <1>6 DEF Silent, StepKeys, RequestsFollow
<1>8. review'.step["validate"] = "failed" <=> review.step["validate"] = "failed"
  BY <1>4, <1>5 DEF StepKeys
<1> QED
  BY <1>2, <1>3, <1>6, <1>7, <1>8 DEF Quiet

\* The matrix is loaded, or found.
LEMMA LoadMatrixKeeps ==
  ASSUME ReviewInv, NEW w \in Workers, LoadMatrix(w)
  PROVE  ReviewInv'
<1> DEFINE new == [work[w] EXCEPT
             !.pc = IF review.step["matrix"] = "succeeded" THEN "input" ELSE "papers",
             !.todo = PaperTodo]
           status == IF review.step["matrix"] = "pending" THEN "running" ELSE review.step["matrix"]
<1>1. TypeOK /\ RequestsFollow /\ work[w] \in Work /\ GraphFollows(work[w].graph)
  BY DEF ReviewInv, TypeOK, RowsFollow, GraphsFollow
<1>2. UNCHANGED <<version, run, ckpt>>
  BY DEF LoadMatrix
<1>3. CASE (Retry(w) \/ Reject(w)) /\ UNCHANGED review
  BY <1>2, <1>3, ErrorKeeps
<1>4. CASE /\ review' = [review EXCEPT !.step["matrix"] =
                           IF @ = "pending" THEN "running" ELSE @]
           /\ work' = [work EXCEPT ![w] = new]
  <2>1. PaperTodo \subseteq Nat
    BY Numbered DEF PaperTodo
  <2>2. new \in Work /\ new.graph = work[w].graph /\ new.pc \in PlainPcs
    BY <1>1, <2>1 DEF Work, Pcs, PlainPcs
  <2>3. Acts(w)
    <3> HIDE DEF new
    <3> QED
      BY <1>1, <1>2, <1>4, <2>2, PlainActs
  <2>4. review' = [review EXCEPT !.step["matrix"] = status, !.stage = review.stage]
    BY <1>1, <1>4 DEF TypeOK, Review
  <2>5. status \in StepStatus /\ (status = "succeeded" <=> Done("matrix"))
        /\ review.stage \in {Stages[i] : i \in DOMAIN Stages}
    BY <1>1 DEF TypeOK, Review, StepKeys, StepStatus, Done
  <2>6. Quiet /\ review' \in Review
    <3> HIDE DEF status
    <3> QED
      BY <1>1, <2>4, <2>5, StepIsQuiet
  <2> QED
    BY <1>2, <2>3, <2>6, QuietWorkerKeeps
<1> QED
  BY <1>3, <1>4 DEF LoadMatrix

\* A paper is written once.
LEMMA ExtractPaperKeeps ==
  ASSUME ReviewInv, NEW w \in Workers, NEW result \in PaperResults, ExtractPaper(w, result)
  PROVE  ReviewInv'
<1>1. TypeOK /\ RequestsFollow /\ work[w] \in Work /\ GraphFollows(work[w].graph)
  BY DEF ReviewInv, TypeOK, RowsFollow, GraphsFollow
<1>2. UNCHANGED <<version, run, ckpt>> /\ work[w].pc = "papers"
  BY DEF ExtractPaper, At
<1>3. CASE (Retry(w) \/ Reject(w)) /\ UNCHANGED review
  BY <1>2, <1>3, ErrorKeeps
<1>4. ASSUME NEW p, work' = [work EXCEPT ![w].todo = @ \ {p}],
             review' = review \/ review' = [review EXCEPT !.paper[p] = result]
      PROVE  ReviewInv'
  <2> DEFINE new == [work[w] EXCEPT !.todo = work[w].todo \ {p}]
  <2>1. new \in Work /\ new.graph = work[w].graph /\ new.pc \in PlainPcs
    BY <1>1, <1>2 DEF Work, PlainPcs
  <2>2. work' = [work EXCEPT ![w] = new]
    BY <1>1, <1>4 DEF TypeOK
  <2>3. Acts(w)
    <3> HIDE DEF new
    <3> QED
      BY <1>1, <1>2, <2>1, <2>2, PlainActs
  <2>4. CASE review' = [review EXCEPT !.paper[p] = result]
    <3>1. review' \in Review
      BY <1>1, <2>4 DEF TypeOK, Review, PaperResults
    <3>2. Quiet
      BY <1>1, <2>4 DEF TypeOK, Review, Quiet, Silent, Done, RequestsFollow
    <3> QED
      BY <1>2, <2>3, <3>1, <3>2, QuietWorkerKeeps
  <2>5. CASE review' = review
    BY <1>2, <2>3, <2>5, SameWorkerKeeps
  <2> QED
    BY <1>4, <2>4, <2>5
<1> QED
  BY <1>3, <1>4 DEF ExtractPaper, PersistPaper

\* Without a paper the Step fails.
LEMMA FailMatrixKeeps ==
  ASSUME ReviewInv, NEW w \in Workers, FailMatrix(w)
  PROVE  ReviewInv'
<1> DEFINE status == IF review.step["matrix"] \in {"pending", "running"} THEN "failed"
                     ELSE review.step["matrix"]
<1>1. TypeOK /\ RequestsFollow /\ GraphsFollow
  BY DEF ReviewInv, RowsFollow
<1>2. UNCHANGED <<version, run, ckpt>> /\ Reject(w)
  BY DEF FailMatrix
<1>3. review' = [review EXCEPT !.step["matrix"] = status, !.stage = review.stage]
  BY <1>1 DEF FailMatrix, TypeOK, Review
<1>4. status \in StepStatus /\ (status = "succeeded" <=> Done("matrix"))
      /\ review.stage \in {Stages[i] : i \in DOMAIN Stages}
  BY <1>1 DEF TypeOK, Review, StepKeys, StepStatus, Done
<1>5. Quiet /\ review' \in Review
  <2> HIDE DEF status
  <2> QED
    BY <1>1, <1>3, <1>4, StepIsQuiet
<1>6. Acts(w)
  BY <1>1, <1>2, ErrorActs
<1> QED
  BY <1>2, <1>5, <1>6, QuietWorkerKeeps

\* A worker that only moves on, or takes another state of the graph.
LEMMA PlainStepKeeps ==
  ASSUME ReviewInv, NEW w \in Workers, NEW pc \in PlainPcs, NEW dirty \in BOOLEAN,
         NEW state \in GraphState, GraphFollows(state),
         work' = [work EXCEPT ![w] = [work[w] EXCEPT !.pc = pc, !.dirty = dirty, !.graph = state]],
         UNCHANGED <<version, run, review, ckpt>>
  PROVE  ReviewInv'
<1> DEFINE new == [work[w] EXCEPT !.pc = pc, !.dirty = dirty, !.graph = state]
<1>1. TypeOK /\ work[w] \in Work
  BY DEF ReviewInv, TypeOK
<1>2. new \in Work /\ new.pc \in PlainPcs /\ new.graph = state
  BY <1>1 DEF Work, Pcs, PlainPcs
<1>3. work' = [work EXCEPT ![w] = new]
  OBVIOUS
<1> HIDE DEF new
<1>4. Acts(w)
  BY <1>1, <1>2, <1>3, PlainActs
<1> QED
  BY <1>4, SameWorkerKeeps

\* The ways into the graph, and what is read before.
LEMMA EnterGraphKeeps ==
  ASSUME ReviewInv, NEW w \in Workers,
         ReadInput(w) \/ ReadStage(w) \/ FindThread(w) \/ StartGraph(w) \/ ResumeGraph(w)
  PROVE  ReviewInv'
<1> DEFINE g == work[w].graph
           asked == [g EXCEPT !.resume = LatestInput]
           started == [ckpt EXCEPT !.next = "propose", !.round = 0, !.resume = 0]
           resumed == [ckpt EXCEPT !.resume = g.resume]
           Moved(pc, dirty, state) ==
             work' = [work EXCEPT ![w] = [work[w] EXCEPT !.pc = pc, !.dirty = dirty,
                                                         !.graph = state]]
<1>1. /\ TypeOK /\ GraphsFollow /\ work[w] \in Work /\ g \in GraphState /\ GraphFollows(g)
      /\ ckpt \in GraphState /\ GraphFollows(ckpt) /\ work[w].dirty \in BOOLEAN
  BY DEF ReviewInv, TypeOK, GraphsFollow, Work
<1>2. UNCHANGED <<version, run, review, ckpt>>
  BY DEF ReadInput, ReadStage, FindThread, StartGraph, ResumeGraph
<1>3. asked \in GraphState /\ started \in GraphState /\ resumed \in GraphState
  BY <1>1, LatestInputType DEF GraphState, Nodes
<1>4. GraphFollows(asked) /\ GraphFollows(started) /\ GraphFollows(resumed)
  BY <1>1 DEF GraphState, GraphFollows
<1>5. CASE ReadInput(w)
  <2>1. Moved("stage", work[w].dirty, asked)
    BY <1>1, <1>5 DEF ReadInput, TypeOK, Work
  <2> HIDE DEF asked, g
  <2> QED
    BY <1>1, <1>2, <1>3, <1>4, <2>1, PlainStepKeeps DEF PlainPcs
<1>6. CASE \E pc \in {"command", "thread", "start"} : Goto(w, pc)
  <2>1. PICK pc \in {"command", "thread", "start"} : Moved(pc, work[w].dirty, g)
    BY <1>1, <1>6 DEF Goto, TypeOK, Work
  <2>2. pc \in PlainPcs
    BY DEF PlainPcs
  <2> HIDE DEF g
  <2> QED
    BY <1>1, <1>2, <2>1, <2>2, PlainStepKeeps
<1>7. ASSUME NEW state \in {ckpt, started, resumed}, NEW dirty \in BOOLEAN,
             Invoke(w, state, dirty)
      PROVE  ReviewInv'
  <2>1. Moved("node", dirty, state)
    BY <1>1, <1>7 DEF Invoke, TypeOK, Work
  <2>2. state \in GraphState /\ GraphFollows(state)
    BY <1>1, <1>3, <1>4
  <2> HIDE DEF started, resumed, g
  <2> QED
    BY <1>1, <1>2, <2>1, <2>2, PlainStepKeeps DEF PlainPcs
<1>8. CASE Raise(w, TRUE, "no_checkpoint")
  BY <1>1, <1>2, <1>8, RaiseActs, SameWorkerKeeps
<1> QED
  BY <1>5, <1>6, <1>7, <1>8 DEF ReadStage, FindThread, StartGraph, ResumeGraph

\* The graph stops, or goes on with the answer it was resumed with.
LEMMA InterruptKeeps ==
  ASSUME ReviewInv, NEW w \in Workers, Interrupt(w) \/ EndGraph(w)
  PROVE  ReviewInv'
<1> DEFINE new == [work[w] EXCEPT !.pc = "return"]
           g == work[w].graph
           state == [g EXCEPT !.next = "apply", !.outline = g.resume]
<1>1. TypeOK /\ GraphsFollow /\ work[w] \in Work /\ g \in GraphState /\ GraphFollows(g)
  BY DEF ReviewInv, TypeOK, GraphsFollow, Work
<1>2. UNCHANGED <<version, run, review, ckpt>>
  BY DEF Interrupt, EndGraph
<1>3. CASE work' = [work EXCEPT ![w] = new]
  <2>1. new \in Work /\ new.pc \in PlainPcs /\ new.graph = g
    BY <1>1 DEF Work, Pcs, PlainPcs
  <2> HIDE DEF new, g
  <2> QED
    BY <1>1, <1>2, <1>3, <2>1, PlainActs, SameWorkerKeeps
<1>4. CASE Interrupt(w) /\ g.resume # 0
  <2>1. state \in GraphState /\ Finish(w, state) /\ g.next = "interrupt"
    BY <1>1, <1>4 DEF Interrupt, AtNode, GraphState, Nodes
  <2>2. GraphFollows(state)
    BY <1>1, <1>4, <2>1 DEF GraphState, GraphFollows
  <2> QED
    BY <1>1, <1>2, <2>1, <2>2, FinishActs, SameWorkerKeeps
<1> QED
  BY <1>3, <1>4 DEF Interrupt, EndGraph, Goto

\* The decision of the person decides on the next node.
LEMMA ApplyDecisionKeeps ==
  ASSUME ReviewInv, NEW w \in Workers, ApplyDecision(w)
  PROVE  ReviewInv'
<1> DEFINE g == work[w].graph
           again == [g EXCEPT !.next = "propose", !.round = g.round + 1, !.feedback = g.outline]
           approve == [g EXCEPT !.next = "draft", !.approved = g.outline]
           edit == [g EXCEPT !.next = "draft", !.approved = g.outline + 1]
<1>1. TypeOK /\ GraphsFollow /\ g \in GraphState /\ GraphFollows(g)
  BY DEF ReviewInv, TypeOK, GraphsFollow, Work
<1>2. UNCHANGED <<version, run, review, ckpt>> /\ g.next = "apply"
  BY DEF ApplyDecision, AtNode
<1>3. again \in GraphState /\ approve \in GraphState /\ edit \in GraphState
  <2>1. g.round + 1 \in Nat /\ g.outline \in Nat /\ g.outline + 1 \in Nat
    BY <1>1 DEF GraphState
  <2> HIDE DEF g
  <2> QED
    BY <1>1, <2>1 DEF GraphState, Nodes
<1>4. GraphFollows(again) /\ GraphFollows(approve) /\ GraphFollows(edit)
  BY <1>1, <1>2 DEF GraphState, GraphFollows
<1>5. Finish(w, again) \/ Finish(w, approve) \/ Finish(w, edit) \/ Reject(w)
  <2> HIDE DEF g
  <2> QED
    BY DEF ApplyDecision, g
<1> HIDE DEF again, approve, edit, g
<1>6. Acts(w)
  BY <1>1, <1>2, <1>3, <1>4, <1>5, FinishActs, ErrorActs
<1> QED
  BY <1>2, <1>6, SameWorkerKeeps

\* Only an outline that may still be asked about is proposed.
LEMMA LoadProposalKeeps ==
  ASSUME ReviewInv, NEW w \in Workers, LoadProposal(w)
  PROVE  ReviewInv'
<1> DEFINE g == work[w].graph
           pc == IF review.outline[g.round + 1] = "model" THEN "pause" ELSE "persist"
           new == [work[w] EXCEPT !.previous = review.current, !.pc = pc]
<1>1. TypeOK /\ RequestsFollow /\ GraphsFollow /\ work[w] \in Work /\ g \in GraphState
      /\ GraphFollows(g)
  BY DEF ReviewInv, RowsFollow, TypeOK, GraphsFollow, Work
<1>2. UNCHANGED <<version, run, review, ckpt>> /\ g.next = "propose"
  BY DEF LoadProposal, AtNode
<1>3. CASE Retry(w)
  BY <1>1, <1>2, <1>3, ErrorKeeps
<1>4. ASSUME NEW why \in {"outline_state", "feedback_round"}, Raise(w, TRUE, why) PROVE ReviewInv'
  BY <1>1, <1>2, <1>4, RaiseActs, SameWorkerKeeps
<1>5. CASE /\ IF g.round = 0 THEN FirstRound(g) ELSE FeedbackRound(g)
           /\ ~(g.round > 0 /\ RequestVersion(g.feedback) # g.round)
           /\ work' = [work EXCEPT ![w].previous = review.current, ![w].pc = pc]
  <2>1. g.round \in Nat /\ g.feedback \in Nat /\ review.current \in {0} \cup Outlines
    BY <1>1 DEF GraphState, TypeOK, Review
  <2>2. g.round + 1 <= MaxOutlines /\ (version = "review.v2" => g.round = 0)
    <3>1. CASE g.round = 0
      BY <3>1, OutlineFacts
    <3>2. CASE g.round # 0
      <4>1. g.feedback \in Outlines /\ review.request[g.feedback] = "feedback"
            /\ g.round = RequestVersion(g.feedback)
        BY <1>5, <2>1, <3>2 DEF FeedbackRound
      <4>2. version # "review.v2"
        BY <1>1, <2>1, <3>2, <4>1 DEF GraphFollows, RequestVersion
      <4>3. g.round = g.feedback
        BY <2>1, <4>1, <4>2 DEF RequestVersion
      <4>4. g.feedback < MaxOutlines
        BY <1>1, <4>1 DEF RequestsFollow
      <4> QED
        BY <2>1, <4>2, <4>3, <4>4, OutlineFacts
    <3> QED
      BY <3>1, <3>2
  <2>3. pc = "pause" => Done("propose")
    <3>1. g.round + 1 \in Outlines
      BY <2>1, <2>2, OutlineFacts
    <3> QED
      BY <1>1, <3>1 DEF RequestsFollow
  <2>4. pc \in {"pause", "persist"}
    OBVIOUS
  <2>5. review.current \in Nat
    BY <2>1, OutlineFacts
  <2> HIDE DEF pc, g
  <2>6. new \in Work /\ new.pc = pc /\ new.graph = g
    BY <1>1, <2>4, <2>5 DEF Work, Pcs, g
  <2>7. work' = [work EXCEPT ![w] = new]
    BY <1>1, <1>5 DEF TypeOK
  <2> HIDE DEF new
  <2>8. work'[w] = new
    BY <1>1, <2>7 DEF TypeOK
  <2>9. WorkFollows(w)'
    BY <1>2, <2>2, <2>3, <2>4, <2>6, <2>8 DEF WorkFollows, At, Done
  <2>10. Acts(w)
    BY <1>1, <1>2, <2>6, <2>7, <2>9, UpdateActs
  <2> QED
    BY <1>2, <2>10, SameWorkerKeeps
<1> QED
  BY <1>3, <1>4, <1>5 DEF LoadProposal

\* The first output of an outline is kept.
LEMMA PersistOutlineKeeps ==
  ASSUME ReviewInv, NEW w \in Workers, PersistOutline(w)
  PROVE  ReviewInv'
<1> DEFINE v == work[w].graph.round + 1
           new == [work[w] EXCEPT !.pc = "pause"]
<1>1. TypeOK /\ RequestsFollow /\ GraphsFollow /\ work[w] \in Work
      /\ GraphFollows(work[w].graph) /\ WorkFollows(w)
  BY DEF ReviewInv, RowsFollow, TypeOK, GraphsFollow
<1>2. UNCHANGED <<version, run, ckpt>> /\ At(w, "persist")
  BY DEF PersistOutline
<1>3. CASE (Retry(w) \/ Reject(w)) /\ UNCHANGED review
  BY <1>2, <1>3, ErrorKeeps
<1>4. CASE /\ review.outline[v] # "edit"
           /\ review' = [review EXCEPT !.outline[v] = "model", !.step["propose"] = "succeeded"]
           /\ Goto(w, "pause")
  <2>1. new \in Work /\ new.pc = "pause" /\ new.graph = work[w].graph
    BY <1>1 DEF Work, Pcs
  <2>2. work' = [work EXCEPT ![w] = new]
    BY <1>4 DEF Goto
  <2> HIDE DEF new
  <2>3. work'[w] = new
    BY <1>1, <2>2 DEF TypeOK
  <2>4. v \in Outlines
    BY <1>1, <1>2, OutlineFacts DEF WorkFollows, Work, GraphState
  <2> HIDE DEF v
  <2>5. review' \in Review
    BY <1>1, <1>4 DEF TypeOK, Review, StepKeys, StepStatus
  <2>6. /\ review'.step = [review.step EXCEPT !["propose"] = "succeeded"]
        /\ review'.outline = [review.outline EXCEPT ![v] = "model"]
        /\ review'.request = review.request /\ review'.current = review.current
        /\ review'.section = review.section /\ review'.events = review.events
        /\ review'.artifact = review.artifact /\ review'.stage = review.stage
        /\ review'.report = review.report /\ review'.files = review.files
    BY <1>1, <1>4 DEF TypeOK, Review
  <2>7. /\ \A k \in StepKeys \ {"propose"} : review'.step[k] = review.step[k]
        /\ Done("propose")'
    BY <1>1, <2>6 DEF TypeOK, Review, StepKeys, Done
  <2>8. \A o \in Outlines : review'.outline[o] = "edit" <=> review.outline[o] = "edit"
    BY <1>1, <1>4, <2>4, <2>6 DEF TypeOK, Review
  <2>9. Quiet
    BY <2>6, <2>7, <2>8 DEF Quiet, Silent, Done, StepKeys
  <2>10. WorkFollows(w)'
    BY <1>1, <1>2, <2>1, <2>3, <2>7 DEF WorkFollows, At
  <2>11. Acts(w)
    BY <1>1, <1>2, <2>1, <2>2, <2>10, UpdateActs
  <2> QED
    BY <1>2, <2>5, <2>9, <2>11, QuietWorkerKeeps
<1> QED
  BY <1>3, <1>4 DEF PersistOutline

\* The sections, the checks: a node finds the Step before it and the approved outline.
LEMMA LoadContextKeeps ==
  ASSUME ReviewInv, NEW w \in Workers, LoadContext(w)
  PROVE  ReviewInv'
<1> DEFINE g == work[w].graph
           todo == IF g.next = "draft" THEN {x \in Sections : review.section[x] = 0} ELSE {}
           new == [work[w] EXCEPT !.pc = "step", !.todo = todo]
<1>1. TypeOK /\ RequestsFollow /\ GraphsFollow /\ work[w] \in Work /\ GraphFollows(g)
  BY DEF ReviewInv, RowsFollow, TypeOK, GraphsFollow
<1>2. UNCHANGED <<version, run, review, ckpt>> /\ g.next \in SectionSteps
  BY DEF LoadContext, AtNode
<1>3. CASE Retry(w) \/ Reject(w)
  BY <1>2, <1>3, ErrorKeeps
<1>4. CASE Approved(w) /\ review.step[Before[g.next]] = "succeeded"
           /\ work' = [work EXCEPT ![w].pc = "step", ![w].todo = todo]
  <2>1. todo \subseteq Nat
    BY Numbered
  <2>2. new \in Work /\ new.pc = "step" /\ new.graph = g /\ new.todo = todo
    <3> HIDE DEF todo
    <3> QED
      BY <1>1, <2>1 DEF Work, Pcs
  <2>3. work' = [work EXCEPT ![w] = new] /\ work'[w] = new
    BY <1>1, <1>4 DEF TypeOK
  <2>4. Done("matrix") /\ Done("review") /\ g.approved \in ApprovedOutlines
    BY <1>1, <1>4 DEF Approved, Done, RequestsFollow
  <2>5. /\ g.next = "validate" => Done("draft")
        /\ g.next = "consistency" => Done("validate")
    BY <1>4 DEF Before, Done
  <2> HIDE DEF new
  <2>6. WorkFollows(w)'
    BY <1>2, <2>2, <2>3, <2>4, <2>5 DEF WorkFollows, At, SectionSteps, Done, ApprovedOutlines
  <2>7. Acts(w)
    BY <1>1, <1>2, <2>2, <2>3, <2>6, UpdateActs
  <2> QED
    BY <1>2, <2>7, SameWorkerKeeps
<1> QED
  BY <1>3, <1>4 DEF LoadContext

\* What is left of EnsureStep when it does not raise.
EnsuredStep(w, key) ==
  /\ Running(run) /\ review.step[key] \in {"pending", "running", "succeeded"}
  /\ review' = [review EXCEPT !.step[key] = IF @ = "pending" THEN "running" ELSE @,
                              !.stage = AtLeast(StageOf[key])]
  /\ Goto(w, IF key = "draft" THEN "draft" ELSE "write")

\* It starts its Step on top of them.
LEMMA EnsureStepKeeps ==
  ASSUME ReviewInv, NEW w \in Workers, EnsureStep(w)
  PROVE  ReviewInv'
<1> DEFINE g == work[w].graph
           key == g.next
<1>1. /\ TypeOK /\ RequestsFollow /\ GraphsFollow /\ work[w] \in Work /\ GraphFollows(g)
      /\ WorkFollows(w)
  BY DEF ReviewInv, RowsFollow, TypeOK, GraphsFollow
<1>2. UNCHANGED <<version, run, ckpt>> /\ At(w, "step") /\ key \in SectionSteps
  BY <1>1 DEF EnsureStep, WorkFollows, SectionSteps
<1>3. CASE (Retry(w) \/ Reject(w)) /\ UNCHANGED review
  BY <1>2, <1>3, ErrorKeeps
<1>4. CASE EnsuredStep(w, key)
  <2> DEFINE status == IF review.step[key] = "pending" THEN "running" ELSE review.step[key]
             stage == AtLeast(StageOf[key])
             next == IF key = "draft" THEN "draft" ELSE "write"
             new == [work[w] EXCEPT !.pc = next]
  <2>1. /\ status \in StepStatus /\ (status = "succeeded" <=> Done(key))
        /\ (status = "failed" <=> review.step[key] = "failed")
    BY <1>4 DEF EnsuredStep, StepStatus, Done
  <2>2. stage \in {Stages[i] : i \in DOMAIN Stages}
    <3>1. StageOf[key] \in {"draft_sections", "validate_sections", "consistency_check"}
      BY <1>2 DEF StageOf, SectionSteps
    <3> QED
      BY <1>1, <3>1, AtLeastStage, StageNames DEF TypeOK, Review
  <2>3. review' = [review EXCEPT !.step[key] = status, !.stage = stage]
    BY <1>1, <1>2, <1>4 DEF EnsuredStep, TypeOK, Review, SectionSteps, StepKeys
  <2>4. Quiet /\ review' \in Review
    <3>1. key \in {"matrix", "draft", "validate", "consistency"} /\ run.status # "waiting"
      BY <1>2, <1>4 DEF EnsuredStep, SectionSteps, Running
    <3> HIDE DEF status, stage, key
    <3> QED
      BY <1>1, <2>1, <2>2, <2>3, <3>1, StepIsQuiet
  <2>5. Grows
    BY <1>1, <2>4, QuietGrows
  <2>6. new \in Work /\ new.pc = next /\ new.graph = g /\ new.todo = work[w].todo
    BY <1>1 DEF Work, Pcs
  <2>7. work' = [work EXCEPT ![w] = new] /\ work'[w] = new
    BY <1>1, <1>4 DEF EnsuredStep, Goto, TypeOK
  <2>8. \A k \in StepKeys : Done(k) => Done(k)'
    BY <2>5 DEF Grows
  <2>9. /\ Done("matrix") => Done("matrix")'
        /\ Done("review") => Done("review")'
        /\ Done("draft") => Done("draft")'
        /\ Done("validate") => Done("validate")'
    BY <2>8 DEF StepKeys
  <2>10. review'.section = review.section /\ ApprovedOutlines \subseteq ApprovedOutlines'
    BY <2>4, <2>5 DEF Quiet, Grows
  <2> HIDE DEF new
  <2>11. WorkFollows(w)'
    BY <1>1, <1>2, <2>6, <2>7, <2>9, <2>10 DEF WorkFollows, At, SectionSteps
  <2>12. Acts(w)
    BY <1>1, <1>2, <2>6, <2>7, <2>11, UpdateActs
  <2> QED
    BY <1>2, <2>4, <2>12, QuietWorkerKeeps
<1> QED
  BY <1>3, <1>4 DEF EnsureStep, EnsuredStep

\* A report is kept, and the Step stays open.
LEMMA PersistReportKeeps ==
  ASSUME ReviewInv, NEW w \in Workers, PersistReport(w)
  PROVE  ReviewInv'
<1> DEFINE g == work[w].graph
           Moved(pc) == [work[w] EXCEPT !.pc = pc]
<1>1. /\ TypeOK /\ RequestsFollow /\ work[w] \in Work /\ GraphFollows(g) /\ WorkFollows(w)
      /\ review \in Review
  BY DEF ReviewInv, RowsFollow, TypeOK, GraphsFollow
<1>2. UNCHANGED <<version, run, ckpt>> /\ g.next = "consistency" /\ Done("validate")
  BY <1>1 DEF PersistReport, WorkFollows
<1>3. CASE (Retry(w) \/ Reject(w)) /\ UNCHANGED review
  BY <1>2, <1>3, ErrorKeeps
<1>4. ASSUME NEW pc \in {"spoil", "commit"}, Goto(w, pc),
             review' = review \/ review' = [review EXCEPT !.report = TRUE],
             pc = "commit" => review'.report
      PROVE  ReviewInv'
  <2>1. Moved(pc) \in Work /\ Moved(pc).pc = pc /\ Moved(pc).graph = g
    BY <1>1 DEF Work, Pcs
  <2>2. work' = [work EXCEPT ![w] = Moved(pc)]
    BY <1>4 DEF Goto
  <2> HIDE DEF Moved
  <2>3. work'[w] = Moved(pc)
    BY <1>1, <2>2 DEF TypeOK
  <2>4. review' \in Review
    BY <1>1, <1>4, ZenonT(60) DEF Review
  <2>5. /\ review'.step = review.step /\ review'.outline = review.outline
        /\ review'.request = review.request /\ review'.current = review.current
        /\ review'.section = review.section /\ review'.events = review.events
        /\ review'.artifact = review.artifact /\ review'.stage = review.stage
        /\ review.report => review'.report
        /\ review'.files = review.files
    BY <1>1, <1>4 DEF Review
  <2>6. Quiet
    BY <1>1, <2>5 DEF Quiet, Silent, Done, RequestsFollow
  <2>7. WorkFollows(w)'
    BY <1>2, <1>4, <2>1, <2>3, <2>5 DEF WorkFollows, At, Done
  <2>8. Acts(w)
    BY <1>1, <1>2, <2>1, <2>2, <2>7, UpdateActs
  <2> QED
    BY <1>2, <2>4, <2>6, <2>8, QuietWorkerKeeps
<1>5. CASE review.report /\ Goto(w, "commit") /\ UNCHANGED review
  BY <1>4, <1>5
<1>6. CASE Goto(w, "spoil") /\ UNCHANGED review
  BY <1>4, <1>6
<1>7. CASE review' = [review EXCEPT !.report = TRUE] /\ Goto(w, "commit")
  <2>1. review'.report
    BY <1>1, <1>7 DEF Review
  <2> QED
    BY <1>4, <1>7, <2>1
<1> QED
  BY <1>3, <1>5, <1>6, <1>7 DEF PersistReport

\* An invalid answer of the model closes the Step, unless it has succeeded.
LEMMA SpoilKeeps ==
  ASSUME ReviewInv, NEW w \in Workers, Spoil(w)
  PROVE  ReviewInv'
<1> DEFINE key == work[w].graph.next
           status == IF review.step[key] \in {"pending", "running"} THEN "failed"
                     ELSE review.step[key]
<1>1. TypeOK /\ RequestsFollow /\ GraphsFollow /\ WorkFollows(w) /\ review \in Review
  BY DEF ReviewInv, RowsFollow, TypeOK, GraphsFollow
<1>2. UNCHANGED <<version, run, ckpt>> /\ key \in {"draft", "consistency"} /\ SpoilStep(w, key)
  BY <1>1 DEF Spoil, WorkFollows
<1>3. CASE Retry(w) /\ UNCHANGED review
  BY <1>2, <1>3, ErrorKeeps
<1>4. CASE /\ review' = [review EXCEPT !.step[key] = IF @ \in {"pending", "running"} THEN "failed"
                                                   ELSE @]
           /\ Reject(w)
  <2> HIDE DEF key
  <2>1. review' = [review EXCEPT !.step[key] = status, !.stage = review.stage]
    BY <1>1, <1>2, <1>4 DEF Review
  <2>2. status \in StepStatus /\ (status = "succeeded" <=> Done(key))
        /\ review.stage \in {Stages[i] : i \in DOMAIN Stages}
    BY <1>1, <1>2 DEF Review, StepKeys, StepStatus, Done
  <2>3. Quiet /\ review' \in Review
    <3> HIDE DEF status
    <3> QED
      BY <1>1, <1>2, <2>1, <2>2, StepIsQuiet
  <2>4. Acts(w)
    BY <1>1, <1>2, <1>4, ErrorActs
  <2> QED
    BY <1>2, <2>3, <2>4, QuietWorkerKeeps
<1> HIDE DEF key
<1> QED
  BY <1>2, <1>3, <1>4 DEF SpoilStep

\* The files are in the storage before a row names them.
LEMMA WriteFilesKeeps ==
  ASSUME ReviewInv, NEW w \in Workers, WriteFiles(w)
  PROVE  ReviewInv'
<1> DEFINE g == work[w].graph
<1>1. /\ TypeOK /\ RequestsFollow /\ work[w] \in Work /\ GraphFollows(g)
      /\ review \in Review
  BY DEF ReviewInv, RowsFollow, TypeOK, GraphsFollow
<1>2. UNCHANGED <<version, run, ckpt>> /\ g.next = "export"
  BY DEF WriteFiles, AtNode
<1>3. CASE (Retry(w) \/ Reject(w)) /\ UNCHANGED review
  BY <1>2, <1>3, ErrorKeeps
<1>4. ASSUME NEW c \in Exports, Done("consistency"),
             review' = [review EXCEPT !.files = @ \cup {c}],
             work' = [work EXCEPT ![w].pc = "commit", ![w].content = c]
      PROVE  ReviewInv'
  <2> DEFINE new == [work[w] EXCEPT !.pc = "commit", !.content = c]
  <2>1. new \in Work /\ new.pc = "commit" /\ new.graph = g /\ new.content = c
    BY <1>1 DEF Work, Pcs
  <2>2. work' = [work EXCEPT ![w] = new]
    BY <1>1, <1>4 DEF TypeOK
  <2> HIDE DEF new
  <2>3. work'[w] = new
    BY <1>1, <2>2 DEF TypeOK
  <2>4. review' \in Review
    BY <1>1, <1>4 DEF Review
  <2>5. /\ review'.step = review.step /\ review'.outline = review.outline
        /\ review'.request = review.request /\ review'.current = review.current
        /\ review'.section = review.section /\ review'.events = review.events
        /\ review'.artifact = review.artifact /\ review'.stage = review.stage
        /\ review'.report = review.report
        /\ review'.files = review.files \cup {c}
    BY <1>1, <1>4 DEF Review
  <2>6. Quiet
    BY <1>1, <2>5 DEF Quiet, Silent, Done, RequestsFollow
  <2>7. WorkFollows(w)'
    BY <1>2, <1>4, <2>1, <2>3, <2>5 DEF WorkFollows, At, Done
  <2>8. Acts(w)
    BY <1>1, <1>2, <2>1, <2>2, <2>7, UpdateActs
  <2> QED
    BY <1>2, <2>4, <2>6, <2>8, QuietWorkerKeeps
<1> QED
  BY <1>3, <1>4 DEF WriteFiles, Done

-----------------------------------------------------------------------------
(* Steps that complete something *)

\* One worker goes on and writes a fact, but not about the outline.
LEMMA SilentWorkerKeeps ==
  ASSUME ReviewInv, NEW w \in Workers, Acts(w), UNCHANGED <<version, ckpt>>,
         Patient(run, run'), review' \in Review, Silent, Grows,
         SectionsFollow', StepsFollow', CountsFollow'
  PROVE  ReviewInv'
<1>1. TypeOK /\ RowsFollow /\ run' \in RunRow
  BY DEF ReviewInv, Patient
<1>2. OneQuestion' /\ RequestsFollow'
  BY <1>1, SilentKeeps
<1> QED
  BY <1>1, <1>2, WorkerKeeps DEF RowsFollow

\* What else stays when a Step gets its status.
StepOnly(k, status) ==
  /\ review' \in Review
  /\ review'.step = [review.step EXCEPT ![k] = status]
  /\ review'.outline = review.outline /\ review'.request = review.request
  /\ review'.current = review.current /\ review'.section = review.section
  /\ review'.report = review.report /\ review'.files = review.files

\* A Step that succeeds or fails while the Run is RUNNING, and did not succeed before
\* it failed, takes nothing back.
LEMMA StepGrows ==
  ASSUME TypeOK, RequestsFollow, Running(run),
         NEW k \in {"matrix", "draft", "validate", "consistency", "export", "finalize"},
         NEW status \in StepStatus, Done(k) => status = "succeeded", StepOnly(k, status)
  PROVE  /\ Silent /\ Grows
         /\ review'.step[k] = status
         /\ \A j \in StepKeys : j # k => review'.step[j] = review.step[j]
<1>1. review \in Review
  BY DEF TypeOK
<1>2. review'.step[k] = status /\ \A j \in StepKeys : j # k => review'.step[j] = review.step[j]
  BY <1>1 DEF Review, StepKeys, StepOnly
<1>3. \A j \in StepKeys : Done(j) => Done(j)'
  BY <1>2 DEF Done
<1>4. Silent
  <2>1. (Done("propose")' <=> Done("propose")) /\ review'.step["review"] = review.step["review"]
    BY <1>2 DEF Done, StepKeys
  <2> QED
    BY <2>1 DEF Silent, StepOnly, RequestsFollow, Running
<1>5. ApprovedOutlines \subseteq ApprovedOutlines'
  BY DEF StepOnly, ApprovedOutlines
<1> QED
  BY <1>2, <1>3, <1>4, <1>5 DEF Grows, StepOnly

\* The sections that were drafted for the approved outline still are.
LEMMA SectionsStay ==
  ASSUME SectionsFollow, Grows, review'.section = review.section
  PROVE  SectionsFollow'
BY DEF SectionsFollow, Grows

\* The number of Events of a kind after one of them.
LEMMA EmittedCount ==
  ASSUME NEW events \in [EventKinds -> Nat], NEW kind \in EventKinds
  PROVE  /\ Emitted(events, kind) \in [EventKinds -> Nat]
         /\ Emitted(events, kind)[kind] = events[kind] + 1
         /\ \A e \in EventKinds : e # kind => Emitted(events, kind)[e] = events[e]
BY DEF Emitted

\* The Matrix is complete once.
LEMMA CompleteMatrixKeeps ==
  ASSUME ReviewInv, NEW w \in Workers, CompleteMatrix(w)
  PROVE  ReviewInv'
<1> DEFINE new == [work[w] EXCEPT !.pc = "input"]
           events == Emitted(review.events, "evidence_matrix_completed")
<1>1. /\ TypeOK /\ RowsFollow /\ RequestsFollow /\ work[w] \in Work
      /\ GraphFollows(work[w].graph) /\ review \in Review
  BY DEF ReviewInv, RowsFollow, TypeOK, GraphsFollow
<1>2. UNCHANGED <<version, run, ckpt>>
  BY DEF CompleteMatrix
<1>3. CASE (Retry(w) \/ Reject(w)) /\ UNCHANGED review
  BY <1>2, <1>3, ErrorKeeps
<1>4. ASSUME Goto(w, "input") PROVE Acts(w)
  <2>1. new \in Work /\ new.graph = work[w].graph /\ new.pc \in PlainPcs
    BY <1>1 DEF Work, Pcs, PlainPcs
  <2>2. work' = [work EXCEPT ![w] = new]
    BY <1>4 DEF Goto
  <2> HIDE DEF new
  <2> QED
    BY <1>1, <1>2, <2>1, <2>2, PlainActs
<1>5. CASE Goto(w, "input") /\ review' = review
  BY <1>2, <1>4, <1>5, SameWorkerKeeps
<1>6. CASE /\ Running(run) /\ ~Done("matrix") /\ Goto(w, "input")
           /\ review' = [review EXCEPT !.step["matrix"] = "succeeded",
                                       !.stage = AtLeast("propose_outline"), !.events = events]
  <2>1. AtLeast("propose_outline") \in {Stages[i] : i \in DOMAIN Stages}
    BY <1>1, AtLeastStage, StageNames DEF Review
  <2>2. /\ events \in [EventKinds -> Nat]
        /\ events["evidence_matrix_completed"] = review.events["evidence_matrix_completed"] + 1
        /\ \A e \in EventKinds : e # "evidence_matrix_completed" => events[e] = review.events[e]
    BY <1>1, EmittedCount DEF Review, EventKinds
  <2> HIDE DEF events
  <2>3. StepOnly("matrix", "succeeded") /\ review'.events = events
        /\ review'.artifact = review.artifact
    BY <1>1, <1>6, <2>1, <2>2 DEF StepOnly, Review, StepKeys, StepStatus
  <2>4. /\ Silent /\ Grows /\ review'.step["matrix"] = "succeeded"
        /\ \A j \in StepKeys : j # "matrix" => review'.step[j] = review.step[j]
    BY <1>1, <1>6, <2>3, StepGrows DEF StepStatus
  <2>5. SectionsFollow'
    BY <1>1, <2>3, <2>4, SectionsStay DEF RowsFollow, StepOnly
  <2>6. StepsFollow'
    BY <1>1, <1>2, <2>3, <2>4 DEF RowsFollow, StepsFollow, StepOnly, Done, StepKeys
  <2>7. CountsFollow'
    BY <1>1, <1>6, <2>2, <2>3, <2>4
       DEF RowsFollow, CountsFollow, One, StepOnly, Done, StepKeys, EventKinds, Asked, Drafted
  <2>8. Patient(run, run')
    BY <1>1, <1>2, RowMoves DEF RunMoved, TypeOK
  <2> QED
    BY <1>2, <1>4, <1>6, <2>3, <2>4, <2>5, <2>6, <2>7, <2>8, SilentWorkerKeeps DEF StepOnly
<1> QED
  BY <1>3, <1>5, <1>6 DEF CompleteMatrix, Done

\* The sections are all drafted, or the report is written, when their Step succeeds.
LEMMA CompleteStepKeeps ==
  ASSUME ReviewInv, NEW w \in Workers, CompleteDraft(w) \/ CompleteConsistency(w)
  PROVE  ReviewInv'
<1> DEFINE g == work[w].graph
<1>1. /\ TypeOK /\ RowsFollow /\ RequestsFollow /\ GraphsFollow /\ WorkFollows(w)
      /\ review \in Review /\ g \in GraphState
  BY DEF ReviewInv, RowsFollow, TypeOK, GraphsFollow, Work
<1>2. UNCHANGED <<version, run, ckpt>>
  BY DEF CompleteDraft, CompleteConsistency
<1>3. ASSUME NEW k \in {"draft", "consistency"},
             NEW s \in {"validate_sections", "export_review"},
             NEW n \in {"validate", "export"},
             g.next = k, CompleteStep(w, k, s, n),
             k = "draft" => /\ Done("matrix") /\ Done("review")
                            /\ \A x \in Sections : review.section[x] # 0,
             k = "consistency" => Done("validate") /\ review.report
      PROVE  ReviewInv'
  <2>1. CASE (Retry(w) \/ Reject(w)) /\ UNCHANGED review
    BY <1>2, <2>1, ErrorKeeps
  <2>2. CASE /\ Running(run) /\ NextNode(w, n)
             /\ review' = [review EXCEPT !.step[k] = "succeeded", !.stage = AtLeast(s)]
    <3>1. AtLeast(s) \in {Stages[i] : i \in DOMAIN Stages}
      BY <1>1, AtLeastStage, StageNames DEF Review
    <3>2. StepOnly(k, "succeeded") /\ review'.events = review.events
          /\ review'.artifact = review.artifact
      BY <1>1, <2>2, <3>1 DEF StepOnly, Review, StepKeys, StepStatus
    <3>3. /\ Silent /\ Grows /\ review'.step[k] = "succeeded"
          /\ \A j \in StepKeys : j # k => review'.step[j] = review.step[j]
      BY <1>1, <2>2, <3>2, StepGrows DEF StepStatus
    <3>4. SectionsFollow'
      BY <1>1, <3>2, <3>3, SectionsStay DEF RowsFollow, StepOnly
    <3>5. StepsFollow'
      <4>1. CASE k = "draft"
        BY <1>1, <1>2, <1>3, <3>2, <3>3, <4>1 DEF RowsFollow, StepsFollow, StepOnly, Done, StepKeys
      <4>2. CASE k = "consistency"
        BY <1>1, <1>2, <1>3, <3>2, <3>3, <4>2 DEF RowsFollow, StepsFollow, StepOnly, Done, StepKeys
      <4> QED
        BY <4>1, <4>2
    <3>6. CountsFollow'
      BY <1>1, <3>2, <3>3
         DEF RowsFollow, CountsFollow, One, StepOnly, Done, StepKeys, EventKinds, Asked, Drafted
    <3>7. Patient(run, run')
      BY <1>1, <1>2, RowMoves DEF RunMoved, TypeOK
    <3>8. Acts(w)
      BY <1>1, <1>2, <1>3, <2>2, NextNodeActs
    <3> QED
      BY <1>2, <3>2, <3>3, <3>4, <3>5, <3>6, <3>7, <3>8, SilentWorkerKeeps DEF StepOnly
  <2> QED
    BY <1>3, <2>1, <2>2 DEF CompleteStep
<1>4. CASE CompleteDraft(w)
  <2>1. /\ g.next = "draft" /\ Done("matrix") /\ Done("review")
        /\ \A x \in Sections : review.section[x] # 0
    BY <1>1, <1>4 DEF CompleteDraft, WorkFollows
  <2>2. CompleteStep(w, "draft", "validate_sections", "validate")
    BY <1>4 DEF CompleteDraft
  <2> HIDE DEF g
  <2> QED
    BY <1>3, <2>1, <2>2
<1>5. CASE CompleteConsistency(w)
  <2>1. g.next = "consistency" /\ Done("validate") /\ review.report
    BY <1>1, <1>5 DEF CompleteConsistency, WorkFollows
  <2>2. CompleteStep(w, "consistency", "export_review", "export")
    BY <1>5 DEF CompleteConsistency
  <2> HIDE DEF g
  <2> QED
    BY <1>3, <2>1, <2>2
<1> QED
  BY <1>4, <1>5

\* The citations are checked over all the sections, and the verdict is told once.
LEMMA PersistClaimSetKeeps ==
  ASSUME ReviewInv, NEW w \in Workers, PersistClaimSet(w)
  PROVE  ReviewInv'
<1> DEFINE g == work[w].graph
           told == review.events["citation_validation_completed"] > 0
           noted == IF told THEN review.events
                    ELSE Emitted(review.events, "citation_validation_completed")
<1>1. /\ TypeOK /\ RowsFollow /\ RequestsFollow /\ GraphsFollow /\ WorkFollows(w)
      /\ review \in Review
  BY DEF ReviewInv, RowsFollow, TypeOK, GraphsFollow
<1>2. UNCHANGED <<version, run, ckpt>> /\ g.next = "validate" /\ Done("draft")
  BY <1>1 DEF PersistClaimSet, WorkFollows
<1>3. CASE Retry(w) /\ UNCHANGED review
  BY <1>2, <1>3, ErrorKeeps
<1>4. /\ noted \in [EventKinds -> Nat] /\ noted["citation_validation_completed"] = 1
      /\ \A e \in EventKinds : e # "citation_validation_completed" => noted[e] = review.events[e]
  <2>1. review.events["citation_validation_completed"] \in {0, 1}
    BY <1>1 DEF RowsFollow, CountsFollow, One
  <2>2. review.events \in [EventKinds -> Nat] /\ "citation_validation_completed" \in EventKinds
    BY <1>1 DEF Review, EventKinds
  <2>3. CASE review.events["citation_validation_completed"] = 1
    BY <2>2, <2>3
  <2>4. CASE review.events["citation_validation_completed"] = 0
    BY <2>2, <2>4, EmittedCount
  <2> QED
    BY <2>1, <2>3, <2>4
<1> HIDE DEF noted
<1>5. ASSUME NEW status \in {"succeeded", "failed"}, NEW stage \in {Stages[i] : i \in DOMAIN Stages},
             Running(run), Done("validate") => status = "succeeded", Acts(w),
             review' = [review EXCEPT !.step["validate"] = status, !.events = noted,
                                      !.stage = stage]
      PROVE  ReviewInv'
  <2>1. StepOnly("validate", status) /\ review'.events = noted
        /\ review'.artifact = review.artifact
    BY <1>1, <1>4, <1>5 DEF StepOnly, Review, StepKeys, StepStatus
  <2>2. /\ Silent /\ Grows /\ review'.step["validate"] = status
        /\ \A j \in StepKeys : j # "validate" => review'.step[j] = review.step[j]
    BY <1>1, <1>5, <2>1, StepGrows DEF StepStatus
  <2>3. SectionsFollow'
    BY <1>1, <2>1, <2>2, SectionsStay DEF RowsFollow, StepOnly
  <2>4. StepsFollow'
    BY <1>1, <1>2, <1>5, <2>1, <2>2 DEF RowsFollow, StepsFollow, StepOnly, Done, StepKeys
  <2>5. CountsFollow'
    BY <1>1, <1>4, <1>5, <2>1, <2>2
       DEF RowsFollow, CountsFollow, One, StepOnly, Done, StepKeys, EventKinds, Asked, Drafted
  <2>6. Patient(run, run')
    BY <1>1, <1>2, RowMoves DEF RunMoved, TypeOK
  <2> QED
    BY <1>2, <1>5, <2>1, <2>2, <2>3, <2>4, <2>5, <2>6, SilentWorkerKeeps DEF StepOnly
<1>6. CASE /\ Running(run) /\ ~Done("validate") /\ Reject(w)
           /\ review' = [review EXCEPT !.events = noted, !.step["validate"] = "failed"]
  <2>1. review' = [review EXCEPT !.step["validate"] = "failed", !.events = noted,
                                 !.stage = review.stage]
    BY <1>1, <1>6 DEF Review
  <2>2. review.stage \in {Stages[i] : i \in DOMAIN Stages}
    BY <1>1 DEF Review
  <2>3. Acts(w)
    BY <1>1, <1>2, <1>6, ErrorActs
  <2> QED
    BY <1>5, <1>6, <2>1, <2>2, <2>3
<1>7. CASE /\ Running(run) /\ NextNode(w, "consistency")
           /\ review' = [review EXCEPT !.step["validate"] = "succeeded", !.events = noted,
                           !.stage = IF @ = "validate_sections" THEN "consistency_check" ELSE @]
  <2> DEFINE stage == IF review.stage = "validate_sections" THEN "consistency_check"
                      ELSE review.stage
  <2>1. review' = [review EXCEPT !.step["validate"] = "succeeded", !.events = noted,
                                 !.stage = stage]
    BY <1>1, <1>7 DEF Review
  <2>2. stage \in {Stages[i] : i \in DOMAIN Stages}
    BY <1>1, StageNames DEF Review
  <2>3. Acts(w)
    BY <1>1, <1>2, <1>7, NextNodeActs
  <2> HIDE DEF stage
  <2> QED
    BY <1>5, <1>7, <2>1, <2>2, <2>3
<1> QED
  BY <1>3, <1>6, <1>7 DEF PersistClaimSet, Done, noted

\* The Artifact is published once, with the files that are there.
LEMMA CommitExportKeeps ==
  ASSUME ReviewInv, NEW w \in Workers, CommitExport(w)
  PROVE  ReviewInv'
<1> DEFINE g == work[w].graph
           events == Emitted(review.events, "review_artifact_created")
<1>1. /\ TypeOK /\ RowsFollow /\ RequestsFollow /\ GraphsFollow /\ WorkFollows(w)
      /\ review \in Review /\ work[w] \in Work
  BY DEF ReviewInv, RowsFollow, TypeOK, GraphsFollow
<1>2. /\ UNCHANGED <<version, run, ckpt>> /\ g.next = "export"
      /\ Done("consistency") /\ work[w].content \in review.files
  BY <1>1 DEF CommitExport, WorkFollows
<1>3. CASE (Retry(w) \/ Reject(w)) /\ UNCHANGED review
  BY <1>2, <1>3, ErrorKeeps
<1>4. ASSUME NextNode(w, "finalize") PROVE Acts(w)
  BY <1>1, <1>2, <1>4, NextNodeActs
<1>5. CASE NextNode(w, "finalize") /\ review' = review
  BY <1>2, <1>4, <1>5, SameWorkerKeeps
<1>6. CASE /\ Running(run) /\ review.step["export"] = "pending" /\ NextNode(w, "finalize")
           /\ review' = [review EXCEPT !.artifact = work[w].content, !.step["export"] = "succeeded",
                                       !.stage = "finalize", !.events = events]
  <2>1. "finalize" \in {Stages[i] : i \in DOMAIN Stages}
    BY StageNames
  <2>2. /\ events \in [EventKinds -> Nat]
        /\ events["review_artifact_created"] = review.events["review_artifact_created"] + 1
        /\ \A e \in EventKinds : e # "review_artifact_created" => events[e] = review.events[e]
    BY <1>1, EmittedCount DEF Review, EventKinds
  <2>3. work[w].content \in Exports /\ work[w].content # 0
    BY <1>1, <1>2 DEF Review, Exports
  <2> HIDE DEF events
  <2>4. StepOnly("export", "succeeded") /\ review'.events = events
        /\ review'.artifact = work[w].content
    BY <1>1, <1>6, <2>1, <2>2, <2>3 DEF StepOnly, Review, StepKeys, StepStatus
  <2>5. /\ Silent /\ Grows /\ review'.step["export"] = "succeeded"
        /\ \A j \in StepKeys : j # "export" => review'.step[j] = review.step[j]
    BY <1>1, <1>6, <2>4, StepGrows DEF StepStatus
  <2>6. SectionsFollow'
    BY <1>1, <2>4, <2>5, SectionsStay DEF RowsFollow, StepOnly
  <2>7. StepsFollow'
    BY <1>1, <1>2, <2>3, <2>4, <2>5 DEF RowsFollow, StepsFollow, StepOnly, Done, StepKeys
  <2>8. CountsFollow'
    <3>1. ~Done("export") /\ review.artifact = 0
      BY <1>1, <1>6 DEF RowsFollow, StepsFollow, Done
    <3> QED
      BY <1>1, <1>2, <2>2, <2>3, <2>4, <2>5, <3>1
         DEF RowsFollow, CountsFollow, One, StepOnly, Done, StepKeys, EventKinds, Asked, Drafted
  <2>9. Patient(run, run')
    BY <1>1, <1>2, RowMoves DEF RunMoved, TypeOK
  <2> QED
    BY <1>2, <1>4, <1>6, <2>4, <2>5, <2>6, <2>7, <2>8, <2>9, SilentWorkerKeeps DEF StepOnly
<1> QED
  BY <1>3, <1>5, <1>6 DEF CommitExport

\* The Run and its last Step succeed together, on top of the export.
LEMMA FinalizeKeeps ==
  ASSUME ReviewInv, NEW w \in Workers, Finalize(w)
  PROVE  ReviewInv'
<1> DEFINE g == work[w].graph
<1>1. /\ TypeOK /\ RowsFollow /\ RequestsFollow /\ GraphsFollow
      /\ review \in Review /\ run \in RunRow
  BY DEF ReviewInv, RowsFollow, TypeOK, GraphsFollow
<1>2. UNCHANGED <<version, ckpt>> /\ g.next = "finalize"
  BY DEF Finalize, AtNode
<1>3. CASE (Retry(w) \/ Reject(w)) /\ UNCHANGED <<run, review>>
  BY <1>2, <1>3, ErrorKeeps
<1>4. ASSUME NextNode(w, "end") PROVE Acts(w)
  BY <1>1, <1>2, <1>4, NextNodeActs
<1>5. CASE NextNode(w, "end") /\ UNCHANGED <<run, review>>
  BY <1>2, <1>4, <1>5, SameWorkerKeeps
<1>6. CASE /\ Running(run) /\ Done("export") /\ run' = Succeeded(run) /\ NextNode(w, "end")
           /\ review' = [review EXCEPT !.step["finalize"] = "succeeded"]
  <2>1. StepOnly("finalize", "succeeded") /\ review'.events = review.events
        /\ review'.artifact = review.artifact
    BY <1>1, <1>6 DEF StepOnly, Review, StepKeys, StepStatus
  <2>2. /\ Silent /\ Grows /\ review'.step["finalize"] = "succeeded"
        /\ \A j \in StepKeys : j # "finalize" => review'.step[j] = review.step[j]
    BY <1>1, <1>6, <2>1, StepGrows DEF StepStatus
  <2>3. SectionsFollow'
    BY <1>1, <2>1, <2>2, SectionsStay DEF RowsFollow, StepOnly
  <2>4. StepsFollow'
    BY <1>1, <1>6, <2>1, <2>2 DEF RowsFollow, StepsFollow, StepOnly, Done, StepKeys
  <2>5. CountsFollow'
    BY <1>1, <2>1, <2>2
       DEF RowsFollow, CountsFollow, One, StepOnly, Done, StepKeys, EventKinds, Asked, Drafted
  <2>6. Patient(run, run')
    BY <1>1, <1>6 DEF Patient, Succeeded, Running, RunRow, RowStatus
  <2> QED
    BY <1>2, <1>4, <1>6, <2>1, <2>2, <2>3, <2>4, <2>5, <2>6, SilentWorkerKeeps DEF StepOnly
<1> QED
  BY <1>3, <1>5, <1>6 DEF Finalize, Done

\* The first of the sections that are left is drafted for the approved outline.
LEMMA DraftSectionKeeps ==
  ASSUME ReviewInv, NEW w \in Workers, DraftSection(w)
  PROVE  ReviewInv'
<1> DEFINE g == work[w].graph
           todo == work[w].todo
           s == CHOOSE x \in todo : \A y \in todo : x <= y
           new == [work[w] EXCEPT !.todo = todo \ {s}]
           done == [work EXCEPT ![w].todo = @ \ {s}]
           events == Emitted(review.events, "section_draft_completed")
<1>1. /\ TypeOK /\ RowsFollow /\ RequestsFollow /\ GraphsFollow /\ WorkFollows(w)
      /\ review \in Review /\ work[w] \in Work /\ GraphFollows(g) /\ g \in GraphState
  BY DEF ReviewInv, RowsFollow, TypeOK, GraphsFollow, Work
<1>2. UNCHANGED <<version, run, ckpt>> /\ At(w, "draft") /\ todo # {}
  BY DEF DraftSection
<1>3. /\ g.next = "draft" /\ g.approved \in ApprovedOutlines /\ todo \subseteq Sections
      /\ \A x \in Sections : review.section[x] = 0 => x \in todo
      /\ Done("matrix") /\ Done("review")
  BY <1>1, <1>2 DEF WorkFollows
<1>4. s \in Sections
  <2> DEFINE n == Cardinality(Sections)
  <2>1. n \in Nat /\ todo \in SUBSET (1..n) /\ todo # {}
    BY <1>2, <1>3, Numbered
  <2> HIDE DEF n, todo
  <2>2. \E x \in todo : \A y \in todo : x <= y
    BY <2>1, FirstExists
  <2> QED
    BY <1>3, <2>2
<1> HIDE DEF s
<1>5. CASE (Retry(w) \/ Reject(w)) /\ UNCHANGED review
  BY <1>2, <1>5, ErrorKeeps
<1>6. CASE Goto(w, "spoil") /\ UNCHANGED review
  <2> DEFINE spoiled == [work[w] EXCEPT !.pc = "spoil"]
  <2>1. spoiled \in Work /\ spoiled.pc = "spoil" /\ spoiled.graph = g
    BY <1>1 DEF Work, Pcs
  <2>2. work' = [work EXCEPT ![w] = spoiled]
    BY <1>6 DEF Goto
  <2> HIDE DEF spoiled
  <2>3. work'[w] = spoiled
    BY <1>1, <2>2 DEF TypeOK
  <2>4. WorkFollows(w)'
    BY <1>3, <2>1, <2>3 DEF WorkFollows, At
  <2>5. Acts(w)
    BY <1>1, <1>2, <2>1, <2>2, <2>4, UpdateActs
  <2> QED
    BY <1>2, <1>6, <2>5, SameWorkerKeeps
<1>7. ASSUME work' = done, Grows, review'.section[s] # 0,
             \A x \in Sections : review'.section[x] = 0 => review.section[x] = 0
      PROVE  Acts(w)
  <2>1. new \in Work /\ new.pc = "draft" /\ new.graph = g /\ new.todo = todo \ {s}
    BY <1>1, <1>2 DEF Work, At
  <2>2. work' = [work EXCEPT ![w] = new]
    BY <1>1, <1>7 DEF TypeOK
  <2> HIDE DEF new, done
  <2>3. work'[w] = new
    BY <1>1, <2>2 DEF TypeOK
  <2>4. Done("matrix")' /\ Done("review")' /\ g.approved \in ApprovedOutlines'
    BY <1>3, <1>7 DEF Grows, StepKeys
  <2>5. \A x \in Sections : review'.section[x] = 0 => x \in todo \ {s}
    BY <1>3, <1>7
  <2>6. WorkFollows(w)'
    BY <1>3, <2>1, <2>3, <2>4, <2>5 DEF WorkFollows, At
  <2> QED
    BY <1>1, <1>2, <2>1, <2>2, <2>6, UpdateActs
<1>8. CASE work' = done /\ review.section[s] # 0 /\ review' = review
  <2>1. Grows
    BY <1>1, <1>8, SameIsQuiet, QuietGrows
  <2>2. Acts(w)
    BY <1>7, <1>8, <2>1
  <2> QED
    BY <1>2, <1>8, <2>2, SameWorkerKeeps
<1>9. CASE /\ Running(run) /\ review.section[s] = 0 /\ work' = done
           /\ review' = [review EXCEPT !.section[s] = g.approved, !.events = events]
  <2>1. /\ events \in [EventKinds -> Nat]
        /\ events["section_draft_completed"] = review.events["section_draft_completed"] + 1
        /\ \A e \in EventKinds : e # "section_draft_completed" => events[e] = review.events[e]
    BY <1>1, EmittedCount DEF Review, EventKinds
  <2>2. g.approved \in Outlines /\ g.approved # 0
    BY <1>3, OutlineFacts DEF ApprovedOutlines
  <2> HIDE DEF events
  <2>3. /\ review' \in Review
        /\ review'.section = [review.section EXCEPT ![s] = g.approved] /\ review'.events = events
        /\ review'.step = review.step /\ review'.outline = review.outline
        /\ review'.request = review.request /\ review'.current = review.current
        /\ review'.artifact = review.artifact /\ review'.stage = review.stage
        /\ review'.report = review.report /\ review'.files = review.files
    BY <1>1, <1>4, <1>9, <2>1, <2>2 DEF Review
  <2>4. /\ review'.section[s] = g.approved
        /\ \A x \in Sections : x # s => review'.section[x] = review.section[x]
    BY <1>1, <1>4, <2>3 DEF Review
  <2>5. ApprovedOutlines' = ApprovedOutlines
    BY <2>3 DEF ApprovedOutlines
  <2>6. Silent
    BY <1>1, <2>3 DEF Silent, Done, RequestsFollow
  <2>7. Grows
    BY <1>9, <2>3, <2>4, <2>5 DEF Grows, Done
  <2>8. SectionsFollow'
    BY <1>1, <1>3, <2>4, <2>5 DEF RowsFollow, SectionsFollow
  <2>9. StepsFollow'
    BY <1>1, <1>2, <1>9, <2>2, <2>3, <2>4 DEF RowsFollow, StepsFollow, Done
  <2>10. CountsFollow'
    <3>1. Drafted' = Drafted \cup {s} /\ s \notin Drafted
      BY <1>4, <1>9, <2>2, <2>4 DEF Drafted
    <3>2. IsFiniteSet(Drafted)
      BY Numbered, FS_Subset DEF Drafted
    <3>3. Cardinality(Drafted') = Cardinality(Drafted) + 1
      BY <3>1, <3>2, FS_AddElement
    <3> QED
      BY <1>1, <2>1, <2>3, <3>3 DEF RowsFollow, CountsFollow, One, Done, EventKinds, Asked
  <2>11. Acts(w)
    BY <1>7, <1>9, <2>2, <2>4, <2>7
  <2>12. Patient(run, run')
    BY <1>1, <1>2, RowMoves DEF RunMoved, TypeOK
  <2> QED
    BY <1>2, <2>3, <2>6, <2>7, <2>8, <2>9, <2>10, <2>11, <2>12, SilentWorkerKeeps
<1> QED
  BY <1>5, <1>6, <1>8, <1>9 DEF DraftSection, s

-----------------------------------------------------------------------------
(* The outline and the person *)

\* As long as the Step of the review has not succeeded, nothing is decided.
LEMMA NothingDecided ==
  ASSUME RequestsFollow, ~Done("review")
  PROVE  /\ \A o \in Outlines : review.request[o] \notin {"approve", "edit"}
         /\ \A o \in Outlines : review.outline[o] # "edit"
<1>1. \A o \in Outlines : review.request[o] \notin {"approve", "edit"}
  BY DEF RequestsFollow, Decided
<1> QED
  BY <1>1 DEF RequestsFollow

\* A request is made while none is open, and the Run waits from the same commit on.
LEMMA PauseForReviewKeeps ==
  ASSUME ReviewInv, NEW w \in Workers, PauseForReview(w)
  PROVE  ReviewInv'
<1> DEFINE g == work[w].graph
           v == g.round + 1
           proposed == [g EXCEPT !.next = "interrupt", !.outline = v]
           events == Emitted(review.events, "outline_proposed")
<1>1. /\ TypeOK /\ RowsFollow /\ RequestsFollow /\ GraphsFollow /\ WorkFollows(w)
      /\ review \in Review /\ run \in RunRow /\ g \in GraphState
  BY DEF ReviewInv, RowsFollow, TypeOK, GraphsFollow, Work
<1>2. UNCHANGED <<version, ckpt>> /\ At(w, "pause")
  BY DEF PauseForReview
<1>3. /\ Done("propose") /\ v \in Outlines /\ v <= MaxOutlines /\ g.round \in Nat
      /\ version = "review.v2" => g.round = 0
  BY <1>1, <1>2, OutlineFacts DEF WorkFollows, GraphState
<1>4. CASE (Retry(w) \/ Reject(w)) /\ UNCHANGED <<run, review>>
  BY <1>2, <1>4, ErrorKeeps
<1>5. ASSUME Finish(w, proposed) PROVE Acts(w)
  <2>1. proposed \in GraphState
    <3>1. v \in Nat
      BY <1>3
    <3> HIDE DEF v, g
    <3> QED
      BY <1>1, <3>1 DEF GraphState, Nodes
  <2>2. GraphFollows(proposed)
    BY <1>1, <1>3 DEF GraphState, GraphFollows
  <2> HIDE DEF proposed
  <2> QED
    BY <1>1, <1>2, <1>5, <2>1, <2>2, FinishActs
<1>6. CASE Finish(w, proposed) /\ UNCHANGED <<run, review>>
  BY <1>2, <1>5, <1>6, SameWorkerKeeps
<1>7. CASE /\ Running(run) /\ review.request[v] \in {"none", "open"}
           /\ review.step["review"] \in {"pending", "paused", "running"}
           /\ review' = [review EXCEPT !.request[v] = "open", !.current = v,
                                       !.step["review"] = "paused", !.stage = "review_outline",
                                       !.events = events]
           /\ run' = Paused(run) /\ Finish(w, proposed)
  <2> HIDE DEF v
  <2>1. /\ events \in [EventKinds -> Nat]
        /\ events["outline_proposed"] = review.events["outline_proposed"] + 1
        /\ \A e \in EventKinds : e # "outline_proposed" => events[e] = review.events[e]
    BY <1>1, EmittedCount DEF Review, EventKinds
  <2> HIDE DEF events
  <2>2. review' \in Review
    <3>1. "review_outline" \in {Stages[i] : i \in DOMAIN Stages}
      BY StageNames
    <3> QED
      BY <1>1, <1>3, <1>7, <2>1, <3>1 DEF Review, StepKeys, StepStatus
  <2>3. /\ review'.request = [review.request EXCEPT ![v] = "open"]
        /\ review'.step = [review.step EXCEPT !["review"] = "paused"]
        /\ review'.current = v /\ review'.stage = "review_outline" /\ review'.events = events
        /\ review'.section = review.section /\ review'.outline = review.outline
        /\ review'.artifact = review.artifact
        /\ review'.report = review.report /\ review'.files = review.files
    BY <1>1, <1>7 DEF Review
  <2>4. /\ \A k \in StepKeys : k # "review" => review'.step[k] = review.step[k]
        /\ review'.step["review"] = "paused"
        /\ review'.request[v] = "open"
        /\ \A o \in Outlines : o # v => review'.request[o] = review.request[o]
    BY <1>1, <1>3, <2>3 DEF Review, StepKeys
  <2>5. ~Done("review") /\ \A o \in Outlines : review.request[o] # "open"
    <3>1. OpenRequest = {}
      BY <1>1, <1>7 DEF RowsFollow, OneQuestion, Running
    <3> QED
      BY <1>7, <3>1 DEF Done, OpenRequest
  <2>6. /\ \A o \in Outlines : review.request[o] \notin {"approve", "edit"}
        /\ \A o \in Outlines : review.outline[o] # "edit"
    BY <1>1, <2>5, NothingDecided
  <2>7. run' \in RunRow /\ run'.status = "waiting"
    BY <1>1, <1>7 DEF Paused, RunRow, RowStatus
  <2>8. OneQuestion'
    <3>1. OpenRequest' = {v}
      BY <1>3, <2>4, <2>5 DEF OpenRequest
    <3> QED
      BY <2>3, <2>4, <2>7, <3>1 DEF OneQuestion
  <2>9. Done("propose")' /\ ~Done("review")'
    BY <1>3, <2>4 DEF Done, StepKeys
  <2>10. RequestsFollow'
    <3>1. \A o \in Outlines : review'.request[o] \notin {"approve", "edit"}
      BY <2>4, <2>6
    <3>2. \A o \in Outlines : review'.request[o] = "feedback" => o < MaxOutlines
      BY <1>1, <2>4 DEF RequestsFollow
    <3>3. \A o \in Outlines : review'.request[o] # "none" => o <= MaxOutlines
      BY <1>1, <1>3, <2>4 DEF RequestsFollow
    <3> QED
      BY <2>3, <2>6, <2>9, <3>1, <3>2, <3>3 DEF RequestsFollow, Decided
  <2>11. ApprovedOutlines \subseteq ApprovedOutlines'
    BY <2>6 DEF ApprovedOutlines
  <2>12. Grows
    BY <2>3, <2>4, <2>5, <2>11 DEF Grows, Done
  <2>13. SectionsFollow'
    BY <1>1, <2>3, <2>12, SectionsStay DEF RowsFollow
  <2>14. StepsFollow'
    BY <1>1, <2>3, <2>4, <2>5, <2>7 DEF RowsFollow, StepsFollow, Done, StepKeys
  <2>15. CountsFollow'
    <3>1. review.request[v] = "none"
      BY <1>3, <1>7, <2>5
    <3>2. Asked' = Asked \cup {v} /\ v \notin Asked
      BY <1>3, <2>4, <3>1 DEF Asked
    <3>3. IsFiniteSet(Asked)
      BY OutlineFacts, FS_Subset DEF Asked
    <3>4. Cardinality(Asked') = Cardinality(Asked) + 1
      BY <3>2, <3>3, FS_AddElement
    <3> QED
      BY <1>1, <2>1, <2>3, <2>4, <3>4
         DEF RowsFollow, CountsFollow, One, Done, EventKinds, StepKeys, Drafted
  <2>16. RowsFollow'
    BY <2>8, <2>10, <2>13, <2>14, <2>15 DEF RowsFollow
  <2> QED
    BY <1>2, <1>5, <1>7, <2>2, <2>7, <2>12, <2>16, WorkerKeeps
<1> QED
  BY <1>4, <1>6, <1>7 DEF PauseForReview

\* A person answers the one question there is, and decides at most once.
LEMMA SubmitKeeps ==
  ASSUME ReviewInv, NEW o \in Outlines, NEW action \in {"approve", "edit", "feedback"},
         Submit(o, action)
  PROVE  ReviewInv' /\ Grows
<1> DEFINE status == IF action = "feedback" THEN "running" ELSE "succeeded"
           edited == IF action = "edit" THEN Edited(review, o) ELSE review
<1>1. /\ TypeOK /\ RowsFollow /\ RequestsFollow /\ GraphsFollow
      /\ review \in Review /\ run \in RunRow
  BY DEF ReviewInv, RowsFollow, TypeOK, GraphsFollow
<1>2. /\ UNCHANGED <<version, ckpt, work>> /\ run' = Resumed(run)
      /\ review.request[o] = "open" /\ run.status = "waiting" /\ review.step["review"] = "paused"
      /\ action = "feedback" => o < MaxOutlines
  BY DEF Submit
<1>3. /\ o = review.current /\ \A x \in Outlines : review.request[x] = "open" => x = o
      /\ ~Done("review")
  <2>1. OpenRequest = {review.current} /\ o \in OpenRequest
    BY <1>1, <1>2 DEF RowsFollow, OneQuestion, OpenRequest
  <2> QED
    BY <1>2, <2>1 DEF OpenRequest, Done
<1>4. /\ \A x \in Outlines : review.request[x] \notin {"approve", "edit"}
      /\ \A x \in Outlines : review.outline[x] # "edit"
  BY <1>1, <1>3, NothingDecided
<1>5. o \in Nat /\ o <= MaxOutlines /\ o + 1 \in Outlines /\ Done("propose")
  BY <1>1, <1>2, OutlineFacts DEF RequestsFollow
<1>6. /\ edited \in Review /\ edited.step = review.step /\ edited.request = review.request
      /\ edited.section = review.section /\ edited.events = review.events
      /\ edited.artifact = review.artifact /\ edited.report = review.report
      /\ edited.files = review.files
      /\ edited.current = IF action = "edit" THEN o + 1 ELSE o
      /\ edited.outline = IF action = "edit" THEN [review.outline EXCEPT ![o + 1] = "edit"]
                          ELSE review.outline
  BY <1>1, <1>3, <1>5 DEF Edited, Review
<1>7. review' = [edited EXCEPT !.request[o] = action, !.step["review"] = status]
  BY DEF Submit
<1> HIDE DEF edited
<1>8. review' \in Review
  BY <1>6, <1>7, ZenonT(60) DEF Review, StepKeys, StepStatus
<1>9. /\ review'.request = [review.request EXCEPT ![o] = action]
      /\ review'.step = [review.step EXCEPT !["review"] = status]
      /\ review'.current = edited.current /\ review'.outline = edited.outline
      /\ review'.section = review.section /\ review'.events = review.events
      /\ review'.artifact = review.artifact /\ review'.report = review.report
      /\ review'.files = review.files
  BY <1>6, <1>7 DEF Review
<1>10. /\ \A k \in StepKeys : k # "review" => review'.step[k] = review.step[k]
       /\ review'.step["review"] = status
       /\ review'.request[o] = action
       /\ \A x \in Outlines : x # o => review'.request[x] = review.request[x]
  BY <1>1, <1>9 DEF Review, StepKeys
<1>11. run' \in RunRow /\ run'.status = "queued"
  BY <1>1, <1>2 DEF Resumed, RunRow, RowStatus
<1>12. OneQuestion'
  <2>1. OpenRequest' = {}
    BY <1>3, <1>10 DEF OpenRequest
  <2> QED
    BY <1>11, <2>1 DEF OneQuestion
<1>13. /\ \A x \in Outlines : review'.outline[x] = "edit" <=> action = "edit" /\ x = o + 1
       /\ \A x \in Outlines : review'.outline[x] = "model" => review.outline[x] = "model"
  BY <1>1, <1>4, <1>5, <1>6, <1>9 DEF Review
<1>14. Done("propose")' /\ (Done("review")' <=> action # "feedback")
  BY <1>5, <1>10 DEF Done, StepKeys
<1>15. RequestsFollow'
  <2>1. \A x \in Outlines : /\ review'.request[x] # "none" => x <= MaxOutlines
                            /\ review'.request[x] = "feedback" => x < MaxOutlines
    BY <1>1, <1>2, <1>5, <1>10 DEF RequestsFollow
  <2>2. \A x \in Decided' : x = o /\ action # "feedback"
    BY <1>4, <1>10 DEF Decided
  <2>3. ASSUME NEW x \in Outlines, review'.outline[x] = "edit"
        PROVE  x - 1 \in Outlines /\ review'.request[x - 1] = "edit"
    <3>1. action = "edit" /\ x = o + 1
      BY <1>13, <2>3
    <3>2. x - 1 = o
      BY <1>5, <3>1
    <3> QED
      BY <1>10, <3>1, <3>2
  <2>4. action # "feedback" => review'.current \in ApprovedOutlines'
    <3>1. CASE action = "approve"
      BY <1>6, <1>9, <1>10, <3>1 DEF ApprovedOutlines
    <3>2. CASE action = "edit"
      <4>1. review'.current = o + 1 /\ o + 1 \in Outlines /\ (o + 1) - 1 = o
        BY <1>5, <1>6, <1>9, <3>2
      <4> QED
        BY <1>10, <1>13, <3>2, <4>1 DEF ApprovedOutlines
    <3> QED
      BY <3>1, <3>2
  <2>5. \A x \in Outlines : review'.outline[x] = "model" => Done("propose")'
    BY <1>14
  <2> QED
    BY <1>14, <2>1, <2>2, <2>3, <2>4, <2>5 DEF RequestsFollow
<1>16. ApprovedOutlines \subseteq ApprovedOutlines'
  BY <1>4 DEF ApprovedOutlines
<1>17. Grows
  BY <1>3, <1>9, <1>10, <1>16 DEF Grows, Done
<1>18. SectionsFollow'
  BY <1>1, <1>9, <1>17, SectionsStay DEF RowsFollow
<1>19. StepsFollow'
  BY <1>1, <1>3, <1>9, <1>10, <1>11 DEF RowsFollow, StepsFollow, Done, StepKeys
<1>20. CountsFollow'
  <2>1. Asked' = Asked
    BY <1>2, <1>10 DEF Asked
  <2> QED
    BY <1>1, <1>9, <1>10, <2>1
       DEF RowsFollow, CountsFollow, One, Done, EventKinds, StepKeys, Drafted
<1>21. RowsFollow'
  BY <1>12, <1>15, <1>18, <1>19, <1>20 DEF RowsFollow
<1>22. ckpt' \in GraphState /\ GraphFollows(ckpt') /\ work' \in [Workers -> Work]
  BY <1>1, <1>2 DEF TypeOK, GraphsFollow
<1> QED
  BY <1>2, <1>8, <1>11, <1>17, <1>21, <1>22, PartsKeep

-----------------------------------------------------------------------------
(* The invariant *)

\* A new Review has no outline, no Event and nothing done.
LEMMA InitHolds == Init => ReviewInv
<1> SUFFICES ASSUME Init PROVE ReviewInv
  OBVIOUS
<1>1. TypeOK
  BY EmptyType DEF Init, TypeOK
<1>2. /\ run.status = "queued" /\ review.current = 0 /\ review.artifact = 0
      /\ \A k \in StepKeys : review.step[k] = "pending"
      /\ \A o \in Outlines : review.request[o] = "none" /\ review.outline[o] = "none"
      /\ \A s \in Sections : review.section[s] = 0
      /\ \A e \in EventKinds : review.events[e] = 0
  BY DEF Init, NewRun, NewReview
<1>3. \A k \in StepKeys : ~Done(k)
  BY <1>2 DEF Done
<1>4. OneQuestion
  BY <1>2 DEF OneQuestion, OpenRequest
<1>5. RequestsFollow /\ SectionsFollow
  BY <1>2, <1>3 DEF RequestsFollow, SectionsFollow, Decided, StepKeys
<1>6. StepsFollow
  BY <1>2, <1>3 DEF StepsFollow, StepKeys
<1>7. CountsFollow
  <2>1. Asked = {} /\ Drafted = {}
    BY <1>2 DEF Asked, Drafted
  <2>2. review.step["validate"] = "pending"
    BY <1>2 DEF StepKeys
  <2> QED
    BY <1>2, <1>3, <2>1, <2>2, FS_EmptySet DEF CountsFollow, One, StepKeys, EventKinds
<1>8. GraphsFollow
  <2>1. GraphFollows(NoCheckpoint)
    BY DEF GraphFollows, NoCheckpoint
  <2>2. ASSUME NEW w \in Workers PROVE GraphFollows(work[w].graph) /\ WorkFollows(w)
    <3>1. work[w] = Idle
      BY DEF Init
    <3> QED
      BY <2>1, <3>1 DEF Idle, WorkFollows, At
  <2> QED
    BY <2>1, <2>2 DEF Init, GraphsFollow
<1> QED
  BY <1>1, <1>4, <1>5, <1>6, <1>7, <1>8 DEF ReviewInv, RowsFollow

\* Every step keeps the invariant.
LEMMA NextKeeps == ReviewInv /\ [Next]_vars => ReviewInv'
<1> SUFFICES ASSUME ReviewInv, [Next]_vars PROVE ReviewInv'
  OBVIOUS
<1>1. ASSUME NEW w \in Workers, Start(w) PROVE ReviewInv'
  BY <1>1, StartKeeps
<1>2. ASSUME NEW w \in Workers, Step(w) PROVE ReviewInv'
  <2>1. CASE LoadMatrix(w)
    BY <2>1, LoadMatrixKeeps
  <2>2. CASE \E r \in PaperResults : ExtractPaper(w, r)
    BY <2>2, ExtractPaperKeeps
  <2>3. CASE CompleteMatrix(w)
    BY <2>3, CompleteMatrixKeeps
  <2>4. CASE FailMatrix(w)
    BY <2>4, FailMatrixKeeps
  <2>5. CASE ReadInput(w) \/ ReadStage(w) \/ FindThread(w) \/ StartGraph(w) \/ ResumeGraph(w)
    BY <2>5, EnterGraphKeeps
  <2>6. CASE Interrupt(w) \/ EndGraph(w)
    BY <2>6, InterruptKeeps
  <2>7. CASE ApplyDecision(w)
    BY <2>7, ApplyDecisionKeeps
  <2>8. CASE LoadProposal(w)
    BY <2>8, LoadProposalKeeps
  <2>9. CASE PersistOutline(w)
    BY <2>9, PersistOutlineKeeps
  <2>10. CASE PauseForReview(w)
    BY <2>10, PauseForReviewKeeps
  <2>11. CASE LoadContext(w) \/ EnsureStep(w)
    BY <2>11, LoadContextKeeps, EnsureStepKeeps
  <2>12. CASE DraftSection(w)
    BY <2>12, DraftSectionKeeps
  <2>13. CASE CompleteDraft(w) \/ CompleteConsistency(w)
    BY <2>13, CompleteStepKeeps
  <2>14. CASE PersistClaimSet(w)
    BY <2>14, PersistClaimSetKeeps
  <2>15. CASE PersistReport(w)
    BY <2>15, PersistReportKeeps
  <2>16. CASE Spoil(w)
    BY <2>16, SpoilKeeps
  <2>17. CASE WriteFiles(w)
    BY <2>17, WriteFilesKeeps
  <2>18. CASE CommitExport(w)
    BY <2>18, CommitExportKeeps
  <2>19. CASE Finalize(w)
    BY <2>19, FinalizeKeeps
  <2>20. CASE SaveCheckpoint(w)
    BY <2>20, SaveCheckpointKeeps
  <2>21. CASE Fail(w) \/ Return(w)
    BY <2>21, RunStepKeeps
  <2> QED
    BY <1>2, <2>1, <2>2, <2>3, <2>4, <2>5, <2>6, <2>7, <2>8, <2>9, <2>10, <2>11, <2>12, <2>13,
       <2>14, <2>15, <2>16, <2>17, <2>18, <2>19, <2>20, <2>21 DEF Step
<1>3. ASSUME NEW w \in Workers, Crash(w) PROVE ReviewInv'
  BY <1>3, RunStepKeeps
<1>4. ASSUME NEW o \in Outlines, NEW a \in {"approve", "edit", "feedback"}, Submit(o, a)
      PROVE  ReviewInv'
  BY <1>4, SubmitKeeps
<1>5. CASE Cancel \/ Reclaim
  BY <1>5, RunStepKeeps
<1>6. CASE UNCHANGED vars
  <2>1. TypeOK /\ UNCHANGED <<version, run, review, ckpt, work>>
    BY <1>6 DEF ReviewInv, vars
  <2>2. RunMoved(run, run')
    BY <2>1, RowMoves DEF TypeOK
  <2> QED
    BY <2>1, <2>2, RowStepKeeps
<1> QED
  BY <1>1, <1>2, <1>3, <1>4, <1>5, <1>6 DEF Next

\* The rows of a Review, the checkpoint of its thread and what its workers rely on
\* fit together at any time, whatever workers, crashes and persons do.
THEOREM ReviewInvariant == Spec => []ReviewInv
BY InitHolds, NextKeeps, PTL DEF Spec

-----------------------------------------------------------------------------
(* What follows from it *)

\* SectionsFromApproved: there is one outline at most that a person approved, and
\* every section was drafted for it, also by a worker that lost its lease long ago.
THEOREM DraftedAsApproved == Spec => []SectionsFromApproved
<1>1. ReviewInv => SectionsFromApproved
  <2> SUFFICES ASSUME ReviewInv PROVE SectionsFromApproved
    OBVIOUS
  <2>1. TypeOK /\ RequestsFollow /\ SectionsFollow
    BY DEF ReviewInv, RowsFollow
  <2>2. Cardinality(ApprovedOutlines) <= 1
    <3>1. CASE ApprovedOutlines = {}
      BY <3>1, FS_EmptySet
    <3>2. CASE ApprovedOutlines # {}
      <4>1. PICK o \in ApprovedOutlines : TRUE
        BY <3>2
      <4>2. ApprovedOutlines = {o}
        BY <2>1, <4>1, OneApproved
      <4> QED
        BY <4>2, FS_Singleton
    <3> QED
      BY <3>1, <3>2
  <2> QED
    BY <2>1, <2>2 DEF SectionsFromApproved, SectionsFollow
<1> QED
  BY <1>1, ReviewInvariant, PTL

\* OneQuestion: a Run waits for a person exactly as long as one request about the
\* current outline is open.
THEOREM OneOpenQuestion == Spec => []OneQuestion
<1>1. ReviewInv => OneQuestion
  BY DEF ReviewInv, RowsFollow
<1> QED
  BY <1>1, ReviewInvariant, PTL

\* EventsMatchFacts: every business Event tells of one fact that came into being, and
\* a Run that succeeded has done all of its Steps and exported files that exist.
THEOREM EventsTellFacts == Spec => []EventsMatchFacts
<1>1. ReviewInv => EventsMatchFacts
  <2> SUFFICES ASSUME ReviewInv PROVE EventsMatchFacts
    OBVIOUS
  <2>1. RequestsFollow /\ StepsFollow /\ CountsFollow
    BY DEF ReviewInv, RowsFollow
  <2>2. ASSUME run.status = "succeeded"
        PROVE  /\ \A k \in StepKeys : review.step[k] = "succeeded"
               /\ \A s \in Sections : review.section[s] # 0
               /\ review.report /\ review.artifact # 0
    <3>1. /\ Done("export") /\ Done("finalize") /\ Done("consistency") /\ Done("validate")
          /\ Done("draft") /\ Done("matrix") /\ Done("review")
      BY <2>1, <2>2 DEF StepsFollow
    <3>2. Done("propose")
      BY <2>1, <3>1 DEF RequestsFollow
    <3> QED
      BY <2>1, <3>1, <3>2 DEF StepsFollow, StepKeys, Done
  <2> QED
    BY <2>1, <2>2 DEF EventsMatchFacts, CountsFollow, One, Asked, Drafted, Done
<1> QED
  BY <1>1, ReviewInvariant, PTL

-----------------------------------------------------------------------------
(* Nothing is taken back *)

\* A step that leaves outlines and requests alone has only to keep what else counts.
LEMMA RowsGrow ==
  ASSUME review'.outline = review.outline, review'.request = review.request,
         \A k \in StepKeys : Done(k) => Done(k)',
         \A s \in Sections : review.section[s] # 0 => review'.section[s] = review.section[s],
         review.report => review'.report, review.files \subseteq review'.files
  PROVE  Grows
<1>1. ApprovedOutlines \subseteq ApprovedOutlines'
  BY DEF ApprovedOutlines
<1> QED
  BY <1>1 DEF Grows

\* A Step that has not succeeded gets another status, whatever happens to the stage
\* and the Events.
LEMMA StatusGrows ==
  ASSUME review \in Review, NEW k \in StepKeys, NEW status, Done(k) => status = "succeeded",
         review'.step = [review.step EXCEPT ![k] = status],
         review'.outline = review.outline, review'.request = review.request,
         review'.section = review.section, review'.report = review.report,
         review'.files = review.files
  PROVE  Grows
<1>1. \A j \in StepKeys : Done(j) => Done(j)'
  BY DEF Review, Done
<1> QED
  BY <1>1, RowsGrow

LEMMA EnsureStepGrows ==
  ASSUME ReviewInv, NEW w \in Workers, EnsureStep(w)
  PROVE  Grows
<1> DEFINE key == work[w].graph.next
           status == IF review.step[key] = "pending" THEN "running" ELSE review.step[key]
<1>1. TypeOK /\ RequestsFollow /\ review \in Review /\ WorkFollows(w)
  BY DEF ReviewInv, RowsFollow, TypeOK, GraphsFollow
<1>2. CASE review' = review
  BY <1>1, <1>2, SameIsQuiet, QuietGrows
<1>3. CASE review' # review
  <2>1. review' = [review EXCEPT !.step[key] = status, !.stage = AtLeast(StageOf[key])]
    BY <1>3 DEF EnsureStep
  <2>2. key \in StepKeys /\ (Done(key) => status = "succeeded")
    BY <1>1 DEF EnsureStep, WorkFollows, StepKeys, Done
  <2> HIDE DEF status, key
  <2> QED
    BY <1>1, <2>1, <2>2, StatusGrows DEF Review
<1> QED
  BY <1>2, <1>3

LEMMA CompleteStepGrows ==
  ASSUME review \in Review, TypeOK, RequestsFollow, NEW w \in Workers, NEW key \in StepKeys,
         NEW s, NEW next, CompleteStep(w, key, s, next)
  PROVE  Grows
<1>1. CASE review' = review
  BY <1>1, SameIsQuiet, QuietGrows
<1>2. CASE review' # review
  <2>1. review' = [review EXCEPT !.step[key] = "succeeded", !.stage = AtLeast(s)]
    BY <1>2 DEF CompleteStep
  <2> QED
    BY <2>1, StatusGrows DEF Review
<1> QED
  BY <1>1, <1>2

LEMMA OutlineGrows ==
  ASSUME review \in Review, TypeOK, RequestsFollow, NEW w \in Workers,
         PersistOutline(w) \/ PauseForReview(w)
  PROVE  Grows
<1> DEFINE v == work[w].graph.round + 1
<1>1. CASE review' = review
  BY <1>1, SameIsQuiet, QuietGrows
<1>2. CASE PersistOutline(w) /\ review' # review
  <2>1. /\ review.outline[v] # "edit"
        /\ review' = [review EXCEPT !.outline[v] = "model", !.step["propose"] = "succeeded"]
    BY <1>2 DEF PersistOutline
  <2> HIDE DEF v
  <2>2. /\ review'.outline = [review.outline EXCEPT ![v] = "model"]
        /\ review'.step = [review.step EXCEPT !["propose"] = "succeeded"]
        /\ review'.request = review.request /\ review'.section = review.section
        /\ review'.report = review.report /\ review'.files = review.files
    BY <2>1 DEF Review
  <2>3. \A o \in Outlines : review.outline[o] = "edit" => review'.outline[o] = "edit"
    BY <2>1, <2>2 DEF Review
  <2>4. \A k \in StepKeys : Done(k) => Done(k)'
    BY <2>2 DEF Review, Done
  <2>5. ApprovedOutlines \subseteq ApprovedOutlines'
    BY <2>2, <2>3, ApprovedStay
  <2> QED
    BY <2>2, <2>4, <2>5 DEF Grows
<1>3. CASE PauseForReview(w) /\ review' # review
  <2>1. /\ review.request[v] \in {"none", "open"}
        /\ review.step["review"] \in {"pending", "paused", "running"}
        /\ review' = [review EXCEPT !.request[v] = "open", !.current = v,
                                    !.step["review"] = "paused", !.stage = "review_outline",
                                    !.events = Emitted(@, "outline_proposed")]
    BY <1>3 DEF PauseForReview
  <2> HIDE DEF v
  <2>2. /\ review'.request = [review.request EXCEPT ![v] = "open"]
        /\ review'.step = [review.step EXCEPT !["review"] = "paused"]
        /\ review'.outline = review.outline /\ review'.section = review.section
        /\ review'.report = review.report /\ review'.files = review.files
    BY <2>1 DEF Review
  <2>3. \A o \in Outlines : review.request[o] \in {"approve", "edit"} =>
          review'.request[o] = review.request[o]
    BY <2>1, <2>2 DEF Review
  <2>4. \A k \in StepKeys : Done(k) => Done(k)'
    BY <2>1, <2>2 DEF Review, Done
  <2>5. ApprovedOutlines \subseteq ApprovedOutlines'
    BY <2>2, <2>3, ApprovedStay
  <2> QED
    BY <2>2, <2>4, <2>5 DEF Grows
<1> QED
  BY <1>1, <1>2, <1>3

\* _complete_matrix, the papers, the claims, the report and the files.
LEMMA ResultGrows ==
  ASSUME review \in Review, TypeOK, RequestsFollow, NEW w \in Workers,
         \/ LoadMatrix(w) \/ (\E r \in PaperResults : ExtractPaper(w, r)) \/ CompleteMatrix(w)
         \/ FailMatrix(w) \/ PersistClaimSet(w) \/ PersistReport(w) \/ Spoil(w) \/ WriteFiles(w)
         \/ CommitExport(w) \/ Finalize(w)
  PROVE  Grows
<1> DEFINE key == work[w].graph.next
           Given(k, status) ==
             /\ Done(k) => status = "succeeded"
             /\ review'.step = [review.step EXCEPT ![k] = status]
             /\ review'.outline = review.outline /\ review'.request = review.request
             /\ review'.section = review.section /\ review'.report = review.report
             /\ review'.files = review.files
           Kept ==
             /\ review'.step = review.step
             /\ review'.outline = review.outline /\ review'.request = review.request
             /\ review'.section = review.section
             /\ review.report => review'.report
             /\ review.files \subseteq review'.files
<1>1. ASSUME Kept PROVE Grows
  BY <1>1, RowsGrow DEF Done
<1>2. ASSUME review' = review PROVE Grows
  BY <1>2, SameIsQuiet, QuietGrows
<1>3. ASSUME NEW k \in StepKeys, NEW status, Given(k, status) PROVE Grows
  BY <1>3, StatusGrows
<1>4. {"matrix", "validate", "export", "finalize"} \subseteq StepKeys
  BY DEF StepKeys
<1>5. CASE LoadMatrix(w) /\ review' # review
  <2> DEFINE status == IF review.step["matrix"] = "pending" THEN "running"
                       ELSE review.step["matrix"]
  <2>1. review' = [review EXCEPT !.step["matrix"] = status]
    BY <1>5 DEF LoadMatrix
  <2>2. Done("matrix") => status = "succeeded"
    BY DEF Done
  <2> HIDE DEF status
  <2> QED
    BY <1>3, <1>4, <2>1, <2>2 DEF Review
<1>6. CASE (\E r \in PaperResults : ExtractPaper(w, r)) /\ review' # review
  <2>1. PICK p, r : review' = [review EXCEPT !.paper[p] = r]
    BY <1>6 DEF ExtractPaper, PersistPaper
  <2> QED
    BY <1>1, <2>1 DEF Review
<1>7. CASE CompleteMatrix(w) /\ review' # review
  <2>1. review' = [review EXCEPT !.step["matrix"] = "succeeded",
                                 !.stage = AtLeast("propose_outline"),
                                 !.events = Emitted(@, "evidence_matrix_completed")]
    BY <1>7 DEF CompleteMatrix
  <2> QED
    BY <1>3, <1>4, <2>1 DEF Review
<1>8. CASE FailMatrix(w)
  <2> DEFINE status == IF review.step["matrix"] \in {"pending", "running"} THEN "failed"
                       ELSE review.step["matrix"]
  <2>1. review' = [review EXCEPT !.step["matrix"] = status]
    BY <1>8 DEF FailMatrix
  <2>2. Done("matrix") => status = "succeeded"
    BY DEF Done
  <2> HIDE DEF status
  <2> QED
    BY <1>3, <1>4, <2>1, <2>2 DEF Review
<1>9. CASE PersistClaimSet(w) /\ review' # review
  <2> DEFINE noted == IF review.events["citation_validation_completed"] > 0 THEN review.events
                      ELSE Emitted(review.events, "citation_validation_completed")
             s == IF review.stage = "validate_sections" THEN "consistency_check"
                  ELSE review.stage
  <2>1. \/ /\ review.step["validate"] # "succeeded"
           /\ review' = [review EXCEPT !.events = noted, !.step["validate"] = "failed"]
        \/ review' = [review EXCEPT !.step["validate"] = "succeeded", !.events = noted,
                                    !.stage = s]
    BY <1>9 DEF PersistClaimSet
  <2> HIDE DEF noted, s
  <2>2. CASE /\ review.step["validate"] # "succeeded"
             /\ review' = [review EXCEPT !.events = noted, !.step["validate"] = "failed"]
    <3>1. Given("validate", "failed")
      BY <2>2 DEF Review, Done
    <3> QED
      BY <1>3, <1>4, <3>1
  <2>3. CASE review' = [review EXCEPT !.step["validate"] = "succeeded", !.events = noted,
                                      !.stage = s]
    <3>1. Given("validate", "succeeded")
      BY <2>3 DEF Review, Done
    <3> QED
      BY <1>3, <1>4, <3>1
  <2> QED
    BY <2>1, <2>2, <2>3
<1>10. CASE PersistReport(w) /\ review' # review
  <2>1. review' = [review EXCEPT !.report = TRUE]
    BY <1>10 DEF PersistReport
  <2> QED
    BY <1>1, <2>1 DEF Review
<1>11. CASE Spoil(w) /\ review' # review
  <2> DEFINE status == IF review.step[key] \in {"pending", "running"} THEN "failed"
                       ELSE review.step[key]
  <2>1. review' = [review EXCEPT !.step[key] = status]
    BY <1>11 DEF Spoil, SpoilStep
  <2>2. Done(key) => status = "succeeded"
    BY DEF Done
  <2> HIDE DEF status, key
  <2>3. CASE key \in StepKeys
    BY <1>3, <2>1, <2>2, <2>3 DEF Review
  <2>4. CASE key \notin StepKeys
    BY <1>1, <2>1, <2>4 DEF Review
  <2> QED
    BY <2>3, <2>4
<1>12. CASE WriteFiles(w) /\ review' # review
  <2>1. PICK c : review' = [review EXCEPT !.files = @ \cup {c}]
    BY <1>12 DEF WriteFiles
  <2> QED
    BY <1>1, <2>1 DEF Review
<1>13. CASE CommitExport(w) /\ review' # review
  <2>1. review' = [review EXCEPT !.artifact = work[w].content, !.step["export"] = "succeeded",
                                 !.stage = "finalize",
                                 !.events = Emitted(@, "review_artifact_created")]
    BY <1>13 DEF CommitExport
  <2> QED
    BY <1>3, <1>4, <2>1 DEF Review
<1>14. CASE Finalize(w) /\ review' # review
  <2>1. review' = [review EXCEPT !.step["finalize"] = "succeeded"]
    BY <1>14 DEF Finalize
  <2> QED
    BY <1>3, <1>4, <2>1 DEF Review
<1> QED
  BY <1>2, <1>5, <1>6, <1>7, <1>8, <1>9, <1>10, <1>11, <1>12, <1>13, <1>14

\* The model writes a section that nobody wrote.
LEMMA DraftGrows ==
  ASSUME review \in Review, TypeOK, RequestsFollow, NEW w \in Workers, DraftSection(w)
  PROVE  Grows
<1>1. CASE review' = review
  BY <1>1, SameIsQuiet, QuietGrows
<1>2. CASE review' # review
  <2> DEFINE s == CHOOSE x \in work[w].todo : \A y \in work[w].todo : x <= y
  <2>1. /\ review.section[s] = 0
        /\ review' = [review EXCEPT !.section[s] = work[w].graph.approved,
                                    !.events = Emitted(@, "section_draft_completed")]
    BY <1>2 DEF DraftSection
  <2> HIDE DEF s
  <2>2. /\ review'.section = [review.section EXCEPT ![s] = work[w].graph.approved]
        /\ review'.step = review.step
        /\ review'.outline = review.outline /\ review'.request = review.request
        /\ review'.report = review.report /\ review'.files = review.files
    BY <2>1 DEF Review
  <2>3. \A t \in Sections : review.section[t] # 0 => review'.section[t] = review.section[t]
    BY <2>1, <2>2 DEF Review
  <2> QED
    BY <2>2, <2>3, RowsGrow DEF Done
<1> QED
  BY <1>1, <1>2

LEMMA NextGrows ==
  ASSUME ReviewInv, [Next]_vars
  PROVE  Grows
<1>1. TypeOK /\ RequestsFollow /\ review \in Review
  BY DEF ReviewInv, RowsFollow, TypeOK
<1>2. CASE UNCHANGED review
  BY <1>1, <1>2, SameIsQuiet, QuietGrows
<1>3. ASSUME NEW o \in Outlines, NEW a \in {"approve", "edit", "feedback"}, Submit(o, a)
      PROVE  Grows
  BY <1>3, SubmitKeeps
<1>4. ASSUME NEW w \in Workers, Step(w) PROVE Grows
  <2>1. CASE UNCHANGED review
    BY <1>2, <2>1
  <2>2. CASE EnsureStep(w)
    BY <2>2, EnsureStepGrows
  <2>3. CASE CompleteDraft(w) \/ CompleteConsistency(w)
    BY <1>1, <2>3, CompleteStepGrows DEF CompleteDraft, CompleteConsistency, StepKeys
  <2>4. CASE PersistOutline(w) \/ PauseForReview(w)
    BY <1>1, <2>4, OutlineGrows
  <2>5. CASE DraftSection(w)
    BY <1>1, <2>5, DraftGrows
  <2>6. CASE \/ LoadMatrix(w) \/ (\E r \in PaperResults : ExtractPaper(w, r)) \/ CompleteMatrix(w)
             \/ FailMatrix(w) \/ PersistClaimSet(w) \/ PersistReport(w) \/ Spoil(w)
             \/ WriteFiles(w) \/ CommitExport(w) \/ Finalize(w)
    BY <1>1, <2>6, ResultGrows
  <2>7. CASE \/ ReadInput(w) \/ ReadStage(w) \/ FindThread(w) \/ StartGraph(w) \/ ResumeGraph(w)
             \/ Interrupt(w) \/ ApplyDecision(w) \/ EndGraph(w) \/ LoadProposal(w)
             \/ LoadContext(w) \/ SaveCheckpoint(w) \/ Fail(w) \/ Return(w)
    BY <1>2, <2>7 DEF ReadInput, ReadStage, FindThread, StartGraph, ResumeGraph, Interrupt,
       ApplyDecision, EndGraph, LoadProposal, LoadContext, SaveCheckpoint, Fail, Return
  <2> QED
    BY <1>4, <2>2, <2>3, <2>4, <2>5, <2>6, <2>7 DEF Step
<1>5. CASE \/ UNCHANGED vars \/ Cancel \/ Reclaim
           \/ \E w \in Workers : Start(w) \/ Crash(w)
  BY <1>2, <1>5 DEF vars, Cancel, Reclaim, Start, Crash
<1> QED
  BY <1>3, <1>4, <1>5 DEF Next

\* Nothing a Review has reached is taken back by a stale worker, a replayed node or
\* another decision: a Step that succeeded stays so, an approved outline stays
\* approved, a section is drafted once, the report and the files remain. The code
\* checks each of them where it writes (_ensure_step, _fail_step, get_or_add_output).
THEOREM NothingTakenBack == Spec => [][Grows]_vars
<1>1. ReviewInv /\ [Next]_vars => Grows
  BY NextGrows
<1> QED
  BY <1>1, ReviewInvariant, PTL DEF Spec

-----------------------------------------------------------------------------
(* The Run of a Review is the Run of RunLifecycle *)

\* The row of the Run as RunMoves moves it.
Row == INSTANCE RunMoves WITH row <- run

LEMMA ClosedMove ==
  ASSUME run \in RunRow, NEW attempt, run' = Closed(run, attempt)
  PROVE  Row!Close \/ UNCHANGED run
<1>1. CASE attempt = run.attempts
  BY <1>1 DEF Closed, Row!Close, Row!Closed
<1>2. CASE attempt # run.attempts
  BY <1>2 DEF Closed, RunRow
<1> QED
  BY <1>1, <1>2

\* A worker whose Attempt is not the latest any more may fail the Run, and leaves
\* the latest Attempt open.
LEMMA FailedMove ==
  ASSUME run \in RunRow, NEW attempt, NEW final \in BOOLEAN,
         run' = FailedRun(run, attempt, final)
  PROVE  Row!Fail \/ Row!MarkFailed \/ UNCHANGED run
<1>1. CASE attempt = run.attempts
  BY <1>1 DEF FailedRun, AfterFailure, Closed, Running, Row!Fail, Row!FailedRun,
     Row!AfterFailure, Row!Closed, Row!Running
<1>2. CASE attempt # run.attempts /\ run.status = "cancel_requested"
  BY <1>2 DEF FailedRun
<1>3. CASE attempt # run.attempts /\ run.status # "cancel_requested"
  <2>1. AfterFailure(run, final) \in RunRow /\ AfterFailure(run, final).attempts = run.attempts
    BY DEF AfterFailure, RunRow, RowStatus
  <2>2. run' = AfterFailure(run, final)
    BY <1>3, <2>1 DEF FailedRun, Closed, RunRow
  <2> QED
    BY <2>2 DEF Row!MarkFailed, AfterFailure, Running, Row!AfterFailure, Row!Running
<1> QED
  BY <1>1, <1>2, <1>3

LEMMA ReclaimedMove ==
  ASSUME Reclaimable(run), NEW final \in BOOLEAN, run' = Reclaimed(run, final)
  PROVE  Row!Reclaim
BY DEF Reclaimable, Reclaimed, AfterFailure, Running, Row!Reclaim, Row!Reclaimable,
   Row!Reclaimed, Row!AfterFailure, Row!Running

\* Every step of a Review moves the row of its Run as RunMoves does, or leaves it.
LEMMA StepMovesRun ==
  ASSUME TypeOK, [Next]_vars
  PROVE  Row!Next \/ UNCHANGED run
<1> USE DEF Row!Next
<1>1. run \in RunRow
  BY DEF TypeOK
<1>2. CASE Cancel
  BY <1>2 DEF Cancel, Cancellable, Cancelled, Running, Terminal, Row!Cancel, Row!Cancellable,
     Row!Cancelled, Row!Running, Row!Terminal
<1>3. CASE Reclaim
  BY <1>3, ReclaimedMove DEF Reclaim
<1>4. ASSUME NEW o \in Outlines, NEW a, Submit(o, a) PROVE Row!Resume
  BY <1>4 DEF Submit, Resumed, Row!Resume, Row!Resumed
<1>5. ASSUME NEW w \in Workers, Start(w) PROVE Row!Claim
  BY <1>5 DEF Start, Started, Row!Claim, Row!Started
<1>6. ASSUME NEW w \in Workers, Fail(w) PROVE Row!Next \/ UNCHANGED run
  <2>1. work[w].permanent \in BOOLEAN
    BY DEF TypeOK, Work
  <2>2. PICK final \in BOOLEAN : run' = FailedRun(run, work[w].attempt, final)
    BY <1>6, <2>1 DEF Fail, Finality
  <2> QED
    BY <1>1, <2>2, FailedMove
<1>7. ASSUME NEW w \in Workers, Return(w) PROVE Row!Next \/ UNCHANGED run
  BY <1>1, <1>7, ClosedMove DEF Return
<1>8. ASSUME NEW w \in Workers, PauseForReview(w) PROVE Row!Pause \/ UNCHANGED run
  BY <1>8 DEF PauseForReview, Running, Paused, Row!Pause, Row!Running, Row!Paused
<1>9. ASSUME NEW w \in Workers, Finalize(w) PROVE Row!Succeed \/ UNCHANGED run
  BY <1>9 DEF Finalize, Running, Succeeded, Row!Succeed, Row!Running, Row!Succeeded
<1>10. \/ Cancel \/ Reclaim \/ UNCHANGED run
       \/ \E o \in Outlines, a \in {"approve", "edit", "feedback"} : Submit(o, a)
       \/ \E w \in Workers : Start(w) \/ Fail(w) \/ Return(w) \/ PauseForReview(w) \/ Finalize(w)
  BY DEF Next, vars, Crash, Step, LoadMatrix, ExtractPaper, CompleteMatrix, FailMatrix, ReadInput,
     ReadStage, FindThread, StartGraph, ResumeGraph, Interrupt, ApplyDecision, EndGraph,
     LoadProposal, PersistOutline, LoadContext, EnsureStep, DraftSection, CompleteDraft,
     PersistClaimSet, PersistReport, CompleteConsistency, Spoil, WriteFiles, CommitExport, SaveCheckpoint
<1> QED
  BY <1>2, <1>3, <1>4, <1>5, <1>6, <1>7, <1>8, <1>9, <1>10

\* The Run of a Review makes the moves of RunMoves only, as the machinery of
\* RunLifecycle does, also when a worker fails or returns whose Attempt was reclaimed.
THEOREM ReviewRunMoves == Spec => Row!Spec
<1>1. Init => Row!Init
  BY DEF Init, NewRun, Row!Init, Row!NewRun
<1>2. ReviewInv /\ [Next]_vars => [Row!Next]_run
  BY StepMovesRun DEF ReviewInv
<1> QED
  BY <1>1, <1>2, ReviewInvariant, PTL DEF Spec, Row!Spec

-----------------------------------------------------------------------------
(* The first half of a Review *)

CONSTANTS Candidates, Duplicates, ProjectPapers, SourceLimit, MinimumReady
VARIABLES setup, library

\* ReviewSources, on the Run and the workers of this module; its review is the rows
\* a Review has before the Matrix.
Src == INSTANCE ReviewSources

\* What ReviewSources assumes of its constants: the assumption of a module that is
\* instantiated is no fact here, so that the theorems about Src name it.
SourcesConstants ==
  /\ Workers \subseteq Nat
  /\ IsFiniteSet(Candidates) /\ Candidates \subseteq Nat /\ Duplicates \subseteq Candidates
  /\ IsFiniteSet(ProjectPapers) /\ ProjectPapers \subseteq Nat
  /\ Candidates \cap ProjectPapers = {}
  /\ SourceLimit \in Nat \ {0} /\ MinimumReady \in Nat \ {0}
  /\ Versions \subseteq {"review.v1", "review.v2"}

\* The cardinalities of Src are those of this module.
LEMMA SameCount ==
  \A S : Src!Cardinality(S) = Cardinality(S)
BY DEF Src!Cardinality, Cardinality

\* The papers of the Project stay what the request made them, and a candidate
\* has a row only after the search.
SourcesFollow ==
  /\ \A p \in ProjectPapers :
       review.source[p] = IF p \in setup.selected THEN "ready" ELSE "none"
  /\ review.step["search"] # "succeeded" => \A c \in Candidates : review.source[c] = "none"

\* No search is to come any more; and whatever may be imported was selected.
Found == setup.auto => review.step["search"] = "succeeded"
Listed == Found /\ \A c \in Candidates : review.source[c] = "discovered" => c \in review.chosen

\* In version 2 a candidate is imported because somebody selected it, and from the
\* first transaction that could import one on nothing is found any more.
SelectionFollows ==
  /\ ~setup.auto => review.step["search"] # "succeeded"
  /\ review.step["strategy"] = "succeeded" => review.stage # "formulate_search_strategy"
  /\ review.stage \notin {"formulate_search_strategy", "search_arxiv"} => Found
  /\ review.request # "none" => review.step["search"] = "succeeded"
  /\ review.request # "resolved" => review.chosen = {}
  /\ review.request = "resolved" => Listed
  /\ review.waits = "dependency" => Listed
  /\ \A c \in Candidates :
       review.source[c] \in {"importing", "ready", "failed"} => c \in review.chosen
  /\ Cardinality(review.chosen) + Cardinality(setup.selected) <= SourceLimit

\* What a worker relies on between two transactions: a list of sources that was read
\* before the selection is never one that could be imported without it.
TaskFollows(w) ==
  /\ work[w].pc \in {"register", "refuse", "mark"} => work[w].todo # {}
  /\ setup.version = "review.v2" =>
       /\ Src!At(w, "found") => setup.auto
       /\ Src!At(w, "advance") => ~setup.auto
       /\ Src!At(w, "snapshot") => review.step["strategy"] = "succeeded"
       /\ Src!At(w, "sources") => Found
       /\ Src!At(w, "select") => review.step["search"] = "succeeded"
       /\ work[w].pc \in {"list", "import", "register", "refuse", "mark", "complete", "check",
                          "wait"} => Listed

\* The inductive invariant of Src.
SourcesInv ==
  /\ Src!TypeOK /\ SourcesFollow
  /\ setup.version = "review.v2" => SelectionFollows
  /\ \A w \in Workers : TaskFollows(w)

\* What SettledIsFinal says of one step.
Settles ==
  \A x \in Src!Sources : /\ review.source[x] \in Src!Settled => review'.source[x] = review.source[x]
                         /\ review.source[x] # "none" => review'.source[x] # "none"

\* What a worker has found is not taken back.
Remembers ==
  /\ setup' = setup
  /\ review.step["strategy"] = "succeeded" => review'.step["strategy"] = "succeeded"
  /\ review.step["search"] = "succeeded" => review'.step["search"] = "succeeded"
  /\ setup.version = "review.v2" => (Found => Found') /\ (Listed => Listed')

\* A step that neither finds nor selects candidates.
Drifts ==
  /\ setup' = setup /\ review' \in Src!Review
  /\ \A x \in Src!Sources :
       \/ review'.source[x] = review.source[x]
       \/ review.source[x] = "discovered" /\ review'.source[x] = "rejected"
       \/ /\ review.source[x] = "discovered"
          /\ review'.source[x] \in {"importing", "ready", "failed"}
          /\ setup.version = "review.v2" => x \in review.chosen
       \/ review.source[x] = "importing" /\ review'.source[x] \in {"ready", "failed"}
  /\ review'.request = review.request /\ review'.chosen = review.chosen
  /\ review'.step["search"] = review.step["search"]
  /\ review.step["strategy"] = "succeeded" => review'.step["strategy"] = "succeeded"
  /\ review'.step["strategy"] = "succeeded" =>
       review.step["strategy"] = "succeeded" \/ review'.stage # "formulate_search_strategy"
  /\ setup.version = "review.v2" =>
       /\ \/ review'.stage = review.stage \/ review'.stage = "search_arxiv"
          \/ Found /\ review'.stage # "formulate_search_strategy"
       /\ review'.waits = "dependency" => review.waits = "dependency" \/ Listed

\* A step of one worker.
Moves(w) ==
  work' \in [Workers -> Src!Work] /\ \A v \in Workers : v # w => work'[v] = work[v]

\* What every step has to keep.
SourcesStep == SourcesInv' /\ Settles

\* Papers of the Project are READY or not part of the Review: everything else is a
\* candidate.
LEMMA SourceKinds ==
  ASSUME SourcesConstants, Src!TypeOK, SourcesFollow
  PROVE  /\ \A x \in Src!Sources : x \in Candidates \/ x \in ProjectPapers
         /\ \A c \in Candidates : c \in Src!Sources /\ c \notin ProjectPapers
         /\ \A p \in ProjectPapers : p \in Src!Sources /\ review.source[p] \in {"ready", "none"}
         /\ \A statuses \in SUBSET {"discovered", "importing", "failed", "rejected"} :
              Src!Having(statuses) \subseteq Candidates
<1>1. /\ \A x \in Src!Sources : x \in Candidates \/ x \in ProjectPapers
      /\ \A c \in Candidates : c \in Src!Sources /\ c \notin ProjectPapers
      /\ \A p \in ProjectPapers : p \in Src!Sources
  BY DEF Src!Sources, SourcesConstants
<1>2. \A p \in ProjectPapers : review.source[p] \in {"ready", "none"}
  BY DEF SourcesFollow
<1> QED
  BY <1>1, <1>2 DEF Src!Having

\* A step that drifts keeps the rows in order, and what the workers rely on.
LEMMA DriftKeeps ==
  ASSUME SourcesConstants, SourcesInv, Drifts
  PROVE  /\ SourcesFollow' /\ (setup.version = "review.v2" => SelectionFollows')
         /\ Settles /\ Remembers
<1>1. Src!TypeOK /\ SourcesFollow /\ (setup.version = "review.v2" => SelectionFollows)
  BY DEF SourcesInv
<1>2. /\ \A c \in Candidates : c \in Src!Sources
      /\ \A p \in ProjectPapers : p \in Src!Sources /\ review.source[p] \in {"ready", "none"}
  BY <1>1, SourceKinds
<1>3. Settles
  BY DEF Drifts, Settles, Src!Settled
<1>4. SourcesFollow'
  <2>1. \A p \in ProjectPapers : review'.source[p] = review.source[p]
    BY <1>2 DEF Drifts
  <2>2. review.step["search"] # "succeeded" =>
          \A c \in Candidates : review'.source[c] = review.source[c]
    BY <1>1, <1>2 DEF Drifts, SourcesFollow
  <2> QED
    BY <1>1, <2>1, <2>2 DEF Drifts, SourcesFollow
<1>5. (Found <=> Found') /\ (Listed => Listed')
  BY <1>2 DEF Drifts, Found, Listed
<1>6. ASSUME setup.version = "review.v2" PROVE SelectionFollows'
  <2>1. \A c \in Candidates :
          review'.source[c] \in {"importing", "ready", "failed"} => c \in review'.chosen
    BY <1>1, <1>2, <1>6 DEF Drifts, SelectionFollows
  <2>2. /\ review'.stage \notin {"formulate_search_strategy", "search_arxiv"} => Found'
        /\ review'.step["strategy"] = "succeeded" => review'.stage # "formulate_search_strategy"
        /\ review'.waits = "dependency" => Listed'
    BY <1>1, <1>5, <1>6 DEF Drifts, SelectionFollows
  <2> QED
    BY <1>1, <1>5, <1>6, <2>1, <2>2 DEF Drifts, SelectionFollows
<1> QED
  BY <1>3, <1>4, <1>5, <1>6 DEF Remembers, Drifts

\* The invariant from its parts, when the other workers' facts are remembered.
LEMMA SourcesKeep ==
  ASSUME SourcesInv, run' \in Src!RunRow, review' \in Src!Review,
         library' \in [Src!Sources -> Src!Ingestion], work' \in [Workers -> Src!Work], Remembers,
         SourcesFollow', setup.version = "review.v2" => SelectionFollows',
         \A v \in Workers : work'[v] = work[v] \/ TaskFollows(v)'
  PROVE  SourcesInv'
<1>1. Src!TypeOK'
  BY DEF SourcesInv, Src!TypeOK, Remembers
<1>2. ASSUME NEW v \in Workers PROVE TaskFollows(v)'
  <2>1. CASE work'[v] = work[v]
    BY <2>1 DEF SourcesInv, TaskFollows, Src!At, Remembers
  <2> QED
    BY <2>1
<1> QED
  BY <1>1, <1>2 DEF SourcesInv, Remembers

\* A step of a worker that drifts.
LEMMA TaskStep ==
  ASSUME SourcesConstants, SourcesInv, NEW w \in Workers, Moves(w), TaskFollows(w)', Drifts,
         run' \in Src!RunRow, library' \in [Src!Sources -> Src!Ingestion]
  PROVE  SourcesStep
<1>1. \A v \in Workers : work'[v] = work[v] \/ TaskFollows(v)'
  BY DEF Moves
<1>2. review' \in Src!Review
  BY DEF Drifts
<1> QED
  BY <1>1, <1>2, DriftKeeps, SourcesKeep DEF SourcesStep, Moves

\* A step that leaves the Review alone drifts.
LEMMA SameDrifts ==
  ASSUME Src!TypeOK, UNCHANGED <<setup, review>>
  PROVE  Drifts
BY DEF Src!TypeOK, Drifts

\* _confirm_cancellation_in_session drifts.
LEMMA RejectingDrifts ==
  ASSUME Src!TypeOK, setup' = setup, review' = Src!Rejecting(review)
  PROVE  Drifts
<1>1. review \in Src!Review
  BY DEF Src!TypeOK
<1> DEFINE source == [x \in Src!Sources |-> IF review.source[x] = "discovered" THEN "rejected"
                                            ELSE review.source[x]]
<1>2. source \in [Src!Sources -> Src!SourceStatus] /\ review' = [review EXCEPT !.source = source]
  BY <1>1 DEF Src!Rejecting, Src!Review, Src!SourceStatus
<1>3. \A x \in Src!Sources : \/ source[x] = review.source[x]
                             \/ review.source[x] = "discovered" /\ source[x] = "rejected"
  OBVIOUS
<1> HIDE DEF source
<1>4. /\ review' \in Src!Review /\ review'.source = source
      /\ review'.step = review.step /\ review'.request = review.request
      /\ review'.chosen = review.chosen /\ review'.stage = review.stage
      /\ review'.waits = review.waits
  BY <1>1, <1>2 DEF Src!Review
<1> QED
  BY <1>3, <1>4 DEF Drifts

\* A step of a worker that only looks.
LEMMA StayStep ==
  ASSUME SourcesConstants, SourcesInv, NEW w \in Workers, Moves(w), TaskFollows(w)',
         UNCHANGED <<setup, run, review, library>>
  PROVE  SourcesStep
<1>1. Src!TypeOK /\ run' \in Src!RunRow /\ library' \in [Src!Sources -> Src!Ingestion]
  BY DEF SourcesInv, Src!TypeOK
<1> QED
  BY <1>1, SameDrifts, TaskStep

\* Where a worker relies on nothing.
PlainTasks == {"idle", "load", "model", "spoil", "matrix", "raise", "return"}

\* A worker that relies on nothing.
LEMMA PlainTask ==
  ASSUME NEW w \in Workers, work'[w].pc \in PlainTasks
  PROVE  TaskFollows(w)'
BY DEF PlainTasks, TaskFollows, Src!At

\* Replacing the task of one worker.
LEMMA NewTask ==
  ASSUME Src!TypeOK, NEW w \in Workers, NEW new \in Src!Work, work' = [work EXCEPT ![w] = new]
  PROVE  Moves(w) /\ work'[w] = new
BY DEF Src!TypeOK, Moves

\* Goto moves one worker.
LEMMA GotoMoves ==
  ASSUME Src!TypeOK, NEW w \in Workers, NEW pc \in Src!Pcs, Src!Goto(w, pc)
  PROVE  Moves(w) /\ work'[w].pc = pc /\ work'[w].todo = work[w].todo
<1> DEFINE new == [work[w] EXCEPT !.pc = pc]
<1>1. new \in Src!Work /\ new.pc = pc /\ new.todo = work[w].todo
  BY DEF Src!TypeOK, Src!Work
<1>2. work' = [work EXCEPT ![w] = new]
  BY DEF Src!Goto
<1> HIDE DEF new
<1> QED
  BY <1>1, <1>2, NewTask

\* An error moves one worker, that relies on nothing afterwards.
LEMMA RaiseMoves ==
  ASSUME Src!TypeOK, NEW w \in Workers, Src!Retry(w) \/ Src!Reject(w)
  PROVE  Moves(w) /\ TaskFollows(w)'
<1>1. ASSUME NEW permanent \in BOOLEAN, Src!Raise(w, permanent) PROVE Moves(w) /\ TaskFollows(w)'
  <2> DEFINE new == [Src!Idle EXCEPT !.pc = "raise", !.attempt = work[w].attempt,
                                     !.permanent = permanent]
  <2>1. new \in Src!Work /\ new.pc = "raise"
    BY DEF Src!TypeOK, Src!Work, Src!Idle, Src!Pcs
  <2>2. work' = [work EXCEPT ![w] = new]
    BY <1>1 DEF Src!Raise
  <2> HIDE DEF new
  <2>3. Moves(w) /\ work'[w].pc \in PlainTasks
    BY <2>1, <2>2, NewTask DEF PlainTasks
  <2> QED
    BY <2>3, PlainTask
<1> QED
  BY <1>1 DEF Src!Retry, Src!Reject

\* A step that ends in an error.
LEMMA ErrorStep ==
  ASSUME SourcesConstants, SourcesInv, NEW w \in Workers, Src!Retry(w) \/ Src!Reject(w),
         UNCHANGED <<setup, run, review, library>>
  PROVE  SourcesStep
BY RaiseMoves, StayStep DEF SourcesInv

\* A step that only goes where nothing is relied on.
LEMMA PlainStep ==
  ASSUME SourcesConstants, SourcesInv, NEW w \in Workers, NEW pc \in PlainTasks, Src!Goto(w, pc),
         UNCHANGED <<setup, run, review, library>>
  PROVE  SourcesStep
<1>1. Src!TypeOK /\ pc \in Src!Pcs
  BY DEF SourcesInv, PlainTasks, Src!Pcs
<1> QED
  BY <1>1, GotoMoves, PlainTask, StayStep

\* The moves of the Run make rows of Runs.
LEMMA SourceRunTypes ==
  ASSUME NEW row \in Src!RunRow
  PROVE  /\ Src!Started(row) \in Src!RunRow /\ Src!Paused(row) \in Src!RunRow
         /\ Src!Resumed(row) \in Src!RunRow
         /\ Src!Succeeded(row) \in Src!RunRow /\ Src!Cancelled(row) \in Src!RunRow
         /\ \A final \in BOOLEAN : Src!Reclaimed(row, final) \in Src!RunRow
         /\ \A status \in Src!RowStatus : [row EXCEPT !.status = status] \in Src!RunRow
         /\ \A attempt : /\ Src!Closed(row, attempt) \in Src!RunRow
                         /\ \A final \in BOOLEAN :
                              Src!FailedRun(row, attempt, final) \in Src!RunRow
<1> USE DEF Src!RunRow, Src!RowStatus
<1>1. Src!Started(row) \in Src!RunRow /\ Src!Paused(row) \in Src!RunRow
      /\ Src!Resumed(row) \in Src!RunRow
      /\ Src!Succeeded(row) \in Src!RunRow /\ Src!Cancelled(row) \in Src!RunRow
  BY DEF Src!Started, Src!Paused, Src!Resumed, Src!Succeeded, Src!Cancelled
<1>2. \A final \in BOOLEAN : Src!AfterFailure(row, final) \in Src!RunRow
  BY DEF Src!AfterFailure
<1>3. \A old \in Src!RunRow : \A attempt : Src!Closed(old, attempt) \in Src!RunRow
  BY DEF Src!Closed
<1>4. ASSUME NEW final \in BOOLEAN PROVE Src!Reclaimed(row, final) \in Src!RunRow
  <2>1. Src!AfterFailure(row, final) \in Src!RunRow
    BY <1>2
  <2> QED
    BY <2>1 DEF Src!Reclaimed
<1>5. \A attempt : \A final \in BOOLEAN : Src!FailedRun(row, attempt, final) \in Src!RunRow
  BY <1>2, <1>3 DEF Src!FailedRun
<1>6. \A status \in Src!RowStatus : [row EXCEPT !.status = status] \in Src!RunRow
  OBVIOUS
<1> QED
  BY <1>1, <1>3, <1>4, <1>5, <1>6

\* A step that changes the row of the Run at most, and the task of a worker.
LEMMA RunOnlyStep ==
  ASSUME SourcesConstants, SourcesInv, run' \in Src!RunRow, UNCHANGED <<setup, review, library>>,
         work' = work \/ \E w \in Workers : Moves(w) /\ TaskFollows(w)'
  PROVE  SourcesStep
<1>1. Src!TypeOK
  BY DEF SourcesInv
<1>2. library' \in [Src!Sources -> Src!Ingestion] /\ review' \in Src!Review /\ Drifts
  BY <1>1, SameDrifts DEF Src!TypeOK
<1>3. work' \in [Workers -> Src!Work]
      /\ \A v \in Workers : work'[v] = work[v] \/ TaskFollows(v)'
  BY <1>1 DEF Src!TypeOK, Moves
<1> QED
  BY <1>2, <1>3, DriftKeeps, SourcesKeep DEF SourcesStep

\* The steps of the Run and of the worker that do not know of the Review.
LEMMA SourceRunStep ==
  ASSUME SourcesConstants, SourcesInv,
         \/ Src!Cancel \/ Src!Reclaim
         \/ \E w \in Workers : Src!Start(w) \/ Src!Crash(w) \/ Src!Fail(w) \/ Src!Return(w)
  PROVE  SourcesStep
<1>1. Src!TypeOK /\ run \in Src!RunRow
  BY DEF SourcesInv, Src!TypeOK
<1>2. CASE Src!Cancel
  BY <1>1, <1>2, SourceRunTypes, RunOnlyStep DEF Src!Cancel
<1>3. CASE Src!Reclaim
  BY <1>1, <1>3, SourceRunTypes, RunOnlyStep DEF Src!Reclaim
<1>4. ASSUME NEW w \in Workers, work' = [work EXCEPT ![w] = Src!Idle]
      PROVE  Moves(w) /\ TaskFollows(w)'
  <2>1. Src!Idle \in Src!Work /\ Src!Idle.pc \in PlainTasks
    BY DEF Src!Idle, Src!Work, Src!Pcs, PlainTasks
  <2>2. Moves(w) /\ work'[w] = Src!Idle
    BY <1>1, <1>4, <2>1, NewTask
  <2> QED
    BY <2>1, <2>2, PlainTask
<1>5. ASSUME NEW w \in Workers, Src!Crash(w) PROVE SourcesStep
  BY <1>1, <1>4, <1>5, StayStep DEF Src!Crash
<1>6. ASSUME NEW w \in Workers, Src!Fail(w) \/ Src!Return(w) PROVE SourcesStep
  <2>1. work' = [work EXCEPT ![w] = Src!Idle] /\ UNCHANGED <<setup, review, library>>
    BY <1>6 DEF Src!Fail, Src!Return
  <2>2. run' \in Src!RunRow
    <3>1. work[w].permanent \in BOOLEAN
      BY <1>1 DEF Src!TypeOK, Src!Work
    <3>2. CASE \E final \in Src!Finality(work[w].permanent) :
                 run' = Src!FailedRun(run, work[w].attempt, final)
      <4>1. PICK final \in BOOLEAN : run' = Src!FailedRun(run, work[w].attempt, final)
        BY <3>1, <3>2 DEF Src!Finality
      <4> QED
        BY <1>1, <4>1, SourceRunTypes
    <3>3. CASE run' = Src!Closed(run, work[w].attempt)
      BY <1>1, <3>3, SourceRunTypes
    <3> QED
      BY <1>6, <3>2, <3>3 DEF Src!Fail, Src!Return
  <2> QED
    BY <1>4, <2>1, <2>2, RunOnlyStep
<1>7. ASSUME NEW w \in Workers, Src!Start(w) PROVE SourcesStep
  <2> DEFINE new == [Src!Idle EXCEPT !.pc = "load", !.attempt = run.attempts + 1]
  <2>1. new \in Src!Work /\ new.pc \in PlainTasks
    <3>1. run.attempts + 1 \in Nat
      BY <1>1 DEF Src!RunRow
    <3> QED
      BY <3>1 DEF Src!Idle, Src!Work, Src!Pcs, PlainTasks
  <2>2. work' = [work EXCEPT ![w] = new] /\ UNCHANGED <<setup, review, library>>
    BY <1>7 DEF Src!Start
  <2> HIDE DEF new
  <2>3. Moves(w) /\ TaskFollows(w)'
    BY <1>1, <2>1, <2>2, NewTask, PlainTask
  <2>4. run' \in Src!RunRow
    BY <1>1, <1>7, SourceRunTypes DEF Src!Start
  <2> QED
    BY <2>2, <2>3, <2>4, RunOnlyStep
<1> QED
  BY <1>2, <1>3, <1>5, <1>6, <1>7

\* ReviewSearchStrategyService: a worker that goes on has a persisted strategy.
LEMMA StrategyStep ==
  ASSUME SourcesConstants, SourcesInv, NEW w \in Workers,
         Src!LoadStrategy(w) \/ Src!PersistStrategy(w) \/ Src!SpoilStrategy(w)
  PROVE  SourcesStep
<1>1. Src!TypeOK /\ review \in Src!Review /\ run \in Src!RunRow
      /\ library \in [Src!Sources -> Src!Ingestion]
  BY DEF SourcesInv, Src!TypeOK
<1>2. UNCHANGED <<setup, run, library>>
  BY DEF Src!LoadStrategy, Src!PersistStrategy, Src!SpoilStrategy
<1>3. CASE (Src!Retry(w) \/ Src!Reject(w)) /\ review' = review
  BY <1>2, <1>3, ErrorStep
<1>4. CASE (Src!Goto(w, "model") \/ Src!Goto(w, "spoil")) /\ review' = review
  BY <1>2, <1>4, PlainStep DEF PlainTasks
<1>5. ASSUME Src!Goto(w, "snapshot"), review'.step["strategy"] = "succeeded"
      PROVE  Moves(w) /\ TaskFollows(w)'
  <2>1. Moves(w) /\ work'[w].pc = "snapshot"
    BY <1>1, <1>5, GotoMoves DEF Src!Pcs
  <2> QED
    BY <1>5, <2>1 DEF TaskFollows, Src!At
<1>6. CASE Src!Goto(w, "snapshot") /\ review.step["strategy"] = "succeeded" /\ review' = review
  BY <1>2, <1>5, <1>6, StayStep
<1>7. CASE Src!Goto(w, "snapshot") /\ review.step["strategy"] # "succeeded"
           /\ review' = [review EXCEPT !.step["strategy"] = "succeeded",
                           !.stage = IF @ = "formulate_search_strategy" THEN "search_arxiv" ELSE @]
  <2>1. review' \in Src!Review
    BY <1>1, <1>7 DEF Src!Review, Src!Stages, Src!StepStatus
  <2>2. /\ review'.step = [review.step EXCEPT !["strategy"] = "succeeded"]
        /\ review'.source = review.source /\ review'.request = review.request
        /\ review'.chosen = review.chosen /\ review'.waits = review.waits
        /\ review'.stage = IF review.stage = "formulate_search_strategy" THEN "search_arxiv"
                           ELSE review.stage
    BY <1>1, <1>7 DEF Src!Review
  <2>3. review'.step["strategy"] = "succeeded" /\ review'.step["search"] = review.step["search"]
    BY <1>1, <2>2 DEF Src!Review
  <2>4. Drifts
    BY <1>2, <2>1, <2>2, <2>3 DEF Drifts
  <2> QED
    BY <1>1, <1>2, <1>5, <1>7, <2>3, <2>4, TaskStep
<1>8. CASE Src!Reject(w) /\ review' = [review EXCEPT !.step["strategy"] =
                                          IF @ = "pending" THEN "failed" ELSE @]
  <2>1. review' \in Src!Review
    BY <1>1, <1>8 DEF Src!Review, Src!StepStatus
  <2>2. /\ review'.source = review.source /\ review'.request = review.request
        /\ review'.chosen = review.chosen /\ review'.waits = review.waits
        /\ review'.stage = review.stage
        /\ review'.step["strategy"] = "succeeded" <=> review.step["strategy"] = "succeeded"
        /\ review'.step["search"] = review.step["search"]
    BY <1>1, <1>8 DEF Src!Review
  <2>3. Drifts
    BY <1>2, <2>1, <2>2 DEF Drifts
  <2> QED
    BY <1>1, <1>2, <1>8, <2>3, RaiseMoves, TaskStep
<1> QED
  BY <1>3, <1>4, <1>6, <1>7, <1>8 DEF Src!LoadStrategy, Src!PersistStrategy, Src!SpoilStrategy

\* _review_snapshot: version 2 leaves the stage of the search only after it, or
\* without auto_search.
LEMMA ReadSnapshotStep ==
  ASSUME SourcesConstants, SourcesInv, NEW w \in Workers, Src!ReadSnapshot(w)
  PROVE  SourcesStep
<1>1. Src!TypeOK /\ (setup.version = "review.v2" => SelectionFollows) /\ TaskFollows(w)
  BY DEF SourcesInv
<1>2. UNCHANGED <<setup, run, review, library>> /\ Src!At(w, "snapshot")
  BY DEF Src!ReadSnapshot
<1>3. CASE Src!Retry(w)
  BY <1>2, <1>3, ErrorStep
<1>4. ASSUME NEW pc \in {"found", "list", "sources", "advance"}, Src!Goto(w, pc),
             setup.version = "review.v2" => /\ pc # "list"
                                            /\ pc = "found" => setup.auto
                                            /\ pc = "sources" => Found
                                            /\ pc = "advance" => ~setup.auto
      PROVE  SourcesStep
  <2>1. Moves(w) /\ work'[w].pc = pc
    BY <1>1, <1>4, GotoMoves DEF Src!Pcs
  <2>2. TaskFollows(w)'
    BY <1>2, <1>4, <2>1 DEF TaskFollows, Src!At, Found
  <2> QED
    BY <1>2, <2>1, <2>2, StayStep
<1>5. CASE Src!SearchArxiv(w) /\ (setup.version = "review.v2" => setup.auto)
  <2>1. CASE review.step["search"] = "succeeded" /\ Src!Goto(w, Src!Searched)
    BY <1>4, <2>1 DEF Src!Searched, Found
  <2>2. CASE Src!Goto(w, "found")
    BY <1>4, <1>5, <2>2
  <2> QED
    BY <1>3, <1>5, <2>1, <2>2 DEF Src!SearchArxiv
<1>6. CASE setup.version = "review.v2" /\ review.stage # "search_arxiv" /\ Src!Goto(w, "sources")
  <2>1. Found
    BY <1>1, <1>2, <1>6 DEF SelectionFollows, TaskFollows
  <2> QED
    BY <1>4, <1>6, <2>1
<1>7. CASE ~setup.auto /\ Src!Goto(w, "advance")
  BY <1>4, <1>7
<1>8. setup.version \in {"review.v1", "review.v2"}
  BY <1>1 DEF Src!TypeOK, Src!Setups, SourcesConstants
<1> QED
  BY <1>5, <1>6, <1>7, <1>8 DEF Src!ReadSnapshot

\* search_sources: the one step that finds candidates comes before every selection,
\* and no other worker can have a list without them.
LEMMA PersistSearchStep ==
  ASSUME SourcesConstants, SourcesInv, NEW w \in Workers, NEW found \in SUBSET Candidates,
         Src!PersistSearch(w, found)
  PROVE  SourcesStep
<1>1. /\ Src!TypeOK /\ SourcesFollow /\ (setup.version = "review.v2" => SelectionFollows)
      /\ TaskFollows(w) /\ review \in Src!Review
  BY DEF SourcesInv, Src!TypeOK
<1>2. UNCHANGED <<setup, run, library>> /\ Src!At(w, "found") /\ Src!Goto(w, Src!Searched)
  BY DEF Src!PersistSearch
<1>3. Src!Searched \in {"list", "sources"} /\ (setup.version = "review.v2" => Src!Searched = "sources")
      /\ setup.version \in {"review.v1", "review.v2"}
  BY <1>1 DEF Src!Searched, Src!TypeOK, Src!Setups, SourcesConstants
<1>4. Moves(w) /\ work'[w].pc = Src!Searched
  BY <1>1, <1>2, <1>3, GotoMoves DEF Src!Pcs
<1>5. ASSUME review'.step["search"] = "succeeded" PROVE TaskFollows(w)'
  BY <1>2, <1>3, <1>4, <1>5 DEF TaskFollows, Src!At, Found, Src!Searched
<1>6. CASE review.step["search"] = "succeeded" /\ review' = review
  BY <1>2, <1>4, <1>5, <1>6, StayStep
<1>7. CASE /\ review.step["search"] # "succeeded"
           /\ review' = [review EXCEPT
                       !.source = [x \in Src!Sources |-> IF x \in found THEN "discovered" ELSE @[x]],
                       !.step["search"] = "succeeded",
                       !.stage = IF @ \in {"formulate_search_strategy", "search_arxiv"}
                                 THEN "import_arxiv_papers" ELSE @]
  <2>1. review' \in Src!Review
    BY <1>1, <1>7 DEF Src!Review, Src!Stages, Src!SourceStatus, Src!StepStatus
  <2>2. /\ review'.source = [x \in Src!Sources |-> IF x \in found THEN "discovered"
                                                   ELSE review.source[x]]
        /\ review'.step = [review.step EXCEPT !["search"] = "succeeded"]
        /\ review'.stage = IF review.stage \in {"formulate_search_strategy", "search_arxiv"}
                           THEN "import_arxiv_papers" ELSE review.stage
        /\ review'.request = review.request
        /\ review'.chosen = review.chosen /\ review'.waits = review.waits
    BY <1>1, <1>7 DEF Src!Review
  <2>3. review'.step["search"] = "succeeded" /\ review'.step["strategy"] = review.step["strategy"]
    BY <1>1, <2>2 DEF Src!Review
  <2>4. /\ \A c \in Candidates : review.source[c] = "none"
                                 /\ review'.source[c] \in {"none", "discovered"}
        /\ \A x \in Src!Sources : x \in Candidates \/ review'.source[x] = review.source[x]
        /\ \A p \in ProjectPapers : review'.source[p] = review.source[p]
    <3>1. /\ \A c \in Candidates : c \in Src!Sources /\ c \notin ProjectPapers
          /\ \A p \in ProjectPapers : p \in Src!Sources
      BY <1>1, SourceKinds
    <3>2. \A c \in Candidates : review.source[c] = "none"
      BY <1>1, <1>7 DEF SourcesFollow
    <3> QED
      BY <2>2, <3>1, <3>2
  <2>5. SourcesFollow'
    BY <1>1, <1>2, <2>3, <2>4 DEF SourcesFollow
  <2>6. Settles
    BY <2>4 DEF Settles, Src!Settled
  <2>7. ASSUME setup.version = "review.v2" PROVE SelectionFollows' /\ ~Listed
    <3>1. setup.auto /\ ~Found
      BY <1>1, <1>2, <1>7, <2>7 DEF TaskFollows, Found
    <3>2. review.request = "none" /\ review.chosen = {} /\ review.waits # "dependency"
      BY <1>1, <1>7, <2>7, <3>1 DEF SelectionFollows, Listed
    <3>3. review'.stage # "formulate_search_strategy"
      BY <2>2
    <3> QED
      BY <1>1, <1>2, <2>2, <2>3, <2>4, <2>7, <3>1, <3>2, <3>3 DEF SelectionFollows, Listed, Found
  <2>8. Remembers
    BY <1>2, <2>3, <2>7 DEF Remembers, Found
  <2>9. TaskFollows(w)'
    BY <1>5, <2>3
  <2>10. /\ run' \in Src!RunRow /\ library' \in [Src!Sources -> Src!Ingestion]
         /\ work' \in [Workers -> Src!Work]
         /\ \A v \in Workers : work'[v] = work[v] \/ TaskFollows(v)'
    BY <1>1, <1>2, <1>4, <2>9 DEF Src!TypeOK, Moves
  <2> QED
    BY <2>1, <2>5, <2>6, <2>7, <2>8, <2>10, SourcesKeep DEF SourcesStep
<1> QED
  BY <1>6, <1>7 DEF Src!PersistSearch

\* _advance_to_import: without auto_search there is nothing to find.
LEMMA AdvanceStep ==
  ASSUME SourcesConstants, SourcesInv, NEW w \in Workers, Src!AdvanceToImport(w)
  PROVE  SourcesStep
<1>1. Src!TypeOK /\ review \in Src!Review /\ run \in Src!RunRow
      /\ library \in [Src!Sources -> Src!Ingestion]
      /\ TaskFollows(w)
  BY DEF SourcesInv, Src!TypeOK
<1>2. UNCHANGED <<setup, run, library>> /\ Src!At(w, "advance")
  BY DEF Src!AdvanceToImport
<1>3. CASE Src!Retry(w) /\ review' = review
  BY <1>2, <1>3, ErrorStep
<1>4. CASE review' = [review EXCEPT !.stage = "import_arxiv_papers"] /\ Src!Goto(w, "sources")
  <2>1. setup.version = "review.v2" => Found
    BY <1>1, <1>2 DEF TaskFollows, Found
  <2>2. /\ review' \in Src!Review /\ review'.stage = "import_arxiv_papers"
        /\ review'.step = review.step /\ review'.source = review.source
        /\ review'.request = review.request
        /\ review'.chosen = review.chosen /\ review'.waits = review.waits
    BY <1>1, <1>4 DEF Src!Review, Src!Stages
  <2>3. Drifts
    BY <1>2, <2>1, <2>2 DEF Drifts
  <2>4. Moves(w) /\ work'[w].pc = "sources"
    BY <1>1, <1>4, GotoMoves DEF Src!Pcs
  <2>5. TaskFollows(w)'
    BY <1>2, <2>1, <2>2, <2>4 DEF TaskFollows, Src!At, Found
  <2> QED
    BY <1>1, <1>2, <2>3, <2>4, <2>5, TaskStep
<1> QED
  BY <1>3, <1>4 DEF Src!AdvanceToImport

\* The branch on the sources: in version 2 it leads to the import only after the
\* selection, or without candidates.
LEMMA ReadSourcesStep ==
  ASSUME SourcesConstants, SourcesInv, NEW w \in Workers, Src!ReadSources(w)
  PROVE  SourcesStep
<1>1. /\ Src!TypeOK /\ SourcesFollow /\ (setup.version = "review.v2" => SelectionFollows)
      /\ TaskFollows(w)
  BY DEF SourcesInv
<1>2. UNCHANGED <<setup, run, review, library>> /\ Src!At(w, "sources")
  BY DEF Src!ReadSources
<1>3. CASE Src!Reject(w)
  BY <1>2, <1>3, ErrorStep
<1>4. CASE setup.auto /\ Src!Goto(w, "select")
  <2>1. Moves(w) /\ work'[w].pc = "select"
    BY <1>1, <1>4, GotoMoves DEF Src!Pcs
  <2>2. TaskFollows(w)'
    BY <1>1, <1>2, <1>4, <2>1 DEF TaskFollows, Src!At, Found
  <2> QED
    BY <1>2, <2>1, <2>2, StayStep
<1>5. CASE /\ ~(setup.auto /\ Src!Having({"discovered"}) # {} /\ review.request # "resolved")
           /\ Src!Goto(w, "list")
  <2>1. Moves(w) /\ work'[w].pc = "list"
    BY <1>1, <1>5, GotoMoves DEF Src!Pcs
  <2>2. ASSUME setup.version = "review.v2" PROVE Listed
    <3>1. Found
      BY <1>1, <1>2, <2>2 DEF TaskFollows
    <3>2. CASE ~setup.auto
      BY <1>1, <2>2, <3>1, <3>2 DEF SelectionFollows, SourcesFollow, Listed
    <3>3. CASE review.request = "resolved"
      BY <1>1, <2>2, <3>3 DEF SelectionFollows
    <3>4. CASE Src!Having({"discovered"}) = {}
      <4>1. \A c \in Candidates : review.source[c] # "discovered"
        BY <1>1, <3>4, SourceKinds DEF Src!Having
      <4> QED
        BY <3>1, <4>1 DEF Listed
    <3> QED
      BY <1>5, <3>2, <3>3, <3>4
  <2>3. TaskFollows(w)'
    BY <1>2, <2>1, <2>2 DEF TaskFollows, Src!At, Listed, Found
  <2> QED
    BY <1>2, <2>1, <2>3, StayStep
<1> QED
  BY <1>3, <1>4, <1>5 DEF Src!ReadSources

\* ReviewSourceSelectionService.pause opens the request after the search.
LEMMA PauseForSelectionStep ==
  ASSUME SourcesConstants, SourcesInv, NEW w \in Workers, Src!PauseForSelection(w)
  PROVE  SourcesStep
<1>1. /\ Src!TypeOK /\ SourcesFollow /\ (setup.version = "review.v2" => SelectionFollows)
      /\ TaskFollows(w) /\ review \in Src!Review /\ run \in Src!RunRow
  BY DEF SourcesInv, Src!TypeOK
<1>2. UNCHANGED <<setup, library>> /\ Src!At(w, "select")
  BY DEF Src!PauseForSelection
<1>3. CASE (Src!Retry(w) \/ Src!Reject(w)) /\ UNCHANGED <<run, review>>
  BY <1>2, <1>3, ErrorStep
<1>4. CASE Src!Goto(w, "return") /\ UNCHANGED <<run, review>>
  BY <1>2, <1>4, PlainStep DEF PlainTasks
<1>5. CASE /\ review.request # "resolved"
           /\ review' = [review EXCEPT !.request = "open", !.offered = Src!Having({"discovered"}),
                                       !.stage = "review_sources", !.waits = "input"]
           /\ run' = Src!Paused(run) /\ Src!Goto(w, "return")
  <2>1. Src!Having({"discovered"}) \subseteq Candidates
    BY <1>1, SourceKinds
  <2>2. /\ review' \in Src!Review
        /\ review'.request = "open" /\ review'.stage = "review_sources" /\ review'.waits = "input"
        /\ review'.source = review.source /\ review'.step = review.step
        /\ review'.chosen = review.chosen
    BY <1>1, <1>5, <2>1 DEF Src!Review, Src!Stages
  <2>3. SourcesFollow'
    BY <1>1, <1>2, <2>2 DEF SourcesFollow
  <2>4. (Found <=> Found') /\ (Listed <=> Listed')
    BY <1>2, <2>2 DEF Found, Listed
  <2>5. ASSUME setup.version = "review.v2" PROVE SelectionFollows'
    <3>1. review.step["search"] = "succeeded" /\ review.chosen = {}
      BY <1>1, <1>2, <1>5, <2>5 DEF TaskFollows, SelectionFollows
    <3>2. Found'
      BY <2>2, <3>1 DEF Found
    <3> QED
      BY <1>1, <1>2, <2>2, <2>5, <3>1, <3>2 DEF SelectionFollows
  <2>6. Settles /\ Remembers
    BY <1>2, <2>2, <2>4 DEF Settles, Remembers
  <2>7. Moves(w) /\ TaskFollows(w)'
    <3>1. Moves(w) /\ work'[w].pc \in PlainTasks
      BY <1>1, <1>5, GotoMoves DEF Src!Pcs, PlainTasks
    <3> QED
      BY <3>1, PlainTask
  <2>8. /\ run' \in Src!RunRow /\ library' \in [Src!Sources -> Src!Ingestion]
        /\ work' \in [Workers -> Src!Work]
        /\ \A v \in Workers : work'[v] = work[v] \/ TaskFollows(v)'
    BY <1>1, <1>2, <1>5, <2>7, SourceRunTypes DEF Src!TypeOK, Moves
  <2> QED
    BY <2>2, <2>3, <2>5, <2>6, <2>8, SourcesKeep DEF SourcesStep
<1> QED
  BY <1>3, <1>4, <1>5 DEF Src!PauseForSelection

\* submit: what is left to import was chosen, and fits next to the selected papers.
LEMMA SubmitStep ==
  ASSUME SourcesConstants, SourcesInv, NEW chosen \in SUBSET Candidates, Src!Submit(chosen)
  PROVE  SourcesStep
<1>1. /\ Src!TypeOK /\ SourcesFollow /\ (setup.version = "review.v2" => SelectionFollows)
      /\ review \in Src!Review /\ run \in Src!RunRow
  BY DEF SourcesInv, Src!TypeOK
<1>2. /\ UNCHANGED <<setup, library, work>> /\ run' = Src!Resumed(run)
      /\ review.request = "open" /\ review.stage = "review_sources"
      /\ Cardinality(chosen) + Cardinality(Src!Having({"ready"})) \in 1 .. SourceLimit
  BY SameCount DEF Src!Submit
<1> DEFINE source == [x \in Src!Sources |-> IF review.source[x] = "discovered" /\ x \notin chosen
                                            THEN "rejected" ELSE review.source[x]]
<1>3. /\ review' \in Src!Review /\ review'.source = source
      /\ review'.step = review.step /\ review'.request = "resolved" /\ review'.chosen = chosen
      /\ review'.stage = "import_arxiv_papers" /\ review'.waits = "none"
  <2>1. source \in [Src!Sources -> Src!SourceStatus]
    BY <1>1 DEF Src!Review, Src!SourceStatus
  <2>2. review' = [review EXCEPT !.request = "resolved", !.chosen = chosen, !.waits = "none",
                                 !.stage = "import_arxiv_papers", !.source = source]
    BY <1>1 DEF Src!Submit, Src!Review
  <2> HIDE DEF source
  <2> QED
    BY <1>1, <2>1, <2>2 DEF Src!Review, Src!Stages
<1>4. \A x \in Src!Sources : \/ review'.source[x] = review.source[x]
                             \/ review.source[x] = "discovered" /\ review'.source[x] = "rejected"
  BY <1>3
<1>5. /\ \A c \in Candidates : c \in Src!Sources /\ c \notin ProjectPapers
      /\ \A p \in ProjectPapers : p \in Src!Sources /\ review.source[p] \in {"ready", "none"}
      /\ \A x \in Src!Sources : x \in Candidates \/ x \in ProjectPapers
  BY <1>1, SourceKinds
<1>6. SourcesFollow'
  <2>1. \A p \in ProjectPapers : review'.source[p] = review.source[p]
    BY <1>4, <1>5
  <2>2. review.step["search"] # "succeeded" =>
          \A c \in Candidates : review'.source[c] = review.source[c]
    BY <1>1, <1>4, <1>5 DEF SourcesFollow
  <2> QED
    BY <1>1, <1>2, <1>3, <2>1, <2>2 DEF SourcesFollow
<1>7. Settles
  BY <1>4 DEF Settles, Src!Settled
<1>8. ASSUME setup.version = "review.v2" PROVE SelectionFollows' /\ Listed' /\ (Found => Found')
  <2>1. review.step["search"] = "succeeded" /\ review.chosen = {} /\ setup.auto
    BY <1>1, <1>2, <1>8 DEF SelectionFollows
  <2>2. Found'
    BY <1>3, <2>1 DEF Found
  <2>3. Listed'
    BY <1>3, <1>5, <2>2 DEF Listed
  <2>4. \A c \in Candidates : review.source[c] \notin {"importing", "ready", "failed"}
    BY <1>1, <1>8, <2>1 DEF SelectionFollows
  <2>5. Src!Having({"ready"}) = setup.selected
    <3>1. setup.selected \subseteq ProjectPapers
      BY <1>1 DEF Src!TypeOK, Src!Setups
    <3>2. \A x \in Src!Sources : review.source[x] = "ready" <=> x \in setup.selected
      BY <1>1, <1>5, <2>4, <3>1 DEF SourcesFollow
    <3> QED
      BY <1>5, <3>1, <3>2 DEF Src!Having
  <2>6. Cardinality(chosen) + Cardinality(setup.selected) <= SourceLimit
    BY <1>2, <2>5 DEF SourcesConstants
  <2>7. \A c \in Candidates : review'.source[c] \notin {"importing", "ready", "failed"}
    BY <1>4, <1>5, <2>4
  <2> QED
    BY <1>2, <1>3, <2>1, <2>2, <2>3, <2>6, <2>7 DEF SelectionFollows
<1>9. Remembers
  BY <1>2, <1>3, <1>8 DEF Remembers
<1>10. /\ run' \in Src!RunRow /\ library' \in [Src!Sources -> Src!Ingestion]
       /\ work' \in [Workers -> Src!Work]
       /\ \A v \in Workers : work'[v] = work[v]
  BY <1>1, <1>2, SourceRunTypes DEF Src!TypeOK
<1> QED
  BY <1>3, <1>6, <1>7, <1>8, <1>9, <1>10, SourcesKeep DEF SourcesStep

\* import_sources lists the candidates.
LEMMA ListSourcesStep ==
  ASSUME SourcesConstants, SourcesInv, NEW w \in Workers, Src!ListSources(w)
  PROVE  SourcesStep
<1>1. /\ Src!TypeOK /\ SourcesFollow /\ TaskFollows(w)
  BY DEF SourcesInv
<1>2. UNCHANGED <<setup, run, review, library>> /\ Src!At(w, "list")
  BY DEF Src!ListSources
<1> DEFINE new == [work[w] EXCEPT !.pc = "import", !.todo = Src!Having({"discovered"}),
                                  !.ready = Src!Having({"ready"}) # {}]
<1>3. new \in Src!Work /\ new.pc = "import"
  <2>1. Src!Having({"discovered"}) \subseteq Candidates
    BY <1>1, SourceKinds
  <2> QED
    BY <1>1, <2>1 DEF Src!TypeOK, Src!Work, Src!Pcs
<1>4. work' = [work EXCEPT ![w] = new]
  BY <1>1 DEF Src!ListSources, Src!TypeOK, Src!Work
<1> HIDE DEF new
<1>5. Moves(w) /\ work'[w].pc = "import"
  BY <1>1, <1>3, <1>4, NewTask
<1>6. TaskFollows(w)'
  BY <1>1, <1>2, <1>5 DEF TaskFollows, Src!At, Listed, Found
<1> QED
  BY <1>2, <1>5, <1>6, StayStep

\* _confirm_cancel_if_requested, between all steps of the import.
LEMMA ConfirmCancelStep ==
  ASSUME SourcesConstants, SourcesInv, NEW w \in Workers, Src!ConfirmCancel(w)
  PROVE  SourcesStep
<1>1. Src!TypeOK /\ review \in Src!Review /\ run \in Src!RunRow
  BY DEF SourcesInv, Src!TypeOK
<1>2. /\ UNCHANGED <<setup, library>> /\ Src!Goto(w, "return")
      /\ run' = [run EXCEPT !.status = "cancelled"]
      /\ review' = review \/ review' = Src!Rejecting(review)
  BY DEF Src!ConfirmCancel
<1>3. Drifts
  BY <1>1, <1>2, SameDrifts, RejectingDrifts
<1>4. Moves(w) /\ TaskFollows(w)'
  <2>1. Moves(w) /\ work'[w].pc \in PlainTasks
    BY <1>1, <1>2, GotoMoves DEF Src!Pcs, PlainTasks
  <2> QED
    BY <2>1, PlainTask
<1>5. run' \in Src!RunRow /\ library' \in [Src!Sources -> Src!Ingestion]
  BY <1>1, <1>2, SourceRunTypes DEF Src!TypeOK, Src!RowStatus
<1> QED
  BY <1>3, <1>4, <1>5, TaskStep

\* The download outside of any transaction.
LEMMA DownloadStep ==
  ASSUME SourcesConstants, SourcesInv, NEW w \in Workers, Src!Download(w)
  PROVE  SourcesStep
<1>1. Src!TypeOK /\ TaskFollows(w)
  BY DEF SourcesInv
<1>2. /\ UNCHANGED <<setup, run, review, library>> /\ Src!At(w, "import") /\ work[w].todo # {}
  BY DEF Src!Download
<1>3. CASE Src!Retry(w)
  BY <1>2, <1>3, ErrorStep
<1>4. ASSUME NEW pc \in {"register", "refuse"}, Src!Goto(w, pc) PROVE SourcesStep
  <2>1. Moves(w) /\ work'[w].pc = pc /\ work'[w].todo = work[w].todo
    BY <1>1, <1>4, GotoMoves DEF Src!Pcs
  <2>2. TaskFollows(w)'
    BY <1>1, <1>2, <1>4, <2>1 DEF TaskFollows, Src!At, Listed, Found
  <2> QED
    BY <1>2, <2>1, <2>2, StayStep
<1> QED
  BY <1>3, <1>4 DEF Src!Download

\* The next source of a list is a candidate.
LEMMA NextSourceTask ==
  ASSUME SourcesConstants, Src!TypeOK, NEW w \in Workers, work[w].todo # {}
  PROVE  Src!NextSource(w) \in work[w].todo /\ Src!NextSource(w) \in Candidates
<1>1. work[w].todo \subseteq Candidates
  BY DEF Src!TypeOK, Src!Work
<1>2. work[w].todo \subseteq Nat /\ IsFiniteSet(work[w].todo)
  BY <1>1, FS_Subset DEF SourcesConstants
<1>3. \E x \in work[w].todo : \A y \in work[w].todo : x <= y
  BY <1>2, FirstOfFinite
<1> QED
  BY <1>1, <1>3 DEF Src!NextSource

\* One candidate that is imported or fails drifts: in version 2 it was selected.
LEMMA SourceDrifts ==
  ASSUME SourcesConstants, Src!TypeOK, setup' = setup, NEW x \in Candidates,
         review.source[x] = "discovered", NEW status \in {"importing", "ready", "failed"},
         review' = [review EXCEPT !.source[x] = status],
         setup.version = "review.v2" => Listed
  PROVE  Drifts
<1>1. review \in Src!Review /\ x \in Src!Sources /\ status \in Src!SourceStatus
  BY DEF Src!TypeOK, Src!Sources, Src!SourceStatus
<1>2. /\ review' \in Src!Review /\ review'.source = [review.source EXCEPT ![x] = status]
      /\ review'.step = review.step /\ review'.request = review.request
      /\ review'.chosen = review.chosen /\ review'.stage = review.stage
      /\ review'.waits = review.waits
  BY <1>1 DEF Src!Review
<1>3. setup.version = "review.v2" => x \in review.chosen
  BY DEF Listed
<1>4. \A y \in Src!Sources : review'.source[y] = IF y = x THEN status ELSE review.source[y]
  BY <1>1, <1>2 DEF Src!Review
<1> QED
  BY <1>2, <1>3, <1>4 DEF Drifts

\* The import goes on after a step that drifts.
LEMMA DriftTask ==
  ASSUME Drifts, SourcesConstants, SourcesInv, NEW w \in Workers, TaskFollows(w),
         work[w].pc \in {"import", "register", "refuse", "mark", "complete", "check", "wait"},
         work'[w].pc \in {"import", "check", "wait"}
  PROVE  TaskFollows(w)'
<1>1. Remembers
  BY DriftKeeps
<1>2. setup.version = "review.v2" => Listed
  BY DEF TaskFollows, Src!At
<1> QED
  BY <1>1, <1>2 DEF TaskFollows, Src!At, Remembers

\* _register_download: the source is read again under its lock.
LEMMA RegisterStep ==
  ASSUME SourcesConstants, SourcesInv, NEW w \in Workers, Src!RegisterDownload(w)
  PROVE  SourcesStep
<1>1. /\ Src!TypeOK /\ TaskFollows(w) /\ work[w] \in Src!Work
      /\ run \in Src!RunRow /\ library \in [Src!Sources -> Src!Ingestion]
  BY DEF SourcesInv, Src!TypeOK
<1>2. UNCHANGED <<setup, run>> /\ Src!At(w, "register") /\ (setup.version = "review.v2" => Listed)
  BY <1>1 DEF Src!RegisterDownload, TaskFollows, Src!At
<1> DEFINE x == Src!NextSource(w)
           next == [work EXCEPT ![w].pc = "import", ![w].todo = @ \ {x}]
<1>3. x \in Candidates /\ x \in Src!Sources
  BY <1>1, <1>2, NextSourceTask DEF TaskFollows, Src!At, Src!Sources
<1>4. ASSUME NEW ready \in BOOLEAN, work' = [next EXCEPT ![w].ready = @ \/ ready]
      PROVE  Moves(w) /\ work'[w].pc = "import"
  <2> DEFINE new == [work[w] EXCEPT !.pc = "import", !.todo = @ \ {x},
                                    !.ready = @ \/ ready]
  <2>1. new \in Src!Work /\ new.pc = "import"
    BY <1>1 DEF Src!Work, Src!Pcs
  <2>2. work' = [work EXCEPT ![w] = new]
    BY <1>1, <1>4 DEF Src!TypeOK, Src!Work
  <2> HIDE DEF new, next, x
  <2> QED
    BY <1>1, <2>1, <2>2, NewTask
<1> HIDE DEF x
<1>5. CASE /\ work' = [next EXCEPT ![w].ready = @ \/ review.source[x] = "ready"]
           /\ UNCHANGED <<review, library>>
  <2>1. Drifts
    BY <1>1, <1>2, <1>5, SameDrifts
  <2>2. Moves(w) /\ work'[w].pc = "import"
    BY <1>4, <1>5
  <2>3. TaskFollows(w)'
    BY <1>1, <1>2, <2>1, <2>2, DriftTask DEF Src!At
  <2> QED
    BY <1>1, <1>2, <1>5, <2>1, <2>2, <2>3, TaskStep
<1>6. CASE /\ review.source[x] = "discovered"
           /\ review' = [review EXCEPT !.source[x] = Src!Bound(x)]
           /\ library' = [library EXCEPT ![setup.file[x]] = IF @ = "none" THEN "active" ELSE @]
           /\ work' = [next EXCEPT ![w].ready = @ \/ Src!Bound(x) = "ready"]
  <2>1. Drifts
    BY <1>1, <1>2, <1>3, <1>6, SourceDrifts DEF Src!Bound
  <2>2. Moves(w) /\ work'[w].pc = "import"
    BY <1>4, <1>6
  <2>3. TaskFollows(w)'
    BY <1>1, <1>2, <2>1, <2>2, DriftTask DEF Src!At
  <2>4. library' \in [Src!Sources -> Src!Ingestion]
    BY <1>1, <1>6 DEF Src!Ingestion
  <2> QED
    BY <1>1, <1>2, <2>1, <2>2, <2>3, <2>4, TaskStep
<1> QED
  BY <1>5, <1>6 DEF Src!RegisterDownload, x

\* _confirm_cancel_if_requested found nothing.
LEMMA PassCheckStep ==
  ASSUME SourcesConstants, SourcesInv, NEW w \in Workers, Src!PassCheck(w)
  PROVE  SourcesStep
<1>1. Src!TypeOK /\ TaskFollows(w)
  BY DEF SourcesInv
<1>2. UNCHANGED <<setup, run, review, library>>
  BY DEF Src!PassCheck
<1>3. ASSUME NEW pc \in {"mark", "complete"}, Src!Goto(w, pc), work[w].pc \in {"refuse", "import"},
             pc = "mark" => work[w].todo # {}
      PROVE  SourcesStep
  <2>1. Moves(w) /\ work'[w].pc = pc /\ work'[w].todo = work[w].todo
    BY <1>1, <1>3, GotoMoves DEF Src!Pcs
  <2>2. TaskFollows(w)'
    BY <1>1, <1>2, <1>3, <2>1 DEF TaskFollows, Src!At, Listed, Found
  <2> QED
    BY <1>2, <2>1, <2>2, StayStep
<1> QED
  BY <1>1, <1>3 DEF Src!PassCheck, Src!At, TaskFollows

\* _mark_source_failed: the same.
LEMMA MarkFailedStep ==
  ASSUME SourcesConstants, SourcesInv, NEW w \in Workers, Src!MarkSourceFailed(w)
  PROVE  SourcesStep
<1>1. /\ Src!TypeOK /\ TaskFollows(w) /\ work[w] \in Src!Work /\ review \in Src!Review
      /\ run \in Src!RunRow /\ library \in [Src!Sources -> Src!Ingestion]
  BY DEF SourcesInv, Src!TypeOK
<1>2. UNCHANGED <<setup, run, library>> /\ Src!At(w, "mark")
      /\ (setup.version = "review.v2" => Listed)
  BY <1>1 DEF Src!MarkSourceFailed, TaskFollows, Src!At
<1> DEFINE x == Src!NextSource(w)
<1>3. x \in Candidates /\ x \in Src!Sources
  BY <1>1, <1>2, NextSourceTask DEF TaskFollows, Src!At, Src!Sources
<1> DEFINE new == [work[w] EXCEPT !.pc = "import", !.todo = @ \ {x}]
<1>4. new \in Src!Work /\ new.pc = "import"
  BY <1>1 DEF Src!Work, Src!Pcs
<1>5. work' = [work EXCEPT ![w] = new]
  BY <1>1 DEF Src!MarkSourceFailed, Src!TypeOK, Src!Work
<1>6. review' = [review EXCEPT !.source[x] = IF @ = "discovered" THEN "failed" ELSE @]
  BY DEF Src!MarkSourceFailed
<1> HIDE DEF x, new
<1>7. Moves(w) /\ work'[w].pc = "import"
  BY <1>1, <1>4, <1>5, NewTask
<1>8. Drifts
  <2>1. CASE review.source[x] = "discovered"
    <3>1. review' = [review EXCEPT !.source[x] = "failed"]
      BY <1>1, <1>6, <2>1 DEF Src!Review
    <3> QED
      BY <1>1, <1>2, <1>3, <2>1, <3>1, SourceDrifts
  <2>2. CASE review.source[x] # "discovered"
    <3>1. review' = review
      BY <1>1, <1>3, <1>6, <2>2 DEF Src!Review
    <3> QED
      BY <1>1, <1>2, <3>1, SameDrifts
  <2> QED
    BY <2>1, <2>2
<1>9. TaskFollows(w)'
  BY <1>1, <1>2, <1>7, <1>8, DriftTask DEF Src!At
<1> QED
  BY <1>1, <1>2, <1>7, <1>8, <1>9, TaskStep

\* _complete_import moves the stage only after the search.
LEMMA CompleteImportStep ==
  ASSUME SourcesConstants, SourcesInv, NEW w \in Workers, Src!CompleteImport(w)
  PROVE  SourcesStep
<1>1. /\ Src!TypeOK /\ TaskFollows(w) /\ review \in Src!Review
      /\ run \in Src!RunRow /\ library \in [Src!Sources -> Src!Ingestion]
  BY DEF SourcesInv, Src!TypeOK
<1>2. UNCHANGED <<setup, run, library>> /\ Src!At(w, "complete") /\ Src!Goto(w, "check")
  BY DEF Src!CompleteImport
<1>3. setup.version = "review.v2" => Listed /\ Found
  BY <1>1, <1>2 DEF TaskFollows, Src!At, Listed
<1>4. Moves(w) /\ work'[w].pc = "check"
  BY <1>1, <1>2, GotoMoves DEF Src!Pcs
<1>5. Drifts
  <2>1. CASE review' = review
    BY <1>1, <1>2, <2>1, SameDrifts
  <2>2. ASSUME NEW stage \in {review.stage, "build_evidence_matrix"},
               review' = [review EXCEPT !.step["import"] = "succeeded", !.stage = stage]
        PROVE  Drifts
    <3>1. /\ review' \in Src!Review /\ review'.source = review.source
          /\ review'.step = [review.step EXCEPT !["import"] = "succeeded"]
          /\ review'.request = review.request /\ review'.chosen = review.chosen
          /\ review'.stage = stage /\ review'.waits = review.waits
      BY <1>1, <2>2 DEF Src!Review, Src!Stages, Src!StepStatus
    <3>2. review'.step["search"] = review.step["search"]
          /\ review'.step["strategy"] = review.step["strategy"]
      BY <1>1, <3>1 DEF Src!Review
    <3> QED
      BY <1>2, <1>3, <3>1, <3>2 DEF Drifts
  <2>3. CASE review' # review
    <3> DEFINE stage == IF /\ review.stage = "import_arxiv_papers" /\ work[w].ready
                           /\ Src!Having({"discovered", "importing"}) = {}
                        THEN "build_evidence_matrix" ELSE review.stage
    <3>1. stage \in {review.stage, "build_evidence_matrix"}
      OBVIOUS
    <3>2. review' = [review EXCEPT !.step["import"] = "succeeded", !.stage = stage]
      BY <1>1, <2>3 DEF Src!CompleteImport, Src!Review
    <3> HIDE DEF stage
    <3> QED
      BY <2>2, <3>1, <3>2
  <2> QED
    BY <2>1, <2>3
<1>6. TaskFollows(w)'
  BY <1>1, <1>2, <1>4, <1>5, DriftTask DEF Src!At
<1> QED
  BY <1>1, <1>2, <1>4, <1>5, <1>6, TaskStep

\* _is_running and the sources once more.
LEMMA DecideStep ==
  ASSUME SourcesConstants, SourcesInv, NEW w \in Workers, Src!Decide(w)
  PROVE  SourcesStep
<1>1. Src!TypeOK /\ TaskFollows(w)
  BY DEF SourcesInv
<1>2. UNCHANGED <<setup, run, review, library>> /\ Src!At(w, "check")
  BY DEF Src!Decide
<1>3. CASE Src!Reject(w)
  BY <1>2, <1>3, ErrorStep
<1>4. CASE Src!Goto(w, "return") \/ Src!Goto(w, "matrix")
  BY <1>2, <1>4, PlainStep DEF PlainTasks
<1>5. CASE Src!Goto(w, "wait")
  <2>1. Moves(w) /\ work'[w].pc = "wait"
    BY <1>1, <1>5, GotoMoves DEF Src!Pcs
  <2>2. TaskFollows(w)'
    BY <1>1, <1>2, <2>1, SameDrifts, DriftTask DEF Src!At
  <2> QED
    BY <1>2, <2>1, <2>2, StayStep
<1> QED
  BY <1>3, <1>4, <1>5 DEF Src!Decide

\* ReviewDependencyWaitService.pause: a Run waits for papers only when all
\* candidates that are left were selected.
LEMMA PauseForDependencyStep ==
  ASSUME SourcesConstants, SourcesInv, NEW w \in Workers, Src!PauseForDependency(w)
  PROVE  SourcesStep
<1>1. /\ Src!TypeOK /\ TaskFollows(w) /\ review \in Src!Review
      /\ run \in Src!RunRow /\ library \in [Src!Sources -> Src!Ingestion]
  BY DEF SourcesInv, Src!TypeOK
<1>2. UNCHANGED <<setup, library>> /\ Src!At(w, "wait")
  BY DEF Src!PauseForDependency
<1>3. setup.version = "review.v2" => Listed /\ Found
  BY <1>1, <1>2 DEF TaskFollows, Src!At, Listed
<1>4. CASE Src!Retry(w) /\ UNCHANGED <<run, review>>
  BY <1>2, <1>4, ErrorStep
<1>5. CASE /\ review' = [review EXCEPT !.step["wait"] = "paused", !.stage = "wait_for_ingestion",
                                       !.waits = "dependency"]
           /\ run' = Src!Paused(run) /\ Src!Goto(w, "return")
  <2>1. /\ review' \in Src!Review /\ review'.source = review.source
        /\ review'.step = [review.step EXCEPT !["wait"] = "paused"]
        /\ review'.request = review.request /\ review'.chosen = review.chosen
        /\ review'.stage = "wait_for_ingestion" /\ review'.waits = "dependency"
    BY <1>1, <1>5 DEF Src!Review, Src!Stages, Src!StepStatus
  <2>2. review'.step["search"] = review.step["search"]
        /\ review'.step["strategy"] = review.step["strategy"]
    BY <1>1, <2>1 DEF Src!Review
  <2>3. Drifts
    BY <1>2, <1>3, <2>1, <2>2 DEF Drifts
  <2>4. Moves(w) /\ TaskFollows(w)'
    <3>1. Moves(w) /\ work'[w].pc \in PlainTasks
      BY <1>1, <1>5, GotoMoves DEF Src!Pcs, PlainTasks
    <3> QED
      BY <3>1, PlainTask
  <2>5. run' \in Src!RunRow
    BY <1>1, <1>5, SourceRunTypes
  <2> QED
    BY <1>1, <1>2, <2>3, <2>4, <2>5, TaskStep
<1> QED
  BY <1>4, <1>5 DEF Src!PauseForDependency

\* The Matrix and what follows, ReviewGraph.
LEMMA WriteStep ==
  ASSUME SourcesConstants, SourcesInv, NEW w \in Workers, Src!Write(w)
  PROVE  SourcesStep
<1>1. Src!TypeOK /\ run \in Src!RunRow
  BY DEF SourcesInv, Src!TypeOK
<1>2. UNCHANGED <<setup, review, library>>
  BY DEF Src!Write
<1>3. CASE (Src!Retry(w) \/ Src!Reject(w)) /\ UNCHANGED run
  BY <1>2, <1>3, ErrorStep
<1>4. CASE run' = Src!Succeeded(run) /\ Src!Goto(w, "return")
  <2>1. Moves(w) /\ work'[w].pc \in PlainTasks
    BY <1>1, <1>4, GotoMoves DEF Src!Pcs, PlainTasks
  <2>2. Moves(w) /\ TaskFollows(w)'
    BY <2>1, PlainTask
  <2>3. run' \in Src!RunRow
    BY <1>1, <1>4, SourceRunTypes
  <2> QED
    BY <1>2, <2>2, <2>3, RunOnlyStep
<1> QED
  BY <1>3, <1>4 DEF Src!Write

\* A step that drifts, of nobody that works on the Run.
LEMMA DriftStep ==
  ASSUME SourcesConstants, SourcesInv, Drifts, run' \in Src!RunRow,
         library' \in [Src!Sources -> Src!Ingestion], UNCHANGED work
  PROVE  SourcesStep
<1>1. review' \in Src!Review /\ work' \in [Workers -> Src!Work]
      /\ \A v \in Workers : work'[v] = work[v]
  BY DEF SourcesInv, Src!TypeOK, Drifts
<1> QED
  BY <1>1, DriftKeeps, SourcesKeep DEF SourcesStep

\* reconcile_run on a waiting Run.
LEMMA ReconcileStep ==
  ASSUME SourcesConstants, SourcesInv, Src!Reconcile
  PROVE  SourcesStep
<1>1. /\ Src!TypeOK /\ SourcesFollow /\ (setup.version = "review.v2" => SelectionFollows)
      /\ review \in Src!Review /\ run \in Src!RunRow /\ library \in [Src!Sources -> Src!Ingestion]
  BY DEF SourcesInv, Src!TypeOK
<1>2. UNCHANGED <<setup, library, work>> /\ review.waits = "dependency"
  BY DEF Src!Reconcile
<1>3. setup.version = "review.v2" => Listed /\ Found
  BY <1>1, <1>2 DEF SelectionFollows, Listed
<1> DEFINE source == Src!ReconciledSources
<1>4. source \in [Src!Sources -> Src!SourceStatus]
  BY <1>1 DEF Src!ReconciledSources, Src!Evaluated, Src!Review, Src!SourceStatus
<1>5. \A x \in Src!Sources :
        \/ source[x] = review.source[x]
        \/ review.source[x] = "discovered" /\ source[x] = "failed"
        \/ review.source[x] = "importing" /\ source[x] \in {"ready", "failed"}
  BY DEF Src!ReconciledSources, Src!Evaluated
<1> HIDE DEF source
<1>6. \A x \in Src!Sources : review.source[x] = "discovered" /\ setup.version = "review.v2"
                               => x \in review.chosen
  BY <1>1, <1>3, SourceKinds DEF Listed
<1>7. /\ review' \in Src!Review /\ review'.source = source
      /\ review'.request = review.request /\ review'.chosen = review.chosen
      /\ review'.step["search"] = review.step["search"]
      /\ review'.step["strategy"] = review.step["strategy"]
      /\ review'.stage \in {review.stage, "build_evidence_matrix"}
      /\ review'.waits \in {review.waits, "none"}
      /\ run' \in {run, Src!Resumed(run), [run EXCEPT !.status = "failed"]}
  <2>1. CASE review' = [review EXCEPT !.source = source] /\ UNCHANGED run
    BY <1>1, <1>4, <2>1 DEF Src!Review
  <2>2. CASE /\ run' = [run EXCEPT !.status = "failed"]
             /\ review' = [review EXCEPT !.source = source, !.waits = "none"]
    BY <1>1, <1>4, <2>2 DEF Src!Review
  <2>3. CASE /\ run' = Src!Resumed(run)
             /\ \E stage \in {review.stage, "build_evidence_matrix"} :
                  review' = [review EXCEPT !.source = source, !.step["wait"] = "succeeded",
                                           !.stage = stage, !.waits = "none"]
    <3>1. PICK stage \in {review.stage, "build_evidence_matrix"} :
                 review' = [review EXCEPT !.source = source, !.step["wait"] = "succeeded",
                                          !.stage = stage, !.waits = "none"]
      BY <2>3
    <3>2. stage \in Src!Stages
      BY <1>1 DEF Src!Review, Src!Stages
    <3>3. /\ review' \in Src!Review /\ review'.source = source
          /\ review'.request = review.request /\ review'.chosen = review.chosen
          /\ review'.stage = stage /\ review'.waits = "none"
          /\ review'.step = [review.step EXCEPT !["wait"] = "succeeded"]
      BY <1>1, <1>4, <3>1, <3>2 DEF Src!Review, Src!StepStatus
    <3>4. review'.step["search"] = review.step["search"]
          /\ review'.step["strategy"] = review.step["strategy"]
      BY <1>1, <3>3 DEF Src!Review
    <3> QED
      BY <2>3, <3>3, <3>4
  <2> QED
    BY <1>1, <2>1, <2>2, <2>3 DEF Src!Reconcile, Src!WaitCompleted, source, Src!Review
<1>8. Drifts
  BY <1>2, <1>3, <1>5, <1>6, <1>7 DEF Drifts
<1>9. run' \in Src!RunRow
  BY <1>1, <1>7, SourceRunTypes DEF Src!RowStatus
<1> QED
  BY <1>1, <1>2, <1>8, <1>9, DriftStep

\* reconcile_run on a cancelled Run.
LEMMA ReconcileCancelledStep ==
  ASSUME SourcesConstants, SourcesInv, Src!ReconcileCancelled
  PROVE  SourcesStep
<1>1. /\ Src!TypeOK /\ review \in Src!Review /\ run \in Src!RunRow
      /\ library \in [Src!Sources -> Src!Ingestion]
  BY DEF SourcesInv, Src!TypeOK
<1>2. UNCHANGED <<setup, library, work>> /\ run' = [run EXCEPT !.status = "cancelled"]
  BY DEF Src!ReconcileCancelled
<1> DEFINE left == [x \in Src!Sources |-> IF review.source[x] = "discovered" THEN "rejected"
                                          ELSE review.source[x]]
           source == [x \in Src!Sources |-> Src!Evaluated(x, left[x])]
<1>3. review' = [review EXCEPT !.source = source, !.waits = "none"]
  BY <1>1 DEF Src!ReconcileCancelled, Src!Rejecting, Src!Review
<1>4. source \in [Src!Sources -> Src!SourceStatus]
  BY <1>1 DEF Src!Evaluated, Src!Review, Src!SourceStatus
<1>5. \A x \in Src!Sources :
        \/ source[x] = review.source[x]
        \/ review.source[x] = "discovered" /\ source[x] = "rejected"
        \/ review.source[x] = "importing" /\ source[x] \in {"ready", "failed"}
  BY DEF Src!Evaluated
<1> HIDE DEF left, source
<1>6. /\ review' \in Src!Review /\ review'.source = source
      /\ review'.step = review.step /\ review'.request = review.request
      /\ review'.chosen = review.chosen /\ review'.stage = review.stage
      /\ review'.waits = "none"
  BY <1>1, <1>3, <1>4 DEF Src!Review
<1>7. Drifts
  BY <1>2, <1>5, <1>6 DEF Drifts
<1>8. run' \in Src!RunRow
  BY <1>1, <1>2, SourceRunTypes DEF Src!RowStatus
<1> QED
  BY <1>1, <1>2, <1>7, <1>8, DriftStep

\* An ingestion ends, or is cancelled and goes on.
LEMMA IngestStep ==
  ASSUME SourcesConstants, SourcesInv, Src!IngestSome
  PROVE  SourcesStep
<1>1. Src!TypeOK /\ run \in Src!RunRow /\ library \in [Src!Sources -> Src!Ingestion]
  BY DEF SourcesInv, Src!TypeOK
<1>2. UNCHANGED <<setup, run, review, work>>
  BY DEF Src!IngestSome, Src!Ingest
<1>3. library' \in [Src!Sources -> Src!Ingestion]
  BY <1>1 DEF Src!IngestSome, Src!Ingest, Src!Ingestion, Src!Outcomes
<1> QED
  BY <1>1, <1>2, <1>3, SameDrifts, DriftStep

\* A new Review: no candidates, and not more papers than source_limit.
LEMMA SourcesInit ==
  ASSUME SourcesConstants, Src!Init
  PROVE  SourcesInv
<1>1. setup \in Src!Setups /\ setup.selected \subseteq ProjectPapers
      /\ Cardinality(setup.selected) <= SourceLimit
  BY SameCount DEF Src!Init, Src!Setups
<1>2. /\ \A p \in ProjectPapers : p \in Src!Sources
      /\ \A c \in Candidates : c \in Src!Sources /\ c \notin ProjectPapers
  BY DEF Src!Sources, SourcesConstants
<1>3. review \in Src!Review
  BY DEF Src!Init, Src!NewReview, Src!Review, Src!Stages, Src!StepStatus, Src!SourceStatus
<1>4. Src!TypeOK
  <2>1. run \in Src!RunRow
    BY DEF Src!Init, Src!NewRun, Src!RunRow, Src!RowStatus
  <2>2. library \in [Src!Sources -> Src!Ingestion]
    BY DEF Src!Init, Src!Ingestion
  <2>3. work \in [Workers -> Src!Work]
    BY DEF Src!Init, Src!Idle, Src!Work, Src!Pcs
  <2> QED
    BY <1>1, <1>3, <2>1, <2>2, <2>3 DEF Src!TypeOK
<1>5. /\ review.source = [x \in Src!Sources |-> IF x \in setup.selected THEN "ready" ELSE "none"]
      /\ review.stage = "formulate_search_strategy" /\ review.request = "none"
      /\ review.chosen = {} /\ review.waits = "none"
      /\ review.step["search"] = "pending" /\ review.step["strategy"] = "pending"
  BY DEF Src!Init, Src!NewReview
<1>6. SourcesFollow /\ \A c \in Candidates : review.source[c] = "none"
  BY <1>1, <1>2, <1>5 DEF SourcesFollow
<1>7. SelectionFollows
  <2>1. Cardinality(review.chosen) + Cardinality(setup.selected) <= SourceLimit
    <3>1. IsFiniteSet(setup.selected)
      BY <1>1, FS_Subset DEF SourcesConstants
    <3> QED
      BY <1>1, <1>5, <3>1, FS_EmptySet, FS_CardinalityType DEF SourcesConstants
  <2> QED
    BY <1>5, <1>6, <2>1 DEF SelectionFollows
<1>8. \A w \in Workers : TaskFollows(w)
  BY DEF Src!Init, Src!Idle, TaskFollows, Src!At
<1> QED
  BY <1>4, <1>6, <1>7, <1>8 DEF SourcesInv

\* Every step keeps the invariant, and what is settled.
LEMMA SourcesNext ==
  ASSUME SourcesConstants, SourcesInv, [Src!Next]_Src!vars
  PROVE  SourcesStep
<1>1. CASE UNCHANGED Src!vars
  <2>1. Src!TypeOK /\ run' \in Src!RunRow /\ UNCHANGED <<setup, review, library, work>>
    BY <1>1 DEF SourcesInv, Src!TypeOK, Src!vars
  <2> QED
    BY <2>1, RunOnlyStep
<1>2. ASSUME NEW w \in Workers, Src!Start(w) \/ Src!Step(w) \/ Src!Crash(w) PROVE SourcesStep
  BY <1>2, SourceRunStep, StrategyStep, ReadSnapshotStep, PersistSearchStep, AdvanceStep,
     ReadSourcesStep, PauseForSelectionStep, ListSourcesStep, ConfirmCancelStep, DownloadStep,
     RegisterStep, PassCheckStep, MarkFailedStep, CompleteImportStep, DecideStep, PauseForDependencyStep,
     WriteStep DEF Src!Step
<1>3. ASSUME NEW chosen \in SUBSET Candidates, Src!Submit(chosen) PROVE SourcesStep
  BY <1>3, SubmitStep
<1> QED
  BY <1>1, <1>2, <1>3, SourceRunStep, ReconcileStep, ReconcileCancelledStep, IngestStep DEF Src!Next

\* The inductive invariant holds in every execution, with any number of workers,
\* candidates, papers of the Project and Attempts, for both versions.
THEOREM SourcesInvariant ==
  ASSUME SourcesConstants
  PROVE  Src!Spec => []SourcesInv
<1>1. Src!Init => SourcesInv
  BY SourcesInit
<1>2. SourcesInv /\ [Src!Next]_Src!vars => SourcesInv'
  BY SourcesNext DEF SourcesStep
<1> QED
  BY <1>1, <1>2, PTL DEF Src!Spec

\* OnlySelectedImported: in version 2 a candidate is downloaded only if the person
\* selected it, and never more than source_limit sources go on, whatever stale
\* workers listed before the selection.
THEOREM SelectedOnly ==
  ASSUME SourcesConstants
  PROVE  Src!Spec => []Src!OnlySelectedImported
<1>1. SourcesInv => Src!OnlySelectedImported
  <2> SUFFICES ASSUME SourcesInv, setup.version = "review.v2"
               PROVE  /\ \A c \in Candidates : review.source[c] \in {"importing", "ready", "failed"}
                           => c \in review.chosen
                      /\ Cardinality(Src!Having({"importing", "ready"})) <= SourceLimit
    BY SameCount DEF Src!OnlySelectedImported
  <2>1. Src!TypeOK /\ SourcesFollow /\ SelectionFollows
    BY DEF SourcesInv
  <2>2. review.chosen \subseteq Candidates /\ setup.selected \subseteq ProjectPapers
    BY <2>1 DEF Src!TypeOK, Src!Review, Src!Setups
  <2>3. Src!Having({"importing", "ready"}) \subseteq review.chosen \cup setup.selected
    BY <2>1, SourceKinds DEF Src!Having, SelectionFollows, SourcesFollow
  <2>4. IsFiniteSet(review.chosen) /\ IsFiniteSet(setup.selected)
    BY <2>2, FS_Subset DEF SourcesConstants
  <2> DEFINE both == review.chosen \cup setup.selected
  <2>5. /\ IsFiniteSet(both)
        /\ Cardinality(both) <= Cardinality(review.chosen) + Cardinality(setup.selected)
    <3>1. review.chosen \cap setup.selected \subseteq review.chosen
      OBVIOUS
    <3>2. /\ IsFiniteSet(review.chosen \cap setup.selected)
          /\ Cardinality(review.chosen \cap setup.selected) \in Nat
          /\ Cardinality(review.chosen) \in Nat /\ Cardinality(setup.selected) \in Nat
      BY <2>4, <3>1, FS_Subset, FS_CardinalityType
    <3>3. /\ IsFiniteSet(both)
          /\ Cardinality(both) = Cardinality(review.chosen) + Cardinality(setup.selected)
                                   - Cardinality(review.chosen \cap setup.selected)
      BY <2>4, FS_Union
    <3> QED
      BY <3>2, <3>3
  <2> HIDE DEF both
  <2>6. Cardinality(Src!Having({"importing", "ready"})) <= Cardinality(both)
        /\ Cardinality(Src!Having({"importing", "ready"})) \in Nat
        /\ Cardinality(both) \in Nat
    <3>1. Src!Having({"importing", "ready"}) \subseteq both
      BY <2>3 DEF both
    <3> QED
      BY <2>5, <3>1, FS_Subset, FS_CardinalityType
  <2>7. Cardinality(review.chosen) \in Nat /\ Cardinality(setup.selected) \in Nat
    BY <2>4, FS_CardinalityType
  <2> QED
    BY <2>1, <2>5, <2>6, <2>7 DEF SelectionFollows, SourcesConstants
<1> QED
  BY <1>1, SourcesInvariant, PTL

\* SettledIsFinal: no step of any worker or reconciler takes back a settled source
\* or forgets one.
THEOREM SettledStays ==
  ASSUME SourcesConstants
  PROVE  Src!Spec => Src!SettledIsFinal
<1>1. SourcesInv /\ [Src!Next]_Src!vars =>
        [\A x \in Src!Sources :
           /\ review.source[x] \in Src!Settled => review'.source[x] = review.source[x]
           /\ review.source[x] # "none" => review'.source[x] # "none"]_Src!vars
  BY SourcesNext DEF SourcesStep, Settles
<1> QED
  BY <1>1, SourcesInvariant, PTL DEF Src!Spec, Src!SettledIsFinal


-----------------------------------------------------------------------------
(* The Run of the first half *)

\* The moves of ReviewSources, on the same Run: those of this module.
LEMMA SourceRowMoves ==
  ASSUME run \in Src!RunRow, NEW attempt, NEW final \in BOOLEAN
  PROVE  /\ run' = Src!Closed(run, attempt) => Row!Close \/ UNCHANGED run
         /\ run' = Src!FailedRun(run, attempt, final) =>
              Row!Fail \/ Row!MarkFailed \/ UNCHANGED run
         /\ Src!Reclaimable(run) /\ run' = Src!Reclaimed(run, final) => Row!Reclaim
<1>1. run \in RunRow /\ Src!Closed(run, attempt) = Closed(run, attempt)
  BY DEF RunRow, RowStatus, Src!RunRow, Src!RowStatus, Closed, Src!Closed
<1>2. Src!FailedRun(run, attempt, final) = FailedRun(run, attempt, final)
  BY DEF FailedRun, AfterFailure, Closed, Running, Src!FailedRun, Src!AfterFailure, Src!Closed,
     Src!Running
<1>3. Src!Reclaimed(run, final) = Reclaimed(run, final) /\ (Src!Reclaimable(run) <=> Reclaimable(run))
  BY DEF Reclaimed, Reclaimable, AfterFailure, Running, Src!Reclaimed, Src!Reclaimable,
     Src!AfterFailure, Src!Running
<1> QED
  BY <1>1, <1>2, <1>3, ClosedMove, FailedMove, ReclaimedMove

\* A Run that is not executed is cancelled at once, and so is one whose cancellation
\* is confirmed.
LEMMA SourceCancelMove ==
  ASSUME run \in Src!RunRow, run.status \notin {"succeeded", "failed", "running"},
         run' = [run EXCEPT !.status = "cancelled"]
  PROVE  Row!Cancel \/ UNCHANGED run
<1>1. CASE run.status = "cancelled"
  BY <1>1 DEF Src!RunRow
<1>2. CASE run.status # "cancelled"
  BY <1>2 DEF Row!Cancel, Row!Cancellable, Row!Cancelled, Row!Running, Row!Terminal
<1> QED
  BY <1>1, <1>2

LEMMA SourceStepMovesRun ==
  ASSUME Src!TypeOK, [Src!Next]_Src!vars
  PROVE  Row!Next \/ UNCHANGED run
<1> USE DEF Row!Next
<1>1. run \in Src!RunRow
  BY DEF Src!TypeOK
<1>2. CASE Src!Cancel
  BY <1>2 DEF Src!Cancel, Src!Cancellable, Src!Cancelled, Src!Running, Src!Terminal, Row!Cancel,
     Row!Cancellable, Row!Cancelled, Row!Running, Row!Terminal
<1>3. CASE Src!Reclaim
  BY <1>1, <1>3, SourceRowMoves DEF Src!Reclaim
<1>4. ASSUME NEW chosen, Src!Submit(chosen) PROVE Row!Resume
  BY <1>4 DEF Src!Submit, Src!Resumed, Row!Resume, Row!Resumed
<1>5. ASSUME NEW w \in Workers, Src!Start(w) PROVE Row!Claim
  BY <1>5 DEF Src!Start, Src!Started, Row!Claim, Row!Started
<1>6. ASSUME NEW w \in Workers, Src!Fail(w) PROVE Row!Next \/ UNCHANGED run
  <2>1. work[w].permanent \in BOOLEAN
    BY DEF Src!TypeOK, Src!Work
  <2>2. PICK final \in BOOLEAN : run' = Src!FailedRun(run, work[w].attempt, final)
    BY <1>6, <2>1 DEF Src!Fail, Src!Finality
  <2> QED
    BY <1>1, <2>2, SourceRowMoves
<1>7. ASSUME NEW w \in Workers, Src!Return(w) PROVE Row!Next \/ UNCHANGED run
  BY <1>1, <1>7, SourceRowMoves DEF Src!Return
<1>8. ASSUME NEW w \in Workers, Src!PauseForSelection(w) \/ Src!PauseForDependency(w)
      PROVE  Row!Pause \/ UNCHANGED run
  BY <1>8 DEF Src!PauseForSelection, Src!PauseForDependency, Src!Running, Src!Paused, Row!Pause,
     Row!Running, Row!Paused
<1>9. ASSUME NEW w \in Workers, Src!Write(w) PROVE Row!Succeed \/ UNCHANGED run
  BY <1>9 DEF Src!Write, Src!Running, Src!Succeeded, Row!Succeed, Row!Running, Row!Succeeded
<1>10. ASSUME Src!ReconcileCancelled \/ \E w \in Workers : Src!ConfirmCancel(w)
       PROVE  Row!Cancel \/ UNCHANGED run
  BY <1>1, <1>10, SourceCancelMove DEF Src!ReconcileCancelled, Src!ConfirmCancel
<1>11. CASE Src!Reconcile
  BY <1>11 DEF Src!Reconcile, Src!Resumed, Row!Resume, Row!Resumed, Row!GiveUp
<1>12. \/ Src!Cancel \/ Src!Reclaim \/ Src!Reconcile \/ Src!ReconcileCancelled \/ UNCHANGED run
       \/ \E chosen \in SUBSET Candidates : Src!Submit(chosen)
       \/ \E w \in Workers : \/ Src!Start(w) \/ Src!Fail(w) \/ Src!Return(w) \/ Src!ConfirmCancel(w)
                              \/ Src!PauseForSelection(w) \/ Src!PauseForDependency(w)
                              \/ Src!Write(w)
  BY DEF Src!Next, Src!vars, Src!Crash, Src!Step, Src!LoadStrategy, Src!PersistStrategy,
     Src!SpoilStrategy, Src!ReadSnapshot, Src!PersistSearch, Src!AdvanceToImport, Src!ReadSources,
     Src!ListSources, Src!Download, Src!RegisterDownload, Src!PassCheck, Src!MarkSourceFailed,
     Src!CompleteImport, Src!Decide, Src!IngestSome, Src!Ingest
<1> QED
  BY <1>2, <1>3, <1>4, <1>5, <1>6, <1>7, <1>8, <1>9, <1>10, <1>11, <1>12

\* The Run makes the moves of RunMoves only while papers are searched, selected,
\* imported and waited for: the reconciler resumes, fails or cancels a Run without
\* having an Attempt of its own.
THEOREM SourcesRunMoves ==
  ASSUME SourcesConstants
  PROVE  Src!Spec => Row!Spec
<1>1. Src!Init => Row!Init
  BY DEF Src!Init, Src!NewRun, Row!Init, Row!NewRun
<1>2. SourcesInv /\ [Src!Next]_Src!vars => [Row!Next]_run
  BY SourceStepMovesRun DEF SourcesInv
<1> QED
  BY <1>1, <1>2, SourcesInvariant, PTL DEF Src!Spec, Row!Spec

=============================================================================
