----------------------------- MODULE ReviewGraph -----------------------------
(***************************************************************************)
(* The writing half of a Review Run, from READY sources to the exported    *)
(* review: the Evidence Matrix, the outline that a person approves, edits  *)
(* or sends back, the sections, the citation and consistency checks and    *)
(* the export. Each service call is a few short transactions around calls  *)
(* of the model; the LangGraph state that says which node is next is       *)
(* written to a checkpoint after the node, in a transaction of its own.    *)
(*                                                                         *)
(* No transaction asks which Attempt it belongs to: a worker whose lease   *)
(* expired goes on beside its successor as long as the Run is RUNNING.     *)
(* Whatever a node has committed is found again by idempotency key when    *)
(* the node is repeated.                                                   *)
(***************************************************************************)
EXTENDS RunRow, FiniteSets

CONSTANTS
  Workers,      \* the places in which the Run may be executed at once: 1 .. n
  Papers,       \* the READY ReviewSources: 1 .. the number of them
  Sections,     \* the sections of every outline: 1 .. the number of them
  Versions,     \* the workflow versions to choose from
  MaxOutlines   \* bound: the outline versions a person may ask for

ASSUME GraphAssumption ==
  /\ Workers \subseteq Nat
  /\ IsFiniteSet(Papers) /\ Papers = 1 .. Cardinality(Papers) /\ Papers # {}
  /\ IsFiniteSet(Sections) /\ Sections = 1 .. Cardinality(Sections) /\ Sections # {}
  /\ Versions \subseteq {"review.v1", "review.v2"}
  /\ MaxOutlines \in Nat \ {0}

VARIABLES
  version,   \* workflow_version; fixed
  run,       \* the row of the Run
  review,    \* the rows of the Review
  ckpt,      \* the latest checkpoint of the thread
  work       \* what each worker does

vars == <<version, run, review, ckpt, work>>

-----------------------------------------------------------------------------
\* _STAGE_ORDER, from the stage in which the Matrix is built.
Stages == <<"build_evidence_matrix", "propose_outline", "review_outline", "draft_sections",
            "validate_sections", "consistency_check", "export_review", "finalize">>
Order(s) == CHOOSE i \in DOMAIN Stages : Stages[i] = s
AtLeast(s) == IF Order(review.stage) < Order(s) THEN s ELSE review.stage

StepKeys == {"matrix", "propose", "review", "draft", "validate", "consistency", "export",
             "finalize"}
StepStatus == {"pending", "running", "paused", "succeeded", "failed"}
Outlines == 1 .. (MaxOutlines + 1)   \* one more, for an edit of the last
Selection == MaxOutlines + 2   \* the request of review.v2 for a selection of sources, long resolved
EventKinds == {"evidence_matrix_completed", "outline_proposed", "section_draft_completed",
               "citation_validation_completed", "review_artifact_created"}
Exports == {1, 2}   \* two exports with different bytes: their statistics differ

\* paper: the Matrix output of each paper; outline: the outputs by version;
\* current: current_outline_output_id, 0 for NULL; request: the request about
\* each outline, with the action that resolved it; section: the outline each
\* section output was drafted for; report: the consistency output exists;
\* files: the exports in the storage; artifact: the one the Artifact rows name;
\* events: how often each business Event was written.
Review ==
  [paper: [Papers -> {"none", "ok", "failed"}],
   step: [StepKeys -> StepStatus],
   stage: {Stages[i] : i \in DOMAIN Stages},
   outline: [Outlines -> {"none", "model", "edit"}],
   current: {0} \cup Outlines,
   request: [Outlines -> {"none", "open", "approve", "edit", "feedback"}],
   section: [Sections -> {0} \cup Outlines],
   report: BOOLEAN,
   files: SUBSET Exports,
   artifact: {0} \cup Exports,
   events: [EventKinds -> Nat]]
NewReview ==
  [paper |-> [p \in Papers |-> "none"], step |-> [k \in StepKeys |-> "pending"],
   stage |-> "build_evidence_matrix", outline |-> [o \in Outlines |-> "none"], current |-> 0,
   request |-> [o \in Outlines |-> "none"], section |-> [s \in Sections |-> 0],
   report |-> FALSE, files |-> {}, artifact |-> 0, events |-> [e \in EventKinds |-> 0]]

\* ReviewGraphState: what is left of its identifiers when Steps, sections and
\* reports exist once. resume: the request whose HumanInput the Command carries.
Nodes == {"none", "propose", "interrupt", "apply", "draft", "validate", "consistency", "export",
          "finalize", "end"}
GraphState == [next: Nodes, round: Nat, outline: Nat, feedback: Nat, approved: Nat, resume: Nat]
NoCheckpoint == [next |-> "none", round |-> 0, outline |-> 0, feedback |-> 0, approved |-> 0,
                 resume |-> 0]
InitialState == [NoCheckpoint EXCEPT !.next = "propose"]

Pcs == {"idle", "load", "papers", "input", "stage", "thread", "start", "command", "node", "persist",
        "pause", "step", "draft", "write", "commit", "spoil", "raise", "return"}
\* todo: the papers or sections still to write; previous: the outline that was
\* current when the proposal was loaded; content: the export written; dirty:
\* the graph state is newer than the checkpoint it came from; why: the errors
\* that some property tells apart.
Work == [pc: Pcs, attempt: Nat, todo: SUBSET Nat, previous: Nat, content: {0} \cup Exports,
         graph: GraphState, dirty: BOOLEAN, permanent: BOOLEAN,
         why: {"none", "no_checkpoint", "outline_state", "feedback_round"}]
Idle == [pc |-> "idle", attempt |-> 0, todo |-> {}, previous |-> 0, content |-> 0,
         graph |-> NoCheckpoint, dirty |-> FALSE, permanent |-> FALSE, why |-> "none"]

TypeOK ==
  /\ version \in Versions
  /\ run \in RunRow
  /\ review \in Review
  /\ ckpt \in GraphState
  /\ work \in [Workers -> Work]

Init ==
  /\ version \in Versions
  /\ run = NewRun
  /\ review = NewReview
  /\ ckpt = NoCheckpoint
  /\ work = [w \in Workers |-> Idle]

-----------------------------------------------------------------------------
At(w, pc) == work[w].pc = pc
AtNode(w, n) == At(w, "node") /\ ~work[w].dirty /\ work[w].graph.next = n
Goto(w, pc) == work' = [work EXCEPT ![w].pc = pc]
Raise(w, permanent, why) ==
  work' = [work EXCEPT ![w].pc = "raise", ![w].todo = {}, ![w].previous = 0, ![w].content = 0,
                       ![w].permanent = permanent, ![w].why = why]
\* RunNotFoundError and RunConcurrentModificationError are retried; scope and
\* validation errors and idempotency conflicts are permanent.
Retry(w) == Raise(w, FALSE, "none")
Reject(w) == Raise(w, TRUE, "none")
Emitted(events, kind) == [events EXCEPT ![kind] = @ + 1]

\* The node returned and LangGraph merged its update. The resume value of a
\* Command belongs to the superstep it was given to.
Finish(w, state) ==
  work' = [work EXCEPT ![w].pc = "node", ![w].todo = {}, ![w].content = 0, ![w].previous = 0,
                       ![w].dirty = TRUE, ![w].graph = [state EXCEPT !.resume = 0]]
NextNode(w, n) == Finish(w, [work[w].graph EXCEPT !.next = n])

-----------------------------------------------------------------------------
(* The Run *)

\* Workers are interchangeable: the first idle one takes the Run.
Start(w) ==
  /\ At(w, "idle") /\ \A v \in Workers : At(v, "idle") => w <= v
  /\ run.status = "queued"
  /\ run' = Started(run)
  /\ work' = [work EXCEPT ![w] = [Idle EXCEPT !.pc = "load", !.attempt = run.attempts + 1]]
  /\ UNCHANGED <<version, review, ckpt>>

Cancel == Cancellable(run) /\ run' = Cancelled(run) /\ UNCHANGED <<version, review, ckpt, work>>

Reclaim ==
  /\ Reclaimable(run)
  /\ \E final \in BOOLEAN : run' = Reclaimed(run, final)
  /\ UNCHANGED <<version, review, ckpt, work>>

Crash(w) ==
  /\ ~At(w, "idle")
  /\ work' = [work EXCEPT ![w] = Idle]
  /\ UNCHANGED <<version, run, review, ckpt>>

\* The write of the checkpoint. It follows the commit of the node; the next
\* node waits for it, and so does ainvoke before it returns or raises.
Saved(w) == IF work[w].dirty THEN work[w].graph ELSE ckpt

SaveCheckpoint(w) ==
  /\ work[w].dirty
  /\ ckpt' = Saved(w)
  /\ work' = [work EXCEPT ![w].dirty = FALSE]
  /\ UNCHANGED <<version, run, review>>

Fail(w) ==
  /\ At(w, "raise")
  /\ \E final \in Finality(work[w].permanent) : run' = FailedRun(run, work[w].attempt, final)
  /\ ckpt' = Saved(w)
  /\ work' = [work EXCEPT ![w] = Idle]
  /\ UNCHANGED <<version, review>>

Return(w) ==
  /\ At(w, "return")
  /\ run' = Closed(run, work[w].attempt)
  /\ ckpt' = Saved(w)
  /\ work' = [work EXCEPT ![w] = Idle]
  /\ UNCHANGED <<version, review>>

-----------------------------------------------------------------------------
(* ReviewEvidenceMatrixService.build *)

PaperTodo == {p \in Papers : review.paper[p] = "none"}

\* _load_contexts, _ensure_step_running and _list_outputs. The aggregate output
\* exists from the commit of the Step on.
LoadMatrix(w) ==
  /\ At(w, "load")
  /\ \/ ~Running(run) /\ Retry(w) /\ UNCHANGED review
     \/ /\ Running(run)
        /\ IF review.step["matrix"] = "failed" THEN Reject(w) /\ UNCHANGED review
           ELSE /\ review' = [review EXCEPT !.step["matrix"] =
                                IF @ = "pending" THEN "running" ELSE @]
                /\ work' = [work EXCEPT
                     ![w].pc = IF review.step["matrix"] = "succeeded" THEN "input" ELSE "papers",
                     ![w].todo = PaperTodo]
  /\ UNCHANGED <<version, run, ckpt>>

\* What the selected chunks, their Evidence and two answers of the model, the
\* second a repair of the first, may come to: valid rows or a failed paper.
PaperResults == {"ok", "failed"}

\* _persist_output: get_or_add_output keeps the first output; one with other
\* rows is a conflict. Nothing asks for the status of the Run.
PersistPaper(w, p, result) ==
  LET done == [work EXCEPT ![w].todo = @ \ {p}]
  IN \/ /\ review.paper[p] = "none"
        /\ review' = [review EXCEPT !.paper[p] = result]
        /\ work' = done
     \/ /\ review.paper[p] # "none" /\ UNCHANGED review
        /\ \/ review.paper[p] = result /\ work' = done
           \/ (review.paper[p] # result \/ result = "ok") /\ Reject(w)

\* One paper of the loop in build; the gateway may fail for a while.
ExtractPaper(w, result) ==
  /\ At(w, "papers") /\ work[w].todo # {}
  /\ \/ PersistPaper(w, CHOOSE p \in work[w].todo : \A q \in work[w].todo : p <= q, result)
     \/ Retry(w) /\ UNCHANGED review
  /\ UNCHANGED <<version, run, ckpt>>

\* _complete_matrix: the aggregate, its Step, the stage and the Event.
CompleteMatrix(w) ==
  /\ At(w, "papers") /\ work[w].todo = {}
  /\ \E p \in Papers : review.paper[p] = "ok"
  /\ IF ~Running(run) THEN Retry(w) /\ UNCHANGED review
     ELSE IF review.step["matrix"] = "failed" THEN Reject(w) /\ UNCHANGED review
     ELSE /\ Goto(w, "input")
          /\ review' = IF review.step["matrix"] = "succeeded" THEN review
                       ELSE [review EXCEPT !.step["matrix"] = "succeeded",
                                           !.stage = AtLeast("propose_outline"),
                                           !.events = Emitted(@, "evidence_matrix_completed")]
  /\ UNCHANGED <<version, run, ckpt>>

\* _fail_step when no paper yielded a row: it closes the Step, then raises.
FailMatrix(w) ==
  /\ At(w, "papers") /\ work[w].todo = {}
  /\ \A p \in Papers : review.paper[p] # "ok"
  /\ review' = [review EXCEPT !.step["matrix"] =
                  IF @ \in {"pending", "running"} THEN "failed" ELSE @]
  /\ Reject(w)
  /\ UNCHANGED <<version, run, ckpt>>

-----------------------------------------------------------------------------
(* ReviewExecutor.execute and ReviewWorkflowRuntime *)

\* get_latest_resolved_human_input: the highest request version of any kind, 0
\* for none. In review.v2 the selection of the sources is there from the start.
Resolved == {o \in Outlines : review.request[o] \notin {"none", "open"}}
LatestInput == IF Resolved # {} THEN CHOOSE o \in Resolved : \A q \in Resolved : q <= o
               ELSE IF version = "review.v2" THEN Selection ELSE 0

\* _latest_input, _review_snapshot and has_checkpoint: three reads, each in a
\* transaction of its own, that decide how the graph is entered.
ReadInput(w) ==
  /\ At(w, "input")
  /\ work' = [work EXCEPT ![w].pc = "stage", ![w].graph.resume = LatestInput]
  /\ UNCHANGED <<version, run, review, ckpt>>

ReadStage(w) ==
  /\ At(w, "stage")
  /\ Goto(w, IF work[w].graph.resume # 0 /\ review.stage = "review_outline" THEN "command"
             ELSE "thread")
  /\ UNCHANGED <<version, run, review, ckpt>>

Invoke(w, state, dirty) ==
  work' = [work EXCEPT ![w].pc = "node", ![w].dirty = dirty, ![w].graph = state]

\* A thread with a checkpoint is resumed from it.
FindThread(w) ==
  /\ At(w, "thread")
  /\ IF ckpt = NoCheckpoint THEN Goto(w, "start") ELSE Invoke(w, ckpt, FALSE)
  /\ UNCHANGED <<version, run, review, ckpt>>

\* start(initial): a checkpoint that another worker wrote meanwhile keeps what
\* the initial state does not name.
StartGraph(w) ==
  /\ At(w, "start")
  /\ Invoke(w, [ckpt EXCEPT !.next = "propose", !.round = 0, !.resume = 0], TRUE)
  /\ UNCHANGED <<version, run, review, ckpt>>

\* resume_human_input: a Command with the HumanInput, whatever the checkpoint
\* waits for. EmptyInputError: there is nothing to resume.
ResumeGraph(w) ==
  /\ At(w, "command")
  /\ IF ckpt = NoCheckpoint THEN Raise(w, TRUE, "no_checkpoint")
     ELSE Invoke(w, [ckpt EXCEPT !.resume = work[w].graph.resume], TRUE)
  /\ UNCHANGED <<version, run, review, ckpt>>

\* _review_outline_interrupt: without a resume value the graph stops here.
Interrupt(w) ==
  /\ AtNode(w, "interrupt")
  /\ LET g == work[w].graph
     IN IF g.resume = 0 THEN Goto(w, "return")
        ELSE Finish(w, [g EXCEPT !.next = "apply", !.outline = g.resume])
  /\ UNCHANGED <<version, run, review, ckpt>>

\* ReviewOutlineDecisionService.load and _outline_route. A selection of sources
\* is no decision about an outline.
ApplyDecision(w) ==
  /\ AtNode(w, "apply")
  /\ LET g == work[w].graph
         decision == IF g.outline \in Outlines THEN review.request[g.outline] ELSE "none"
     IN CASE decision = "feedback" ->
               Finish(w, [g EXCEPT !.next = "propose", !.round = g.round + 1,
                                   !.feedback = g.outline])
          [] decision = "approve" -> Finish(w, [g EXCEPT !.next = "draft", !.approved = g.outline])
          [] decision = "edit" -> Finish(w, [g EXCEPT !.next = "draft", !.approved = g.outline + 1])
          [] OTHER -> Reject(w)
  /\ UNCHANGED <<version, run, review, ckpt>>

\* The END of the graph: ainvoke returns.
EndGraph(w) == AtNode(w, "end") /\ Goto(w, "return") /\ UNCHANGED <<version, run, review, ckpt>>

-----------------------------------------------------------------------------
(* ReviewOutlineService.propose_and_pause *)

\* create_human_input_request: in review.v2 version 1 is the source selection.
RequestVersion(o) == o + (IF version = "review.v2" THEN 1 ELSE 0)

\* _load_context, the part about the round: the first proposal needs no
\* current outline; a later one answers the feedback on the current outline.
FirstRound(g) == g.feedback = 0 /\ review.current = 0
FeedbackRound(g) ==
  /\ g.feedback # 0 /\ review.current = g.feedback
  /\ review.request[g.feedback] = "feedback"

LoadProposal(w) ==
  /\ AtNode(w, "propose")
  /\ LET g == work[w].graph
     IN \/ ~Running(run) /\ Retry(w)
        \/ /\ Running(run) /\ (IF g.round = 0 THEN FirstRound(g) ELSE FeedbackRound(g))
           /\ IF g.round > 0 /\ RequestVersion(g.feedback) # g.round
              THEN Raise(w, TRUE, "feedback_round")
              ELSE work' = [work EXCEPT ![w].previous = review.current,
                     ![w].pc = IF review.outline[g.round + 1] = "model" THEN "pause" ELSE "persist"]
        \/ /\ Running(run) /\ ~(IF g.round = 0 THEN FirstRound(g) ELSE FeedbackRound(g))
           /\ Raise(w, TRUE, "outline_state")
  /\ UNCHANGED <<version, run, review, ckpt>>

\* The model's outline and _persist_output, which asks for no status: the
\* first output of a version is kept whatever a second call of the model said.
\* An invalid outline is permanent.
PersistOutline(w) ==
  /\ At(w, "persist")
  /\ LET v == work[w].graph.round + 1
     IN \/ (Retry(w) \/ Reject(w)) /\ UNCHANGED review
        \/ review.outline[v] = "edit" /\ Reject(w) /\ UNCHANGED review
        \/ /\ review.outline[v] # "edit"
           /\ v = 1 \/ review.step["propose"] = "succeeded"
           /\ review' = [review EXCEPT !.outline[v] = "model", !.step["propose"] = "succeeded"]
           /\ Goto(w, "pause")
  /\ UNCHANGED <<version, run, ckpt>>

OpenRequest == {o \in Outlines : review.request[o] = "open"}

\* Mutant: neither the previous outline nor the Step is compared.
PauseForReviewUnchecked(w) ==
  /\ At(w, "pause") /\ Running(run)
  /\ LET v == work[w].graph.round + 1
     IN /\ review' = [review EXCEPT !.request[v] = "open", !.current = v, !.step["review"] = "paused",
                                    !.stage = "review_outline",
                                    !.events = Emitted(@, "outline_proposed")]
        /\ run' = Paused(run)
        /\ Finish(w, [work[w].graph EXCEPT !.next = "interrupt", !.outline = v])
  /\ UNCHANGED <<version, ckpt>>

\* Mutant: the request is committed and the Run left to pause later.
PauseForReviewSplit(w) ==
  /\ At(w, "pause") /\ Running(run)
  /\ LET v == work[w].graph.round + 1
     IN /\ review' = [review EXCEPT !.request[v] = "open", !.current = v, !.step["review"] = "paused",
                                    !.stage = "review_outline"]
        /\ Finish(w, [work[w].graph EXCEPT !.next = "interrupt", !.outline = v])
  /\ UNCHANGED <<version, run, ckpt>>

\* _persist_request_and_pause. A worker that finds the Run waiting for the
\* same outline takes its request; otherwise the outline that was current at
\* the load has to be current still, the request has to be new or open, and
\* the Step one that may pause.
PauseForReview(w) ==
  /\ At(w, "pause")
  /\ LET v == work[w].graph.round + 1
         proposed == [work[w].graph EXCEPT !.next = "interrupt", !.outline = v]
     IN IF run.status = "waiting"
        THEN /\ IF OpenRequest = {v} /\ review.current = v THEN Finish(w, proposed) ELSE Reject(w)
             /\ UNCHANGED <<run, review>>
        ELSE IF ~Running(run) \/ review.current # work[w].previous
        THEN Retry(w) /\ UNCHANGED <<run, review>>
        ELSE IF review.request[v] \notin {"none", "open"}
        THEN Reject(w) /\ UNCHANGED <<run, review>>
        ELSE IF review.step["review"] \notin {"pending", "paused", "running"}
        THEN Retry(w) /\ UNCHANGED <<run, review>>
        ELSE /\ review' = [review EXCEPT !.request[v] = "open", !.current = v,
                                         !.step["review"] = "paused", !.stage = "review_outline",
                                         !.events = Emitted(@, "outline_proposed")]
             /\ run' = Paused(run)
             /\ Finish(w, proposed)
  /\ UNCHANGED <<version, ckpt>>

\* _normalize_action and the validation of an edited outline: the edit becomes
\* the next version and the current one.
Edited(r, o) == [r EXCEPT !.outline[o + 1] = "edit", !.current = o + 1]

\* HumanOutlineInputService.submit: request, HumanInput, Step, outline and the
\* resumed Run in one transaction. A repeated submission with its idempotency
\* key returns the stored result, and one for another request is refused.
Submit(o, action) ==
  /\ review.request[o] = "open" /\ run.status = "waiting"
  /\ review.step["review"] = "paused"
  /\ action = "feedback" => o < MaxOutlines
  /\ action = "edit" => review.current = o /\ review.outline[o + 1] = "none"
  /\ review' = [(IF action = "edit" THEN Edited(review, o) ELSE review) EXCEPT
       !.request[o] = action,
       !.step["review"] = IF action = "feedback" THEN "running" ELSE "succeeded"]
  /\ run' = Resumed(run)
  /\ UNCHANGED <<version, ckpt, work>>

-----------------------------------------------------------------------------
(* ReviewSectionService *)

\* _load_context: the approved outline is still current and its Step closed.
Approved(w) ==
  /\ review.step["matrix"] = "succeeded" /\ review.step["review"] = "succeeded"
  /\ review.current = work[w].graph.approved

SectionSteps == {"draft", "validate", "consistency"}
Before == [draft |-> "review", validate |-> "draft", consistency |-> "validate"]
StageOf == [draft |-> "draft_sections", validate |-> "validate_sections",
            consistency |-> "consistency_check"]

\* _load_context, which locks nothing, and _validate_prerequisite_step.
LoadContext(w) ==
  /\ \E n \in SectionSteps : AtNode(w, n)
  /\ LET key == work[w].graph.next
     IN IF ~Running(run) THEN Retry(w)
        ELSE IF ~Approved(w) \/ review.step[Before[key]] # "succeeded" THEN Reject(w)
        ELSE work' = [work EXCEPT
               ![w].pc = "step",
               ![w].todo = IF key = "draft" THEN {x \in Sections : review.section[x] = 0} ELSE {}]
  /\ UNCHANGED <<version, run, review, ckpt>>

\* _ensure_step: the Step is started or found again, the stage never goes back.
EnsureStep(w) ==
  /\ At(w, "step")
  /\ LET key == work[w].graph.next
     IN IF ~Running(run) THEN Retry(w) /\ UNCHANGED review
        ELSE IF review.step[key] \notin {"pending", "running", "succeeded"}
        THEN Reject(w) /\ UNCHANGED review
        ELSE /\ review' = [review EXCEPT !.step[key] = IF @ = "pending" THEN "running" ELSE @,
                                         !.stage = AtLeast(StageOf[key])]
             /\ Goto(w, IF key = "draft" THEN "draft" ELSE "write")
  /\ UNCHANGED <<version, run, ckpt>>

\* _complete_step_and_stage.
CompleteStep(w, key, s, next) ==
  IF ~Running(run) THEN Retry(w) /\ UNCHANGED review
  ELSE IF review.step[key] \notin {"running", "succeeded"} THEN Reject(w) /\ UNCHANGED review
  ELSE /\ review' = [review EXCEPT !.step[key] = "succeeded", !.stage = AtLeast(s)]
       /\ NextNode(w, next)

\* _fail_step before an invalid answer of the model is raised.
SpoilStep(w, key) ==
  IF ~Running(run) THEN Retry(w) /\ UNCHANGED review
  ELSE /\ review' = [review EXCEPT !.step[key] = IF @ \in {"pending", "running"} THEN "failed"
                                                 ELSE @]
       /\ Reject(w)

\* Mutant: a section is written although the Run is no longer RUNNING, and
\* its Event with it.
DraftSectionAgain(w) ==
  /\ At(w, "draft") /\ work[w].todo # {}
  /\ LET s == CHOOSE x \in work[w].todo : \A y \in work[w].todo : x <= y
     IN /\ review' = [review EXCEPT !.section[s] = work[w].graph.approved,
                                    !.events = Emitted(@, "section_draft_completed")]
        /\ work' = [work EXCEPT ![w].todo = @ \ {s}]
  /\ UNCHANGED <<version, run, ckpt>>

\* One section: the model and _persist_section_output. An answer that is
\* truncated or invalid spoils the Step; one that differs from the section
\* another worker wrote meanwhile is a conflict.
DraftSection(w) ==
  /\ At(w, "draft") /\ work[w].todo # {}
  /\ LET s == CHOOSE x \in work[w].todo : \A y \in work[w].todo : x <= y
         done == [work EXCEPT ![w].todo = @ \ {s}]
     IN \/ Retry(w) /\ UNCHANGED review
        \/ Goto(w, "spoil") /\ UNCHANGED review
        \/ /\ Running(run) /\ review.section[s] = 0
           /\ review' = [review EXCEPT !.section[s] = work[w].graph.approved,
                                       !.events = Emitted(@, "section_draft_completed")]
           /\ work' = done
        \/ /\ Running(run) /\ review.section[s] # 0
           /\ (work' = done \/ Reject(w))
           /\ UNCHANGED review
  /\ UNCHANGED <<version, run, ckpt>>

CompleteDraft(w) ==
  /\ At(w, "draft") /\ work[w].todo = {}
  /\ CompleteStep(w, "draft", "validate_sections", "validate")
  /\ UNCHANGED <<version, run, ckpt>>

\* validate_citations over the persisted sections, whose verdict is the same
\* each time: _persist_claim_set when every Claim is covered, else
\* _record_citation_result and a permanent error. Step, stage and the one
\* Event are committed together.
PersistClaimSet(w) ==
  /\ At(w, "write") /\ work[w].graph.next = "validate"
  /\ LET told == review.events["citation_validation_completed"] > 0
         noted == IF told THEN review.events
                  ELSE Emitted(review.events, "citation_validation_completed")
     IN \/ ~Running(run) /\ Retry(w) /\ UNCHANGED review
        \/ /\ Running(run) /\ review.step["validate"] # "succeeded"
           /\ review' = [review EXCEPT !.events = noted, !.step["validate"] = "failed"]
           /\ Reject(w)
        \/ /\ Running(run) /\ review.step["validate"] # "failed"
           /\ review' = [review EXCEPT !.step["validate"] = "succeeded", !.events = noted,
                           !.stage = IF @ = "validate_sections" THEN "consistency_check" ELSE @]
           /\ NextNode(w, "consistency")
  /\ UNCHANGED <<version, run, ckpt>>

\* The report of the model and _persist_output.
PersistReport(w) ==
  /\ At(w, "write") /\ work[w].graph.next = "consistency"
  /\ \/ review.report /\ Goto(w, "commit") /\ UNCHANGED review
     \/ (Retry(w) \/ Goto(w, "spoil") \/ (review.report /\ Reject(w))) /\ UNCHANGED review
     \/ /\ ~review.report /\ Running(run)
        /\ review' = [review EXCEPT !.report = TRUE]
        /\ Goto(w, "commit")
  /\ UNCHANGED <<version, run, ckpt>>

CompleteConsistency(w) ==
  /\ At(w, "commit") /\ work[w].graph.next = "consistency"
  /\ CompleteStep(w, "consistency", "export_review", "export")
  /\ UNCHANGED <<version, run, ckpt>>

Spoil(w) ==
  /\ At(w, "spoil")
  /\ SpoilStep(w, work[w].graph.next)
  /\ UNCHANGED <<version, run, ckpt>>

-----------------------------------------------------------------------------
(* ReviewExportService *)

\* _load_context: the approved outline is current and the stage one of the last.
ExportContext(w) ==
  /\ Running(run) /\ review.current = work[w].graph.approved
  /\ review.stage \in {"export_review", "finalize"}

\* _load_context, build_review_export and the writes to the storage, keyed by
\* their hash, before any row refers to them.
WriteFiles(w) ==
  /\ AtNode(w, "export")
  /\ IF ~ExportContext(w)
     THEN Retry(w) /\ UNCHANGED review
     ELSE IF review.step["consistency"] # "succeeded"
     THEN Reject(w) /\ UNCHANGED review
     ELSE \E c \in Exports :
            /\ c = 1 \/ c - 1 \in review.files   \* named in the order they are written
            /\ review' = [review EXCEPT !.files = @ \cup {c}]
            /\ work' = [work EXCEPT ![w].pc = "commit", ![w].content = c]
  /\ UNCHANGED <<version, run, ckpt>>

\* _commit_export: Output, Artifacts, stage, Step and Event; a repeated commit
\* returns the first export, whatever files it wrote itself.
CommitExport(w) ==
  /\ At(w, "commit") /\ work[w].graph.next = "export"
  /\ IF ~Running(run) \/ review.stage \notin {"export_review", "finalize"}
     THEN Retry(w) /\ UNCHANGED review
     ELSE IF review.step["export"] = "succeeded" /\ review.stage = "finalize"
     THEN NextNode(w, "finalize") /\ UNCHANGED review
     ELSE IF review.step["export"] = "pending" /\ review.stage = "export_review"
     THEN /\ review' = [review EXCEPT !.artifact = work[w].content, !.step["export"] = "succeeded",
                                      !.stage = "finalize",
                                      !.events = Emitted(@, "review_artifact_created")]
          /\ NextNode(w, "finalize")
     ELSE Reject(w) /\ UNCHANGED review
  /\ UNCHANGED <<version, run, ckpt>>

\* finalize: the Run and its last Step succeed together.
Finalize(w) ==
  /\ AtNode(w, "finalize")
  /\ IF run.status = "succeeded" THEN NextNode(w, "end") /\ UNCHANGED <<run, review>>
     ELSE IF ~Running(run) THEN Retry(w) /\ UNCHANGED <<run, review>>
     ELSE IF review.stage # "finalize" \/ review.artifact = 0 \/ review.step["export"] # "succeeded"
     THEN Reject(w) /\ UNCHANGED <<run, review>>
     ELSE /\ run' = Succeeded(run)
          /\ review' = [review EXCEPT !.step["finalize"] = "succeeded"]
          /\ NextNode(w, "end")
  /\ UNCHANGED <<version, ckpt>>

-----------------------------------------------------------------------------
Step(w) ==
  \/ LoadMatrix(w) \/ (\E r \in PaperResults : ExtractPaper(w, r)) \/ CompleteMatrix(w)
  \/ FailMatrix(w)
  \/ ReadInput(w) \/ ReadStage(w) \/ FindThread(w) \/ StartGraph(w) \/ ResumeGraph(w)
  \/ Interrupt(w) \/ ApplyDecision(w) \/ EndGraph(w)
  \/ LoadProposal(w) \/ PersistOutline(w) \/ PauseForReview(w)
  \/ LoadContext(w) \/ EnsureStep(w) \/ DraftSection(w) \/ CompleteDraft(w)
  \/ PersistClaimSet(w) \/ PersistReport(w) \/ CompleteConsistency(w)
  \/ Spoil(w)
  \/ WriteFiles(w) \/ CommitExport(w) \/ Finalize(w)
  \/ SaveCheckpoint(w) \/ Fail(w) \/ Return(w)

Next ==
  \/ \E w \in Workers : Start(w) \/ Step(w) \/ Crash(w)
  \/ \E o \in Outlines, a \in {"approve", "edit", "feedback"} : Submit(o, a)
  \/ Cancel \/ Reclaim

\* A worker goes on until it crashes, and the reconciler runs periodically.
\* Nobody has to answer a request, and the queue may forget a Run: there is no
\* fairness of Start.
Fairness ==
  /\ \A w \in Workers : WF_vars(Step(w))
  /\ WF_vars(Reclaim)

Spec == Init /\ [][Next]_vars /\ Fairness

-----------------------------------------------------------------------------
(* Properties *)

ApprovedOutlines ==
  {o \in Outlines : \/ review.request[o] = "approve"
                    \/ review.outline[o] = "edit" /\ review.request[o - 1] = "edit"}

\* Every section, and so the exported review, was drafted for the one outline
\* that a person approved, whatever stale workers and repeated nodes did
\* (_load_context of the sections against _persist_request_and_pause).
SectionsFromApproved ==
  /\ Cardinality(ApprovedOutlines) <= 1
  /\ \A s \in Sections : review.section[s] # 0 => review.section[s] \in ApprovedOutlines

\* While the Run waits for a person exactly one request is open, it is about
\* the current outline and the Step is paused; a request is open at no other
\* time, unless the Run was cancelled while it waited.
OneQuestion ==
  /\ run.status = "waiting" => /\ OpenRequest = {review.current}
                               /\ review.step["review"] = "paused"
                               /\ review.stage = "review_outline"
  /\ OpenRequest # {} => run.status \in {"waiting", "cancelled"}

\* Each business Event was written exactly as often as the fact it reports
\* came into being: no replay of a node and no second worker repeats one. A Run
\* that succeeded has all of its Steps closed, its sections, its report and an
\* Artifact whose files exist (_commit_export after Storage.write).
EventsMatchFacts ==
  LET count(kind) == review.events[kind]
      one(b) == IF b THEN 1 ELSE 0
  IN /\ count("evidence_matrix_completed") = one(review.step["matrix"] = "succeeded")
     /\ count("outline_proposed") = Cardinality({o \in Outlines : review.request[o] # "none"})
     /\ count("section_draft_completed") = Cardinality({s \in Sections : review.section[s] # 0})
     /\ count("citation_validation_completed")
          = one(review.step["validate"] \in {"succeeded", "failed"})
     /\ count("review_artifact_created") = one(review.artifact # 0)
     /\ review.artifact # 0 => review.artifact \in review.files
     /\ run.status = "succeeded" =>
          /\ \A k \in StepKeys : review.step[k] = "succeeded"
          /\ \A s \in Sections : review.section[s] # 0
          /\ review.report /\ review.artifact # 0

\* A Review ends, or asks a person, again and again, unless the queue forgets
\* it (RunReconcileService and the retries of the executors leave it in no
\* other status for good; arq_run_queue.py delivers a Run at most once).
ReviewProceeds == <>[](run.status = "queued") \/ []<>(run.status \in Terminal \cup {"waiting"})

\* "feedback": the model regenerates the outline and the Run pauses again. No
\* worker refuses the feedback a person gave because of its round.
FeedbackIsServed == \A w \in Workers : work[w].why # "feedback_round"
=============================================================================
