---------------------------- MODULE ReviewSources ----------------------------
(***************************************************************************)
(* The first half of a Review Run, from the request to READY sources: the  *)
(* search strategy, the search on arXiv, the selection by a person, the    *)
(* import of the selected papers into the library and the wait until they  *)
(* are parsed and indexed. ReviewGraph goes on from there.                 *)
(*                                                                         *)
(* Downloads and searches happen between short transactions that lock the  *)
(* Run. Most of these do not ask for its status, and none asks which       *)
(* Attempt it belongs to; a reconciler moves waiting and cancelled Runs on *)
(* when the ingestion of their papers has ended.                           *)
(***************************************************************************)
EXTENDS RunRow, FiniteSets

CONSTANTS
  Workers,       \* the places in which the Run may be executed at once: 1 .. n
  Candidates,    \* the papers arXiv may find, numbered
  Duplicates,    \* the candidates that may be papers of the Project as well
  ProjectPapers, \* the READY papers of the Project, numbered apart from them
  SourceLimit,   \* source_limit of the config snapshot
  MinimumReady,  \* its minimum_ready_papers
  Versions       \* the workflow versions to choose from

ASSUME SourcesAssumption ==
  /\ Workers \subseteq Nat
  /\ IsFiniteSet(Candidates) /\ Candidates \subseteq Nat /\ Duplicates \subseteq Candidates
  /\ IsFiniteSet(ProjectPapers) /\ ProjectPapers \subseteq Nat
  /\ Candidates \cap ProjectPapers = {}
  /\ SourceLimit \in Nat \ {0} /\ MinimumReady \in Nat \ {0}
  /\ Versions \subseteq {"review.v1", "review.v2"}

VARIABLES
  setup,    \* what the request fixed
  run,      \* the row of the Run
  review,   \* the rows of the Review
  library,  \* the PaperVersions by file, with the state of their ingestion
  work      \* what each worker does

vars == <<setup, run, review, library, work>>

-----------------------------------------------------------------------------
Sources == Candidates \cup ProjectPapers

\* create_review_run: papers of the Project, READY and at most SourceLimit, and
\* whether arXiv is searched for more. The Reviews of version 1 always search.
\* file: the content each source has; one candidate may be a paper of the
\* Project under another name.
Setups ==
  {s \in [version: Versions, auto: BOOLEAN, selected: SUBSET ProjectPapers,
          file: [Sources -> Sources]] :
     /\ \A p \in ProjectPapers : s.file[p] = p
     /\ \A c \in Candidates : s.file[c] \in {c} \cup (IF s.auto /\ c \in Duplicates THEN ProjectPapers
                                                   ELSE {})
     /\ \A c, d \in Candidates : s.file[c] = s.file[d] => c = d
     /\ s.version = "review.v1" => s.auto /\ s.selected = {}
     /\ Cardinality(s.selected) <= SourceLimit
     /\ s.version = "review.v2" => IF s.auto THEN Cardinality(s.selected) < SourceLimit
                                   ELSE s.selected # {}}

Stages == {"formulate_search_strategy", "search_arxiv", "review_sources", "import_arxiv_papers",
           "wait_for_ingestion", "build_evidence_matrix"}
SourceStatus == {"none", "discovered", "importing", "ready", "failed", "rejected"}
Settled == {"ready", "failed", "rejected"}
StepStatus == {"pending", "paused", "succeeded", "failed"}

\* request: the HumanInputRequest of the selection; chosen: the HumanInput;
\* offered: the payload of the candidates output, NULL as no candidates;
\* waits: which of the two waiting statuses a waiting Run has.
Review ==
  [stage: Stages, step: [{"strategy", "search", "import", "wait"} -> StepStatus],
   source: [Sources -> SourceStatus], request: {"none", "open", "resolved"},
   chosen: SUBSET Candidates, offered: SUBSET Candidates,
   waits: {"none", "input", "dependency"}]
NewReview(s) ==
  [stage |-> "formulate_search_strategy",
   step |-> [k \in {"strategy", "search", "import", "wait"} |-> "pending"],
   source |-> [x \in Sources |-> IF x \in s.selected THEN "ready" ELSE "none"],
   request |-> "none", chosen |-> {}, offered |-> {}, waits |-> "none"]

\* A PaperVersion with the outcome of its ingestion and indexing Runs; the
\* second is created in the transaction that ends the first. cancelling: one of
\* them is CANCEL_REQUESTED, and may stay so.
Ingestion == {"none", "active", "cancelling", "ready", "failed"}

Pcs == {"idle", "load", "model", "spoil", "snapshot", "found", "advance", "sources",
        "select", "list", "import", "register", "refuse", "mark", "complete", "check", "wait",
        "matrix", "raise", "return"}
\* todo: the sources that were DISCOVERED when import_sources listed them;
\* ready: the summary counts a READY source.
Work == [pc: Pcs, attempt: Nat, todo: SUBSET Candidates, ready: BOOLEAN, permanent: BOOLEAN]
Idle == [pc |-> "idle", attempt |-> 0, todo |-> {}, ready |-> FALSE, permanent |-> FALSE]

TypeOK ==
  /\ setup \in Setups
  /\ run \in RunRow
  /\ review \in Review
  /\ library \in [Sources -> Ingestion]
  /\ work \in [Workers -> Work]

Init ==
  /\ setup \in Setups
  /\ run = NewRun
  /\ review = NewReview(setup)
  /\ library = [x \in Sources |-> IF x \in ProjectPapers THEN "ready" ELSE "none"]
  /\ work = [w \in Workers |-> Idle]

-----------------------------------------------------------------------------
At(w, pc) == work[w].pc = pc
Goto(w, pc) == work' = [work EXCEPT ![w].pc = pc]
Raise(w, permanent) ==
  work' = [work EXCEPT ![w] = [Idle EXCEPT !.pc = "raise", !.attempt = work[w].attempt,
                                           !.permanent = permanent]]
Retry(w) == Raise(w, FALSE)
Reject(w) == Raise(w, TRUE)
Having(statuses) == {x \in Sources : review.source[x] \in statuses}

Start(w) ==
  /\ At(w, "idle") /\ \A v \in Workers : At(v, "idle") => w <= v
  /\ run.status = "queued"
  /\ run' = Started(run)
  /\ work' = [work EXCEPT ![w] = [Idle EXCEPT !.pc = "load", !.attempt = run.attempts + 1]]
  /\ UNCHANGED <<setup, review, library>>

Cancel == Cancellable(run) /\ run' = Cancelled(run) /\ UNCHANGED <<setup, review, library, work>>

Reclaim ==
  /\ Reclaimable(run)
  /\ \E final \in BOOLEAN : run' = Reclaimed(run, final)
  /\ UNCHANGED <<setup, review, library, work>>

Crash(w) ==
  /\ ~At(w, "idle")
  /\ work' = [work EXCEPT ![w] = Idle]
  /\ UNCHANGED <<setup, run, review, library>>

Fail(w) ==
  /\ At(w, "raise")
  /\ \E final \in Finality(work[w].permanent) : run' = FailedRun(run, work[w].attempt, final)
  /\ work' = [work EXCEPT ![w] = Idle]
  /\ UNCHANGED <<setup, review, library>>

Return(w) ==
  /\ At(w, "return")
  /\ run' = Closed(run, work[w].attempt)
  /\ work' = [work EXCEPT ![w] = Idle]
  /\ UNCHANGED <<setup, review, library>>

-----------------------------------------------------------------------------
(* ReviewSearchStrategyService.formulate *)

\* _load: the persisted strategy is used again.
LoadStrategy(w) ==
  /\ At(w, "load")
  /\ IF ~Running(run) THEN Retry(w)
     ELSE Goto(w, IF review.step["strategy"] = "succeeded" THEN "snapshot" ELSE "model")
  /\ UNCHANGED <<setup, run, review, library>>

\* The model's answer and _persist: Step, output, Event and stage. An invalid
\* answer closes the Step; the gateway may fail for a while.
PersistStrategy(w) ==
  /\ At(w, "model")
  /\ \/ (Retry(w) \/ Goto(w, "spoil")) /\ UNCHANGED review
     \/ ~Running(run) /\ Retry(w) /\ UNCHANGED review
     \/ Running(run) /\ review.step["strategy"] = "failed" /\ Reject(w) /\ UNCHANGED review
     \/ /\ Running(run) /\ review.step["strategy"] # "failed"
        /\ review' = IF review.step["strategy"] = "succeeded" THEN review
                     ELSE [review EXCEPT !.step["strategy"] = "succeeded",
                             !.stage = IF @ = "formulate_search_strategy" THEN "search_arxiv" ELSE @]
        /\ Goto(w, "snapshot")
  /\ UNCHANGED <<setup, run, library>>

\* _fail_step, then the permanent error.
SpoilStrategy(w) ==
  /\ At(w, "spoil")
  /\ IF ~Running(run) THEN Retry(w) /\ UNCHANGED review
     ELSE /\ review' = [review EXCEPT !.step["strategy"] = IF @ = "pending" THEN "failed" ELSE @]
          /\ Reject(w)
  /\ UNCHANGED <<setup, run, library>>

-----------------------------------------------------------------------------
(* ReviewExecutor.execute, up to the Matrix *)

Searched == IF setup.version = "review.v1" THEN "list" ELSE "sources"

\* search_sources: the short locked read, then the search outside of any
\* transaction. A completed search is not repeated.
SearchArxiv(w) == IF review.step["search"] = "succeeded" THEN Goto(w, Searched)
                  ELSE Goto(w, "found") \/ Retry(w)

\* _review_snapshot, and the branch on version, auto_search and the stage. A
\* stage that changes before the locked read makes no difference to it.
ReadSnapshot(w) ==
  /\ At(w, "snapshot")
  /\ CASE setup.version = "review.v1" -> SearchArxiv(w)
       [] setup.version # "review.v1" /\ review.stage # "search_arxiv" -> Goto(w, "sources")
       [] setup.version # "review.v1" /\ review.stage = "search_arxiv" ->
            IF setup.auto THEN SearchArxiv(w) ELSE Goto(w, "advance")
  /\ UNCHANGED <<setup, run, review, library>>

\* Its second transaction: sources, Step, stage and Event, unless another
\* worker was faster. Nothing asks for the status of the Run.
PersistSearch(w, found) ==
  /\ At(w, "found")
  /\ review' = IF review.step["search"] = "succeeded" THEN review
               ELSE [review EXCEPT
                       !.source = [x \in Sources |-> IF x \in found THEN "discovered" ELSE @[x]],
                       !.step["search"] = "succeeded",
                       !.stage = IF @ \in {"formulate_search_strategy", "search_arxiv"}
                                 THEN "import_arxiv_papers" ELSE @]
  /\ Goto(w, Searched)
  /\ UNCHANGED <<setup, run, library>>

\* _advance_to_import, for a Review without a search.
AdvanceToImport(w) ==
  /\ At(w, "advance")
  /\ IF review.stage \notin {"search_arxiv", "import_arxiv_papers"} THEN Retry(w) /\ UNCHANGED review
     ELSE review' = [review EXCEPT !.stage = "import_arxiv_papers"] /\ Goto(w, "sources")
  /\ UNCHANGED <<setup, run, library>>

\* The sources decide what comes next: a selection, the import, or nothing.
\* _source_selection_resolved looks at the latest resolved input.
ReadSources(w) ==
  /\ At(w, "sources")
  /\ IF setup.auto /\ Having({"discovered"}) # {} /\ review.request # "resolved"
     THEN Goto(w, "select")
     ELSE IF Having({"ready", "discovered"}) = {} THEN Reject(w)
     ELSE Goto(w, "list")
  /\ UNCHANGED <<setup, run, review, library>>

-----------------------------------------------------------------------------
(* ReviewSourceSelectionService *)

\* pause: the candidates are stored once and have to be the same when the node
\* is repeated; a worker that finds the Run waiting takes its request.
PauseForSelection(w) ==
  /\ At(w, "select")
  /\ LET candidates == Having({"discovered"})
         stored == review.request # "none"
     IN IF stored /\ review.offered # candidates THEN Reject(w) /\ UNCHANGED <<run, review>>
        ELSE IF run.status = "waiting"
        THEN /\ IF review.request = "open" /\ review.waits = "input" THEN Goto(w, "return")
                ELSE Retry(w)
             /\ UNCHANGED <<run, review>>
        ELSE IF ~Running(run) THEN Retry(w) /\ UNCHANGED <<run, review>>
        ELSE IF review.request = "resolved" THEN Reject(w) /\ UNCHANGED <<run, review>>
        ELSE IF review.stage # "import_arxiv_papers" THEN Retry(w) /\ UNCHANGED <<run, review>>
        ELSE /\ review' = [review EXCEPT !.request = "open", !.offered = candidates,
                                         !.stage = "review_sources", !.waits = "input"]
             /\ run' = Paused(run)
             /\ Goto(w, "return")
  /\ UNCHANGED <<setup, library>>

\* Mutant: only the candidates are counted.
SubmitUncounted(chosen) ==
  /\ review.request = "open" /\ review.stage = "review_sources" /\ run.status = "waiting"
  /\ chosen \subseteq Having({"discovered"}) /\ Cardinality(chosen) \in 1 .. SourceLimit
  /\ review' = [review EXCEPT !.request = "resolved", !.chosen = chosen, !.waits = "none",
                  !.stage = "import_arxiv_papers",
                  !.source = [x \in Sources |-> IF @[x] = "discovered" /\ x \notin chosen
                                                THEN "rejected" ELSE @[x]]]
  /\ run' = Resumed(run)
  /\ UNCHANGED <<setup, library, work>>

\* submit: the request, the HumanInput, the rejected candidates, the stage and
\* the resumed Run in one transaction. A repetition of it changes nothing.
Submit(chosen) ==
  /\ review.request = "open" /\ review.stage = "review_sources" /\ run.status = "waiting"
  /\ chosen \subseteq Having({"discovered"})
  /\ Cardinality(chosen) + Cardinality(Having({"ready"})) \in 1 .. SourceLimit
  /\ review' = [review EXCEPT !.request = "resolved", !.chosen = chosen, !.waits = "none",
                  !.stage = "import_arxiv_papers",
                  !.source = [x \in Sources |-> IF @[x] = "discovered" /\ x \notin chosen
                                                THEN "rejected" ELSE @[x]]]
  /\ run' = Resumed(run)
  /\ UNCHANGED <<setup, library, work>>

-----------------------------------------------------------------------------
(* ArxivProjectImportService.import_sources *)

\* _confirm_cancellation_in_session: candidates that were not started are
\* rejected, and the cancellation is confirmed.
Rejecting(r) ==
  [r EXCEPT !.source = [x \in Sources |-> IF @[x] = "discovered" THEN "rejected" ELSE @[x]]]

\* _confirm_cancel_if_requested, asked between all steps of the import: the
\* executor then returns normally.
ConfirmCancel(w) ==
  /\ work[w].pc \in {"import", "register", "refuse"}
  /\ run.status \in {"cancel_requested", "cancelled"}
  /\ review' = IF run.status = "cancelled" THEN review ELSE Rejecting(review)
  /\ run' = [run EXCEPT !.status = "cancelled"]
  /\ Goto(w, "return")
  /\ UNCHANGED <<setup, library>>

Importing(w) == run.status \notin {"cancel_requested", "cancelled"}

ListSources(w) ==
  /\ At(w, "list")
  /\ work' = [work EXCEPT ![w].pc = "import", ![w].todo = Having({"discovered"}),
                          ![w].ready = Having({"ready"}) # {}]
  /\ UNCHANGED <<setup, run, review, library>>

NextSource(w) == CHOOSE x \in work[w].todo : \A y \in work[w].todo : x <= y

\* One download, with its retries, and the write of the file under the hash of
\* its content, outside of any transaction and before any row names it.
Download(w) ==
  /\ At(w, "import") /\ work[w].todo # {} /\ Importing(w)
  /\ Goto(w, "register") \/ Goto(w, "refuse") \/ Retry(w)
  /\ UNCHANGED <<setup, run, review, library>>

\* A source that became a PaperVersion of the library: READY when its index is.
Bound(x) == IF library[setup.file[x]] = "ready" THEN "ready" ELSE "importing"

\* Mutant: the status of the source is not read again.
RegisterTwice(w) ==
  /\ At(w, "register") /\ Importing(w)
  /\ LET x == NextSource(w)
         f == setup.file[x]
     IN /\ review' = [review EXCEPT !.source[x] = Bound(x)]
        /\ library' = [library EXCEPT ![f] = IF @ = "none" THEN "active" ELSE @]
        /\ work' = [work EXCEPT ![w].pc = "import", ![w].todo = @ \ {x}]
  /\ UNCHANGED <<setup, run>>

\* _register_download: under the locks of the Run, the source and the hash, the
\* PaperVersion of the file is found or created with its ingestion Run. (A paper
\* that was archived is refused like a failed download.)
RegisterDownload(w) ==
  /\ At(w, "register") /\ Importing(w)
  /\ LET x == NextSource(w)
         f == setup.file[x]
         next == [work EXCEPT ![w].pc = "import", ![w].todo = @ \ {x}]
     IN IF review.source[x] # "discovered"
        THEN /\ work' = [next EXCEPT ![w].ready = @ \/ review.source[x] = "ready"]
             /\ UNCHANGED <<review, library>>
        ELSE /\ review' = [review EXCEPT !.source[x] = Bound(x)]
             /\ library' = [library EXCEPT ![f] = IF @ = "none" THEN "active" ELSE @]
             /\ work' = [next EXCEPT ![w].ready = @ \/ Bound(x) = "ready"]
  /\ UNCHANGED <<setup, run>>

\* _confirm_cancel_if_requested found nothing before a source is marked or the
\* import completed; what follows does not ask again.
PassCheck(w) ==
  /\ Importing(w)
  /\ \/ At(w, "refuse") /\ Goto(w, "mark")
     \/ At(w, "import") /\ work[w].todo = {} /\ Goto(w, "complete")
  /\ UNCHANGED <<setup, run, review, library>>

\* _mark_source_failed: the download failed for good.
MarkSourceFailed(w) ==
  /\ At(w, "mark")
  /\ LET x == NextSource(w)
     IN /\ review' = [review EXCEPT !.source[x] = IF @ = "discovered" THEN "failed" ELSE @]
        /\ work' = [work EXCEPT ![w].pc = "import", ![w].todo = @ \ {x}]
  /\ UNCHANGED <<setup, run, library>>

\* _complete_import: Step, Event, and the stage when nothing is left to wait for.
CompleteImport(w) ==
  /\ At(w, "complete")
  /\ review' = IF review.step["import"] = "succeeded" THEN review
               ELSE [review EXCEPT !.step["import"] = "succeeded",
                       !.stage = IF /\ @ = "import_arxiv_papers" /\ work[w].ready
                                    /\ Having({"discovered", "importing"}) = {}
                                 THEN "build_evidence_matrix" ELSE @]
  /\ Goto(w, "check")
  /\ UNCHANGED <<setup, run, library>>

-----------------------------------------------------------------------------
(* The wait for the ingestion *)

\* _is_running and the sources once more: wait, give up, or go on.
Decide(w) ==
  /\ At(w, "check")
  /\ IF ~Running(run) THEN Goto(w, "return")
     ELSE IF Having({"discovered", "importing"}) # {} THEN Goto(w, "wait")
     ELSE IF Having({"ready"}) = {} THEN Reject(w)
     ELSE Goto(w, "matrix")
  /\ UNCHANGED <<setup, run, review, library>>

\* ReviewDependencyWaitService.pause.
PauseForDependency(w) ==
  /\ At(w, "wait")
  /\ IF /\ review.step["wait"] \in {"pending", "paused"} /\ Running(run)
        /\ review.stage \in {"search_arxiv", "import_arxiv_papers", "wait_for_ingestion"}
     THEN /\ review' = [review EXCEPT !.step["wait"] = "paused", !.stage = "wait_for_ingestion",
                                      !.waits = "dependency"]
          /\ run' = Paused(run)
          /\ Goto(w, "return")
     ELSE Retry(w) /\ UNCHANGED <<run, review>>
  /\ UNCHANGED <<setup, library>>

\* _evaluate_source for an IMPORTING source: the chain of version, ingestion
\* Run, revision, indexing Run and chunk set decides.
Evaluated(x, status) ==
  CASE status = "importing" /\ library[setup.file[x]] = "ready" -> "ready"
    [] status = "importing" /\ library[setup.file[x]] = "failed" -> "failed"
    [] OTHER -> status

\* The sources after a look at each; a candidate nobody imported has no version
\* to evaluate and fails.
ReconciledSources ==
  [x \in Sources |-> IF review.source[x] = "discovered" THEN "failed"
                     ELSE Evaluated(x, review.source[x])]

\* _complete_wait_step_and_advance_stage. (A Step that succeeded before has to
\* have counted the same.)
WaitCompleted(r) ==
  [r EXCEPT !.step["wait"] = "succeeded",
            !.stage = IF @ \in {"import_arxiv_papers", "wait_for_ingestion"}
                      THEN "build_evidence_matrix" ELSE @]

\* reconcile_run on a Run that waits for papers: the sources, and when all are
\* settled the resumed or failed Run.
Reconcile ==
  /\ run.status = "waiting" /\ review.waits = "dependency"
  /\ LET source == ReconciledSources
         settled == \A x \in Sources : source[x] \in Settled \cup {"none"}
         enough == Cardinality({x \in Sources : source[x] = "ready"}) >= MinimumReady
         next == [review EXCEPT !.source = source]
     IN \/ ~settled /\ source # review.source /\ review' = next /\ UNCHANGED run
        \/ /\ settled /\ enough /\ review.step["wait"] # "failed"
           /\ review' = [WaitCompleted(next) EXCEPT !.waits = "none"]
           /\ run' = Resumed(run)
        \/ /\ settled /\ ~enough
           /\ review' = [next EXCEPT !.waits = "none"]
           /\ run' = [run EXCEPT !.status = "failed"]
  /\ UNCHANGED <<setup, library, work>>

\* list_dependency_reconcile_run_ids: cancelled Runs are looked at as long as
\* they have sources that are not settled.
Unsettled == Having({"discovered", "importing"})

\* Mutant: sources of a cancelled Run are forgotten.
ReconcileCancelRequested ==
  /\ run.status = "cancel_requested" /\ Unsettled # {}
  /\ run' = [run EXCEPT !.status = "cancelled"]
  /\ UNCHANGED <<setup, review, library, work>>

\* reconcile_run on a cancelled Run with sources that are not settled.
ReconcileCancelled ==
  /\ run.status \in {"cancel_requested", "cancelled"} /\ Unsettled # {}
  /\ review' = [Rejecting(review) EXCEPT
                  !.source = [x \in Sources |-> Evaluated(x, @[x])], !.waits = "none"]
  /\ run' = [run EXCEPT !.status = "cancelled"]
  /\ UNCHANGED <<setup, library, work>>

\* The papers of the library are parsed and indexed, or not, or their ingestion
\* is cancelled: PaperPipeline. Nothing says that it ends.
Outcomes == [active |-> {"ready", "failed", "cancelling"}, cancelling |-> {"failed"}]

Ingest(f, outcome) ==
  /\ library[f] \in DOMAIN Outcomes /\ outcome \in Outcomes[library[f]]
  /\ library' = [library EXCEPT ![f] = outcome]
  /\ UNCHANGED <<setup, run, review, work>>

\* _load_contexts of the Matrix refuses sources that are one paper; otherwise
\* the rest of the Review: it succeeds, fails, or is tried again.
Write(w) ==
  /\ At(w, "matrix")
  /\ LET ready == Having({"ready"})
         distinct == \A x, y \in ready : setup.file[x] = setup.file[y] => x = y
     IN \/ (~Running(run) \/ distinct) /\ Retry(w) /\ UNCHANGED run
        \/ Running(run) /\ Reject(w) /\ UNCHANGED run
        \/ Running(run) /\ distinct /\ run' = Succeeded(run) /\ Goto(w, "return")
  /\ UNCHANGED <<setup, review, library>>

-----------------------------------------------------------------------------
Step(w) ==
  \/ LoadStrategy(w) \/ PersistStrategy(w) \/ SpoilStrategy(w) \/ ReadSnapshot(w)
  \/ (\E found \in SUBSET Candidates : PersistSearch(w, found))
  \/ AdvanceToImport(w) \/ ReadSources(w) \/ PauseForSelection(w)
  \/ ListSources(w) \/ ConfirmCancel(w) \/ Download(w) \/ RegisterDownload(w)
  \/ PassCheck(w) \/ MarkSourceFailed(w) \/ CompleteImport(w)
  \/ Decide(w) \/ PauseForDependency(w) \/ Write(w)
  \/ Fail(w) \/ Return(w)

IngestSome == \E f \in Sources, o \in {"ready", "failed", "cancelling"} : Ingest(f, o)

Next ==
  \/ \E w \in Workers : Start(w) \/ Step(w) \/ Crash(w)
  \/ \E chosen \in SUBSET Candidates : Submit(chosen)
  \/ Cancel \/ Reclaim \/ Reconcile \/ ReconcileCancelled \/ IngestSome

\* Workers go on until they crash, and both reconcilers run periodically. The
\* queue may forget a Run, an ingestion need not end, and nobody has to select
\* sources.
Fairness ==
  /\ \A w \in Workers : WF_vars(Step(w))
  /\ WF_vars(Reclaim) /\ WF_vars(Reconcile) /\ WF_vars(ReconcileCancelled)

Spec == Init /\ [][Next]_vars /\ Fairness

-----------------------------------------------------------------------------
(* Properties *)

\* In version 2 a candidate is downloaded only if the person selected it, and
\* the sources that go on are never more than source_limit, whatever stale
\* workers listed before the selection (submit against import_sources).
OnlySelectedImported ==
  setup.version = "review.v2" =>
    /\ \A c \in Candidates : review.source[c] \in {"importing", "ready", "failed"}
         => c \in review.chosen
    /\ Cardinality(Having({"importing", "ready"})) <= SourceLimit

\* A settled source is settled for good, and no source is forgotten.
SettledIsFinal ==
  [][\A x \in Sources : /\ review.source[x] \in Settled => review'.source[x] = review.source[x]
                        /\ review.source[x] # "none" => review'.source[x] # "none"]_vars

\* A source whose ingestion or indexing Run is in _ACTIVE_CHILD_STATUSES.
Ingesting == \E x \in Having({"importing"}) : library[setup.file[x]] \in DOMAIN Outcomes
Waits == run.status = "waiting" /\ review.waits = "dependency"

\* A wait for papers has no other obstacle than a paper whose ingestion never
\* ends, be it that the queue forgot it or that it stays CANCEL_REQUESTED:
\* unless there is one, every wait ends, with the Run resumed, failed or
\* cancelled, and the sources of a cancelled Run are settled in the end, also
\* those that a late worker added (reconcile_run of waiting and cancelled Runs).
WaitsEnd ==
  \/ <>[]Ingesting
  \/ (Waits ~> ~Waits) /\ (run.status = "cancelled" ~> Having({"discovered", "importing"}) = {})
=============================================================================
