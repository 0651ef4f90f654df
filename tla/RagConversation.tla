--------------------------- MODULE RagConversation ---------------------------
(***************************************************************************)
(* A conversation about the papers of a Project: the questions people post *)
(* (ConversationService), the rag_answer Run that answers each of them     *)
(* (RagAnswerExecutor with Retriever, EvidenceService and the citation     *)
(* validator), and the changes of Project and library meanwhile            *)
(* (ProjectService, PaperService, ProjectLibraryService).                  *)
(*                                                                         *)
(* A question fixes the versions it is about when it is posted. Retrieval  *)
(* and model are called between transactions that lock the Run, ask for a  *)
(* requested cancellation and, in the last one, for RUNNING. active_run_id *)
(* keeps a conversation to one question at a time; it is written by posts, *)
(* by the executor of any Attempt, but not when a Run ends elsewhere.      *)
(*                                                                         *)
(* A version stands for its one chunk, its Evidence and the citations of   *)
(* it; a request stands for the Run that it creates.                       *)
(***************************************************************************)
EXTENDS RunRow, Sequences, FiniteSets

CONSTANTS
  Workers,      \* the places in which Runs may be executed at once: 1 .. n
  Requests,     \* the HTTP requests that post a question: 1 .. n
  Papers,       \* the papers of the owner
  MaxVersion,   \* the versions of each of them: 1 .. MaxVersion
  MaxChanges    \* bound on the changes of Project and library

ASSUME ConversationAssumption ==
  /\ Workers \subseteq Nat /\ Requests \subseteq Nat \ {0}
  /\ MaxVersion \in Nat \ {0} /\ MaxChanges \in Nat

VARIABLES
  key,            \* the Idempotency-Key of each request
  project,        \* the Project row and the library behind it
  conversation,   \* the conversation: its mode and scope, and the active Run
  messages,       \* its messages in the order of their sequence
  record,         \* the idempotency records: the Run by key
  post,           \* what each request does, and what it has read
  run,            \* the rows of the Runs
  result,         \* what belongs to a Run: snapshot, Evidence and ClaimSet
  work            \* what each worker does

vars == <<key, project, conversation, messages, record, post, run, result, work>>

-----------------------------------------------------------------------------
Versions == Papers \X (1 .. MaxVersion)
RunIds == Requests \cup {0}

\* selected: selected_version_id of a ProjectPaper, 0 if there is none; ready:
\* the versions with a READY ChunkSet; archiving: archive_project has found no
\* active Run.
Project == [archived: BOOLEAN, archiving: BOOLEAN, selected: [Papers -> 0 .. MaxVersion],
            shelved: SUBSET Papers, ready: SUBSET Versions, changes: Nat]
Collected == {v \in Versions : project.selected[v[1]] = v[2]}

Conversation == [mode: {"none", "project", "selected_papers"}, scope: SUBSET Versions,
                 active: RunIds]
Message == [role: {"user", "assistant"}, run: Requests]

\* seen: active_run_id; number: max_sequence + 1; reply: the Run of the answer.
Post == [pc: {"new", "write", "answered", "refused"}, seen: RunIds, number: Nat,
         snapshot: SUBSET Versions, reply: RunIds]
NewPost == [pc |-> "new", seen |-> 0, number |-> 0, snapshot |-> {}, reply |-> 0]

NoRun == [status |-> "none", attempts |-> 0, open |-> FALSE]
\* The row of a ClaimSet with the citations of its claims.
ClaimSet == [status: {"answered", "insufficient_evidence"}, cites: SUBSET Versions]
NoClaims == [status |-> "none", cites |-> {}]
Insufficient == [status |-> "insufficient_evidence", cites |-> {}]
Result == [snapshot: SUBSET Versions, evidence: SUBSET Versions,
           claims: ClaimSet \cup {NoClaims}]
NoResult == [snapshot |-> {}, evidence |-> {}, claims |-> NoClaims]

Pcs == {"idle", "search", "evidence", "model", "commit", "failing", "raise", "return"}
\* found: the results, later their Evidence; output: what passed validation.
Work == [pc: Pcs, run: RunIds, attempt: Nat, found: SUBSET Versions,
         output: ClaimSet \cup {NoClaims}]
Idle == [pc |-> "idle", run |-> 0, attempt |-> 0, found |-> {}, output |-> NoClaims]

TypeOK ==
  /\ key \in [Requests -> Requests]
  /\ project \in Project
  /\ conversation \in Conversation
  /\ messages \in Seq(Message)
  /\ record \in [Requests -> RunIds]
  /\ post \in [Requests -> Post]
  /\ run \in [Requests -> RunRow \cup {NoRun}]
  /\ result \in [Requests -> Result]
  /\ work \in [Workers -> Work]

Init ==
  /\ key \in {k \in [Requests -> Requests] : \A r \in Requests : k[r] <= r /\ k[k[r]] = k[r]}
  /\ \E ready \in {{}, Versions} :
       project = [archived |-> FALSE, archiving |-> FALSE, selected |-> [p \in Papers |-> 1],
                  shelved |-> {}, ready |-> ready, changes |-> 0]
  /\ conversation = [mode |-> "none", scope |-> {}, active |-> 0]
  /\ messages = <<>>
  /\ record = [r \in Requests |-> 0]
  /\ post = [r \in Requests |-> NewPost]
  /\ run = [r \in Requests |-> NoRun]
  /\ result = [r \in Requests |-> NoResult]
  /\ work = [w \in Workers |-> Idle]

-----------------------------------------------------------------------------
(* ProjectService, PaperService and ProjectLibraryService. Each refuses an   *)
(* archived Project; only archive_project looks at the Runs, without a lock. *)

Talk == <<key, conversation, messages, record, post, run, result, work>>
Exists(r) == run[r].status # "none"
Active(r) == Exists(r) /\ run[r].status \notin Terminal

Turned(p) == project' = p /\ UNCHANGED Talk
\* What can be undone is counted, undoing it is not.
Changed(p) == project.changes < MaxChanges /\ Turned([p EXCEPT !.changes = @ + 1])

\* has_active_runs, and the write after it.
CheckArchive ==
  /\ ~project.archived /\ ~project.archiving /\ \A r \in Requests : ~Active(r)
  /\ Changed([project EXCEPT !.archiving = TRUE])

ArchiveProject ==
  project.archiving /\ Turned([project EXCEPT !.archived = TRUE, !.archiving = FALSE])

RestoreProject == project.archived /\ Turned([project EXCEPT !.archived = FALSE])

ArchivePaper(p) ==
  p \notin project.shelved /\ Changed([project EXCEPT !.shelved = @ \cup {p}])

RestorePaper(p) == p \in project.shelved /\ Turned([project EXCEPT !.shelved = @ \ {p}])

AddExistingPaper(p, n) ==
  /\ ~project.archived /\ p \notin project.shelved /\ project.selected[p] = 0
  /\ Turned([project EXCEPT !.selected[p] = n])

RemovePaper(p) ==
  /\ ~project.archived /\ project.selected[p] # 0
  /\ Changed([project EXCEPT !.selected[p] = 0])

\* An indexing Run has succeeded, or a late one of an earlier Attempt has made a
\* READY ChunkSet into one that is not (PaperPipeline).
Index(v) ==
  \E ready \in {project.ready \cup {v}, project.ready \ {v}} :
    ready # project.ready /\ Changed([project EXCEPT !.ready = ready])

LibraryStep ==
  \/ CheckArchive \/ ArchiveProject \/ RestoreProject
  \/ \E p \in Papers : ArchivePaper(p) \/ RestorePaper(p) \/ RemovePaper(p)
                       \/ \E n \in 1 .. MaxVersion : AddExistingPaper(p, n)
  \/ \E v \in Versions : Index(v)

-----------------------------------------------------------------------------
(* ConversationService *)

\* _resolve_selected_scope: papers of the Project that are not archived, each
\* with its selected version.
SelectedScope(papers) == {v \in Collected : v[1] \in papers}

CreateConversation ==
  /\ conversation.mode = "none" /\ ~project.archived
  /\ \/ conversation' = [conversation EXCEPT !.mode = "project"]
     \/ \E papers \in SUBSET Papers \ {{}} :
          /\ \A p \in papers : project.selected[p] # 0 /\ p \notin project.shelved
          /\ conversation' = [conversation EXCEPT !.mode = "selected_papers",
                                                  !.scope = SelectedScope(papers)]
  /\ UNCHANGED <<key, project, messages, record, post, run, result, work>>

\* _resolve_snapshot: a Project is taken as it is now, a selection as it was.
Snapshot == IF conversation.mode = "project" THEN Collected ELSE conversation.scope

Refuse(r) == post' = [post EXCEPT ![r] = [NewPost EXCEPT !.pc = "refused"]]

\* The checks of post_message: a known key is answered from its record, a busy
\* conversation, an archived Project and a scope without an index are refused.
ReadPost(r) ==
  /\ post[r].pc = "new" /\ conversation.mode # "none"
  /\ \/ /\ record[key[r]] # 0
        /\ post' = [post EXCEPT ![r].pc = "answered", ![r].reply = record[key[r]]]
     \/ /\ record[key[r]] = 0
        /\ \/ project.archived
           \/ conversation.active # 0 /\ Active(conversation.active)
           \/ Snapshot \cap project.ready = {}
        /\ Refuse(r)
     \/ /\ record[key[r]] = 0 /\ ~project.archived
        /\ conversation.active # 0 => ~Active(conversation.active)
        /\ Snapshot \cap project.ready # {}
        /\ post' = [post EXCEPT ![r] = [pc |-> "write", seen |-> conversation.active,
                      number |-> Len(messages) + 1, snapshot |-> Snapshot, reply |-> 0]]
  /\ UNCHANGED <<key, project, conversation, messages, record, run, result, work>>

\* The claim is released if it is still the one of a finished Run.
Released(r) == [conversation EXCEPT !.active = IF @ = r THEN 0 ELSE @]

\* The writes of post_message, one transaction: release, try_claim_active_run
\* where no Run is active, and rows that are unique by number and by key.
Claimable(r) == post[r].seen = conversation.active \/ conversation.active = 0
Insertable(r) == post[r].number = Len(messages) + 1 /\ record[key[r]] = 0

\* Mutant: the idempotency record is not written.
QuestionUnrecorded(r) ==
  /\ conversation' = [conversation EXCEPT !.active = r]
  /\ run' = [run EXCEPT ![r] = NewRun]
  /\ result' = [result EXCEPT ![r].snapshot = post[r].snapshot]
  /\ messages' = Append(messages, [role |-> "user", run |-> r])
  /\ post' = [post EXCEPT ![r] = [NewPost EXCEPT !.pc = "answered", !.reply = r]]
  /\ UNCHANGED record

Question(r) ==
  /\ conversation' = [conversation EXCEPT !.active = r]
  /\ run' = [run EXCEPT ![r] = NewRun]
  /\ result' = [result EXCEPT ![r].snapshot = post[r].snapshot]
  /\ messages' = Append(messages, [role |-> "user", run |-> r])
  /\ record' = [record EXCEPT ![key[r]] = r]
  /\ post' = [post EXCEPT ![r] = [NewPost EXCEPT !.pc = "answered", !.reply = r]]

WritePost(r) ==
  /\ post[r].pc = "write"
  /\ IF Claimable(r) /\ Insertable(r) THEN Question(r)
     ELSE Refuse(r) /\ UNCHANGED <<conversation, messages, record, run, result>>
  /\ UNCHANGED <<key, project, work>>

-----------------------------------------------------------------------------
(* RunExecutionService, RunService and RunReconcileService; none of them     *)
(* knows the conversation.                                                   *)

Ours == <<key, project, conversation, messages, record, post, result>>
At(w, pc) == work[w].pc = pc
Goto(w, pc) == work' = [work EXCEPT ![w].pc = pc]
\* The executor is done: its results are forgotten.
Leave(w, pc) ==
  work' = [work EXCEPT ![w] = [Idle EXCEPT !.pc = pc, !.run = work[w].run,
                                           !.attempt = work[w].attempt]]
Row(w) == run[work[w].run]
SetRow(w, row) == run' = [run EXCEPT ![work[w].run] = row]

Start(w, r) ==
  /\ At(w, "idle") /\ \A v \in Workers : At(v, "idle") => w <= v
  /\ run[r].status = "queued"
  /\ run' = [run EXCEPT ![r] = Started(run[r])]
  /\ work' = [work EXCEPT ![w] = [Idle EXCEPT !.pc = "search", !.run = r,
                                              !.attempt = run[r].attempts + 1]]
  /\ UNCHANGED Ours

Cancel(r) ==
  /\ Exists(r) /\ Cancellable(run[r])
  /\ run' = [run EXCEPT ![r] = Cancelled(run[r])]
  /\ UNCHANGED <<Ours, work>>

Reclaim(r) ==
  /\ Reclaimable(run[r])
  /\ \E final \in BOOLEAN : run' = [run EXCEPT ![r] = Reclaimed(run[r], final)]
  /\ UNCHANGED <<Ours, work>>

Crash(w) ==
  /\ ~At(w, "idle")
  /\ work' = [work EXCEPT ![w] = Idle]
  /\ UNCHANGED <<Ours, run>>

Return(w) ==
  /\ At(w, "return")
  /\ SetRow(w, Closed(Row(w), work[w].attempt))
  /\ work' = [work EXCEPT ![w] = Idle]
  /\ UNCHANGED Ours

\* The executor let an exception through: InvalidRunTransitionError, which is
\* not permanent.
Fail(w) ==
  /\ At(w, "raise")
  /\ \E final \in Finality(FALSE) : SetRow(w, FailedRun(Row(w), work[w].attempt, final))
  /\ work' = [work EXCEPT ![w] = Idle]
  /\ UNCHANGED Ours

-----------------------------------------------------------------------------
(* RagAnswerExecutor. An action is one transaction together with the calls   *)
(* before it, which touch nothing that is shared. _begin_retrieval and       *)
(* _begin_generation write an Event and end a cancelled Run, as the next     *)
(* transaction does: they are part of its action.                            *)

Rest == <<key, project, messages, record, post>>

\* _finalize_if_cancelled, at the head of a transaction
Requested(w) == Row(w).status = "cancel_requested"
Finalize(w) ==
  /\ SetRow(w, [Row(w) EXCEPT !.status = "cancelled"])
  /\ conversation' = Released(work[w].run)
  /\ Leave(w, "return")

\* A transaction that writes a progress Event, whatever the status of the Run,
\* and goes on with the given work.
Progress(w, next) ==
  IF Requested(w) THEN Finalize(w)
  ELSE work' = [work EXCEPT ![w] = next] /\ UNCHANGED <<run, conversation>>

\* _apply_failure: the claim is released when no retry follows. A Run that is
\* not RUNNING, one with a requested cancellation too, is left alone.
ApplyFailure(w, permanent) ==
  \E final \in Finality(permanent) :
    LET row == AfterFailure(Row(w), final)
    IN /\ SetRow(w, row)
       /\ conversation' = IF Running(Row(w)) /\ row.status = "failed"
                          THEN Released(work[w].run) ELSE conversation
       /\ Leave(w, "return")

\* _snapshot_select: the chunks of READY ChunkSets of the snapshot.
Searchable(r) == result[r].snapshot \cap project.ready
\* retrieve_for_scope and _merge_and_rank: some of them, or none.
Retrieved(r) == SUBSET Searchable(r)

\* _begin_retrieval, retrieval and _complete_retrieval. The query vector may not
\* be had. Without results the model is not asked.
Search(w) ==
  /\ At(w, "search")
  /\ \/ \E found \in Retrieved(work[w].run) :
          Progress(w, [work[w] EXCEPT !.found = found, !.output = Insufficient,
                                      !.pc = IF found = {} THEN "commit" ELSE "evidence"])
     \/ \E permanent \in BOOLEAN : ApplyFailure(w, permanent)
  /\ UNCHANGED <<Rest, result>>

\* get_or_add_many: what the Run has is kept (unique by Run and chunk), also
\* when another Attempt wrote it.
WithEvidence(r, found) == [result EXCEPT ![r].evidence = @ \cup found]

\* commit_evidence; the transaction may fail.
CommitEvidence(w) ==
  /\ At(w, "evidence")
  /\ LET inScope == work[w].found \subseteq result[work[w].run].snapshot
     IN \/ /\ inScope
           /\ result' = WithEvidence(work[w].run, work[w].found)
           /\ Goto(w, "model")
           /\ UNCHANGED <<run, conversation>>
        \/ ApplyFailure(w, ~inScope) /\ UNCHANGED result
  /\ UNCHANGED Rest

\* Mutant: the cited Evidence is not looked up.
ValidUnchecked(output, evidence) ==
  output = Insufficient \/ (output.status = "answered" /\ output.cites # {})

\* validate_citations: an answer cites, and only Evidence of this retrieval;
\* without evidence nothing is claimed.
Valid(output, evidence) ==
  \/ output = Insufficient
  \/ output.status = "answered" /\ output.cites # {} /\ output.cites \subseteq evidence

\* parse_rag_answer_output looks at the shape only: status and citations need
\* not fit, and a model may invent citations.
Drafts == ClaimSet

\* _fail_invalid_output: an Event if the Run is RUNNING, then the failure.
FailInvalidOutput(w) ==
  /\ Leave(w, IF Running(Row(w)) THEN "failing" ELSE "return")
  /\ UNCHANGED <<run, conversation>>

\* _generate_and_validate: the model may fail, answer or invent. An output that
\* does not parse or is not valid is repaired once; the second one fails the Run.
Generate(w) ==
  /\ At(w, "model")
  /\ \/ \E permanent \in BOOLEAN : ApplyFailure(w, permanent)
     \/ \E output \in Drafts :
          /\ Valid(output, work[w].found)
          /\ Progress(w, [work[w] EXCEPT !.pc = "commit", !.found = {}, !.output = output])
     \/ FailInvalidOutput(w)
  /\ UNCHANGED <<Rest, result>>

InvalidOutput(w) ==
  /\ At(w, "failing")
  /\ ApplyFailure(w, TRUE)
  /\ UNCHANGED <<Rest, result>>

\* Mutant: the answer of a Run that has ended meanwhile is kept.
CommitAnswerLate(w) ==
  /\ At(w, "commit")
  /\ result' = [result EXCEPT ![work[w].run].claims = work[w].output]
  /\ messages' = Append(messages, [role |-> "assistant", run |-> work[w].run])
  /\ conversation' = Released(work[w].run)
  /\ SetRow(w, Succeeded(Row(w)))
  /\ Leave(w, "return")
  /\ UNCHANGED <<key, project, record, post>>

\* get_or_add_claim_set: a Run has one ClaimSet.
WithClaims(r, output) == [result EXCEPT ![r].claims = IF @ = NoClaims THEN output ELSE @]

\* _commit_answer: ClaimSet, message, release and SUCCEEDED in one transaction.
\* A Run that is not RUNNING refuses the transition and rolls all back.
CommitAnswer(w) ==
  /\ At(w, "commit")
  /\ LET r == work[w].run
     IN \/ Requested(w) /\ Finalize(w) /\ UNCHANGED <<messages, result>>
        \/ /\ Running(run[r])
           /\ result' = WithClaims(r, work[w].output)
           /\ messages' = IF result[r].claims = NoClaims
                          THEN Append(messages, [role |-> "assistant", run |-> r])
                          ELSE messages
           /\ conversation' = Released(r)
           /\ SetRow(w, Succeeded(run[r]))
           /\ Leave(w, "return")
        \/ /\ ~Requested(w) /\ ~Running(run[r])
           /\ Leave(w, "raise")
           /\ UNCHANGED <<messages, result, conversation, run>>
  /\ UNCHANGED <<key, project, record, post>>

-----------------------------------------------------------------------------
Step(w) ==
  \/ Search(w) \/ CommitEvidence(w) \/ Generate(w) \/ InvalidOutput(w) \/ CommitAnswer(w)
  \/ Return(w) \/ Fail(w)

Next ==
  \/ LibraryStep \/ CreateConversation
  \/ \E r \in Requests : ReadPost(r) \/ WritePost(r) \/ Cancel(r) \/ Reclaim(r)
  \/ \E w \in Workers : Step(w) \/ Crash(w) \/ \E r \in Requests : Start(w, r)

Spec == Init /\ [][Next]_vars

-----------------------------------------------------------------------------
(* Properties *)

\* A conversation reads as question and answer: an answer stands directly
\* behind its question, exactly if the Run has succeeded, and comes with its
\* ClaimSet (_commit_answer is one transaction; posts wait for the Run). A Run
\* that has not ended is the active one of its conversation, whoever posts,
\* cancels, retries or wakes up late (try_claim_active_run and the conditional
\* release_active_run): there is never a second one.
AnswersFollow ==
  /\ \A r \in Requests : Active(r) => conversation.active = r
  /\ \A i \in DOMAIN messages : messages[i].role = "assistant" =>
       i > 1 /\ messages[i - 1] = [role |-> "user", run |-> messages[i].run]
  /\ \A r \in Requests :
       LET answers == {i \in DOMAIN messages : messages[i] = [role |-> "assistant", run |-> r]}
       IN /\ Cardinality(answers) = IF run[r].status = "succeeded" THEN 1 ELSE 0
          /\ answers # {} <=> result[r].claims # NoClaims

\* Every citation leads to Evidence of its own Run, and that to a version the
\* question was about when it was posted, whatever left or entered the Project
\* since and whichever Attempt retrieved it.
CitationsInScope ==
  \A r \in Requests : LET x == result[r] IN
    /\ x.claims.cites \subseteq x.evidence /\ x.evidence \subseteq x.snapshot
    /\ x.claims.status = "answered" <=> x.claims.cites # {}

\* A request that is repeated under its key is the same question: one Run, one
\* message, and every copy that is answered is told the same Run. A copy that
\* overlaps with the first is refused (reply = 0) if it does not find the record.
OneQuestionPerKey ==
  \A r, s \in Requests : key[r] = key[s] =>
    /\ Exists(r) /\ Exists(s) => r = s
    /\ post[r].reply # 0 /\ post[s].reply # 0 => post[r].reply = post[s].reply
=============================================================================
