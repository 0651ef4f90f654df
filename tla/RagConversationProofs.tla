------------------------- MODULE RagConversationProofs -------------------------
(***************************************************************************)
(* Proofs about RagConversation, for any number of workers, requests,      *)
(* papers, versions and changes of the library.                            *)
(***************************************************************************)
EXTENDS RagConversation, FiniteSetTheorems, TLAPS

-----------------------------------------------------------------------------
(* The inductive invariant *)

\* A record names the Run of its key, and every reply is the recorded one.
RecordsName ==
  \A r \in Requests :
    /\ Exists(r) => record[key[r]] = r
    /\ post[r].reply # 0 => post[r].reply = record[key[r]]

\* At most the Run that the conversation names is active, and what a post has
\* seen there has ended for good.
OneActive ==
  /\ \A r \in Requests : Active(r) => conversation.active = r
  /\ conversation.active # 0 => Exists(conversation.active)
  /\ \A r \in Requests : post[r].pc = "write" /\ post[r].seen # 0 =>
       Exists(post[r].seen) /\ ~Active(post[r].seen)

\* The thread ends with the question of the active Run. An answer stands behind
\* its question, is the only one of its Run, and belongs to a ClaimSet; only a
\* Run that succeeded has one.
ThreadFollows ==
  /\ \A r \in Requests : Active(r) =>
       Len(messages) > 0 /\ messages[Len(messages)] = [role |-> "user", run |-> r]
  /\ \A i \in DOMAIN messages : messages[i].role = "assistant" =>
       /\ i > 1 /\ messages[i - 1] = [role |-> "user", run |-> messages[i].run]
       /\ result[messages[i].run].claims # NoClaims
  /\ \A i, j \in DOMAIN messages :
       messages[i].role = "assistant" /\ messages[j] = messages[i] => i = j
  /\ \A r \in Requests : result[r].claims # NoClaims =>
       \E i \in DOMAIN messages : messages[i] = [role |-> "assistant", run |-> r]
  /\ \A r \in Requests : run[r].status = "succeeded" <=> result[r].claims # NoClaims

\* A worker executes a Run that exists; the model sees Evidence of that Run, and
\* what is about to be committed cites nothing else.
WorkFollows(w) ==
  /\ work[w].pc # "idle" => work[w].run \in Requests /\ Exists(work[w].run)
  /\ work[w].pc = "model" => work[w].found \subseteq result[work[w].run].evidence
  /\ work[w].pc = "commit" =>
       /\ work[w].output \in ClaimSet
       /\ work[w].output.cites \subseteq result[work[w].run].evidence
       /\ work[w].output.status = "answered" <=> work[w].output.cites # {}

\* Nothing belongs to a Run that does not exist.
ResultsFollow ==
  /\ \A r \in Requests : ~Exists(r) => result[r] = NoResult
  /\ CitationsInScope

ConversationInv ==
  /\ TypeOK /\ RecordsName /\ OneActive /\ ThreadFollows /\ ResultsFollow
  /\ \A w \in Workers : WorkFollows(w)

-----------------------------------------------------------------------------
(* The row of a Run *)

\* What a row may become outside the transaction that creates a Run and the one
\* that lets it succeed: it stays a row, it does not leave a terminal status,
\* and it does not succeed.
Moved(old, new) ==
  /\ new \in RunRow
  /\ old.status \in Terminal => new.status = old.status
  /\ new.status = "succeeded" => old.status = "succeeded"

\* Every move of a row is of that kind.
LEMMA RowMoves ==
  ASSUME NEW row \in RunRow
  PROVE  /\ Moved(row, row)
         /\ row.status = "queued" => Moved(row, Started(row))
         /\ Cancellable(row) => Moved(row, Cancelled(row))
         /\ \A final \in BOOLEAN : Reclaimable(row) => Moved(row, Reclaimed(row, final))
         /\ \A final \in BOOLEAN : Moved(row, AfterFailure(row, final))
         /\ \A attempt : Moved(row, Closed(row, attempt))
         /\ \A attempt : \A final \in BOOLEAN : Moved(row, FailedRun(row, attempt, final))
         /\ row.status = "cancel_requested" => Moved(row, [row EXCEPT !.status = "cancelled"])
<1> USE DEF RunRow, RowStatus, Terminal, Moved
<1>1. Moved(row, row) /\ (row.status = "queued" => Moved(row, Started(row)))
  BY DEF Started
<1>2. Cancellable(row) => Moved(row, Cancelled(row))
  BY DEF Cancellable, Cancelled, Running
<1>3. \A final \in BOOLEAN : Moved(row, AfterFailure(row, final))
  BY DEF AfterFailure, Running
<1>4. ASSUME NEW old \in RunRow, NEW attempt
      PROVE  Closed(old, attempt) \in RunRow /\ Closed(old, attempt).status = old.status
  BY DEF Closed
<1>5. \A attempt : Moved(row, Closed(row, attempt))
  BY <1>4
<1>6. \A attempt : \A final \in BOOLEAN : Moved(row, FailedRun(row, attempt, final))
  BY <1>1, <1>3, <1>4 DEF FailedRun
<1>7. \A final \in BOOLEAN : Reclaimable(row) => Moved(row, Reclaimed(row, final))
  <2>1. \A final \in BOOLEAN : AfterFailure(row, final) \in RunRow
    BY <1>3
  <2> QED
    BY <1>3, <2>1 DEF Reclaimable, Reclaimed, Running
<1>8. row.status = "cancel_requested" => Moved(row, [row EXCEPT !.status = "cancelled"])
  OBVIOUS
<1> QED
  BY <1>1, <1>2, <1>3, <1>5, <1>6, <1>7, <1>8

-----------------------------------------------------------------------------
(* Types *)

\* The empty records are typed.
LEMMA EmptyType ==
  /\ NewPost \in Post /\ NoResult \in Result /\ Idle \in Work
  /\ Insufficient \in ClaimSet /\ NewRun \in RunRow /\ NoRun \notin RunRow
  /\ NoClaims \notin ClaimSet
<1>1. NewPost \in Post
  BY DEF NewPost, Post, RunIds
<1>2. NoClaims \notin ClaimSet /\ Insufficient \in ClaimSet
  BY DEF NoClaims, ClaimSet, Insufficient
<1>3. NoResult \in Result /\ Idle \in Work
  BY DEF NoResult, Result, Idle, Work, Pcs, RunIds
<1>4. NewRun \in RunRow /\ NoRun \notin RunRow
  BY DEF NewRun, RunRow, RowStatus, NoRun
<1> QED
  BY <1>1, <1>2, <1>3, <1>4

\* The initial state is typed.
LEMMA InitType == Init => TypeOK
<1> SUFFICES ASSUME Init PROVE TypeOK
  OBVIOUS
<1>1. key \in [Requests -> Requests] /\ messages \in Seq(Message)
      /\ record \in [Requests -> RunIds]
  BY DEF Init, RunIds
<1>2. project \in Project
  BY ConversationAssumption DEF Init, Project, Versions
<1>3. conversation \in Conversation
  BY DEF Init, Conversation, RunIds
<1>4. /\ post \in [Requests -> Post] /\ run \in [Requests -> RunRow \cup {NoRun}]
      /\ result \in [Requests -> Result] /\ work \in [Workers -> Work]
  BY EmptyType DEF Init
<1> QED
  BY <1>1, <1>2, <1>3, <1>4 DEF TypeOK

\* A change of the library keeps the types.
LEMMA LibraryType ==
  ASSUME TypeOK, LibraryStep
  PROVE  TypeOK' /\ UNCHANGED Talk
<1>0. project \in Project
  BY DEF TypeOK
<1>1. UNCHANGED Talk
  BY DEF LibraryStep, CheckArchive, ArchiveProject, RestoreProject, ArchivePaper, RestorePaper,
     RemovePaper, AddExistingPaper, Index, Turned, Changed
<1>2. ASSUME NEW row \in Project, Turned(row) \/ Changed(row)
      PROVE  project' \in Project
  <2>1. [row EXCEPT !.changes = @ + 1] \in Project
    BY DEF Project
  <2> QED
    BY <1>2, <2>1 DEF Turned, Changed
<1>3. ASSUME CheckArchive \/ ArchiveProject \/ RestoreProject
      PROVE  project' \in Project
  <2>1. /\ [project EXCEPT !.archiving = TRUE] \in Project
        /\ [project EXCEPT !.archived = TRUE, !.archiving = FALSE] \in Project
        /\ [project EXCEPT !.archived = FALSE] \in Project
    BY <1>0 DEF Project
  <2> QED
    BY <1>2, <1>3, <2>1 DEF CheckArchive, ArchiveProject, RestoreProject
<1>4. ASSUME NEW p \in Papers, ArchivePaper(p) \/ RestorePaper(p)
      PROVE  project' \in Project
  <2>1. project.shelved \cup {p} \in SUBSET Papers /\ project.shelved \ {p} \in SUBSET Papers
    BY <1>0 DEF Project
  <2>2. /\ [project EXCEPT !.shelved = @ \cup {p}] \in Project
        /\ [project EXCEPT !.shelved = @ \ {p}] \in Project
    BY <1>0, <2>1 DEF Project
  <2> QED
    BY <1>2, <1>4, <2>2 DEF ArchivePaper, RestorePaper
<1>5. ASSUME NEW p \in Papers, NEW n \in 0 .. MaxVersion
      PROVE  [project EXCEPT !.selected[p] = n] \in Project
  <2>1. [project.selected EXCEPT ![p] = n] \in [Papers -> 0 .. MaxVersion]
    BY <1>0 DEF Project
  <2> QED
    BY <1>0, <2>1 DEF Project
<1>6. ASSUME NEW p \in Papers,
             RemovePaper(p) \/ \E n \in 1 .. MaxVersion : AddExistingPaper(p, n)
      PROVE  project' \in Project
  <2>1. 0 \in 0 .. MaxVersion /\ 1 .. MaxVersion \subseteq 0 .. MaxVersion
    BY ConversationAssumption
  <2>2. CASE RemovePaper(p)
    BY <1>2, <1>5, <2>1, <2>2, Zenon DEF RemovePaper
  <2>3. ASSUME NEW n \in 1 .. MaxVersion, AddExistingPaper(p, n)
        PROVE  project' \in Project
    <3>1. n \in 0 .. MaxVersion
      BY <2>1
    <3> QED
      BY <1>2, <1>5, <2>3, <3>1, Zenon DEF AddExistingPaper
  <2> QED
    BY <1>6, <2>2, <2>3
<1>7. ASSUME NEW v \in Versions, Index(v)
      PROVE  project' \in Project
  <2>1. PICK ready \in {project.ready \cup {v}, project.ready \ {v}} :
          Changed([project EXCEPT !.ready = ready])
    BY <1>7 DEF Index
  <2>2. [project EXCEPT !.ready = ready] \in Project
    BY <1>0 DEF Project
  <2> QED
    BY <1>2, <2>1, <2>2
<1>8. project' \in Project
  BY <1>3, <1>4, <1>6, <1>7 DEF LibraryStep
<1> QED
  BY <1>1, <1>8 DEF TypeOK, Talk

\* What a question is about are versions.
LEMMA SnapshotType == TypeOK => Snapshot \subseteq Versions /\ Collected \subseteq Versions
BY DEF TypeOK, Snapshot, Collected, Conversation

\* The steps of ConversationService keep the types.
LEMMA PostType ==
  ASSUME TypeOK, CreateConversation \/ \E r \in Requests : ReadPost(r) \/ WritePost(r)
  PROVE  TypeOK'
<1> USE DEF TypeOK
<1>1. CASE CreateConversation
  <2>1. \A papers : SelectedScope(papers) \subseteq Versions
    BY SnapshotType DEF SelectedScope
  <2>2. [conversation EXCEPT !.mode = "project"] \in Conversation
    BY DEF Conversation
  <2>3. ASSUME NEW papers, conversation' = [conversation EXCEPT !.mode = "selected_papers",
                                                         !.scope = SelectedScope(papers)]
        PROVE  conversation' \in Conversation
    BY <2>1, <2>3 DEF Conversation
  <2>4. conversation' \in Conversation
    BY <1>1, <2>2, <2>3 DEF CreateConversation
  <2> QED
    BY <1>1, <2>4 DEF CreateConversation
<1>2. ASSUME NEW r \in Requests, Refuse(r)
      PROVE  post' \in [Requests -> Post]
  <2>1. [NewPost EXCEPT !.pc = "refused"] \in Post
    BY EmptyType DEF Post
  <2> QED
    BY <1>2, <2>1 DEF Refuse
<1>3. ASSUME NEW r \in Requests, ReadPost(r)
      PROVE  TypeOK'
  <2>1. [pc |-> "write", seen |-> conversation.active, number |-> Len(messages) + 1,
         snapshot |-> Snapshot, reply |-> 0] \in Post
    BY SnapshotType DEF Post, Conversation, RunIds
  <2>2. [post[r] EXCEPT !.pc = "answered", !.reply = record[key[r]]] \in Post
    BY ZenonT(30) DEF Post
  <2>3. post' \in [Requests -> Post]
    BY ZenonT(30), <1>2, <1>3, <2>1, <2>2 DEF ReadPost
  <2> QED
    BY <1>3, <2>3 DEF ReadPost
<1>4. ASSUME NEW r \in Requests, Question(r), UNCHANGED <<key, project, work>>
      PROVE  TypeOK'
  <2>1. conversation' \in Conversation /\ record' \in [Requests -> RunIds]
    BY <1>4 DEF Question, Conversation, RunIds
  <2>2. run' \in [Requests -> RunRow \cup {NoRun}]
    BY <1>4, EmptyType DEF Question
  <2>3. [result[r] EXCEPT !.snapshot = post[r].snapshot] \in Result
    BY DEF Result, Post
  <2>4. result' \in [Requests -> Result]
    BY <1>4, <2>3 DEF Question
  <2>5. [role |-> "user", run |-> r] \in Message
    BY DEF Message
  <2>6. messages' \in Seq(Message)
    BY <1>4, <2>5 DEF Question
  <2>7. [NewPost EXCEPT !.pc = "answered", !.reply = r] \in Post
    BY EmptyType DEF Post, RunIds
  <2>8. post' \in [Requests -> Post]
    BY <1>4, <2>7 DEF Question
  <2> QED
    BY <1>4, <2>1, <2>2, <2>4, <2>6, <2>8
<1>5. ASSUME NEW r \in Requests, WritePost(r)
      PROVE  TypeOK'
  BY <1>2, <1>4, <1>5 DEF WritePost
<1> QED
  BY <1>1, <1>3, <1>5

-----------------------------------------------------------------------------
(* What the steps of Runs and executors may touch *)

\* Every row stays or moves.
RowsMove == \A r \in Requests : run'[r] = run[r] \/ (Exists(r) /\ Moved(run[r], run'[r]))

\* The claim of the conversation stays or is released for a Run that has ended.
Releases ==
  \/ conversation' = conversation
  \/ \E r \in Requests : conversation' = Released(r) /\ run'[r].status \in Terminal

\* A worker stays, ends, or starts with a Run that exists.
WorkersMove ==
  \A w \in Workers :
    \/ work'[w] = work[w]
    \/ work'[w] = Idle
    \/ work'[w].pc = "search" /\ work'[w].run \in Requests /\ Exists(work'[w].run)

\* Every Run has a row of its own kind.
LEMMA ExistsType ==
  ASSUME TypeOK, NEW r \in Requests
  PROVE  /\ Exists(r) <=> run[r] \in RunRow
         /\ ~Exists(r) <=> run[r] = NoRun
         /\ Active(r) <=> run[r] \in RunRow /\ run[r].status \notin Terminal
BY DEF TypeOK, Exists, Active, RunRow, RowStatus, NoRun, Terminal

\* Under RowsMove no Run appears, disappears or becomes active again, and none
\* succeeds.
LEMMA RowsKeep ==
  ASSUME TypeOK, TypeOK', RowsMove, NEW r \in Requests
  PROVE  /\ Exists(r)' <=> Exists(r)
         /\ Active(r)' => Active(r)
         /\ run'[r].status = "succeeded" <=> run[r].status = "succeeded"
BY DEF TypeOK, RowsMove, Moved, Exists, Active, RunRow, RowStatus, NoRun, Terminal

\* Writing the row of an existing Run.
LEMMA RowWritten ==
  ASSUME TypeOK, NEW r \in Requests, Exists(r), NEW row, Moved(run[r], row),
         run' = [run EXCEPT ![r] = row]
  PROVE  run' \in [Requests -> RunRow \cup {NoRun}] /\ RowsMove
BY DEF TypeOK, RowsMove, Moved

\* RunExecutionService, RunService and RunReconcileService move rows and leave
\* the conversation alone.
LEMMA ServiceStep ==
  ASSUME TypeOK, \A w \in Workers : WorkFollows(w),
         \/ \E r \in Requests : Cancel(r) \/ Reclaim(r)
         \/ \E w \in Workers : Return(w) \/ Fail(w) \/ Crash(w) \/ \E r \in Requests : Start(w, r)
  PROVE  TypeOK' /\ UNCHANGED Ours /\ RowsMove /\ WorkersMove
<1> USE DEF TypeOK
<1>1. ASSUME NEW r \in Requests, Cancel(r) \/ Reclaim(r)
      PROVE  TypeOK' /\ UNCHANGED Ours /\ RowsMove /\ WorkersMove
  <2>1. Exists(r)
    BY <1>1, ExistsType DEF Cancel, Reclaim, Reclaimable, NoRun
  <2>2. PICK row : Moved(run[r], row) /\ run' = [run EXCEPT ![r] = row]
    BY <1>1, <2>1, ExistsType, RowMoves DEF Cancel, Reclaim
  <2>3. run' \in [Requests -> RunRow \cup {NoRun}] /\ RowsMove
    BY <2>1, <2>2, RowWritten
  <2> QED
    BY <1>1, <2>3 DEF Cancel, Reclaim, Ours, WorkersMove
<1>2. ASSUME NEW w \in Workers, NEW r \in Requests, Start(w, r)
      PROVE  TypeOK' /\ UNCHANGED Ours /\ RowsMove /\ WorkersMove
  <2>0. run[r].status = "queued"
    BY <1>2 DEF Start
  <2>1. Exists(r) /\ run[r] \in RunRow /\ run[r].attempts + 1 \in Nat
    BY <2>0, ExistsType DEF Exists, RunRow
  <2>2. run' \in [Requests -> RunRow \cup {NoRun}] /\ RowsMove
    BY <1>2, <2>0, <2>1, RowMoves, RowWritten DEF Start
  <2>3. [Idle EXCEPT !.pc = "search", !.run = r, !.attempt = run[r].attempts + 1] \in Work
    BY <2>1, EmptyType DEF Work, Pcs, RunIds
  <2>4. work' \in [Workers -> Work] /\ WorkersMove
    BY <1>2, <2>1, <2>3 DEF Start, WorkersMove, Idle
  <2> QED
    BY <1>2, <2>2, <2>4 DEF Start, Ours
<1>3. ASSUME NEW w \in Workers, Return(w) \/ Fail(w) \/ Crash(w)
      PROVE  TypeOK' /\ UNCHANGED Ours /\ RowsMove /\ WorkersMove
  <2>1. work' \in [Workers -> Work] /\ WorkersMove /\ UNCHANGED Ours
    BY <1>3, EmptyType DEF Return, Fail, Crash, WorkersMove
  <2>2. CASE Crash(w)
    BY <2>1, <2>2 DEF Crash, Ours, RowsMove
  <2>3. CASE Return(w) \/ Fail(w)
    <3>1. work[w].run \in Requests /\ Exists(work[w].run)
      BY <2>3 DEF Return, Fail, At, WorkFollows
    <3>2. PICK row : Moved(run[work[w].run], row) /\ run' = [run EXCEPT ![work[w].run] = row]
      BY <2>3, <3>1, ExistsType, RowMoves DEF Return, Fail, SetRow, Row, Finality
    <3>3. run' \in [Requests -> RunRow \cup {NoRun}] /\ RowsMove
      BY <3>1, <3>2, RowWritten
    <3> QED
      BY <2>1, <3>3 DEF Ours
  <2> QED
    BY <1>3, <2>2, <2>3
<1> QED
  BY <1>1, <1>2, <1>3

\* A worker that leaves its executor, for a Run that was cancelled or failed.
LEMMA ExecutorLeaves ==
  ASSUME TypeOK, NEW w \in Workers, WorkFollows(w), ~At(w, "idle"),
         \/ Requested(w) /\ Finalize(w)
         \/ \E permanent \in BOOLEAN : ApplyFailure(w, permanent)
  PROVE  /\ run' \in [Requests -> RunRow \cup {NoRun}] /\ RowsMove
         /\ conversation' \in Conversation /\ Releases
         /\ Leave(w, "return")
<1> DEFINE r == work[w].run
<1>1. r \in Requests /\ Exists(r) /\ run[r] \in RunRow
  BY ExistsType DEF WorkFollows, At
<1>2. Released(r) \in Conversation
  BY DEF TypeOK, Released, Conversation, RunIds
<1>3. CASE Requested(w) /\ Finalize(w)
  <2>1. Moved(run[r], [run[r] EXCEPT !.status = "cancelled"])
    BY <1>1, <1>3, RowMoves DEF Requested, Row
  <2>2. run' = [run EXCEPT ![r] = [run[r] EXCEPT !.status = "cancelled"]]
    BY <1>3 DEF Finalize, SetRow, Row
  <2>3. run'[r].status \in Terminal
    BY <1>1, <2>2 DEF TypeOK, Terminal, RunRow
  <2> QED
    BY <1>1, <1>2, <1>3, <2>1, <2>2, <2>3, RowWritten DEF Finalize, Releases
<1>4. ASSUME NEW permanent \in BOOLEAN, ApplyFailure(w, permanent)
      PROVE  /\ run' \in [Requests -> RunRow \cup {NoRun}] /\ RowsMove
             /\ conversation' \in Conversation /\ Releases
             /\ Leave(w, "return")
  <2>1. PICK final \in BOOLEAN :
           LET row == AfterFailure(run[r], final) IN
           /\ run' = [run EXCEPT ![r] = row]
           /\ \/ conversation' = conversation
              \/ conversation' = Released(r) /\ row.status = "failed"
    BY <1>4 DEF ApplyFailure, SetRow, Row, Finality
  <2>2. Moved(run[r], AfterFailure(run[r], final)) /\ run'[r] = AfterFailure(run[r], final)
    BY <1>1, <2>1, RowMoves DEF TypeOK
  <2>3. \/ conversation' = conversation
        \/ conversation' = Released(r) /\ run'[r].status = "failed"
    BY <2>1, <2>2
  <2>4. Releases
    BY <1>1, <2>3 DEF Releases, Terminal
  <2>5. run' \in [Requests -> RunRow \cup {NoRun}] /\ RowsMove
    BY <1>1, <2>1, <2>2, RowWritten
  <2> QED
    BY <1>2, <1>4, <2>3, <2>4, <2>5 DEF ApplyFailure, TypeOK
<1> QED
  BY <1>3, <1>4

\* Of what belongs to a Run only Evidence is added, and only within the snapshot.
EvidenceGrows ==
  \A r \in Requests :
    /\ result'[r].snapshot = result[r].snapshot
    /\ result'[r].claims = result[r].claims
    /\ result[r].evidence \subseteq result'[r].evidence
    /\ result'[r].evidence \subseteq result[r].evidence \cup result[r].snapshot

\* The commit of an answer that takes place.
Answers(w) ==
  /\ Running(run[work[w].run])
  /\ result' = WithClaims(work[w].run, work[w].output)
  /\ messages' = IF result[work[w].run].claims = NoClaims
                 THEN Append(messages, [role |-> "assistant", run |-> work[w].run])
                 ELSE messages
  /\ conversation' = Released(work[w].run)
  /\ run' = [run EXCEPT ![work[w].run] = Succeeded(run[work[w].run])]

\* A step of an executor that is not such a commit, from the outside.
Quiet ==
  /\ UNCHANGED <<key, project, record, post, messages>>
  /\ RowsMove /\ Releases /\ EvidenceGrows

\* A step of the worker from its own point of view: it stays with its Run and
\* follows it.
OwnMove(w) ==
  /\ \A v \in Workers \ {w} : work'[v] = work[v]
  /\ work'[w].run = work[w].run
  /\ work'[w].pc = "model" => work'[w].found \subseteq result'[work[w].run].evidence
  /\ work'[w].pc = "commit" =>
       /\ work'[w].output \in ClaimSet
       /\ work'[w].output.cites \subseteq result'[work[w].run].evidence
       /\ work'[w].output.status = "answered" <=> work'[w].output.cites # {}

\* Leaving is such a step.
LEMMA LeaveMove ==
  ASSUME TypeOK, NEW w \in Workers, NEW pc \in Pcs \ {"model", "commit"}, Leave(w, pc)
  PROVE  work' \in [Workers -> Work] /\ OwnMove(w)
<1>1. [Idle EXCEPT !.pc = pc, !.run = work[w].run, !.attempt = work[w].attempt] \in Work
  BY EmptyType DEF TypeOK, Work
<1> QED
  BY <1>1 DEF Leave, TypeOK, OwnMove, Idle

\* Retrieval, generation and their failures are quiet.
LEMMA SearchStep ==
  ASSUME TypeOK, NEW w \in Workers, WorkFollows(w), Search(w)
  PROVE  TypeOK' /\ Quiet /\ OwnMove(w)
<1> USE DEF TypeOK
<1>0. ~At(w, "idle") /\ work[w].run \in Requests /\ UNCHANGED <<Rest, result>>
  BY DEF Search, At, WorkFollows
<1>1. EvidenceGrows
  BY <1>0 DEF EvidenceGrows
<1>2. ASSUME \/ Requested(w) /\ Finalize(w)
             \/ \E permanent \in BOOLEAN : ApplyFailure(w, permanent)
      PROVE  TypeOK' /\ Quiet /\ OwnMove(w)
  <2>1. /\ run' \in [Requests -> RunRow \cup {NoRun}] /\ RowsMove
        /\ conversation' \in Conversation /\ Releases /\ Leave(w, "return")
    BY <1>0, <1>2, ExecutorLeaves
  <2>2. work' \in [Workers -> Work] /\ OwnMove(w)
    BY <2>1, LeaveMove DEF Pcs
  <2> QED
    BY <1>0, <1>1, <2>1, <2>2 DEF Rest, Quiet
<1>3. ASSUME NEW found \in Retrieved(work[w].run), ~Requested(w),
             Progress(w, [work[w] EXCEPT !.found = found, !.output = Insufficient,
                                         !.pc = IF found = {} THEN "commit" ELSE "evidence"])
      PROVE  TypeOK' /\ Quiet /\ OwnMove(w)
  <2> DEFINE next == [work[w] EXCEPT !.found = found, !.output = Insufficient,
                                     !.pc = IF found = {} THEN "commit" ELSE "evidence"]
  <2>1. found \subseteq Versions
    BY <1>0, <1>3 DEF Retrieved, Searchable, Result
  <2>2. next \in Work /\ next.run = work[w].run /\ next.output = Insufficient
        /\ next.pc \in {"commit", "evidence"}
    BY <2>1, EmptyType DEF Work, Pcs
  <2>3. work' = [work EXCEPT ![w] = next] /\ UNCHANGED <<run, conversation>>
    BY <1>3 DEF Progress
  <2> HIDE DEF next
  <2>4. work' \in [Workers -> Work] /\ work'[w] = next /\ \A v \in Workers \ {w} : work'[v] = work[v]
    BY <2>2, <2>3
  <2>5. OwnMove(w)
    BY <2>2, <2>4, EmptyType DEF OwnMove, Insufficient
  <2>6. RowsMove /\ Releases
    BY <2>3 DEF RowsMove, Releases
  <2> QED
    BY <1>0, <1>1, <2>3, <2>4, <2>5, <2>6 DEF Rest, Quiet
<1> QED
  BY <1>2, <1>3 DEF Search, Progress

\* Evidence is committed for what lies in the snapshot.
LEMMA CommitEvidenceStep ==
  ASSUME TypeOK, NEW w \in Workers, WorkFollows(w), CommitEvidence(w)
  PROVE  TypeOK' /\ Quiet /\ OwnMove(w)
<1> USE DEF TypeOK
<1> DEFINE r == work[w].run
<1>0. ~At(w, "idle") /\ r \in Requests /\ UNCHANGED Rest
  BY DEF CommitEvidence, At, WorkFollows
<1>1. CASE /\ work[w].found \subseteq result[r].snapshot
           /\ result' = WithEvidence(r, work[w].found)
           /\ Goto(w, "model")
           /\ UNCHANGED <<run, conversation>>
  <2>1. [result[r] EXCEPT !.evidence = @ \cup work[w].found] \in Result
    BY <1>0 DEF Result, Work
  <2>2. result' = [result EXCEPT ![r] = [result[r] EXCEPT !.evidence = @ \cup work[w].found]]
    BY <1>0, <1>1 DEF WithEvidence
  <2>3. /\ result' \in [Requests -> Result]
        /\ result'[r] = [result[r] EXCEPT !.evidence = @ \cup work[w].found]
        /\ \A q \in Requests \ {r} : result'[q] = result[q]
    BY <1>0, <2>1, <2>2
  <2>9. /\ result'[r].snapshot = result[r].snapshot /\ result'[r].claims = result[r].claims
        /\ result'[r].evidence = result[r].evidence \cup work[w].found
    BY <1>0, <2>3 DEF Result
  <2>10. EvidenceGrows
    BY <1>0, <1>1, <2>3, <2>9 DEF EvidenceGrows
  <2>4. [work[w] EXCEPT !.pc = "model"] \in Work
    BY DEF Work, Pcs
  <2>5. work' \in [Workers -> Work] /\ work'[w] = [work[w] EXCEPT !.pc = "model"]
        /\ \A v \in Workers \ {w} : work'[v] = work[v]
    BY <1>1, <2>4 DEF Goto
  <2>6. OwnMove(w)
    BY <2>5, <2>9 DEF OwnMove, Work
  <2>7. RowsMove /\ Releases
    BY <1>1 DEF RowsMove, Releases
  <2> QED
    BY <1>0, <1>1, <2>3, <2>5, <2>6, <2>7, <2>10 DEF Rest, Quiet
<1>2. CASE /\ \E permanent \in BOOLEAN : ApplyFailure(w, permanent)
           /\ UNCHANGED result
  <2>1. /\ run' \in [Requests -> RunRow \cup {NoRun}] /\ RowsMove
        /\ conversation' \in Conversation /\ Releases /\ Leave(w, "return")
    BY <1>0, <1>2, ExecutorLeaves
  <2>2. work' \in [Workers -> Work] /\ OwnMove(w)
    BY <2>1, LeaveMove DEF Pcs
  <2>3. EvidenceGrows
    BY <1>2 DEF EvidenceGrows
  <2> QED
    BY <1>0, <1>2, <2>1, <2>2, <2>3 DEF Rest, Quiet
<1> QED
  BY <1>1, <1>2 DEF CommitEvidence

\* The model is asked; only what passed validation is kept for the commit.
LEMMA GenerateStep ==
  ASSUME TypeOK, NEW w \in Workers, WorkFollows(w), Generate(w) \/ InvalidOutput(w)
  PROVE  TypeOK' /\ Quiet /\ OwnMove(w)
<1> USE DEF TypeOK
<1>0. ~At(w, "idle") /\ work[w].run \in Requests /\ UNCHANGED <<Rest, result>>
  BY DEF Generate, InvalidOutput, At, WorkFollows
<1>1. EvidenceGrows
  BY <1>0 DEF EvidenceGrows
<1>2. ASSUME \/ Requested(w) /\ Finalize(w)
             \/ \E permanent \in BOOLEAN : ApplyFailure(w, permanent)
      PROVE  TypeOK' /\ Quiet /\ OwnMove(w)
  <2>1. /\ run' \in [Requests -> RunRow \cup {NoRun}] /\ RowsMove
        /\ conversation' \in Conversation /\ Releases /\ Leave(w, "return")
    BY <1>0, <1>2, ExecutorLeaves
  <2>2. work' \in [Workers -> Work] /\ OwnMove(w)
    BY <2>1, LeaveMove DEF Pcs
  <2> QED
    BY <1>0, <1>1, <2>1, <2>2 DEF Rest, Quiet
<1>3. ASSUME NEW output \in Drafts, At(w, "model"), Valid(output, work[w].found), ~Requested(w),
             Progress(w, [work[w] EXCEPT !.pc = "commit", !.found = {}, !.output = output])
      PROVE  TypeOK' /\ Quiet /\ OwnMove(w)
  <2> DEFINE next == [work[w] EXCEPT !.pc = "commit", !.found = {}, !.output = output]
  <2>1. next \in Work /\ next.run = work[w].run /\ next.output = output
    BY <1>3 DEF Work, Pcs, Drafts
  <2>2. work' = [work EXCEPT ![w] = next] /\ UNCHANGED <<run, conversation>>
    BY <1>3 DEF Progress
  <2>3. /\ output \in ClaimSet /\ output.cites \subseteq result'[work[w].run].evidence
        /\ output.status = "answered" <=> output.cites # {}
    BY <1>0, <1>3 DEF Valid, Insufficient, Drafts, At, WorkFollows
  <2> HIDE DEF next
  <2>4. work' \in [Workers -> Work] /\ work'[w] = next /\ \A v \in Workers \ {w} : work'[v] = work[v]
    BY <2>1, <2>2
  <2>5. work'[w].pc = "commit"
    BY <2>4 DEF next, Work
  <2>6. OwnMove(w)
    BY <2>1, <2>3, <2>4, <2>5 DEF OwnMove
  <2>7. RowsMove /\ Releases
    BY <2>2 DEF RowsMove, Releases
  <2> QED
    BY <1>0, <1>1, <2>2, <2>4, <2>6, <2>7 DEF Rest, Quiet
<1>4. ASSUME FailInvalidOutput(w)
      PROVE  TypeOK' /\ Quiet /\ OwnMove(w)
  <2>1. work' \in [Workers -> Work] /\ OwnMove(w)
    BY <1>4, LeaveMove DEF FailInvalidOutput, Pcs
  <2>2. UNCHANGED <<run, conversation>> /\ RowsMove /\ Releases
    BY <1>4 DEF FailInvalidOutput, RowsMove, Releases
  <2> QED
    BY <1>0, <1>1, <2>1, <2>2 DEF Rest, Quiet
<1> QED
  BY <1>2, <1>3, <1>4 DEF Generate, InvalidOutput, Progress

\* The last transaction is quiet, or it answers.
LEMMA CommitAnswerStep ==
  ASSUME TypeOK, NEW w \in Workers, WorkFollows(w), CommitAnswer(w)
  PROVE  /\ TypeOK' /\ OwnMove(w) /\ UNCHANGED <<key, project, record, post>>
         /\ Quiet \/ (Answers(w) /\ At(w, "commit"))
<1> USE DEF TypeOK
<1> DEFINE r == work[w].run
<1>0. /\ At(w, "commit") /\ ~At(w, "idle") /\ r \in Requests /\ Exists(r)
      /\ UNCHANGED <<key, project, record, post>> /\ work[w].output \in ClaimSet
  BY DEF CommitAnswer, At, WorkFollows
<1>1. CASE Requested(w) /\ Finalize(w) /\ UNCHANGED <<messages, result>>
  <2>1. /\ run' \in [Requests -> RunRow \cup {NoRun}] /\ RowsMove
        /\ conversation' \in Conversation /\ Releases /\ Leave(w, "return")
    BY <1>0, <1>1, ExecutorLeaves
  <2>2. work' \in [Workers -> Work] /\ OwnMove(w)
    BY <2>1, LeaveMove DEF Pcs
  <2>3. EvidenceGrows
    BY <1>1 DEF EvidenceGrows
  <2> QED
    BY <1>0, <1>1, <2>1, <2>2, <2>3 DEF Quiet
<1>2. CASE Answers(w) /\ Leave(w, "return")
  <2>1. work' \in [Workers -> Work] /\ OwnMove(w)
    BY <1>2, LeaveMove DEF Pcs
  <2>2. Succeeded(run[r]) \in RunRow
    BY SMTT(30), <1>0, <1>2, ExistsType DEF Succeeded, RunRow, RowStatus
  <2>3. run' \in [Requests -> RunRow \cup {NoRun}]
    BY <1>0, <1>2, <2>2 DEF Answers
  <2>4. [result[r] EXCEPT !.claims = IF @ = NoClaims THEN work[w].output ELSE @] \in Result
    BY <1>0 DEF Result
  <2>5. result' \in [Requests -> Result]
    BY <1>0, <1>2, <2>4 DEF Answers, WithClaims
  <2>6. [role |-> "assistant", run |-> r] \in Message
    BY <1>0 DEF Message
  <2>7. messages' \in Seq(Message)
    BY <1>2, <2>6 DEF Answers
  <2>8. conversation' \in Conversation
    BY <1>2 DEF Answers, Released, Conversation, RunIds
  <2> QED
    BY <1>0, <1>2, <2>1, <2>3, <2>5, <2>7, <2>8
<1>3. CASE Leave(w, "raise") /\ UNCHANGED <<messages, result, conversation, run>>
  <2>1. work' \in [Workers -> Work] /\ OwnMove(w)
    BY <1>3, LeaveMove DEF Pcs
  <2>2. RowsMove /\ Releases /\ EvidenceGrows
    BY <1>3 DEF RowsMove, Releases, EvidenceGrows
  <2> QED
    BY <1>0, <1>3, <2>1, <2>2 DEF Quiet
<1> QED
  BY <1>1, <1>2, <1>3 DEF CommitAnswer, Answers, SetRow

-----------------------------------------------------------------------------
(* The parts of the invariant *)

\* Every step is a change of the library, a new conversation, a step of a post,
\* a move of Runs, or a step of a worker.
LEMMA Steps ==
  ASSUME ConversationInv, [Next]_vars
  PROVE  /\ TypeOK'
         /\ \/ UNCHANGED Talk \/ CreateConversation
            \/ \E r \in Requests : ReadPost(r) \/ WritePost(r)
            \/ UNCHANGED Ours /\ RowsMove /\ WorkersMove
            \/ \E w \in Workers : OwnMove(w) /\ ~At(w, "idle") /\ Quiet
            \/ \E w \in Workers : OwnMove(w) /\ At(w, "commit") /\ Answers(w)
                                  /\ UNCHANGED <<key, project, record, post>>
<1> USE DEF ConversationInv
<1>1. CASE LibraryStep
  BY <1>1, LibraryType
<1>2. CASE CreateConversation \/ \E r \in Requests : ReadPost(r) \/ WritePost(r)
  BY <1>2, PostType
<1>3. CASE \/ \E r \in Requests : Cancel(r) \/ Reclaim(r)
           \/ \E w \in Workers : Return(w) \/ Fail(w) \/ Crash(w) \/ \E r \in Requests : Start(w, r)
  BY <1>3, ServiceStep
<1>4. ASSUME NEW w \in Workers,
             Search(w) \/ CommitEvidence(w) \/ Generate(w) \/ InvalidOutput(w) \/ CommitAnswer(w)
      PROVE  /\ TypeOK' /\ OwnMove(w) /\ ~At(w, "idle")
             /\ \/ Quiet
                \/ At(w, "commit") /\ Answers(w) /\ UNCHANGED <<key, project, record, post>>
  <2>1. ~At(w, "idle")
    BY <1>4 DEF Search, CommitEvidence, Generate, InvalidOutput, CommitAnswer, At
  <2>2. TypeOK /\ WorkFollows(w)
    OBVIOUS
  <2>3. CASE CommitAnswer(w)
    BY <2>1, <2>2, <2>3, CommitAnswerStep
  <2>4. CASE Search(w)
    BY <2>1, <2>2, <2>4, SearchStep
  <2>5. CASE CommitEvidence(w)
    BY <2>1, <2>2, <2>5, CommitEvidenceStep
  <2>6. CASE Generate(w) \/ InvalidOutput(w)
    BY <2>1, <2>2, <2>6, GenerateStep
  <2> QED
    BY <1>4, <2>3, <2>4, <2>5, <2>6
<1>5. CASE UNCHANGED vars
  BY <1>5 DEF vars, Talk, TypeOK
<1> QED
  BY <1>1, <1>2, <1>3, <1>4, <1>5 DEF Next, Step

\* The commit of an answer lets its Run succeed and leaves the other rows alone.
LEMMA AnswersRow ==
  ASSUME TypeOK, NEW w \in Workers, WorkFollows(w), At(w, "commit"), Answers(w)
  PROVE  /\ work[w].run \in Requests /\ Active(work[w].run)
         /\ run'[work[w].run].status = "succeeded"
         /\ \A r \in Requests : Exists(r)' <=> Exists(r)
         /\ \A r \in Requests \ {work[w].run} : run'[r] = run[r]
<1>1. work[w].run \in Requests /\ Exists(work[w].run)
  BY DEF At, WorkFollows
<1>2. run' = [run EXCEPT ![work[w].run] = [run[work[w].run] EXCEPT !.status = "succeeded"]]
  BY DEF Answers, Succeeded
<1>3. run[work[w].run] \in RunRow /\ run[work[w].run].status = "running"
  BY <1>1, ExistsType DEF Answers, Running
<1>4. run'[work[w].run].status = "succeeded" /\ \A r \in Requests \ {work[w].run} : run'[r] = run[r]
  BY <1>1, <1>2, <1>3 DEF TypeOK, RunRow
<1> QED
  BY <1>1, <1>3, <1>4 DEF Exists, Active, Terminal

\* What a post writes when it is accepted: a Run that did not exist.
LEMMA QuestionNew ==
  ASSUME ConversationInv, NEW r \in Requests, WritePost(r), Claimable(r) /\ Insertable(r)
  PROVE  /\ Question(r) /\ UNCHANGED <<key, project, work>>
         /\ ~Exists(r) /\ \A q \in Requests : ~Active(q)
         /\ run'[r] = NewRun /\ \A q \in Requests \ {r} : run'[q] = run[q]
         /\ conversation'.active = r
<1>1. Question(r) /\ UNCHANGED <<key, project, work>>
  BY DEF WritePost
<1>2. ~Exists(r)
  BY ConversationAssumption DEF ConversationInv, RecordsName, Insertable
<1>3. ASSUME NEW q \in Requests, Active(q)
      PROVE  FALSE
  <2>1. conversation.active = q /\ q # 0
    BY <1>3, ConversationAssumption DEF ConversationInv, OneActive
  <2>2. post[r].seen = q
    BY <2>1 DEF Claimable
  <2> QED
    BY <1>3, <2>1, <2>2 DEF ConversationInv, OneActive, WritePost
<1>4. run'[r] = NewRun /\ \A q \in Requests \ {r} : run'[q] = run[q]
  BY <1>1 DEF Question, ConversationInv, TypeOK
<1>5. conversation'.active = r
  BY <1>1 DEF Question, ConversationInv, TypeOK, Conversation
<1> QED
  BY <1>1, <1>2, <1>3, <1>4, <1>5

\* A post that is refused when it writes changes nothing else.
LEMMA WriteRefused ==
  ASSUME NEW r \in Requests, WritePost(r), ~(Claimable(r) /\ Insertable(r))
  PROVE  Refuse(r) /\ UNCHANGED <<key, project, work, conversation, messages, record, run, result>>
BY DEF WritePost

\* Records and replies keep naming the Run of their key.
LEMMA RecordsStep == ConversationInv /\ [Next]_vars => RecordsName'
<1> SUFFICES ASSUME ConversationInv, [Next]_vars
             PROVE  RecordsName'
  OBVIOUS
<1> USE DEF ConversationInv
<1>1. ASSUME UNCHANGED <<key, record, post>>, \A r \in Requests : Exists(r)' <=> Exists(r)
      PROVE  RecordsName'
  BY <1>1 DEF RecordsName
<1>2. ASSUME NEW r \in Requests, ReadPost(r) \/ (WritePost(r) /\ ~(Claimable(r) /\ Insertable(r)))
      PROVE  RecordsName'
  <2>1. UNCHANGED <<key, record, run>>
    BY <1>2, WriteRefused DEF ReadPost
  <2>2. \A q \in Requests : post'[q].reply \in {post[q].reply, 0, record[key[q]]}
    <3>1. CASE Refuse(r)
      BY <3>1 DEF Refuse, NewPost, TypeOK
    <3>2. CASE post' = [post EXCEPT ![r].pc = "answered", ![r].reply = record[key[r]]]
      BY <3>2 DEF TypeOK, Post
    <3>3. CASE post' = [post EXCEPT ![r] = [pc |-> "write", seen |-> conversation.active,
                          number |-> Len(messages) + 1, snapshot |-> Snapshot, reply |-> 0]]
      BY <3>3 DEF TypeOK
    <3> QED
      BY <1>2, <3>1, <3>2, <3>3, WriteRefused DEF ReadPost
  <2> QED
    BY <2>1, <2>2 DEF RecordsName, Exists
<1>3. ASSUME NEW r \in Requests, WritePost(r), Claimable(r) /\ Insertable(r)
      PROVE  RecordsName'
  <2>1. /\ Question(r) /\ UNCHANGED key /\ ~Exists(r) /\ record[key[r]] = 0
        /\ \A q \in Requests \ {r} : run'[q] = run[q]
    BY <1>3, QuestionNew DEF Insertable
  <2>2. /\ record'[key[r]] = r /\ post'[r].reply = r
        /\ \A q \in Requests \ {r} : post'[q] = post[q]
        /\ \A k \in Requests \ {key[r]} : record'[k] = record[k]
    BY <2>1 DEF Question, TypeOK, NewPost
  <2>3. ASSUME NEW q \in Requests \ {r}
        PROVE  /\ Exists(q) => record'[key[q]] = q
               /\ post[q].reply # 0 => post[q].reply = record'[key[q]]
    <3>1. key[q] = key[r] => ~Exists(q) /\ post[q].reply = 0
      BY <2>1, ConversationAssumption DEF RecordsName
    <3> QED
      BY <2>2, <3>1 DEF RecordsName, TypeOK
  <2> QED
    BY <2>1, <2>2, <2>3 DEF RecordsName, Exists
<1>4. CASE UNCHANGED Talk \/ CreateConversation
  BY <1>1, <1>4 DEF Talk, CreateConversation, Exists
<1>5. CASE UNCHANGED Ours /\ RowsMove
  BY <1>1, <1>5, RowsKeep, Steps DEF Ours
<1>6. CASE Quiet
  BY <1>1, <1>6, RowsKeep, Steps DEF Quiet
<1>7. ASSUME NEW w \in Workers, At(w, "commit"), Answers(w), UNCHANGED <<key, project, record, post>>
      PROVE  RecordsName'
  BY <1>1, <1>7, AnswersRow
<1> QED
  BY <1>2, <1>3, <1>4, <1>5, <1>6, <1>7, Steps

\* The conversation keeps naming the only Run that is active.
LEMMA OneActiveStep == ConversationInv /\ [Next]_vars => OneActive'
<1> SUFFICES ASSUME ConversationInv, [Next]_vars
             PROVE  OneActive'
  OBVIOUS
<1> USE DEF ConversationInv
<1>0. TypeOK'
  BY Steps
<1>1. ASSUME conversation'.active = conversation.active, UNCHANGED <<run, post>>
      PROVE  OneActive'
  BY <1>1 DEF OneActive, Active, Exists
<1>2. CASE UNCHANGED Talk
  BY <1>1, <1>2 DEF Talk
<1>3. CASE CreateConversation
  <2>1. conversation'.active = conversation.active
    BY <1>3 DEF CreateConversation, TypeOK, Conversation
  <2> QED
    BY <1>1, <1>3, <2>1 DEF CreateConversation
<1>4. ASSUME NEW r \in Requests, ReadPost(r) \/ (WritePost(r) /\ ~(Claimable(r) /\ Insertable(r)))
      PROVE  OneActive'
  <2>1. UNCHANGED <<conversation, run>>
    BY <1>4, WriteRefused DEF ReadPost
  <2>2. /\ \A q \in Requests \ {r} : post'[q] = post[q]
        /\ \/ post'[r].pc # "write"
           \/ /\ post'[r].seen = conversation.active
              /\ conversation.active # 0 => ~Active(conversation.active)
    <3>1. ASSUME Refuse(r)
          PROVE  post'[r].pc # "write" /\ \A q \in Requests \ {r} : post'[q] = post[q]
      BY <3>1 DEF Refuse, NewPost, TypeOK
    <3>2. ASSUME post' = [post EXCEPT ![r].pc = "answered", ![r].reply = record[key[r]]]
          PROVE  post'[r].pc # "write" /\ \A q \in Requests \ {r} : post'[q] = post[q]
      BY <3>2 DEF TypeOK, Post
    <3>3. ASSUME post' = [post EXCEPT ![r] = [pc |-> "write", seen |-> conversation.active,
                            number |-> Len(messages) + 1, snapshot |-> Snapshot, reply |-> 0]]
          PROVE  /\ post'[r].seen = conversation.active
                 /\ \A q \in Requests \ {r} : post'[q] = post[q]
      BY <3>3 DEF TypeOK
    <3> QED
      BY <1>4, <3>1, <3>2, <3>3, WriteRefused DEF ReadPost
  <2> QED
    BY <2>1, <2>2 DEF OneActive, Active, Exists
<1>5. ASSUME NEW r \in Requests, WritePost(r), Claimable(r) /\ Insertable(r)
      PROVE  OneActive'
  <2>1. /\ Question(r) /\ ~Exists(r) /\ \A q \in Requests : ~Active(q)
        /\ run'[r] = NewRun /\ \A q \in Requests \ {r} : run'[q] = run[q]
        /\ conversation'.active = r
    BY <1>5, QuestionNew
  <2>2. Exists(r)' /\ \A q \in Requests : q # r => ~Active(q)'
    BY <2>1 DEF Exists, Active, NewRun
  <2>3. \A q \in Requests : post'[q].pc = "write" => post'[q] = post[q] /\ q # r
    BY <2>1 DEF Question, NewPost, TypeOK
  <2>4. ASSUME NEW q \in Requests, post'[q].pc = "write", post'[q].seen # 0
        PROVE  Exists(post[q].seen)' /\ ~Active(post[q].seen)'
    <3>1. post[q].seen \in Requests \ {r} /\ Exists(post[q].seen) /\ ~Active(post[q].seen)
      BY <2>1, <2>3, <2>4 DEF OneActive, TypeOK, Post, RunIds
    <3>2. run'[post'[q].seen] = run[post[q].seen]
      BY <2>1, <2>3, <2>4, <3>1
    <3> QED
      BY <3>1, <3>2 DEF Exists, Active
  <2> QED
    BY <2>1, <2>2, <2>4 DEF OneActive
<1>6. ASSUME RowsMove, Releases, UNCHANGED post
      PROVE  OneActive'
  <2>1. \A r \in Requests : (Exists(r)' <=> Exists(r)) /\ (Active(r)' => Active(r))
    BY <1>0, <1>6, RowsKeep
  <2>2. conversation'.active \in {conversation.active, 0}
    BY <1>6 DEF Releases, Released, TypeOK, Conversation
  <2>3. ASSUME NEW r \in Requests, Active(r)'
        PROVE  conversation'.active = r
    <3>1. conversation.active = r /\ Exists(r)' /\ run'[r].status \notin Terminal
      BY <2>1, <2>3 DEF OneActive, Active
    <3>2. CASE conversation' = conversation
      BY <3>1, <3>2
    <3>3. ASSUME NEW q \in Requests, conversation' = Released(q), run'[q].status \in Terminal
          PROVE  conversation'.active = r
      BY <3>1, <3>3 DEF Released, TypeOK, Conversation
    <3> QED
      BY <1>6, <3>2, <3>3 DEF Releases
  <2>4. conversation'.active # 0 => Exists(conversation.active)'
    <3>1. conversation.active \in RunIds
      BY DEF TypeOK, Conversation
    <3>2. ASSUME conversation'.active # 0
          PROVE  conversation'.active \in Requests /\ Exists(conversation.active)
      BY <2>2, <3>1, <3>2 DEF OneActive, RunIds
    <3> QED
      BY <2>1, <2>2, <3>2
  <2>5. ASSUME NEW q \in Requests, post[q].pc = "write", post[q].seen # 0
        PROVE  Exists(post[q].seen)' /\ ~Active(post[q].seen)'
    <3>1. post[q].seen \in Requests /\ Exists(post[q].seen) /\ ~Active(post[q].seen)
      BY <2>5 DEF OneActive, TypeOK, Post, RunIds
    <3> QED
      BY <1>6, <2>1, <3>1
  <2> QED
    BY <1>6, <2>3, <2>4, <2>5 DEF OneActive
<1>7. CASE UNCHANGED Ours /\ RowsMove
  BY <1>6, <1>7 DEF Ours, Releases
<1>8. CASE Quiet
  BY <1>6, <1>8 DEF Quiet
<1>9. ASSUME NEW w \in Workers, At(w, "commit"), Answers(w), UNCHANGED <<key, project, record, post>>
      PROVE  OneActive'
  <2> DEFINE r == work[w].run
  <2>1. /\ r \in Requests /\ Active(r) /\ run'[r].status = "succeeded"
        /\ \A q \in Requests : Exists(q)' <=> Exists(q)
        /\ \A q \in Requests \ {r} : run'[q] = run[q]
    BY <1>9, AnswersRow
  <2>2. conversation.active = r /\ conversation'.active = 0
    BY <1>9, <2>1 DEF OneActive, Answers, Released, TypeOK, Conversation
  <2>3. \A q \in Requests : ~Active(q)'
    BY <2>1, <2>2 DEF OneActive, Active, Exists, Terminal
  <2>4. ASSUME NEW q \in Requests, post[q].pc = "write", post[q].seen # 0
        PROVE  Exists(post[q].seen)' /\ ~Active(post[q].seen)'
    <3>1. post[q].seen \in Requests /\ Exists(post[q].seen) /\ UNCHANGED post
      BY <1>9, <2>4 DEF OneActive, TypeOK, Post, RunIds
    <3> QED
      BY <2>1, <2>3, <3>1
  <2> QED
    BY <1>9, <2>2, <2>3, <2>4 DEF OneActive
<1> QED
  BY <1>2, <1>3, <1>4, <1>5, <1>7, <1>8, <1>9, Steps

\* Every message is one of a Run.
LEMMA MessagesType ==
  ASSUME messages \in Seq(Message)
  PROVE  /\ Len(messages) \in Nat /\ DOMAIN messages = 1 .. Len(messages)
         /\ \A i \in DOMAIN messages : messages[i].run \in Requests
<1>1. Len(messages) \in Nat /\ DOMAIN messages = 1 .. Len(messages)
  OBVIOUS
<1>2. ASSUME NEW i \in 1 .. Len(messages)
      PROVE  messages[i] \in Message
  OBVIOUS
<1> QED
  BY <1>1, <1>2 DEF Message

\* The thread keeps its order: a question is appended to a thread at rest, an
\* answer to the question of the active Run.
LEMMA ThreadStep == ConversationInv /\ [Next]_vars => ThreadFollows'
<1> SUFFICES ASSUME ConversationInv, [Next]_vars
             PROVE  ThreadFollows'
  OBVIOUS
<1> USE DEF ConversationInv
<1>0. TypeOK /\ TypeOK' /\ messages \in Seq(Message)
  BY Steps DEF TypeOK
<1>1. ASSUME UNCHANGED messages, \A r \in Requests : result'[r].claims = result[r].claims,
             \A r \in Requests : /\ Active(r)' => Active(r)
                                 /\ run'[r].status = "succeeded" <=> run[r].status = "succeeded"
      PROVE  ThreadFollows'
  <2>1. \A i \in DOMAIN messages : messages[i].run \in Requests
    BY <1>0, MessagesType
  <2> QED
    BY <1>1, <2>1 DEF ThreadFollows
<1>2. ASSUME UNCHANGED <<messages, run, result>>
      PROVE  ThreadFollows'
  BY <1>1, <1>2 DEF Active, Exists
<1>3. CASE RowsMove /\ UNCHANGED messages /\ \A r \in Requests : result'[r].claims = result[r].claims
  BY <1>0, <1>1, <1>3, RowsKeep
<1>4. ASSUME NEW r \in Requests, ReadPost(r) \/ (WritePost(r) /\ ~(Claimable(r) /\ Insertable(r)))
      PROVE  ThreadFollows'
  BY <1>2, <1>4, WriteRefused DEF ReadPost
<1>5. ASSUME NEW r \in Requests, WritePost(r), Claimable(r) /\ Insertable(r)
      PROVE  ThreadFollows'
  <2>1. /\ Question(r) /\ ~Exists(r) /\ \A q \in Requests : ~Active(q)
        /\ run'[r] = NewRun /\ \A q \in Requests \ {r} : run'[q] = run[q]
    BY <1>5, QuestionNew
  <2>2. messages' = Append(messages, [role |-> "user", run |-> r])
    BY <2>1 DEF Question
  <2>3. /\ Len(messages') = Len(messages) + 1
        /\ messages'[Len(messages')] = [role |-> "user", run |-> r]
        /\ \A i \in DOMAIN messages : i \in DOMAIN messages' /\ messages'[i] = messages[i]
        /\ \A i \in DOMAIN messages' : i \in DOMAIN messages \/ i = Len(messages')
    BY <1>0, <2>2
  <2>4. \A q \in Requests : Active(q)' => q = r
    BY <2>1 DEF Active, Exists
  <2>5. \A q \in Requests : result'[q].claims = result[q].claims
    BY <1>0, <2>1 DEF Question, TypeOK, Result
  <2>6. ASSUME NEW i \in DOMAIN messages', messages'[i].role = "assistant"
        PROVE  i \in DOMAIN messages /\ messages[i] = messages'[i] /\ messages[i].run \in Requests
    BY <1>0, <2>3, <2>6, MessagesType
  <2>7. \A i \in DOMAIN messages' : messages'[i].role = "assistant" =>
          /\ i > 1 /\ messages'[i - 1] = [role |-> "user", run |-> messages'[i].run]
          /\ result'[messages'[i].run].claims # NoClaims
    <3>1. ASSUME NEW i \in DOMAIN messages, i > 1
          PROVE  messages'[i - 1] = messages[i - 1]
      BY <1>0, <2>3, <3>1
    <3> QED
      BY <2>5, <2>6, <3>1 DEF ThreadFollows
  <2>8. \A i, j \in DOMAIN messages' :
          messages'[i].role = "assistant" /\ messages'[j] = messages'[i] => i = j
    BY <2>6 DEF ThreadFollows
  <2>9. \A q \in Requests : result'[q].claims # NoClaims =>
          \E i \in DOMAIN messages' : messages'[i] = [role |-> "assistant", run |-> q]
    BY <2>3, <2>5 DEF ThreadFollows
  <2>10. \A q \in Requests : run'[q].status = "succeeded" <=> result'[q].claims # NoClaims
    BY <2>1, <2>5 DEF ThreadFollows, NewRun, Exists
  <2> QED
    BY <1>0, <2>3, <2>4, <2>7, <2>8, <2>9, <2>10 DEF ThreadFollows
<1>6. ASSUME NEW w \in Workers, At(w, "commit"), Answers(w)
      PROVE  ThreadFollows'
  <2> DEFINE r == work[w].run
  <2>1. /\ r \in Requests /\ Active(r) /\ run'[r].status = "succeeded"
        /\ \A q \in Requests : Exists(q)' <=> Exists(q)
        /\ \A q \in Requests \ {r} : run'[q] = run[q]
    BY <1>6, AnswersRow
  <2>2. result[r].claims = NoClaims /\ work[w].output \in ClaimSet /\ work[w].output # NoClaims
    BY <1>6, <2>1, EmptyType DEF ThreadFollows, Active, Terminal, WorkFollows, At
  <2>3. messages' = Append(messages, [role |-> "assistant", run |-> r])
    BY <1>6, <2>2 DEF Answers
  <2>4. result'[r].claims = work[w].output
        /\ \A q \in Requests \ {r} : result'[q].claims = result[q].claims
    BY <1>6, <2>1, <2>2 DEF Answers, WithClaims, TypeOK, Result
  <2>5. /\ Len(messages') = Len(messages) + 1 /\ Len(messages) \in Nat
        /\ messages'[Len(messages')] = [role |-> "assistant", run |-> r]
        /\ \A i \in DOMAIN messages : i \in DOMAIN messages' /\ messages'[i] = messages[i]
        /\ \A i \in DOMAIN messages' : i \in DOMAIN messages \/ i = Len(messages')
        /\ Len(messages') \in DOMAIN messages'
    BY <1>0, <2>3
  <2>6. Len(messages) > 0 /\ messages[Len(messages)] = [role |-> "user", run |-> r]
    BY <2>1 DEF ThreadFollows
  <2>7. \A q \in Requests : ~Active(q)'
    BY <2>1 DEF OneActive, Active, Exists, Terminal
  <2>8. \A i \in DOMAIN messages : messages[i].role = "assistant" =>
          messages[i].run \in Requests \ {r}
    BY <1>0, <2>2, MessagesType DEF ThreadFollows
  <2>9. ASSUME NEW i \in DOMAIN messages', messages'[i].role = "assistant"
        PROVE  /\ i > 1 /\ messages'[i - 1] = [role |-> "user", run |-> messages'[i].run]
               /\ result'[messages'[i].run].claims # NoClaims
    <3>1. CASE i = Len(messages')
      <4>1. i - 1 = Len(messages) /\ i - 1 \in DOMAIN messages /\ i > 1
        BY <1>0, <2>5, <2>6, <3>1
      <4> QED
        BY <2>2, <2>4, <2>5, <2>6, <3>1, <4>1
    <3>2. CASE i \in DOMAIN messages
      <4>1. i > 1 /\ messages[i - 1] = [role |-> "user", run |-> messages[i].run]
            /\ result[messages[i].run].claims # NoClaims /\ messages'[i] = messages[i]
        BY <2>5, <2>9, <3>2 DEF ThreadFollows
      <4>2. messages'[i - 1] = messages[i - 1]
        BY <1>0, <2>5, <3>2, <4>1
      <4>3. messages[i].run \in Requests \ {r}
        BY <2>8, <2>9, <3>2, <4>1
      <4> QED
        BY <2>4, <4>1, <4>2, <4>3
    <3> QED
      BY <2>5, <3>1, <3>2
  <2>10. ASSUME NEW i \in DOMAIN messages', NEW j \in DOMAIN messages',
                messages'[i].role = "assistant", messages'[j] = messages'[i]
         PROVE  i = j
    <3>1. ASSUME NEW k \in DOMAIN messages, messages'[k].role = "assistant"
          PROVE  messages'[k].run # r
      BY <2>5, <2>8, <3>1
    <3>2. messages'[Len(messages')].run = r
      BY <2>5
    <3>3. CASE i \in DOMAIN messages /\ j \in DOMAIN messages
      BY <2>5, <2>10, <3>3 DEF ThreadFollows
    <3> QED
      BY <2>5, <2>10, <3>1, <3>2, <3>3
  <2>11. ASSUME NEW q \in Requests, result'[q].claims # NoClaims
         PROVE  \E i \in DOMAIN messages' : messages'[i] = [role |-> "assistant", run |-> q]
    BY <2>4, <2>5, <2>11 DEF ThreadFollows
  <2>12. \A q \in Requests : run'[q].status = "succeeded" <=> result'[q].claims # NoClaims
    BY <2>1, <2>2, <2>4 DEF ThreadFollows
  <2> QED
    BY <2>7, <2>9, <2>10, <2>11, <2>12 DEF ThreadFollows
<1>7. CASE UNCHANGED Talk \/ CreateConversation
  BY <1>2, <1>7 DEF Talk, CreateConversation
<1>8. CASE UNCHANGED Ours /\ RowsMove
  BY <1>3, <1>8 DEF Ours
<1>9. CASE Quiet
  BY <1>3, <1>9 DEF Quiet, EvidenceGrows
<1> QED
  BY <1>4, <1>5, <1>6, <1>7, <1>8, <1>9, Steps

\* Evidence and citations stay within the snapshot of their Run.
LEMMA ResultsStep == ConversationInv /\ [Next]_vars => ResultsFollow'
<1> SUFFICES ASSUME ConversationInv, [Next]_vars
             PROVE  ResultsFollow'
  OBVIOUS
<1> USE DEF ConversationInv
<1>0. TypeOK /\ TypeOK'
  BY Steps
<1>1. ASSUME UNCHANGED result, \A r \in Requests : Exists(r)' <=> Exists(r)
      PROVE  ResultsFollow'
  BY <1>1 DEF ResultsFollow, CitationsInScope
<1>2. ASSUME NEW r \in Requests, WritePost(r), Claimable(r) /\ Insertable(r)
      PROVE  ResultsFollow'
  <2>1. /\ Question(r) /\ ~Exists(r) /\ run'[r] = NewRun
        /\ \A q \in Requests \ {r} : run'[q] = run[q]
    BY <1>2, QuestionNew
  <2>2. result[r] = NoResult
    BY <2>1 DEF ResultsFollow
  <2>3. result' = [result EXCEPT ![r].snapshot = post[r].snapshot]
    BY <2>1 DEF Question
  <2>4. /\ \A q \in Requests \ {r} : result'[q] = result[q]
        /\ result'[r] = [NoResult EXCEPT !.snapshot = post[r].snapshot]
    BY <1>0, <2>2, <2>3 DEF TypeOK
  <2>5. Exists(r)' /\ \A q \in Requests \ {r} : Exists(q)' <=> Exists(q)
    BY <2>1 DEF Exists, NewRun
  <2>6. result'[r].claims = NoClaims /\ result'[r].evidence = {}
    BY <2>4 DEF NoResult
  <2>7. /\ NoClaims.cites = {} /\ NoClaims.status # "answered"
    BY DEF NoClaims
  <2>8. CitationsInScope'
    BY <2>4, <2>6, <2>7 DEF ResultsFollow, CitationsInScope
  <2> QED
    BY <2>4, <2>5, <2>8 DEF ResultsFollow
<1>3. ASSUME Quiet
      PROVE  ResultsFollow'
  <2>1. \A r \in Requests : Exists(r)' <=> Exists(r)
    BY <1>0, <1>3, RowsKeep DEF Quiet
  <2>2. EvidenceGrows
    BY <1>3 DEF Quiet
  <2>3. ASSUME NEW r \in Requests, result[r] = NoResult
        PROVE  result'[r] = NoResult
    <3>1. result'[r].snapshot = {} /\ result'[r].claims = NoClaims /\ result'[r].evidence = {}
      BY <2>2, <2>3 DEF EvidenceGrows, NoResult
    <3> QED
      BY <1>0, <3>1 DEF TypeOK, Result, NoResult
  <2>4. CitationsInScope'
    BY <2>2 DEF EvidenceGrows, ResultsFollow, CitationsInScope
  <2> QED
    BY <2>1, <2>3, <2>4 DEF ResultsFollow
<1>4. ASSUME NEW w \in Workers, At(w, "commit"), Answers(w)
      PROVE  ResultsFollow'
  <2> DEFINE r == work[w].run
  <2>1. r \in Requests /\ Exists(r) /\ \A q \in Requests : Exists(q)' <=> Exists(q)
    BY <1>4, AnswersRow DEF Active
  <2>2. /\ \A q \in Requests \ {r} : result'[q] = result[q]
        /\ result'[r].evidence = result[r].evidence /\ result'[r].snapshot = result[r].snapshot
        /\ result'[r].claims \in {result[r].claims, work[w].output}
    BY <1>0, <1>4, <2>1 DEF Answers, WithClaims, TypeOK, Result
  <2>3. /\ work[w].output.cites \subseteq result[r].evidence
        /\ work[w].output.status = "answered" <=> work[w].output.cites # {}
    BY <1>4 DEF WorkFollows, At
  <2>4. CitationsInScope'
    BY <2>1, <2>2, <2>3 DEF ResultsFollow, CitationsInScope
  <2> QED
    BY <2>1, <2>2, <2>4 DEF ResultsFollow
<1>5. CASE UNCHANGED Talk \/ CreateConversation
  BY <1>1, <1>5 DEF Talk, CreateConversation, Exists
<1>6. ASSUME NEW r \in Requests, ReadPost(r) \/ (WritePost(r) /\ ~(Claimable(r) /\ Insertable(r)))
      PROVE  ResultsFollow'
  BY <1>1, <1>6, WriteRefused DEF ReadPost, Exists
<1>7. CASE UNCHANGED Ours /\ RowsMove
  BY <1>0, <1>1, <1>7, RowsKeep DEF Ours
<1> QED
  BY <1>2, <1>3, <1>4, <1>5, <1>6, <1>7, Steps

\* Every worker keeps following its Run.
LEMMA WorkStep == ConversationInv /\ [Next]_vars => \A w \in Workers : WorkFollows(w)'
<1> SUFFICES ASSUME ConversationInv, [Next]_vars, NEW v \in Workers
             PROVE  WorkFollows(v)'
  OBVIOUS
<1> USE DEF ConversationInv
<1>0. TypeOK /\ TypeOK' /\ WorkFollows(v)
  BY Steps
<1>1. ASSUME work'[v] = work[v], \A r \in Requests : Exists(r) => Exists(r)',
             \A r \in Requests : Exists(r) => result[r].evidence \subseteq result'[r].evidence
      PROVE  WorkFollows(v)'
  BY <1>0, <1>1 DEF WorkFollows
<1>2. ASSUME NEW w \in Workers, OwnMove(w), ~At(w, "idle"),
             \A r \in Requests : Exists(r) => Exists(r)',
             \A r \in Requests : Exists(r) => result[r].evidence \subseteq result'[r].evidence
      PROVE  WorkFollows(v)'
  <2>1. CASE v # w
    BY <1>1, <1>2, <2>1 DEF OwnMove
  <2>2. CASE v = w
    BY <1>0, <1>2, <2>2 DEF OwnMove, WorkFollows, At
  <2> QED
    BY <2>1, <2>2
<1>3. ASSUME NEW r \in Requests, ReadPost(r) \/ WritePost(r)
      PROVE  WorkFollows(v)'
  <2>1. CASE UNCHANGED <<work, run, result>>
    BY <1>1, <2>1 DEF Exists
  <2>2. CASE WritePost(r) /\ Claimable(r) /\ Insertable(r)
    <3>1. /\ Question(r) /\ UNCHANGED work /\ run'[r] = NewRun
          /\ \A q \in Requests \ {r} : run'[q] = run[q]
      BY <2>2, QuestionNew
    <3>2. \A q \in Requests : result'[q].evidence = result[q].evidence
      BY <1>0, <3>1 DEF Question, TypeOK, Result
    <3> QED
      BY <1>1, <3>1, <3>2 DEF Exists, NewRun
  <2> QED
    BY <1>3, <2>1, <2>2, WriteRefused DEF ReadPost
<1>4. CASE UNCHANGED Ours /\ RowsMove /\ WorkersMove
  <2>1. \A r \in Requests : Exists(r)' <=> Exists(r)
    BY <1>0, <1>4, RowsKeep
  <2>2. CASE work'[v] = work[v]
    BY <1>1, <1>4, <2>1, <2>2 DEF Ours
  <2>3. CASE work'[v] = Idle
    BY <2>3 DEF WorkFollows, Idle
  <2>4. CASE work'[v].pc = "search" /\ work'[v].run \in Requests /\ Exists(work'[v].run)
    <3>1. Exists(work[v].run)'
      BY <1>4, <2>4 DEF RowsMove, Moved, RunRow, RowStatus, Exists
    <3> QED
      BY <2>4, <3>1 DEF WorkFollows
  <2> QED
    BY <1>4, <2>2, <2>3, <2>4 DEF WorkersMove
<1>5. ASSUME NEW w \in Workers, OwnMove(w), ~At(w, "idle"), Quiet
      PROVE  WorkFollows(v)'
  <2>1. RowsMove /\ EvidenceGrows
    BY <1>5 DEF Quiet
  <2> QED
    BY <1>0, <1>2, <1>5, <2>1, RowsKeep DEF EvidenceGrows
<1>6. ASSUME NEW w \in Workers, OwnMove(w), At(w, "commit"), Answers(w)
      PROVE  WorkFollows(v)'
  <2>1. work[w].run \in Requests /\ \A r \in Requests : Exists(r)' <=> Exists(r)
    BY <1>6, AnswersRow
  <2>2. \A r \in Requests : result'[r].evidence = result[r].evidence
    BY <1>0, <1>6, <2>1 DEF Answers, WithClaims, TypeOK, Result
  <2>3. ~At(w, "idle")
    BY <1>6 DEF At
  <2> QED
    BY <1>2, <1>6, <2>1, <2>2, <2>3
<1>7. CASE UNCHANGED Talk \/ CreateConversation
  BY <1>1, <1>7 DEF Talk, CreateConversation, Exists
<1> QED
  BY <1>3, <1>4, <1>5, <1>6, <1>7, Steps

-----------------------------------------------------------------------------
(* The theorems *)

\* The invariant holds at first and after every step.
LEMMA ConversationInductive ==
  /\ Init => ConversationInv
  /\ ConversationInv /\ [Next]_vars => ConversationInv'
<1>1. ASSUME Init PROVE ConversationInv
  <2>1. TypeOK
    BY <1>1, InitType
  <2>2. RecordsName /\ OneActive
    BY <1>1 DEF Init, RecordsName, OneActive, Exists, Active, NoRun, NewPost
  <2>3. ThreadFollows
    BY <1>1 DEF Init, ThreadFollows, Exists, Active, NoRun, NoResult
  <2>4. ResultsFollow
    BY <1>1 DEF Init, ResultsFollow, CitationsInScope, NoResult, NoClaims
  <2>5. \A w \in Workers : WorkFollows(w)
    BY <1>1 DEF Init, WorkFollows, Idle
  <2> QED
    BY <2>1, <2>2, <2>3, <2>4, <2>5 DEF ConversationInv
<1>2. ConversationInv /\ [Next]_vars => ConversationInv'
  BY Steps, RecordsStep, OneActiveStep, ThreadStep, ResultsStep, WorkStep DEF ConversationInv
<1> QED
  BY <1>1, <1>2

\* ConversationInv holds in every reachable state.
THEOREM ConversationInvariant == Spec => []ConversationInv
BY ConversationInductive, PTL DEF Spec

\* Requests with the same Idempotency-Key are one question: they never make two
\* Runs, and all of them are answered with the same one.
THEOREM KeysAreOneQuestion == Spec => []OneQuestionPerKey
<1>1. ConversationInv => OneQuestionPerKey
  BY DEF ConversationInv, RecordsName, OneQuestionPerKey
<1> QED
  BY <1>1, ConversationInvariant, PTL

\* An answer cites Evidence of its own Run, within the versions the question
\* was about when it was posted.
THEOREM CitationsStayInScope == Spec => []CitationsInScope
<1>1. ConversationInv => CitationsInScope
  BY DEF ConversationInv, ResultsFollow
<1> QED
  BY <1>1, ConversationInvariant, PTL

\* A conversation has one active Run at most, and reads as question and answer:
\* one answer, directly behind its question, exactly if the Run has succeeded.
THEOREM AnswersFollowQuestions == Spec => []AnswersFollow
<1>1. ASSUME ConversationInv PROVE AnswersFollow
  <2> USE <1>1 DEF ConversationInv
  <2>1. ASSUME NEW r \in Requests
        PROVE  LET answers == {i \in DOMAIN messages :
                                 messages[i] = [role |-> "assistant", run |-> r]}
               IN /\ Cardinality(answers) = IF run[r].status = "succeeded" THEN 1 ELSE 0
                  /\ answers # {} <=> result[r].claims # NoClaims
    <3> DEFINE answers == {i \in DOMAIN messages :
                             messages[i] = [role |-> "assistant", run |-> r]}
    <3>1. answers # {} <=> result[r].claims # NoClaims
      <4>1. ASSUME NEW i \in answers
            PROVE  result[r].claims # NoClaims
        <5>1. i \in DOMAIN messages /\ messages[i].role = "assistant" /\ messages[i].run = r
          OBVIOUS
        <5> QED
          BY <5>1 DEF ThreadFollows
      <4>2. result[r].claims # NoClaims => answers # {}
        BY DEF ThreadFollows
      <4> QED
        BY <4>1, <4>2
    <3>2. CASE answers = {}
      BY <3>1, <3>2, FS_EmptySet DEF ThreadFollows
    <3>3. CASE answers # {}
      <4>1. PICK i \in answers : TRUE
        BY <3>3
      <4>2. answers = {i}
        BY <4>1 DEF ThreadFollows
      <4>3. Cardinality({i}) = 1
        BY FS_Singleton
      <4> QED
        BY <3>1, <3>3, <4>2, <4>3 DEF ThreadFollows
    <3> QED
      BY <3>2, <3>3
  <2> QED
    BY <2>1 DEF AnswersFollow, OneActive, ThreadFollows
<1> QED
  BY <1>1, ConversationInvariant, PTL


-----------------------------------------------------------------------------
(* The Run of a question is a Run of RunLifecycle *)

\* The row of the Run of a request as RunMoves moves it: the one it will have until
\* the question is written.
RowOf(r) == IF Exists(r) THEN run[r] ELSE NewRun
Moves(r) == INSTANCE RunMoves WITH row <- RowOf(r)

\* A step makes a move of RunMoves, or leaves the row alone.
RowMove(r) == Moves(r)!Next \/ UNCHANGED RowOf(r)

LEMMA ClosedMove ==
  ASSUME NEW r \in Requests, RowOf(r) \in RunRow, NEW attempt,
         RowOf(r)' = Closed(RowOf(r), attempt)
  PROVE  RowMove(r)
<1>1. CASE attempt = RowOf(r).attempts
  BY <1>1 DEF Closed, Moves!Close, Moves!Closed, Moves!Next, RowMove
<1>2. CASE attempt # RowOf(r).attempts
  BY <1>2 DEF Closed, RunRow, RowMove
<1> QED
  BY <1>1, <1>2

LEMMA AfterFailureMove ==
  ASSUME NEW r \in Requests, NEW final \in BOOLEAN, RowOf(r)' = AfterFailure(RowOf(r), final)
  PROVE  RowMove(r)
<1>1. Moves(r)!MarkFailed
  BY DEF AfterFailure, Running, Moves!MarkFailed, Moves!AfterFailure, Moves!Running
<1> QED
  BY <1>1 DEF Moves!Next, RowMove

\* A worker whose Attempt is not the latest any more may fail the Run, and leaves
\* the latest Attempt open.
LEMMA FailedMove ==
  ASSUME NEW r \in Requests, RowOf(r) \in RunRow, NEW attempt, NEW final \in BOOLEAN,
         RowOf(r)' = FailedRun(RowOf(r), attempt, final)
  PROVE  RowMove(r)
<1>1. CASE attempt = RowOf(r).attempts
  <2>1. Moves(r)!Fail
    BY <1>1 DEF FailedRun, AfterFailure, Closed, Running, Moves!Fail, Moves!FailedRun,
       Moves!AfterFailure, Moves!Closed, Moves!Running
  <2> QED
    BY <2>1 DEF Moves!Next, RowMove
<1>2. CASE RowOf(r).status = "cancel_requested"
  BY <1>2 DEF FailedRun, RowMove
<1>3. CASE attempt # RowOf(r).attempts /\ RowOf(r).status # "cancel_requested"
  <2>1. /\ AfterFailure(RowOf(r), final) \in RunRow
        /\ AfterFailure(RowOf(r), final).attempts = RowOf(r).attempts
    BY DEF AfterFailure, RunRow, RowStatus
  <2>2. RowOf(r)' = AfterFailure(RowOf(r), final)
    BY <1>3, <2>1 DEF FailedRun, Closed, RunRow
  <2> QED
    BY <2>2, AfterFailureMove
<1> QED
  BY <1>1, <1>2, <1>3

LEMMA CancelledMove ==
  ASSUME NEW r \in Requests, RowOf(r) \in RunRow,
         \/ Cancellable(RowOf(r)) /\ RowOf(r)' = Cancelled(RowOf(r))
         \/ /\ RowOf(r).status = "cancel_requested"
            /\ RowOf(r)' = [RowOf(r) EXCEPT !.status = "cancelled"]
  PROVE  RowMove(r)
<1>1. Moves(r)!Cancel
  BY DEF Cancellable, Cancelled, Running, Terminal, Moves!Cancel, Moves!Cancellable,
     Moves!Cancelled, Moves!Running, Moves!Terminal
<1> QED
  BY <1>1 DEF Moves!Next, RowMove

\* Writing the row of one Run that exists.
LEMMA RowOfWritten ==
  ASSUME TypeOK, NEW r \in Requests, Exists(r), NEW row, row.status # "none",
         run' = [run EXCEPT ![r] = row]
  PROVE  /\ run[r] \in RunRow /\ RowOf(r) = run[r] /\ RowOf(r)' = row
         /\ \A other \in Requests : other # r => UNCHANGED RowOf(other)
<1>1. run'[r] = row /\ \A other \in Requests : other # r => run'[other] = run[other]
  BY DEF TypeOK
<1> QED
  BY <1>1, ExistsType DEF RowOf, Exists

\* What the moves make of a row is a row.
LEMMA MovedRows ==
  ASSUME NEW row \in RunRow
  PROVE  /\ \A attempt : Closed(row, attempt).status # "none"
         /\ \A final \in BOOLEAN :
              /\ AfterFailure(row, final).status # "none"
              /\ Reclaimed(row, final).status # "none"
              /\ \A attempt : FailedRun(row, attempt, final).status # "none"
         /\ Started(row).status # "none" /\ Cancelled(row).status # "none"
         /\ Succeeded(row).status # "none"
<1> USE DEF RunRow, RowStatus
<1>1. \A old \in RunRow : \A attempt : Closed(old, attempt).status # "none"
  BY DEF Closed
<1>2. \A final \in BOOLEAN :
        AfterFailure(row, final) \in RunRow /\ AfterFailure(row, final).status # "none"
  BY DEF AfterFailure
<1>3. \A final \in BOOLEAN : \A attempt : FailedRun(row, attempt, final).status # "none"
  BY <1>1, <1>2 DEF FailedRun
<1>4. \A final \in BOOLEAN : Reclaimed(row, final).status # "none"
  BY <1>2 DEF Reclaimed
<1>5. Started(row).status # "none" /\ Cancelled(row).status # "none" /\ Succeeded(row).status # "none"
  BY DEF Started, Cancelled, Succeeded
<1> QED
  BY <1>1, <1>2, <1>3, <1>4, <1>5

\* What happens to a row around its executors.
LEMMA ServiceMove ==
  ASSUME TypeOK, NEW r \in Requests,
         Cancel(r) \/ Reclaim(r) \/ \E w \in Workers : Start(w, r)
  PROVE  RowMove(r) /\ \A other \in Requests : other # r => UNCHANGED RowOf(other)
<1>1. Exists(r) /\ run[r] \in RunRow
  BY ExistsType DEF Cancel, Reclaim, Reclaimable, Start, Exists
<1>2. CASE Cancel(r)
  <2>1. Cancellable(run[r]) /\ run' = [run EXCEPT ![r] = Cancelled(run[r])]
    BY <1>2 DEF Cancel
  <2> QED
    BY <1>1, <2>1, MovedRows, RowOfWritten, CancelledMove
<1>3. CASE Reclaim(r)
  <2>1. PICK final \in BOOLEAN : run' = [run EXCEPT ![r] = Reclaimed(run[r], final)]
    BY <1>3 DEF Reclaim
  <2>2. /\ RowOf(r) = run[r] /\ RowOf(r)' = Reclaimed(run[r], final)
        /\ \A other \in Requests : other # r => UNCHANGED RowOf(other)
    BY <1>1, <2>1, MovedRows, RowOfWritten
  <2>3. Reclaimable(run[r])
    BY <1>3 DEF Reclaim
  <2>4. Moves(r)!Reclaim
    BY <2>2, <2>3 DEF Reclaimable, Reclaimed, AfterFailure, Running, Moves!Reclaim,
       Moves!Reclaimable, Moves!Reclaimed, Moves!AfterFailure, Moves!Running
  <2> QED
    BY <2>2, <2>4 DEF Moves!Next, RowMove
<1>4. ASSUME NEW w \in Workers, Start(w, r)
      PROVE  RowMove(r) /\ \A other \in Requests : other # r => UNCHANGED RowOf(other)
  <2>1. run[r].status = "queued" /\ run' = [run EXCEPT ![r] = Started(run[r])]
    BY <1>4 DEF Start
  <2>2. /\ RowOf(r) = run[r] /\ RowOf(r)' = Started(run[r])
        /\ \A other \in Requests : other # r => UNCHANGED RowOf(other)
    BY <1>1, <2>1, MovedRows, RowOfWritten
  <2>3. Moves(r)!Claim
    BY <2>1, <2>2 DEF Started, Moves!Claim, Moves!Started
  <2> QED
    BY <2>2, <2>3 DEF Moves!Next, RowMove
<1> QED
  BY <1>2, <1>3, <1>4

\* Every step of a worker writes the row of its own Run, in one of these ways, or none.
LEMMA StepWritesRow ==
  ASSUME TypeOK, NEW w \in Workers, Step(w), ~UNCHANGED run
  PROVE  \/ SetRow(w, Closed(Row(w), work[w].attempt))
         \/ \E final \in BOOLEAN : \/ SetRow(w, FailedRun(Row(w), work[w].attempt, final))
                                   \/ SetRow(w, AfterFailure(Row(w), final))
         \/ Requested(w) /\ SetRow(w, [Row(w) EXCEPT !.status = "cancelled"])
         \/ Running(Row(w)) /\ SetRow(w, Succeeded(Row(w)))
<1>1. ASSUME NEW permanent \in BOOLEAN, ApplyFailure(w, permanent)
      PROVE  \E final \in BOOLEAN : SetRow(w, AfterFailure(Row(w), final))
  BY <1>1 DEF ApplyFailure, Finality
<1>2. ASSUME NEW next, Progress(w, next)
      PROVE  Requested(w) /\ SetRow(w, [Row(w) EXCEPT !.status = "cancelled"])
  BY <1>2 DEF Progress, Finalize
<1>3. CASE Search(w)
  BY <1>1, <1>2, <1>3 DEF Search
<1>4. CASE CommitEvidence(w)
  BY <1>1, <1>4 DEF CommitEvidence
<1>5. CASE Generate(w) \/ InvalidOutput(w)
  BY <1>1, <1>2, <1>5 DEF Generate, InvalidOutput, FailInvalidOutput
<1>6. CASE CommitAnswer(w)
  BY <1>6 DEF CommitAnswer, Finalize, Row
<1>7. CASE Return(w) \/ Fail(w)
  BY <1>7 DEF Return, Fail, Finality
<1> QED
  BY <1>3, <1>4, <1>5, <1>6, <1>7 DEF Step

LEMMA WorkerMove ==
  ASSUME TypeOK, NEW w \in Workers, WorkFollows(w), Step(w), ~UNCHANGED run,
         NEW r \in Requests, r = work[w].run, Exists(r)
  PROVE  RowMove(r) /\ \A other \in Requests : other # r => UNCHANGED RowOf(other)
<1>1. run[r] \in RunRow /\ Row(w) = run[r]
  BY ExistsType DEF Row
<1>2. ASSUME NEW row, row.status # "none", SetRow(w, row)
      PROVE  /\ RowOf(r) = run[r] /\ RowOf(r)' = row
             /\ \A other \in Requests : other # r => UNCHANGED RowOf(other)
  BY <1>2, RowOfWritten DEF SetRow
<1>3. CASE SetRow(w, Closed(Row(w), work[w].attempt))
  BY <1>1, <1>2, <1>3, MovedRows, ClosedMove
<1>4. ASSUME NEW final \in BOOLEAN, SetRow(w, FailedRun(Row(w), work[w].attempt, final))
      PROVE  RowMove(r) /\ \A other \in Requests : other # r => UNCHANGED RowOf(other)
  BY <1>1, <1>2, <1>4, MovedRows, FailedMove
<1>5. ASSUME NEW final \in BOOLEAN, SetRow(w, AfterFailure(Row(w), final))
      PROVE  RowMove(r) /\ \A other \in Requests : other # r => UNCHANGED RowOf(other)
  BY <1>1, <1>2, <1>5, MovedRows, AfterFailureMove
<1>6. CASE Requested(w) /\ SetRow(w, [Row(w) EXCEPT !.status = "cancelled"])
  <2>1. [run[r] EXCEPT !.status = "cancelled"].status # "none"
    BY <1>1 DEF RunRow
  <2> QED
    BY <1>1, <1>2, <1>6, <2>1, CancelledMove DEF Requested
<1>7. CASE Running(Row(w)) /\ SetRow(w, Succeeded(Row(w)))
  <2>1. /\ RowOf(r) = run[r] /\ RowOf(r)' = Succeeded(run[r])
        /\ \A other \in Requests : other # r => UNCHANGED RowOf(other)
    BY <1>1, <1>2, <1>7, MovedRows
  <2>2. Moves(r)!Succeed
    BY <1>1, <1>7, <2>1 DEF Running, Succeeded, Moves!Succeed, Moves!Running, Moves!Succeeded
  <2> QED
    BY <2>1, <2>2 DEF Moves!Next, RowMove
<1> QED
  BY <1>3, <1>4, <1>5, <1>6, <1>7, StepWritesRow

\* The question of a request is written once, so that its Run is created once.
LEMMA NextMovesRuns ==
  ASSUME ConversationInv, [Next]_vars, NEW r \in Requests
  PROVE  RowMove(r)
<1> USE DEF ConversationInv
<1>1. ASSUME UNCHANGED run PROVE RowMove(r)
  BY <1>1 DEF RowMove, RowOf, Exists
<1>2. ASSUME NEW other \in Requests, WritePost(other), ~UNCHANGED run PROVE RowMove(r)
  <2>1. /\ record[key[other]] = 0 /\ run' = [run EXCEPT ![other] = NewRun]
    BY <1>2 DEF WritePost, Question, Insertable
  <2>2. ~Exists(other)
    BY <2>1, ConversationAssumption DEF RecordsName
  <2>3. UNCHANGED RowOf(r)
    BY <2>1, <2>2 DEF TypeOK, RowOf, Exists, NewRun
  <2> QED
    BY <2>3 DEF RowMove
<1>3. ASSUME NEW other \in Requests,
             Cancel(other) \/ Reclaim(other) \/ \E w \in Workers : Start(w, other)
      PROVE  RowMove(r)
  BY <1>3, ServiceMove DEF RowMove
<1>4. ASSUME NEW w \in Workers, Step(w), ~UNCHANGED run PROVE RowMove(r)
  <2>1. work[w].pc # "idle"
    BY <1>4 DEF Step, Search, CommitEvidence, Generate, InvalidOutput, CommitAnswer, Return, Fail, At
  <2>2. PICK other \in Requests : other = work[w].run /\ Exists(other)
    BY <2>1 DEF WorkFollows
  <2>3. RowMove(other) /\ \A next \in Requests : next # other => UNCHANGED RowOf(next)
    BY <1>4, <2>2, WorkerMove
  <2> QED
    BY <2>3 DEF RowMove
<1>5. \/ UNCHANGED run
      \/ \E other \in Requests : \/ WritePost(other) \/ Cancel(other) \/ Reclaim(other)
                                 \/ \E w \in Workers : Start(w, other)
      \/ \E w \in Workers : Step(w)
  <2>1. CASE LibraryStep
    BY <2>1, LibraryType DEF Talk
  <2> QED
    BY <2>1 DEF Next, vars, CreateConversation, ReadPost, Crash
<1> QED
  BY <1>1, <1>2, <1>3, <1>4, <1>5

\* The Run of every question is created once and makes the moves of RunMoves only,
\* as the machinery of RunLifecycle does, whatever posts, slow workers and the
\* reconciler do.
THEOREM AnswerRunMoves == Spec => \A r \in Requests : Moves(r)!Spec
<1> SUFFICES ASSUME NEW r \in Requests PROVE Spec => Moves(r)!Spec
  OBVIOUS
<1>1. Init => Moves(r)!Init
  BY DEF Init, RowOf, Exists, NoRun, NewRun, Moves!Init, Moves!NewRun
<1>2. ConversationInv /\ [Next]_vars => [Moves(r)!Next]_(RowOf(r))
  BY NextMovesRuns DEF RowMove
<1> QED
  BY <1>1, <1>2, ConversationInvariant, PTL DEF Spec, Moves!Spec

=============================================================================
