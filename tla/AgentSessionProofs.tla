-------------------------- MODULE AgentSessionProofs --------------------------
(***************************************************************************)
(* Proofs about AgentSession, for any number of requests, uploads,         *)
(* viewers, Turns and browser controls.                                    *)
(***************************************************************************)
EXTENDS AgentSession, FiniteSetTheorems, TLAPS

-----------------------------------------------------------------------------
(* The inductive invariant *)

\* The control that is ACTIVE has a number. The connection that was let in with
\* it and does not leave holds its slot.
SlotHeld ==
  /\ control.status = "active" => control.number \in Controls
  /\ \A v \in Viewers : viewer[v].pc # "idle" => viewer[v].number <= control.number
  /\ \A v \in Viewers :
       (/\ viewer[v].pc \in {"claimed", "resolved", "connected"}
        /\ viewer[v].number = control.number /\ control.status = "active")
         => control.viewer = v

\* An upload that wants to register the file has written it, and a row that is
\* AVAILABLE has its blob.
BlobWritten ==
  /\ attachment.status # "none" => attachment.blob
  /\ \A u \in Uploads : upload[u] = "register" => attachment.blob

\* What was said last was said for the unfinished Turn; messages and records
\* belong to Turns, and there are finitely many.
HistoryGrows ==
  /\ IsFiniteSet(messages)
  /\ \A m \in messages : m.turn \in Posted
  /\ \A t \in Turns : Busy(t) => session.next = turn[t].context.through + 1
  /\ IsFiniteSet({r \in Requests : record[r] # 0})
  /\ \A r \in Requests : record[r] # 0 => record[r] \in Posted
  /\ \A r \in Requests : request[r].pc = "answered" => record[key[r]] # 0

SessionInv ==
  /\ TypeOK /\ ControlExcludesTurns /\ SlotHeld /\ OneViewer
  /\ BlobWritten /\ AttachmentsReadable /\ HistoryGrows /\ HistoryInOrder

-----------------------------------------------------------------------------
(* Types *)

\* The initial records are typed.
LEMMA EmptyType ==
  /\ NoTurn \in Turn /\ NoControl \in Control /\ IdleViewer \in Viewer /\ NoProfile \in Profile
<1>1. NoTurn \in Turn
  BY DEF NoTurn, Turn, Context, Profile, NoProfile, Unfinished, Final
<1>2. NoControl \in Control /\ IdleViewer \in Viewer
  BY SessionAssumption DEF NoControl, Control, IdleViewer, Viewer
<1>3. NoProfile \in Profile
  BY DEF NoProfile, Profile
<1> QED
  BY <1>1, <1>2, <1>3

\* The initial state is typed.
LEMMA InitType == Init => TypeOK
<1> SUFFICES ASSUME Init PROVE TypeOK
  OBVIOUS
<1>1. bound \in Bounds /\ key \in [Requests -> Requests] /\ messages \subseteq Message
  BY DEF Init
<1>2. request \in [Requests -> Request] /\ record \in [Requests -> 0 .. MaxTurns]
      /\ session \in Session
  BY SessionAssumption DEF Init, Request, Session
<1>3. /\ turn \in [Turns -> Turn] /\ profile \in Profile /\ control \in Control
      /\ viewer \in [Viewers -> Viewer]
  BY EmptyType DEF Init
<1>4. lease \in Lease /\ closed \in [Controls -> Nat] /\ attachment \in Attachment
      /\ upload \in [Uploads -> {"new", "write", "register", "answered"}]
  BY DEF Init, Lease, Attachment
<1> QED
  BY <1>1, <1>2, <1>3, <1>4 DEF TypeOK

\* What belongs to TypeOK part by part.
LEMMA Types ==
  ASSUME TypeOK
  PROVE  /\ session.active \in 0 .. MaxTurns /\ session.next \in Nat \ {0}
         /\ \A t \in Turns : /\ turn[t] \in Turn /\ turn[t].context \in Context
                             /\ turn[t].context.through \in Nat
         /\ control.number \in 0 .. MaxControls
         /\ \A c \in Controls : closed[c] \in Nat
         /\ \A v \in Viewers : viewer[v].number \in 0 .. MaxControls
         /\ lease.fence \in Nat /\ lease.box \in Nat
         /\ bound.controls \in 0 .. MaxControls
         /\ bound.requests \subseteq Requests /\ bound.uploads \subseteq Uploads
BY BoundsAssumption
   DEF TypeOK, Session, Turn, Context, Control, Viewer, Lease, Bound

\* The steps of a request keep the types.
LEMMA RequestType ==
  ASSUME TypeOK, NEW r \in Requests, ReadKey(r) \/ Post(r)
  PROVE  TypeOK'
<1>1. ASSUME NEW t \in 0 .. MaxTurns, Answer(r, t)
      PROVE  request' \in [Requests -> Request]
  BY <1>1 DEF Answer, TypeOK, Request
<1>2. CASE ReadKey(r)
  <2>1. request' \in [Requests -> Request]
    <3>1. record[key[r]] \in 0 .. MaxTurns
      BY DEF TypeOK
    <3>2. CASE request' = [request EXCEPT ![r].pc = "post"]
      BY <3>2 DEF TypeOK, Request
    <3> QED
      BY <1>1, <1>2, <3>1, <3>2 DEF ReadKey
  <2> QED
    BY <1>2, <2>1 DEF ReadKey, TypeOK, Browser, Files
<1>3. ASSUME NEW t \in Turns, NEW attached \in BOOLEAN,
             Said(t, "user"), ClaimTurn(t), turn' = [turn EXCEPT ![t] = NewTurn(attached)],
             record' = [record EXCEPT ![key[r]] = t], Answer(r, t),
             UNCHANGED <<bound, key, profile, lease>>, UNCHANGED <<Browser, Files>>
      PROVE  TypeOK'
  <2>1. t \in 0 .. MaxTurns
    BY SessionAssumption DEF Turns
  <2>2. [seq |-> session.next, turn |-> t, role |-> "user"] \in Message
    BY Types DEF Message
  <2>3. messages' \subseteq Message
    BY <1>3, <2>2 DEF Said, TypeOK
  <2>4. session' \in Session
    BY <1>3, <2>1, Types DEF ClaimTurn, Session
  <2>5. NewTurn(attached) \in Turn
    BY Types DEF NewTurn, Turn, FrozenContext, FrozenPolicy, Context, Unfinished, Final, TypeOK
  <2>6. turn' \in [Turns -> Turn] /\ record' \in [Requests -> 0 .. MaxTurns]
    BY <1>3, <2>1, <2>5 DEF TypeOK
  <2>7. request' \in [Requests -> Request]
    BY <1>1, <1>3, <2>1
  <2> QED
    BY <1>3, <2>3, <2>4, <2>6, <2>7 DEF TypeOK, Browser, Files
<1>4. CASE Post(r) /\ request' = [request EXCEPT ![r].pc = "new"]
                   /\ UNCHANGED <<record, session, turn, messages>>
  <2>1. request' \in [Requests -> Request]
    BY <1>4 DEF TypeOK, Request
  <2> QED
    BY <1>4, <2>1 DEF Post, TypeOK, Browser, Files
<1> QED
  BY <1>2, <1>3, <1>4 DEF Post

\* The steps of a Turn keep the types.
LEMMA TurnType ==
  ASSUME TypeOK, NEW t \in Turns,
         \/ Attempt(t) \/ Materialize(t) \/ Succeed(t) \/ EndTurn(t) \/ Cancel(t)
         \/ ReleaseIfTerminal(t)
  PROVE  TypeOK'
<1>1. ASSUME NEW status \in Unfinished \cup Final, SetStatus(t, status)
      PROVE  turn' \in [Turns -> Turn]
  <2>1. [turn[t] EXCEPT !.status = status, !.inbox = FALSE] \in Turn
    BY Types DEF Turn
  <2> QED
    BY <1>1, <2>1 DEF SetStatus, TypeOK
<1>2. [turn EXCEPT ![t].inbox = TRUE] \in [Turns -> Turn]
  <2>1. [turn[t] EXCEPT !.inbox = TRUE] \in Turn
    BY Types DEF Turn
  <2> QED
    BY <2>1 DEF TypeOK
<1>3. turn' \in [Turns -> Turn]
  BY <1>1, <1>2 DEF Attempt, Materialize, Succeed, EndTurn, Cancel, ReleaseIfTerminal, Unfinished,
     Final, TypeOK
<1>4. ReleasedIf(t) \in Session
  BY SessionAssumption DEF ReleasedIf, TypeOK, Session
<1>5. CASE Succeed(t)
  <2>1. [seq |-> session.next, turn |-> t, role |-> "assistant"] \in Message
    BY Types DEF Message
  <2>2. messages' \subseteq Message
    BY <1>5, <2>1 DEF Succeed, Said, TypeOK
  <2>3. session' \in Session
    BY <1>5, Types, SessionAssumption DEF Succeed, Session
  <2> QED
    BY <1>3, <1>5, <2>2, <2>3 DEF Succeed, NothingElse, TypeOK
<1>6. CASE ~Succeed(t)
  <2>1. session' \in Session /\ UNCHANGED messages /\ NothingElse
    BY <1>4, <1>6 DEF Attempt, Materialize, EndTurn, Cancel, ReleaseIfTerminal, TypeOK
  <2> QED
    BY <1>3, <2>1 DEF NothingElse, TypeOK
<1> QED
  BY <1>5, <1>6

\* The sandbox Lease and the profiles keep the types.
LEMMA LeaseType ==
  ASSUME TypeOK, MoveLease \/ UpdateMcpProfile \/ UpdateSkillProfile
  PROVE  /\ TypeOK' /\ UNCHANGED <<Posting, session, turn, messages>>
         /\ UNCHANGED <<Browser, Files>>
<1>1. UNCHANGED <<Posting, session, turn, messages>> /\ UNCHANGED <<Browser, Files>>
  BY DEF MoveLease, UpdateMcpProfile, UpdateSkillProfile
<1>2. CASE MoveLease
  <2>1. \A box \in {lease.box, lease.box + 1} :
          [status |-> "active", box |-> box, fence |-> lease.fence + 1, expired |-> FALSE] \in Lease
    BY Types DEF Lease
  <2>2. \A status \in {"dirty", "retired"} : [lease EXCEPT !.status = status] \in Lease
    BY DEF TypeOK, Lease
  <2>3. lease' \in Lease
    BY <1>2, <2>1, <2>2 DEF MoveLease
  <2> QED
    BY <1>1, <1>2, <2>3 DEF MoveLease, TypeOK, Posting, Browser, Files
<1>3. ASSUME NEW kind \in {"mcp", "skill"}, NextRevision(kind), UNCHANGED lease
      PROVE  TypeOK'
  <2>1. profile[kind] + 1 \in Nat
    BY DEF TypeOK, Profile
  <2>2. profile' \in Profile
    BY <1>3, <2>1 DEF NextRevision, TypeOK, Profile
  <2> QED
    BY <1>1, <1>3, <2>2 DEF TypeOK, Posting, Browser, Files
<1> QED
  BY <1>1, <1>2, <1>3 DEF UpdateMcpProfile, UpdateSkillProfile

\* Closing a control and opening the next one.
LEMMA ControlType ==
  ASSUME TypeOK, SlotHeld
  PROVE  /\ \A status \in {"ended", "expired"} :
              (Close(status) /\ control.status = "active")
                => control' \in Control /\ closed' \in [Controls -> Nat]
         /\ NewControl => control' \in Control /\ closed' \in [Controls -> Nat]
         /\ [control EXCEPT !.expired = TRUE] \in Control
         /\ [control EXCEPT !.viewer = NoViewer] \in Control
         /\ \A v \in Viewers : [control EXCEPT !.viewer = v] \in Control
<1>1. ASSUME control.status = "active"
      PROVE  [closed EXCEPT ![control.number] = @ + 1] \in [Controls -> Nat]
  BY <1>1, Types DEF SlotHeld, TypeOK
<1>2. ASSUME NEW status \in {"ended", "expired"}, Close(status), control.status = "active"
      PROVE  control' \in Control /\ closed' \in [Controls -> Nat]
  BY <1>1, <1>2 DEF Close, TypeOK, Control
<1>3. ASSUME NewControl
      PROVE  control' \in Control /\ closed' \in [Controls -> Nat]
  <2>1. control.number + 1 \in 0 .. MaxControls
    BY <1>3, Types, SessionAssumption DEF NewControl
  <2>2. [NoControl EXCEPT !.number = control.number + 1, !.status = "active",
                          !.box = lease.box, !.fence = lease.fence] \in Control
    BY <2>1, EmptyType, Types DEF Control
  <2> QED
    BY <1>1, <1>3, <2>2 DEF NewControl, TypeOK
<1>4. /\ [control EXCEPT !.expired = TRUE] \in Control
      /\ [control EXCEPT !.viewer = NoViewer] \in Control
      /\ \A v \in Viewers : [control EXCEPT !.viewer = v] \in Control
  BY DEF TypeOK, Control
<1> QED
  BY <1>2, <1>3, <1>4

\* The steps of BrowserControlService, of a connection and of the attachment.
BrowserStep ==
  StartControl \/ GetControl \/ EndControl \/ ExpireControl \/ ExpireLease
ViewerStep(v) ==
  ClaimView(v) \/ ResolveTarget(v) \/ Connect(v) \/ FenceGuard(v) \/ Disconnect(v)
    \/ ReleaseView(v) \/ CrashView(v)
UploadStep == (\E u \in Uploads : ReadUpload(u) \/ WriteUpload(u) \/ RegisterUpload(u))
                \/ DeleteAttachment

\* The steps of BrowserControlService keep the types.
LEMMA BrowserType ==
  ASSUME TypeOK, SlotHeld, BrowserStep
  PROVE  TypeOK' /\ BrowserElse /\ UNCHANGED viewer
<1>1. BrowserElse /\ UNCHANGED viewer
  BY DEF BrowserStep, StartControl, GetControl, EndControl, ExpireControl, ExpireLease
<1>2. session' \in Session
  BY SessionAssumption DEF BrowserStep, StartControl, GetControl, EndControl, ExpireControl,
     ExpireLease, TypeOK, Session
<1>3. lease' \in Lease
  BY DEF BrowserStep, StartControl, GetControl, EndControl, ExpireControl, ExpireLease, TypeOK, Lease
<1>4. control' \in Control /\ closed' \in [Controls -> Nat]
  <2>1. CASE StartControl
    BY <2>1, ControlType DEF StartControl, TypeOK
  <2>2. CASE GetControl \/ EndControl
    BY <2>2, ControlType DEF GetControl, EndControl
  <2>3. CASE ExpireControl \/ ExpireLease
    BY <2>3, ControlType DEF ExpireControl, ExpireLease, TypeOK
  <2> QED
    BY <2>1, <2>2, <2>3 DEF BrowserStep
<1> QED
  BY <1>1, <1>2, <1>3, <1>4 DEF BrowserElse, TypeOK

\* The steps of a connection keep the types.
LEMMA ViewerType ==
  ASSUME TypeOK, SlotHeld, NEW v \in Viewers, ViewerStep(v)
  PROVE  /\ TypeOK' /\ BrowserElse /\ UNCHANGED <<session, lease, closed>>
         /\ \A w \in Viewers \ {v} : viewer'[w] = viewer[w]
<1> USE DEF ViewerStep
<1>1. BrowserElse /\ UNCHANGED <<session, lease, closed>>
  BY DEF ClaimView, ResolveTarget, Connect, FenceGuard, Disconnect, ReleaseView, CrashView
<1>2. viewer' \in [Viewers -> Viewer] /\ \A w \in Viewers \ {v} : viewer'[w] = viewer[w]
  <2>1. CASE ClaimView(v)
    <3>1. [pc |-> "claimed", number |-> control.number, box |-> control.box,
           fence |-> control.fence] \in Viewer
      BY DEF TypeOK, Control, Viewer
    <3> QED
      BY <2>1, <3>1 DEF ClaimView, TypeOK
  <2>2. ASSUME NEW pc \in {"resolved", "connected", "leaving"}, GotoView(v, pc)
        PROVE  viewer' \in [Viewers -> Viewer] /\ \A w \in Viewers \ {v} : viewer'[w] = viewer[w]
    BY <2>2 DEF GotoView, TypeOK, Viewer
  <2>3. CASE ReleaseView(v) \/ CrashView(v)
    BY <2>3, EmptyType DEF ReleaseView, CrashView, TypeOK
  <2>4. CASE ResolveTarget(v) \/ Connect(v) \/ FenceGuard(v) \/ Disconnect(v)
    BY <2>2, <2>4 DEF ResolveTarget, Connect, FenceGuard, Disconnect
  <2> QED
    BY <2>1, <2>3, <2>4
<1>3. control' \in Control
  BY ControlType DEF ClaimView, ResolveTarget, Connect, FenceGuard, Disconnect, ReleaseView,
     CrashView, TypeOK
<1> QED
  BY <1>1, <1>2, <1>3 DEF BrowserElse, TypeOK

\* The steps of AgentAttachmentService keep the types.
LEMMA UploadType ==
  ASSUME TypeOK, UploadStep
  PROVE  TypeOK' /\ FilesElse
<1>1. FilesElse
  BY DEF UploadStep, ReadUpload, WriteUpload, RegisterUpload, DeleteAttachment
<1>2. attachment' \in Attachment
  BY DEF UploadStep, ReadUpload, WriteUpload, RegisterUpload, DeleteAttachment, TypeOK, Attachment
<1>3. upload' \in [Uploads -> {"new", "write", "register", "answered"}]
  BY DEF UploadStep, ReadUpload, WriteUpload, RegisterUpload, DeleteAttachment, TypeOK
<1> QED
  BY <1>1, <1>2, <1>3 DEF FilesElse, TypeOK

-----------------------------------------------------------------------------
(* What the steps of Turns may touch *)

\* A Turn other than its answer: it keeps its context, does not leave a final
\* status and does not succeed; the Session is released only if it has ended.
Moves(t) ==
  /\ NothingElse /\ UNCHANGED messages
  /\ \A u \in Turns \ {t} : turn'[u] = turn[u]
  /\ turn'[t].context = turn[t].context
  /\ turn'[t].status \in Unfinished \cup Final
  /\ turn[t].status \in Final => turn'[t].status = turn[t].status
  /\ turn'[t].status = "succeeded" <=> turn[t].status = "succeeded"
  /\ session' = session \/ (session' = ReleasedIf(t) /\ turn'[t].status \in Final)

\* The answer of a Turn.
Answered(t) ==
  /\ NothingElse /\ Said(t, "assistant")
  /\ turn[t].status = "running" /\ session.active = t
  /\ \A u \in Turns \ {t} : turn'[u] = turn[u]
  /\ turn'[t].context = turn[t].context /\ turn'[t].status = "succeeded"
  /\ session' = [active |-> 0, next |-> session.next + 1]

\* Every step of a Turn is one of the two.
LEMMA TurnMoves ==
  ASSUME TypeOK, NEW t \in Posted,
         \/ Attempt(t) \/ Materialize(t) \/ Succeed(t) \/ EndTurn(t) \/ Cancel(t)
         \/ ReleaseIfTerminal(t)
  PROVE  Moves(t) \/ Answered(t)
<1>0. t \in Turns /\ turn[t] \in Turn /\ turn[t].status \in Unfinished \cup Final
  BY DEF Posted, TypeOK, Turn
<1> USE DEF Unfinished, Final
<1>1. ASSUME NEW status, SetStatus(t, status)
      PROVE  /\ \A u \in Turns \ {t} : turn'[u] = turn[u]
             /\ turn'[t].context = turn[t].context /\ turn'[t].status = status
  BY <1>0, <1>1 DEF SetStatus, TypeOK, Turn
<1>2. CASE Attempt(t) \/ Cancel(t)
  BY <1>0, <1>1, <1>2 DEF Attempt, Cancel, Moves
<1>3. CASE Materialize(t)
  <2>1. CASE turn' = [turn EXCEPT ![t].inbox = TRUE]
    <3>1. /\ \A u \in Turns \ {t} : turn'[u] = turn[u]
          /\ turn'[t].context = turn[t].context /\ turn'[t].status = turn[t].status
      BY <1>0, <2>1 DEF TypeOK, Turn
    <3> QED
      BY <1>0, <1>3, <3>1 DEF Materialize, Moves
  <2>2. CASE SetStatus(t, "failed")
    BY <1>0, <1>1, <1>3, <2>2 DEF Materialize, Moves
  <2> QED
    BY <1>3, <2>1, <2>2 DEF Materialize
<1>4. CASE Succeed(t)
  BY <1>0, <1>1, <1>4 DEF Succeed, Answered
<1>5. CASE EndTurn(t)
  BY <1>0, <1>1, <1>5 DEF EndTurn, Moves
<1>6. CASE ReleaseIfTerminal(t)
  BY <1>0, <1>6 DEF ReleaseIfTerminal, Moves
<1> QED
  BY <1>2, <1>3, <1>4, <1>5, <1>6

\* A message that is accepted: the next Turn, with its context.
Accepted(r, t, attached) ==
  /\ ~Refused /\ KeyFree(r) /\ t \in Turns \ Posted /\ t = Cardinality(Posted) + 1
  /\ Available(attached) /\ Said(t, "user") /\ ClaimTurn(t)
  /\ turn'[t].status = "queued"
  /\ turn'[t].context = [through |-> session.next, attached |-> attached]
  /\ \A u \in Turns \ {t} : turn'[u] = turn[u]
  /\ record' = [record EXCEPT ![key[r]] = t] /\ Answer(r, t)
  /\ UNCHANGED <<bound, key, profile, lease>> /\ UNCHANGED <<Browser, Files>>

\* A request that is not accepted: it only reads.
OnlyReads(r) ==
  /\ \/ record[key[r]] # 0 /\ Answer(r, record[key[r]])
     \/ \E pc \in {"new", "post"} : request' = [request EXCEPT ![r].pc = pc]
  /\ UNCHANGED <<bound, key, record, session, turn, messages, profile, lease>>
  /\ UNCHANGED <<Browser, Files>>

\* Every step of a request is one of the two.
LEMMA RequestMoves ==
  ASSUME TypeOK, NEW r \in Requests, ReadKey(r) \/ Post(r)
  PROVE  OnlyReads(r) \/ \E t \in Turns, attached \in BOOLEAN : Accepted(r, t, attached)
<1>1. CASE ReadKey(r)
  BY <1>1 DEF ReadKey, OnlyReads
<1>2. CASE Post(r) /\ request' = [request EXCEPT ![r].pc = "new"]
                   /\ UNCHANGED <<record, session, turn, messages>>
  BY <1>2 DEF Post, OnlyReads
<1>3. ASSUME NEW t \in Turns \ Posted, NEW attached \in BOOLEAN,
             turn' = [turn EXCEPT ![t] = NewTurn(attached)]
      PROVE  /\ turn'[t].status = "queued"
             /\ turn'[t].context = [through |-> session.next, attached |-> attached]
             /\ \A u \in Turns \ {t} : turn'[u] = turn[u]
  BY <1>3 DEF NewTurn, FrozenContext, TypeOK
<1> QED
  BY <1>1, <1>2, <1>3 DEF Post, Accepted

\* Every step is one of a request, a Turn, the Lease or a profile, the browser,
\* a connection, or the attachment.
LEMMA Steps ==
  ASSUME SessionInv, [Next]_vars
  PROVE  /\ TypeOK'
         /\ \/ \E r \in Requests : OnlyReads(r)
            \/ \E r \in Requests, t \in Turns, attached \in BOOLEAN : Accepted(r, t, attached)
            \/ \E t \in Posted : Moves(t) \/ Answered(t)
            \/ /\ UNCHANGED <<Posting, session, turn, messages>>
               /\ UNCHANGED <<Browser, Files>>
            \/ BrowserStep
            \/ \E v \in Viewers : ViewerStep(v)
            \/ UploadStep
<1> USE DEF SessionInv
<1>1. ASSUME NEW r \in bound.requests, ReadKey(r) \/ Post(r)
      PROVE  /\ r \in Requests /\ TypeOK'
             /\ OnlyReads(r) \/ \E t \in Turns, attached \in BOOLEAN : Accepted(r, t, attached)
  BY <1>1, RequestType, RequestMoves, Types
<1>2. ASSUME NEW t \in Posted,
             \/ Attempt(t) \/ Materialize(t) \/ Succeed(t) \/ EndTurn(t) \/ Cancel(t)
             \/ ReleaseIfTerminal(t)
      PROVE  TypeOK' /\ (Moves(t) \/ Answered(t))
  BY <1>2, TurnType, TurnMoves DEF Posted
<1>3. ASSUME MoveLease \/ UpdateMcpProfile \/ UpdateSkillProfile
      PROVE  /\ TypeOK' /\ UNCHANGED <<Posting, session, turn, messages>>
             /\ UNCHANGED <<Browser, Files>>
  BY <1>3, LeaseType
<1>4. ASSUME StartControl \/ GetControl \/ EndControl \/ ExpireControl \/ ExpireLease
      PROVE  TypeOK' /\ BrowserStep
  BY <1>4, BrowserType DEF BrowserStep
<1>5. ASSUME NEW v \in Viewers,
             \/ ClaimView(v) \/ ResolveTarget(v) \/ Connect(v) \/ FenceGuard(v)
             \/ Disconnect(v) \/ ReleaseView(v) \/ CrashView(v)
      PROVE  TypeOK' /\ ViewerStep(v)
  BY <1>5, ViewerType DEF ViewerStep
<1>6. ASSUME (\E u \in bound.uploads : ReadUpload(u) \/ WriteUpload(u) \/ RegisterUpload(u))
               \/ DeleteAttachment
      PROVE  TypeOK' /\ UploadStep
  BY <1>6, UploadType, Types DEF UploadStep
<1>7. CASE UNCHANGED vars
  BY <1>7 DEF vars, TypeOK, Posting, Browser, Files
<1> QED
  BY <1>1, <1>2, <1>3, <1>4, <1>5, <1>6, <1>7 DEF Next

-----------------------------------------------------------------------------
(* The parts of the invariant *)

\* A Turn that is busy is unfinished.
LEMMA BusyTurn ==
  ASSUME NEW t \in Turns
  PROVE  Busy(t) <=> turn[t].status \in Unfinished
BY SessionAssumption DEF Busy, Turns

\* The person and the agent keep excluding each other.
LEMMA ExclusionStep == SessionInv /\ [Next]_vars => ControlExcludesTurns'
<1> SUFFICES ASSUME SessionInv, [Next]_vars
             PROVE  ControlExcludesTurns'
  OBVIOUS
<1> USE DEF SessionInv
<1>0. /\ \A t \in Turns : Busy(t) <=> turn[t].status \in Unfinished
      /\ \A t \in Turns : Busy(t)' <=> turn'[t].status \in Unfinished
      /\ Unfinished \cap Final = {}
  BY BusyTurn, SessionAssumption DEF Busy, Turns, Unfinished, Final
<1>1. ASSUME UNCHANGED turn, session'.active = session.active,
             control'.status = "active" => control.status = "active"
      PROVE  ControlExcludesTurns'
  BY <1>0, <1>1 DEF ControlExcludesTurns
<1>2. ASSUME NEW t \in Posted, Moves(t)
      PROVE  ControlExcludesTurns'
  <2>0. t \in Turns /\ turn[t].status \in Unfinished \cup Final
    BY DEF Posted, TypeOK, Turn
  <2>1. UNCHANGED control /\ \A u \in Turns : Busy(u)' => Busy(u)
    BY <1>0, <1>2, <2>0 DEF Moves, NothingElse
  <2>2. CASE session' = session
    BY <2>1, <2>2 DEF ControlExcludesTurns
  <2>3. CASE session' = ReleasedIf(t) /\ turn'[t].status \in Final
    <3>1. session'.active = IF session.active = t THEN 0 ELSE session.active
      BY <2>3 DEF ReleasedIf, TypeOK, Session
    <3>2. ~Busy(t)'
      BY <1>0, <2>0, <2>3
    <3> QED
      BY <2>1, <3>1, <3>2 DEF ControlExcludesTurns
  <2> QED
    BY <1>2, <2>2, <2>3 DEF Moves
<1>3. ASSUME NEW t \in Turns, Answered(t)
      PROVE  ControlExcludesTurns'
  <2>1. \A u \in Turns : ~Busy(u)'
    <3>1. ~Busy(t)'
      BY <1>0, <1>3 DEF Answered, Unfinished
    <3>2. \A u \in Turns \ {t} : ~Busy(u) /\ (Busy(u)' <=> Busy(u))
      BY <1>0, <1>3 DEF Answered, ControlExcludesTurns
    <3> QED
      BY <3>1, <3>2
  <2> QED
    BY <1>3, <2>1 DEF Answered, ControlExcludesTurns
<1>4. ASSUME NEW r \in Requests, NEW t \in Turns, NEW attached \in BOOLEAN, Accepted(r, t, attached)
      PROVE  ControlExcludesTurns'
  <2>1. \A u \in Turns : ~Busy(u)
    BY <1>4 DEF Accepted, Refused, ControlExcludesTurns
  <2>2. session'.active = t /\ control'.status # "active"
    BY <1>4 DEF Accepted, ClaimTurn, Refused, BlocksTurn, Browser
  <2>3. \A u \in Turns \ {t} : ~Busy(u)'
    BY <1>0, <1>4, <2>1 DEF Accepted
  <2> QED
    BY <2>2, <2>3 DEF ControlExcludesTurns
<1>5. CASE BrowserStep
  <2>1. UNCHANGED turn
    BY <1>5, BrowserType DEF BrowserElse
  <2>2. CASE StartControl
    <3>1. \A u \in Turns : ~Busy(u)
      BY <2>2 DEF StartControl, ControlExcludesTurns
    <3>2. session'.active = 0
      BY <2>2 DEF StartControl, TypeOK, Session
    <3> QED
      BY <1>0, <2>1, <3>1, <3>2 DEF ControlExcludesTurns
  <2>3. CASE ~StartControl
    <3>1. UNCHANGED session /\ (control'.status = "active" => control.status = "active")
      BY <1>5, <2>3 DEF BrowserStep, GetControl, EndControl, ExpireControl, ExpireLease, Close,
         TypeOK, Control
    <3> QED
      BY <1>1, <2>1, <3>1
  <2> QED
    BY <2>2, <2>3
<1>6. ASSUME NEW v \in Viewers, ViewerStep(v)
      PROVE  ControlExcludesTurns'
  <2>1. UNCHANGED <<turn, session>>
    BY <1>6, ViewerType DEF BrowserElse
  <2>2. control'.status = control.status
    BY <1>6 DEF ViewerStep, ClaimView, ResolveTarget, Connect, FenceGuard, Disconnect,
       ReleaseView, CrashView, TypeOK, Control
  <2> QED
    BY <1>1, <2>1, <2>2
<1>7. ASSUME UNCHANGED <<turn, session, control>>
      PROVE  ControlExcludesTurns'
  BY <1>1, <1>7
<1>8. ASSUME NEW r \in Requests, OnlyReads(r)
      PROVE  UNCHANGED <<turn, session, control>>
  BY <1>8 DEF OnlyReads, Browser
<1>9. UploadStep => UNCHANGED <<turn, session, control>>
  BY UploadType DEF FilesElse
<1> QED
  BY <1>2, <1>3, <1>4, <1>5, <1>6, <1>7, <1>8, <1>9, Steps DEF Posted, Browser

\* A step that leaves the control, its Events and the connections alone.
LEMMA SlotUntouched ==
  ASSUME SlotHeld, OneViewer, UNCHANGED <<control, closed, viewer>>
  PROVE  SlotHeld' /\ OneViewer'
BY DEF SlotHeld, OneViewer

\* The Event that closes the ACTIVE control is its first one.
LEMMA ClosedOnce ==
  ASSUME SessionInv, NEW status \in {"ended", "expired"}, control.status = "active", Close(status),
         UNCHANGED viewer
  PROVE  SlotHeld' /\ OneViewer'
<1> USE DEF SessionInv
<1>1. control.number \in Controls
  BY DEF SlotHeld
<1>2. control'.status = status /\ control'.number = control.number
  BY DEF Close, TypeOK, Control
<1>3. \A c \in Controls : closed'[c] = IF c = control.number THEN closed[c] + 1 ELSE closed[c]
  BY <1>1 DEF Close, TypeOK
<1>4. SlotHeld'
  BY <1>2 DEF SlotHeld
<1>5. \A c \in Controls : closed'[c] =
        IF c < control'.number \/ (c = control'.number /\ control'.status # "active") THEN 1 ELSE 0
  BY <1>1, <1>2, <1>3 DEF OneViewer, Controls
<1> QED
  BY <1>4, <1>5 DEF OneViewer

\* A new control starts with a free slot, and the one it replaces is closed.
LEMMA OpenedNext ==
  ASSUME SessionInv, NewControl, UNCHANGED viewer
  PROVE  SlotHeld' /\ OneViewer'
<1> USE DEF SessionInv
<1>1. control'.number = control.number + 1 /\ control'.status = "active"
  BY DEF NewControl, NoControl
<1>2. control.number \in Nat /\ control'.number \in Controls
      /\ \A v \in Viewers : viewer[v].number \in Nat
  BY <1>1, Types, SessionAssumption DEF NewControl, Controls
<1>3. SlotHeld'
  BY <1>1, <1>2 DEF SlotHeld
<1>4. ASSUME NEW c \in Controls
      PROVE  closed'[c] = IF c < control'.number \/ (c = control'.number /\ control'.status # "active")
                          THEN 1 ELSE 0
  <2>1. closed'[c] = IF control.status = "active" /\ c = control.number THEN closed[c] + 1
                     ELSE closed[c]
    BY DEF NewControl, SlotHeld, TypeOK
  <2>2. closed[c] = IF c < control.number \/ (c = control.number /\ control.status # "active")
                    THEN 1 ELSE 0
    BY DEF OneViewer
  <2> QED
    BY <1>1, <1>2, <2>1, <2>2 DEF Controls
<1> QED
  BY <1>3, <1>4 DEF OneViewer

\* A step of the browser service keeps slot and Events.
LEMMA BrowserSlot ==
  ASSUME SessionInv, BrowserStep
  PROVE  SlotHeld' /\ OneViewer'
<1> USE DEF SessionInv
<1>1. UNCHANGED viewer
  BY BrowserType
<1>2. CASE StartControl
  BY <1>1, <1>2, OpenedNext, SlotUntouched DEF StartControl
<1>3. CASE GetControl \/ EndControl
  BY <1>1, <1>3, ClosedOnce DEF GetControl, EndControl
<1>4. CASE ExpireControl \/ ExpireLease
  <2>1. /\ control'.number = control.number /\ control'.status = control.status
        /\ control'.viewer = control.viewer /\ UNCHANGED closed
    BY <1>4 DEF ExpireControl, ExpireLease, TypeOK, Control
  <2> QED
    BY <1>1, <2>1 DEF SlotHeld, OneViewer
<1> QED
  BY <1>2, <1>3, <1>4 DEF BrowserStep

\* A connection that is let in finds the slot free, and frees only its own.
LEMMA ViewerSlot ==
  ASSUME SessionInv, NEW v \in Viewers, ViewerStep(v)
  PROVE  SlotHeld' /\ OneViewer'
<1> USE DEF SessionInv
<1>0. /\ \A w \in Viewers \ {v} : viewer'[w] = viewer[w]
      /\ UNCHANGED closed
      /\ control \in Control /\ viewer \in [Viewers -> Viewer] /\ viewer[v] \in Viewer
  BY ViewerType DEF TypeOK
<1>1. CASE ClaimView(v)
  <2>1. /\ control'.viewer = v /\ control'.number = control.number
        /\ control'.status = control.status /\ control.status = "active"
        /\ control.viewer = NoViewer
    BY <1>0, <1>1 DEF ClaimView, Control, Usable, SlotFree
  <2>2. viewer'[v].pc = "claimed" /\ viewer'[v].number = control.number
    BY <1>0, <1>1 DEF ClaimView
  <2>3. ASSUME NEW w \in Viewers \ {v}, viewer[w].pc # "idle", viewer[w].number = control.number
        PROVE  viewer[w].pc = "leaving"
    <3>1. viewer[w].pc \in {"idle", "claimed", "resolved", "connected", "leaving"}
      BY <1>0 DEF Viewer
    <3>2. control.viewer # w
      BY <2>1, SessionAssumption
    <3> QED
      BY <2>1, <2>3, <3>1, <3>2 DEF SlotHeld
  <2>4. SlotHeld'
    BY <1>0, <2>1, <2>2, <2>3, Types DEF SlotHeld
  <2> QED
    BY <1>0, <2>1, <2>2, <2>3, <2>4 DEF OneViewer
<1>2. CASE ResolveTarget(v) \/ Connect(v) \/ FenceGuard(v) \/ Disconnect(v)
  <2>1. UNCHANGED control
    BY <1>2 DEF ResolveTarget, Connect, FenceGuard, Disconnect
  <2>2. viewer'[v].number = viewer[v].number /\ viewer[v].pc \in {"claimed", "resolved", "connected"}
        /\ viewer'[v].pc # "idle"
    BY <1>0, <1>2 DEF ResolveTarget, Connect, FenceGuard, Disconnect, GotoView, Viewer
  <2>3. SlotHeld'
    BY <1>0, <2>1, <2>2 DEF SlotHeld
  <2>4. ASSUME NEW u \in Viewers, NEW w \in Viewers, u # w, viewer'[u].pc # "idle",
               viewer'[w].pc # "idle", viewer'[u].number = viewer'[w].number
        PROVE  "leaving" \in {viewer'[u].pc, viewer'[w].pc}
    BY <1>0, <2>2, <2>4 DEF OneViewer
  <2> QED
    BY <1>0, <2>1, <2>3, <2>4 DEF OneViewer
<1>3. CASE ReleaseView(v) \/ CrashView(v)
  <2>1. viewer'[v].pc = "idle"
    BY <1>0, <1>3 DEF ReleaseView, CrashView, IdleViewer
  <2>2. /\ control'.number = control.number /\ control'.status = control.status
        /\ control'.viewer = control.viewer \/ control.viewer = v
    BY <1>0, <1>3 DEF ReleaseView, CrashView, Control
  <2>3. SlotHeld'
    BY <1>0, <2>1, <2>2 DEF SlotHeld
  <2> QED
    BY <1>0, <2>1, <2>2, <2>3 DEF OneViewer
<1> QED
  BY <1>1, <1>2, <1>3 DEF ViewerStep

\* Every step keeps slot and Events.
LEMMA SlotStep == SessionInv /\ [Next]_vars => SlotHeld' /\ OneViewer'
<1> SUFFICES ASSUME SessionInv, [Next]_vars
             PROVE  SlotHeld' /\ OneViewer'
  OBVIOUS
<1> USE DEF SessionInv
<1>1. CASE UNCHANGED <<control, closed, viewer>>
  BY <1>1, SlotUntouched
<1>2. ASSUME NEW t \in Turns, Moves(t) \/ Answered(t)
      PROVE  UNCHANGED <<control, closed, viewer>>
  BY <1>2 DEF Moves, Answered, NothingElse
<1>3. ASSUME NEW r \in Requests,
             OnlyReads(r) \/ \E t \in Turns, attached \in BOOLEAN : Accepted(r, t, attached)
      PROVE  UNCHANGED <<control, closed, viewer>>
  BY <1>3 DEF OnlyReads, Accepted, Browser
<1>4. UploadStep => UNCHANGED <<control, closed, viewer>>
  BY UploadType DEF FilesElse
<1> QED
  BY <1>1, <1>2, <1>3, <1>4, BrowserSlot, ViewerSlot, Steps DEF Posted, Browser

\* What a context promises stays there: uploads write before they register, and
\* a file that a message refers to is not deleted.
LEMMA AttachmentStep ==
  SessionInv /\ [Next]_vars => BlobWritten' /\ AttachmentsReadable'
<1> SUFFICES ASSUME SessionInv, [Next]_vars
             PROVE  BlobWritten' /\ AttachmentsReadable'
  OBVIOUS
<1> USE DEF SessionInv
<1>1. ASSUME UNCHANGED <<attachment, upload>>,
             \A t \in Turns : turn'[t].context.attached /\ turn'[t].status # "none" =>
               \/ turn[t].context.attached /\ turn[t].status # "none"
               \/ attachment.status = "available"
      PROVE  BlobWritten' /\ AttachmentsReadable'
  BY <1>1 DEF BlobWritten, AttachmentsReadable, Posted
<1>2. CASE UNCHANGED <<attachment, upload, turn>>
  BY <1>1, <1>2
<1>3. ASSUME NEW t \in Posted, Moves(t) \/ Answered(t)
      PROVE  BlobWritten' /\ AttachmentsReadable'
  <2>1. /\ \A u \in Turns \ {t} : turn'[u] = turn[u]
        /\ turn'[t].context = turn[t].context /\ UNCHANGED <<attachment, upload>>
    BY <1>3 DEF Moves, Answered, NothingElse
  <2> QED
    BY <1>1, <2>1 DEF Posted
<1>4. ASSUME NEW r \in Requests, NEW t \in Turns, NEW attached \in BOOLEAN, Accepted(r, t, attached)
      PROVE  BlobWritten' /\ AttachmentsReadable'
  <2>1. /\ \A u \in Turns \ {t} : turn'[u] = turn[u]
        /\ turn'[t].context.attached => attachment.status = "available"
        /\ UNCHANGED <<attachment, upload>>
    BY <1>4 DEF Accepted, Available, Files
  <2> QED
    BY <1>1, <2>1
<1>5. CASE UploadStep
  <2>1. UNCHANGED turn
    BY <1>5, UploadType DEF FilesElse
  <2>2. CASE DeleteAttachment
    <3>1. /\ attachment'.blob = attachment.blob /\ UNCHANGED upload /\ ~Referenced
          /\ attachment.status = "available"
      BY <2>2 DEF DeleteAttachment, TypeOK, Attachment
    <3> QED
      BY <2>1, <3>1 DEF BlobWritten, AttachmentsReadable, Posted, Referenced
  <2>3. ASSUME NEW u \in Uploads, ReadUpload(u) \/ WriteUpload(u) \/ RegisterUpload(u)
        PROVE  BlobWritten' /\ AttachmentsReadable'
    <3>1. /\ attachment.blob => attachment'.blob
          /\ attachment.status = "available" => attachment'.status = "available"
      BY <2>3 DEF ReadUpload, WriteUpload, RegisterUpload, TypeOK, Attachment
    <3>2. \A w \in Uploads : upload'[w] = "register" => upload[w] = "register" \/ attachment'.blob
      BY <2>3 DEF ReadUpload, WriteUpload, RegisterUpload, TypeOK, Attachment
    <3>3. attachment'.status # "none" => attachment.status # "none" \/ attachment.blob
      BY <2>3 DEF ReadUpload, WriteUpload, RegisterUpload, TypeOK, Attachment, BlobWritten
    <3> QED
      BY <2>1, <3>1, <3>2, <3>3 DEF BlobWritten, AttachmentsReadable, Posted
  <2> QED
    BY <1>5, <2>2, <2>3 DEF UploadStep
<1>6. ASSUME BrowserStep \/ (\E v \in Viewers : ViewerStep(v)) \/ \E r \in Requests : OnlyReads(r)
      PROVE  UNCHANGED <<attachment, upload, turn>>
  BY <1>6, BrowserType, ViewerType DEF BrowserElse, OnlyReads, Files
<1> QED
  BY <1>2, <1>3, <1>4, <1>5, <1>6, Steps DEF Files

\* Both parts of the history.
History == HistoryGrows /\ HistoryInOrder

\* The Turns of a Session are finitely many.
LEMMA PostedFinite == IsFiniteSet(Posted)
<1>1. IsFiniteSet(1 .. MaxTurns)
  BY SessionAssumption, FS_Interval
<1>2. Posted \subseteq 1 .. MaxTurns
  BY DEF Posted, Turns
<1> QED
  BY <1>1, <1>2, FS_Subset

\* A message that is said takes the next sequence: no gap, no duplicate.
LEMMA SaidNext ==
  ASSUME TypeOK, History, NEW t \in Turns, NEW role \in {"user", "assistant"},
         Said(t, role), session'.next = session.next + 1
  PROVE  /\ messages' = messages \cup {[seq |-> session.next, turn |-> t, role |-> role]}
         /\ IsFiniteSet(messages')
         /\ {m.seq : m \in messages'} = 1 .. session'.next - 1
         /\ Cardinality(messages') = session'.next - 1
<1> DEFINE new == [seq |-> session.next, turn |-> t, role |-> role]
<1>1. session.next \in Nat \ {0}
  BY Types
<1>2. messages' = messages \cup {new}
  BY DEF Said
<1>3. \A m \in messages : m.seq \in 1 .. session.next - 1
  BY DEF History, HistoryInOrder
<1>4. new \notin messages
  BY <1>1, <1>3
<1>5. IsFiniteSet(messages) /\ Cardinality(messages) = session.next - 1
  BY DEF History, HistoryGrows, HistoryInOrder
<1>6. IsFiniteSet(messages') /\ Cardinality(messages') = session.next
  <2> HIDE DEF new
  <2>1. IsFiniteSet(messages \cup {new}) /\ Cardinality(messages \cup {new}) = Cardinality(messages) + 1
    BY <1>4, <1>5, FS_AddElement
  <2> QED
    BY <1>1, <1>2, <1>5, <2>1
<1>7. {m.seq : m \in messages'} = {m.seq : m \in messages} \cup {session.next}
  <2>1. new.seq = session.next
    OBVIOUS
  <2> HIDE DEF new
  <2> QED
    BY <1>2, <2>1
<1>8. {m.seq : m \in messages'} = 1 .. session.next
  <2>1. {m.seq : m \in messages} = 1 .. session.next - 1
    BY DEF History, HistoryInOrder
  <2>2. \A n \in Nat \ {0} : (1 .. n - 1) \cup {n} = 1 .. n
    OBVIOUS
  <2> QED
    BY <1>1, <1>7, <2>1, <2>2
<1> QED
  BY <1>1, <1>2, <1>6, <1>8

\* No Turn is posted, becomes busy or succeeds, and none changes its context.
TurnKept(t) ==
  /\ turn'[t].context = turn[t].context
  /\ turn'[t].status # "none" <=> turn[t].status # "none"
  /\ turn'[t].status = "succeeded" <=> turn[t].status = "succeeded"
  /\ turn'[t].status \in Unfinished => turn[t].status \in Unfinished

\* A step that says nothing and accepts nothing keeps the history.
LEMMA HistoryUntouched ==
  ASSUME SessionInv, UNCHANGED <<key, request, record, messages>>, session'.next = session.next,
         \A t \in Turns : TurnKept(t)
  PROVE  HistoryGrows' /\ HistoryInOrder'
<1>0. \A t \in Turns : turn'[t].status # "none" <=> turn[t].status # "none"
  BY DEF TurnKept
<1>1. Posted' = Posted /\ Posted \subseteq Turns
  BY <1>0 DEF Posted
<1>2. \A m \in messages : m.turn \in Turns
  BY <1>1 DEF SessionInv, HistoryGrows
<1>3. \A t \in Turns : Busy(t)' => Busy(t)
  BY DEF Busy, TurnKept
<1>4. HistoryGrows'
  BY <1>1, <1>3 DEF SessionInv, HistoryGrows, TurnKept
<1>5. HistoryInOrder'
  <2>1. \A t \in Posted : [seq |-> turn'[t].context.through, turn |-> t, role |-> "user"] \in messages
    BY <1>1 DEF SessionInv, HistoryInOrder, TurnKept
  <2>2. \A m \in messages : m.role = "assistant" => m.seq = turn'[m.turn].context.through + 1
    BY <1>2 DEF SessionInv, HistoryInOrder, TurnKept
  <2>3. \A t \in Posted : turn'[t].status = "succeeded" <=>
          \E m \in messages : m.turn = t /\ m.role = "assistant"
    BY <1>1 DEF SessionInv, HistoryInOrder, TurnKept
  <2> QED
    BY <1>1, <2>1, <2>2, <2>3 DEF SessionInv, HistoryInOrder
<1> QED
  BY <1>4, <1>5

\* The answer of a Turn stands directly behind its question.
LEMMA AnswerHistory ==
  ASSUME SessionInv, NEW t \in Posted, Answered(t)
  PROVE  HistoryGrows' /\ HistoryInOrder'
<1> USE DEF SessionInv
<1> DEFINE new == [seq |-> session.next, turn |-> t, role |-> "assistant"]
<1>0. t \in Turns /\ session.next \in Nat /\ session'.next = session.next + 1
      /\ UNCHANGED <<key, request, record>>
  BY Types DEF Answered, NothingElse, Posted
<1>1. /\ messages' = messages \cup {new}
      /\ IsFiniteSet(messages')
      /\ {m.seq : m \in messages'} = 1 .. session'.next - 1
      /\ Cardinality(messages') = session'.next - 1
  BY <1>0, SaidNext DEF Answered, History
<1>2. \A u \in Turns : turn'[u].context = turn[u].context
                       /\ (turn'[u].status # "none" <=> turn[u].status # "none")
  BY DEF Answered
<1>3. Posted' = Posted /\ Posted \subseteq Turns
  BY <1>2 DEF Posted
<1>4. session.next = turn[t].context.through + 1
  BY <1>0, BusyTurn DEF Answered, HistoryGrows, Unfinished
<1>5. \A u \in Turns : ~Busy(u)'
  <2>1. ~Busy(t)'
    BY <1>0 DEF Answered, Busy, Unfinished
  <2>2. \A u \in Turns \ {t} : ~Busy(u)'
    BY DEF Answered, ControlExcludesTurns, Busy
  <2> QED
    BY <2>1, <2>2
<1>6. HistoryGrows'
  BY <1>0, <1>1, <1>3, <1>5 DEF HistoryGrows
<1>7. \A m \in messages' : m.role = "assistant" => m.seq = turn'[m.turn].context.through + 1
  BY <1>1, <1>2, <1>3, <1>4 DEF HistoryGrows, HistoryInOrder
<1>8. \A u \in Posted : [seq |-> turn'[u].context.through, turn |-> u, role |-> "user"] \in messages'
  BY <1>1, <1>2, <1>3 DEF HistoryInOrder
<1>9. ASSUME NEW u \in Posted
      PROVE  turn'[u].status = "succeeded" <=> \E m \in messages' : m.turn = u /\ m.role = "assistant"
  <2>1. CASE u = t
    <3>1. new \in messages' /\ new.turn = t /\ new.role = "assistant"
      BY <1>1
    <3> QED
      BY <2>1, <3>1 DEF Answered
  <2>2. CASE u # t
    BY <1>1, <1>3, <2>2 DEF Answered, HistoryInOrder
  <2> QED
    BY <2>1, <2>2
<1> HIDE DEF new
<1>10. HistoryInOrder'
  BY <1>0, <1>1, <1>3, <1>7, <1>8, <1>9 DEF HistoryInOrder
<1> QED
  BY <1>6, <1>10

\* A message that is accepted is the question of a new Turn, recorded under its
\* key.
LEMMA QuestionHistory ==
  ASSUME SessionInv, NEW r \in Requests, NEW t \in Turns, NEW attached \in BOOLEAN,
         Accepted(r, t, attached)
  PROVE  HistoryGrows' /\ HistoryInOrder'
<1> USE DEF SessionInv
<1> DEFINE new == [seq |-> session.next, turn |-> t, role |-> "user"]
           Used == {q \in Requests : record[q] # 0}
<1>0. /\ session.next \in Nat /\ session'.next = session.next + 1 /\ UNCHANGED key
      /\ t \notin Posted /\ t # 0 /\ key[r] \in Requests
  BY SMTT(30), Types, SessionAssumption DEF Accepted, ClaimTurn, Turns, TypeOK
<1>1. /\ messages' = messages \cup {new}
      /\ IsFiniteSet(messages')
      /\ {m.seq : m \in messages'} = 1 .. session'.next - 1
      /\ Cardinality(messages') = session'.next - 1
  BY <1>0, SaidNext DEF Accepted, History
<1>2. /\ \A u \in Turns \ {t} : turn'[u] = turn[u]
      /\ turn'[t].context.through = session.next /\ turn'[t].status = "queued"
  BY DEF Accepted
<1>3. Posted' = Posted \cup {t} /\ Posted \subseteq Turns
  BY <1>2 DEF Posted
<1>4. record'[key[r]] = t /\ record[key[r]] = 0
      /\ \A q \in Requests \ {key[r]} : record'[q] = record[q]
  BY <1>0 DEF Accepted, KeyFree, TypeOK
<1>5. {q \in Requests : record'[q] # 0} = Used \cup {key[r]} /\ key[r] \notin Used
  BY <1>0, <1>4
<1>6. IsFiniteSet(Used \cup {key[r]}) /\ Cardinality(Used \cup {key[r]}) = Cardinality(Used) + 1
  <2>1. IsFiniteSet(Used)
    BY DEF HistoryGrows
  <2> HIDE DEF Used
  <2> QED
    BY <1>5, <2>1, FS_AddElement
<1>7. Cardinality(Posted \cup {t}) = Cardinality(Posted) + 1
  BY <1>0, PostedFinite, FS_AddElement
<1>8. \A u \in Turns \ {t} : ~Busy(u)'
  <2>1. \A u \in Turns : ~Busy(u)
    BY DEF Accepted, Refused, ControlExcludesTurns
  <2> QED
    BY <1>2, <2>1 DEF Busy
<1>9. \A q \in Requests : request'[q].pc = "answered" =>
        request'[q].turn = record'[key[q]] /\ record'[key[q]] # 0
  <2>1. request'[r].turn = t /\ \A q \in Requests \ {r} : request'[q] = request[q]
    BY DEF Accepted, Answer, TypeOK
  <2>2. \A q \in Requests : request[q].pc = "answered" => key[q] # key[r]
    BY <1>4 DEF HistoryGrows
  <2> QED
    BY <1>0, <1>4, <2>1, <2>2 DEF HistoryGrows, HistoryInOrder, TypeOK
<1>10. \A q \in Requests : record'[q] # 0 => record'[q] \in Posted'
  BY <1>3, <1>4 DEF HistoryGrows
<1>11. \A m \in messages' : m.turn \in Posted'
  BY <1>1, <1>3 DEF HistoryGrows
<1>12. HistoryGrows'
  <2>1. \A u \in Turns : Busy(u)' => session'.next = turn'[u].context.through + 1
    BY <1>0, <1>2, <1>8
  <2>2. IsFiniteSet({q \in Requests : record'[q] # 0})
    BY <1>5, <1>6
  <2> HIDE DEF new, Used
  <2> QED
    BY <1>0, <1>1, <1>9, <1>10, <1>11, <2>1, <2>2 DEF HistoryGrows
<1>13. \A m \in messages' : m.role = "assistant" => m.seq = turn'[m.turn].context.through + 1
  BY <1>0, <1>1, <1>2, <1>3 DEF HistoryGrows, HistoryInOrder
<1>14. \A u \in Posted' : [seq |-> turn'[u].context.through, turn |-> u, role |-> "user"] \in messages'
  BY <1>1, <1>2, <1>3 DEF HistoryInOrder
<1>15. ASSUME NEW u \in Posted'
       PROVE  turn'[u].status = "succeeded" <=> \E m \in messages' : m.turn = u /\ m.role = "assistant"
  <2>1. CASE u = t
    BY <1>0, <1>1, <1>2, <2>1 DEF HistoryGrows
  <2>2. CASE u # t
    BY <1>1, <1>2, <1>3, <2>2 DEF HistoryInOrder
  <2> QED
    BY <2>1, <2>2
<1>16. \A p, q \in Requests : record'[p] = record'[q] => p = q \/ record'[p] = 0
  BY <1>0, <1>4 DEF HistoryGrows, HistoryInOrder
<1>17. Cardinality(Posted') = Cardinality({q \in Requests : record'[q] # 0})
  BY <1>3, <1>5, <1>6, <1>7 DEF HistoryInOrder
<1> HIDE DEF new, Used
<1>18. HistoryInOrder'
  BY <1>0, <1>1, <1>9, <1>13, <1>14, <1>15, <1>16, <1>17 DEF HistoryInOrder
<1> QED
  BY <1>12, <1>18

\* Every step keeps the history in order.
LEMMA HistoryStep == SessionInv /\ [Next]_vars => HistoryGrows' /\ HistoryInOrder'
<1> SUFFICES ASSUME SessionInv, [Next]_vars
             PROVE  HistoryGrows' /\ HistoryInOrder'
  OBVIOUS
<1> USE DEF SessionInv
<1>1. ASSUME UNCHANGED <<turn, messages, key, request, record>>, session'.next = session.next
      PROVE  HistoryGrows' /\ HistoryInOrder'
  <2>1. \A t \in Turns : TurnKept(t)
    BY <1>1 DEF TurnKept
  <2> QED
    BY <1>1, <2>1, HistoryUntouched
<1>2. ASSUME NEW t \in Posted, Moves(t)
      PROVE  HistoryGrows' /\ HistoryInOrder'
  <2>1. t \in Turns /\ turn[t].status \in Unfinished \cup Final
    BY DEF Posted, TypeOK, Turn
  <2>2. session'.next = session.next /\ UNCHANGED <<key, request, record, messages>>
    BY <1>2 DEF Moves, ReleasedIf, NothingElse, TypeOK, Session
  <2>3. ASSUME NEW u \in Turns
        PROVE  TurnKept(u)
    BY <1>2, <2>1 DEF Moves, TurnKept, Unfinished, Final
  <2> QED
    BY <2>2, <2>3, HistoryUntouched
<1>3. ASSUME NEW r \in Requests, OnlyReads(r)
      PROVE  HistoryGrows' /\ HistoryInOrder'
  <2>1. UNCHANGED <<key, record, session, turn, messages>>
    BY <1>3 DEF OnlyReads
  <2>2. \A q \in Requests : request'[q].pc = "answered" =>
          record[key[q]] # 0 /\ request'[q].turn = record[key[q]]
    BY <1>3 DEF OnlyReads, Answer, TypeOK, Request, HistoryGrows, HistoryInOrder
  <2>3. UNCHANGED Posted /\ \A t \in Turns : Busy(t)' <=> Busy(t)
    BY <2>1 DEF Posted, Busy
  <2> QED
    BY <2>1, <2>2, <2>3 DEF HistoryGrows, HistoryInOrder
<1>4. CASE BrowserStep
  <2>1. BrowserElse
    BY <1>4, BrowserType
  <2>2. session'.next = session.next
    BY <1>4 DEF BrowserStep, StartControl, GetControl, EndControl, ExpireControl, ExpireLease,
       TypeOK, Session
  <2> QED
    BY <1>1, <2>1, <2>2 DEF BrowserElse
<1>5. ASSUME NEW v \in Viewers, ViewerStep(v)
      PROVE  HistoryGrows' /\ HistoryInOrder'
  BY <1>1, <1>5, ViewerType DEF BrowserElse
<1>6. CASE UploadStep
  BY <1>1, <1>6, UploadType DEF FilesElse
<1>7. CASE UNCHANGED <<Posting, session, turn, messages>>
  BY <1>1, <1>7 DEF Posting
<1> QED
  BY <1>2, <1>3, <1>4, <1>5, <1>6, <1>7, AnswerHistory, QuestionHistory, Steps

-----------------------------------------------------------------------------
(* The theorems *)

\* The invariant holds at first and after every step.
LEMMA SessionInductive ==
  /\ Init => SessionInv
  /\ SessionInv /\ [Next]_vars => SessionInv'
<1>1. ASSUME Init PROVE SessionInv
  <2>1. TypeOK
    BY <1>1, InitType
  <2>2. \A t \in Turns : ~Busy(t) /\ turn[t].status = "none"
    BY <1>1 DEF Init, NoTurn, Busy, Unfinished
  <2>3. ControlExcludesTurns /\ SlotHeld
    BY <1>1, <2>2 DEF Init, ControlExcludesTurns, SlotHeld, NoControl, IdleViewer
  <2>4. OneViewer
    BY <1>1 DEF Init, OneViewer, NoControl, IdleViewer, Controls
  <2>5. Posted = {} /\ messages = {} /\ {r \in Requests : record[r] # 0} = {}
    BY <1>1, <2>2 DEF Init, Posted
  <2>6. BlobWritten /\ AttachmentsReadable
    BY <1>1, <2>5 DEF Init, BlobWritten, AttachmentsReadable
  <2>7. HistoryGrows
    BY <1>1, <2>2, <2>5, FS_EmptySet DEF Init, HistoryGrows
  <2>8. HistoryInOrder
    <3>1. /\ {m.seq : m \in messages} = 1 .. session.next - 1
          /\ Cardinality(messages) = session.next - 1
      BY <1>1, <2>5, FS_EmptySet DEF Init
    <3>2. \A r \in Requests : request[r].pc # "answered" /\ record[r] = 0
      BY <1>1 DEF Init
    <3> QED
      BY <2>5, <3>1, <3>2 DEF HistoryInOrder
  <2> QED
    BY <2>1, <2>3, <2>4, <2>6, <2>7, <2>8 DEF SessionInv
<1>2. SessionInv /\ [Next]_vars => SessionInv'
  BY Steps, ExclusionStep, SlotStep, AttachmentStep, HistoryStep DEF SessionInv
<1> QED
  BY <1>1, <1>2

\* SessionInv holds in every reachable state.
THEOREM SessionInvariant == Spec => []SessionInv
BY SessionInductive, PTL DEF Spec

\* While a person controls the browser no Turn is unfinished, and an unfinished
\* Turn is the one that the Session points to.
THEOREM PersonOrAgent == Spec => []ControlExcludesTurns
<1>1. SessionInv => ControlExcludesTurns
  BY DEF SessionInv
<1> QED
  BY <1>1, SessionInvariant, PTL

\* What a Turn was promised in its context can be read when it is materialized.
THEOREM PromisesKept == Spec => []AttachmentsReadable
<1>1. SessionInv => AttachmentsReadable
  BY DEF SessionInv
<1> QED
  BY <1>1, SessionInvariant, PTL

\* A ticket lets one connection in at a time, and each control is closed by
\* exactly one Event.
THEOREM OneConnection == Spec => []OneViewer
<1>1. SessionInv => OneViewer
  BY DEF SessionInv
<1> QED
  BY <1>1, SessionInvariant, PTL

\* The messages read as question and answer without a gap, and a key stands for
\* one Turn.
THEOREM HistoryReads == Spec => []HistoryInOrder
<1>1. SessionInv => HistoryInOrder
  BY DEF SessionInv
<1> QED
  BY <1>1, SessionInvariant, PTL

=============================================================================
