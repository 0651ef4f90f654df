----------------------------- MODULE AgentSession -----------------------------
(***************************************************************************)
(* One AgentSession as its users see it: messages that become Turns        *)
(* (AgentSessionService), the person who takes over the Session's browser  *)
(* between two Turns (BrowserControlService and the WebSocket of           *)
(* api/agent_browser), the attachment that messages refer to               *)
(* (AgentAttachmentService) and the Skill and MCP profiles that a Turn     *)
(* freezes.                                                                *)
(*                                                                         *)
(* Every action is one transaction. They lock the Session, the control,    *)
(* the sandbox Lease and the attachment row in different orders: a         *)
(* deadlock ends with an aborted transaction, which changes nothing, like  *)
(* every refused request. Conditions on the Project, its index, the        *)
(* evidence matrix and the catalogs only refuse and are left out.          *)
(***************************************************************************)
EXTENDS Naturals, FiniteSets

CONSTANTS
  Requests,      \* the HTTP requests that post a message: 1 .. n
  Uploads,       \* the HTTP requests that upload the attachment, all with one key
  Viewers,       \* the WebSocket connections to the browser
  NoViewer,
  MaxTurns,      \* bound: Turns of the Session
  MaxControls,   \* bound: browser controls
  Bounds         \* what one behaviour may use of the rest; see Bound

ASSUME SessionAssumption ==
  /\ Requests \subseteq Nat \ {0} /\ NoViewer \notin Viewers
  /\ MaxTurns \in Nat /\ MaxControls \in Nat

Turns == 1 .. MaxTurns
Controls == 1 .. MaxControls
\* The requests and uploads that are made, the changes of the sandbox Lease and
\* of each profile, and the browser controls: a behaviour without controls can
\* afford more of the others.
Bound == [requests: SUBSET Requests, uploads: SUBSET Uploads, leases: Nat, revisions: Nat,
          controls: 0 .. MaxControls]
ASSUME BoundsAssumption == Bounds \subseteq Bound

VARIABLES
  bound,       \* the Bound of this behaviour
  key,         \* the Idempotency-Key of each request: the first request that uses it
  request,     \* what each request does
  record,      \* the Turn of each idempotency record, 0: none
  session,     \* the row of the Session
  turn,        \* the Turns with their Runs and snapshots
  messages,    \* the rows of AgentMessage
  profile,     \* the latest revisions of the two profiles
  lease,       \* the sandbox Lease of the Session
  control,     \* the latest browser control
  closed,      \* the Events that closed each control
  viewer,      \* what each connection does, with its grant
  attachment,  \* the attachment, its blob and the requests that upload it
  upload

vars == <<bound, key, request, record, session, turn, messages, profile, lease, control,
          closed, viewer, attachment, upload>>

-----------------------------------------------------------------------------
Final == {"succeeded", "failed", "cancelled"}
Unfinished == {"queued", "running", "cancel_requested"}
Profile == [mcp: Nat, skill: Nat]
NoProfile == [mcp |-> 0, skill |-> 0]
\* ContextSnapshot: history_through_sequence, and whether it refers to the attachment
Context == [through: Nat, attached: BOOLEAN]
\* policy: of the PolicySnapshot, the revisions of the profiles; inbox: the
\* sandbox of the present Attempt has the attachment.
Turn == [status: {"none"} \cup Unfinished \cup Final, context: Context, policy: Profile,
         inbox: BOOLEAN]
NoTurn == [status |-> "none", context |-> [through |-> 0, attached |-> FALSE],
           policy |-> NoProfile, inbox |-> FALSE]
Request == [pc: {"new", "post", "answered"}, turn: 0 .. MaxTurns]
Session == [active: 0 .. MaxTurns, next: Nat \ {0}]
Message == [seq: Nat \ {0}, turn: Turns, role: {"user", "assistant"}]

\* As in SandboxWorkspace; box is the generation.
Lease == [status: {"none", "active", "dirty", "retired"}, box: Nat, fence: Nat, expired: BOOLEAN]
\* expired: expires_at has passed; number is the revision of the Session's controls.
Control == [number: 0 .. MaxControls, status: {"none", "active", "ended", "expired"}, box: Nat,
            fence: Nat, expired: BOOLEAN, viewer: Viewers \cup {NoViewer}]
NoControl == [number |-> 0, status |-> "none", box |-> 0, fence |-> 0, expired |-> FALSE,
              viewer |-> NoViewer]
\* BrowserViewGrant: the control and the fence that the connection was let in with.
Viewer == [pc: {"idle", "claimed", "resolved", "connected", "leaving"}, number: 0 .. MaxControls,
           box: Nat, fence: Nat]
IdleViewer == [pc |-> "idle", number |-> 0, box |-> 0, fence |-> 0]
Attachment == [status: {"none", "available", "deleted"}, blob: BOOLEAN]

TypeOK ==
  /\ bound \in Bounds
  /\ key \in [Requests -> Requests]
  /\ request \in [Requests -> Request]
  /\ record \in [Requests -> 0 .. MaxTurns]
  /\ session \in Session
  /\ turn \in [Turns -> Turn]
  /\ messages \subseteq Message
  /\ profile \in Profile
  /\ lease \in Lease
  /\ control \in Control
  /\ closed \in [Controls -> Nat]
  /\ viewer \in [Viewers -> Viewer]
  /\ attachment \in Attachment
  /\ upload \in [Uploads -> {"new", "write", "register", "answered"}]

\* create_session
Init ==
  /\ bound \in Bounds
  /\ key \in {k \in [Requests -> Requests] :
               \A r \in Requests : /\ k[r] <= r /\ k[k[r]] = k[r]
                                   /\ r \notin bound.requests => k[r] = r}
  /\ request = [r \in Requests |-> [pc |-> "new", turn |-> 0]]
  /\ record = [r \in Requests |-> 0]
  /\ session = [active |-> 0, next |-> 1]
  /\ turn = [t \in Turns |-> NoTurn]
  /\ messages = {}
  /\ profile = NoProfile
  /\ lease = [status |-> "none", box |-> 0, fence |-> 0, expired |-> FALSE]
  /\ control = NoControl
  /\ closed = [c \in Controls |-> 0]
  /\ viewer = [v \in Viewers |-> IdleViewer]
  /\ attachment = [status |-> "none", blob |-> FALSE]
  /\ upload = [u \in Uploads |-> "new"]

Browser == <<control, closed, viewer>>
Files == <<attachment, upload>>
Posting == <<bound, key, request, record>>

-----------------------------------------------------------------------------
(* AgentSessionService.post_message *)

Posted == {t \in Turns : turn[t].status # "none"}
Busy(t) == t # 0 /\ turn[t].status \in Unfinished

Answer(r, t) == request' = [request EXCEPT ![r] = [pc |-> "answered", turn |-> t]]

\* The idempotency record is read before the Session is locked.
ReadKey(r) ==
  /\ request[r].pc = "new"
  /\ IF record[key[r]] # 0 THEN Answer(r, record[key[r]])
     ELSE request' = [request EXCEPT ![r].pc = "post"]
  /\ UNCHANGED <<bound, key, record, session, turn, messages, profile, lease>>
  /\ UNCHANGED <<Browser, Files>>

\* Mutant: only a control that has not expired keeps Turns away.
BlocksTurnUntilExpiry == control.status = "active" /\ ~control.expired

\* An ACTIVE control blocks even if it has expired.
BlocksTurn == control.status = "active"

\* An unfinished Turn, or the person at the browser.
Refused == BlocksTurn \/ Busy(session.active)

KeyFree(r) == record[key[r]] = 0

\* The next sequence is allocated in the locked row of the Session.
Said(t, role) ==
  messages' = messages \cup {[seq |-> session.next, turn |-> t, role |-> role]}

\* get_many_available_scoped, which locks the rows
Available(attached) == attached => attachment.status = "available"

\* create_context_snapshot
FrozenContext(attached) == [through |-> session.next, attached |-> attached]

\* The catalogs resolve the latest revisions of both profiles.
FrozenPolicy == profile

\* create_agent_turn_run with the two snapshots
NewTurn(attached) ==
  [status |-> "queued", context |-> FrozenContext(attached), policy |-> FrozenPolicy,
   inbox |-> FALSE]

\* allocate_message_sequence and try_claim_active_turn
ClaimTurn(t) == session' = [active |-> t, next |-> session.next + 1]

\* Message, snapshots, Turn, Run, Event, Outbox and record in one commit; a
\* finished Turn that the Session still points to is released. A request that
\* is refused, or loses the key to another one, may be sent again.
Post(r) ==
  /\ request[r].pc = "post"
  /\ \/ /\ ~Refused /\ KeyFree(r)
        /\ \E t \in Turns \ Posted, attached \in BOOLEAN :
             /\ t = Cardinality(Posted) + 1
             /\ Available(attached)
             /\ Said(t, "user")
             /\ ClaimTurn(t)
             /\ turn' = [turn EXCEPT ![t] = NewTurn(attached)]
             /\ record' = [record EXCEPT ![key[r]] = t]
             /\ Answer(r, t)
     \/ /\ Refused \/ ~KeyFree(r)
        /\ request' = [request EXCEPT ![r].pc = "new"]
        /\ UNCHANGED <<record, session, turn, messages>>
  /\ UNCHANGED <<bound, key, profile, lease>>
  /\ UNCHANGED <<Browser, Files>>

-----------------------------------------------------------------------------
(* The Turns, as far as the Session can tell: their Attempts are the       *)
(* subject of AgentRuntime, their workspace of SandboxWorkspace.           *)

SetStatus(t, status) == turn' = [turn EXCEPT ![t].status = status, ![t].inbox = FALSE]
ReleasedIf(t) == IF session.active = t THEN [session EXCEPT !.active = 0] ELSE session
NothingElse == UNCHANGED <<bound, key, request, record, profile, lease, control, closed, viewer,
                           attachment, upload>>

\* An Attempt starts; it may end in another one.
Attempt(t) ==
  /\ \/ turn[t].status = "queued" /\ SetStatus(t, "running")
     \/ turn[t].status = "running" /\ SetStatus(t, "queued")
  /\ UNCHANGED <<session, messages>> /\ NothingElse

\* AgentAttachmentMaterializer: before the model is called, the attachment of the
\* context is read again, row and blob, and put into the inbox. What is missing
\* fails the Turn.
Materialize(t) ==
  /\ turn[t].status = "running" /\ turn[t].context.attached /\ ~turn[t].inbox
  /\ IF session.active = t /\ attachment.status = "available" /\ attachment.blob
     THEN turn' = [turn EXCEPT ![t].inbox = TRUE]
     ELSE SetStatus(t, "failed")
  /\ UNCHANGED <<session, messages>> /\ NothingElse

\* Mutant: a late result is committed whatever became of the Turn.
SucceedLate(t) ==
  /\ turn[t].status \in {"running", "failed"}
  /\ Said(t, "assistant")
  /\ SetStatus(t, "succeeded")
  /\ session' = [ReleasedIf(t) EXCEPT !.next = session.next + 1]
  /\ NothingElse

\* AgentTurnExecutor commits the answer under the locks of Run and Session.
Succeed(t) ==
  /\ turn[t].status = "running" /\ session.active = t
  /\ turn[t].context.attached => turn[t].inbox
  /\ Said(t, "assistant")
  /\ SetStatus(t, "succeeded")
  /\ session' = [active |-> 0, next |-> session.next + 1]
  /\ NothingElse

\* The Run ends without an answer. Only the commit of a cancellation by the
\* executor releases the Session in the same transaction.
EndTurn(t) ==
  /\ \/ turn[t].status = "running" /\ SetStatus(t, "failed") /\ UNCHANGED session
     \/ turn[t].status \in {"queued", "cancel_requested"} /\ SetStatus(t, "cancelled")
        /\ UNCHANGED session
     \/ /\ turn[t].status = "cancel_requested" /\ SetStatus(t, "cancelled")
        /\ session' = ReleasedIf(t)
  /\ UNCHANGED messages /\ NothingElse

Cancel(t) ==
  /\ turn[t].status = "running" /\ SetStatus(t, "cancel_requested")
  /\ UNCHANGED <<session, messages>> /\ NothingElse

\* AgentTurnLifecycleService: the callback after a final status, which a crash
\* may suppress.
ReleaseIfTerminal(t) ==
  /\ turn[t].status \in Final /\ session.active = t
  /\ session' = ReleasedIf(t)
  /\ UNCHANGED <<turn, messages>> /\ NothingElse

\* A worker of a Turn, perhaps one that lost its Attempt, or the retirement of
\* a drifted sandbox: the Lease is renewed for another Turn, replaced, marked
\* DIRTY or RETIRED.
MoveLease ==
  /\ Posted # {}
  /\ \/ /\ lease.fence < bound.leases
        /\ \E box \in {lease.box, lease.box + 1} :
             /\ box = lease.box => lease.status = "active"
             /\ lease' = [status |-> "active", box |-> box, fence |-> lease.fence + 1,
                          expired |-> FALSE]
     \/ /\ lease.status = "active"
        /\ \E status \in {"dirty", "retired"} : lease' = [lease EXCEPT !.status = status]
  /\ UNCHANGED <<Posting, session, turn, messages, profile>>
  /\ UNCHANGED <<Browser, Files>>

-----------------------------------------------------------------------------
(* The profiles *)

\* A new revision, if the client has seen the latest one.
NextRevision(kind) ==
  /\ profile[kind] < bound.revisions
  /\ profile' = [profile EXCEPT ![kind] = @ + 1]

\* McpConfigurationService.update_profile
UpdateMcpProfile ==
  /\ NextRevision("mcp")
  /\ UNCHANGED <<Posting, session, turn, messages, lease>>
  /\ UNCHANGED <<Browser, Files>>

\* has_messages, under the lock of the Session
SkillsOpen == messages = {}

\* SkillConfigurationService.update_profile
UpdateSkillProfile ==
  /\ SkillsOpen /\ NextRevision("skill")
  /\ UNCHANGED <<Posting, session, turn, messages, lease>>
  /\ UNCHANGED <<Browser, Files>>

-----------------------------------------------------------------------------
(* BrowserControlService *)

BrowserElse ==
  UNCHANGED <<bound, key, request, record, turn, messages, profile, attachment, upload>>

\* _control_matches_sandbox
MatchesSandbox ==
  control.box = lease.box /\ control.fence = lease.fence /\ lease.status = "active"

SandboxAvailable == lease.status = "active" /\ ~lease.expired

\* is_live, and the control still fits the sandbox
Usable == control.status = "active" /\ ~control.expired /\ MatchesSandbox

\* end, expire or invalidate, with the Event in the same commit
Close(status) ==
  /\ control' = [control EXCEPT !.status = status, !.viewer = NoViewer]
  /\ closed' = [closed EXCEPT ![control.number] = @ + 1]

\* An ACTIVE control that is in the way is closed first.
NewControl ==
  /\ control.number < bound.controls
  /\ control' = [NoControl EXCEPT !.number = control.number + 1, !.status = "active",
                                  !.box = lease.box, !.fence = lease.fence]
  /\ closed' = IF control.status = "active" THEN [closed EXCEPT ![control.number] = @ + 1]
               ELSE closed

\* start: the ticket of a usable control is issued again, unless the key that
\* signs the tickets has changed.
StartControl ==
  /\ ~Busy(session.active) /\ SandboxAvailable
  /\ session' = [session EXCEPT !.active = 0]
  /\ \/ Usable /\ UNCHANGED <<control, closed>>
     \/ NewControl
  /\ UNCHANGED <<lease, viewer>> /\ BrowserElse

\* Mutant: the sandbox is not looked at.
GetExpired ==
  /\ control.status = "active" /\ control.expired
  /\ Close("expired")
  /\ UNCHANGED <<session, lease, viewer>> /\ BrowserElse

\* get: the page asks every three seconds while a control is ACTIVE.
GetControl ==
  /\ control.status = "active" /\ ~Usable
  /\ Close("expired")
  /\ UNCHANGED <<session, lease, viewer>> /\ BrowserElse

EndControl ==
  /\ control.status = "active"
  /\ Close(IF Usable THEN "ended" ELSE "expired")
  /\ UNCHANGED <<session, lease, viewer>> /\ BrowserElse

ExpireControl ==
  /\ control.status = "active" /\ ~control.expired
  /\ control' = [control EXCEPT !.expired = TRUE]
  /\ UNCHANGED <<session, lease, closed, viewer>> /\ BrowserElse

\* A control does not outlive the Lease it was made for.
ExpireLease ==
  /\ lease.status = "active" /\ ~lease.expired
  /\ lease' = [lease EXCEPT !.expired = TRUE]
  /\ control' = IF control.fence = lease.fence /\ control.status = "active"
                THEN [control EXCEPT !.expired = TRUE] ELSE control
  /\ UNCHANGED <<session, closed, viewer>> /\ BrowserElse

-----------------------------------------------------------------------------
(* The connection: api/agent_browser and browser_gateway *)

GotoView(v, pc) == viewer' = [viewer EXCEPT ![v].pc = pc]

\* Mutant: the slot of the viewer is not asked for.
SlotIgnored == TRUE

SlotFree == control.viewer = NoViewer

\* claim_view with the ticket of the latest control; the older ones are closed.
ClaimView(v) ==
  /\ viewer[v].pc = "idle"
  /\ Usable /\ session.active = 0 /\ SlotFree
  /\ control' = [control EXCEPT !.viewer = v]
  /\ viewer' = [viewer EXCEPT ![v] = [pc |-> "claimed", number |-> control.number,
                                      box |-> control.box, fence |-> control.fence]]
  /\ UNCHANGED <<session, lease, closed>> /\ BrowserElse

Holds(v) == control.number = viewer[v].number /\ control.status = "active" /\ control.viewer = v

\* OpenSandboxBrowserTargetResolver.resolve
ResolveTarget(v) ==
  /\ viewer[v].pc = "claimed"
  /\ GotoView(v, IF Holds(v) /\ lease.box = viewer[v].box /\ lease.fence = viewer[v].fence
                    /\ lease.status = "active"
                 THEN "resolved" ELSE "leaving")
  /\ UNCHANGED <<session, lease, control, closed>> /\ BrowserElse

\* connect_browser_upstream: the sandbox of the target, whatever happened since.
Connect(v) ==
  /\ viewer[v].pc = "resolved"
  /\ \E pc \in {"connected", "leaving"} : GotoView(v, pc)
  /\ UNCHANGED <<session, lease, control, closed>> /\ BrowserElse

\* view_is_current, which fence_guard asks every second
ViewIsCurrent(v) == Holds(v) /\ Usable

FenceGuard(v) ==
  /\ viewer[v].pc = "connected" /\ ~ViewIsCurrent(v)
  /\ GotoView(v, "leaving")
  /\ UNCHANGED <<session, lease, control, closed>> /\ BrowserElse

\* The client goes away, or a limit of time or volume is reached.
Disconnect(v) ==
  /\ viewer[v].pc = "connected"
  /\ GotoView(v, "leaving")
  /\ UNCHANGED <<session, lease, control, closed>> /\ BrowserElse

ReleaseView(v) ==
  /\ viewer[v].pc = "leaving"
  /\ control' = IF control.number = viewer[v].number /\ control.viewer = v
                THEN [control EXCEPT !.viewer = NoViewer] ELSE control
  /\ viewer' = [viewer EXCEPT ![v] = IdleViewer]
  /\ UNCHANGED <<session, lease, closed>> /\ BrowserElse

\* The API process ends; the slot stays taken until the control is closed.
CrashView(v) ==
  /\ viewer[v].pc # "idle"
  /\ viewer' = [viewer EXCEPT ![v] = IdleViewer]
  /\ UNCHANGED <<session, lease, control, closed>> /\ BrowserElse

-----------------------------------------------------------------------------
(* AgentAttachmentService: all uploads carry the same key and content, so  *)
(* they derive the same attachment and the same Storage key.               *)

FilesElse == UNCHANGED <<bound, key, request, record, session, turn, messages, profile, lease,
                         control, closed, viewer>>

ReadUpload(u) ==
  /\ upload[u] = "new"
  /\ upload' = [upload EXCEPT ![u] = IF attachment.status = "none" THEN "write" ELSE "answered"]
  /\ UNCHANGED attachment /\ FilesElse

\* Storage is written between two transactions; it may fail, or the process die.
WriteUpload(u) ==
  /\ upload[u] = "write"
  /\ \/ /\ attachment' = [attachment EXCEPT !.blob = TRUE]
        /\ upload' = [upload EXCEPT ![u] = "register"]
     \/ upload' = [upload EXCEPT ![u] = "new"] /\ UNCHANGED attachment
  /\ FilesElse

\* add_if_absent: a row that is there, deleted or not, is the answer.
RegisterUpload(u) ==
  /\ upload[u] = "register"
  /\ attachment' = IF attachment.status = "none" THEN [attachment EXCEPT !.status = "available"]
                   ELSE attachment
  /\ upload' = [upload EXCEPT ![u] = "answered"]
  /\ FilesElse

\* Mutant: only Turns that still run protect the file.
ReferencedByUnfinished == \E t \in Posted : turn[t].context.attached /\ turn[t].status = "running"

\* is_referenced by a message
Referenced == \E t \in Posted : turn[t].context.attached

\* The row is locked here and in post_message.
DeleteAttachment ==
  /\ attachment.status = "available" /\ ~Referenced
  /\ attachment' = [attachment EXCEPT !.status = "deleted"]
  /\ UNCHANGED upload /\ FilesElse

-----------------------------------------------------------------------------
Next ==
  \/ \E r \in bound.requests : ReadKey(r) \/ Post(r)
  \/ \E t \in Posted : \/ Attempt(t) \/ Materialize(t) \/ Succeed(t) \/ EndTurn(t) \/ Cancel(t)
                       \/ ReleaseIfTerminal(t)
  \/ MoveLease \/ UpdateMcpProfile \/ UpdateSkillProfile
  \/ StartControl \/ GetControl \/ EndControl \/ ExpireControl \/ ExpireLease
  \/ \E v \in Viewers : \/ ClaimView(v) \/ ResolveTarget(v) \/ Connect(v) \/ FenceGuard(v)
                        \/ Disconnect(v) \/ ReleaseView(v) \/ CrashView(v)
  \/ \E u \in bound.uploads : ReadUpload(u) \/ WriteUpload(u) \/ RegisterUpload(u)
  \/ DeleteAttachment

\* fence_guard and the page are timers: they keep asking.
Spec == /\ Init /\ [][Next]_vars
        /\ WF_vars(GetControl)
        /\ \A v \in Viewers : WF_vars(FenceGuard(v))

-----------------------------------------------------------------------------
\* The agent and the person never have the browser at the same time: while a
\* control is ACTIVE (start, post_message), no Turn is unfinished and the
\* Session points to none. And every unfinished Turn is the one that the Session
\* points to, so that there is one: four pieces of code release the pointer, and
\* a crash may leave it behind.
ControlExcludesTurns ==
  /\ control.status = "active" => session.active = 0 /\ \A t \in Turns : ~Busy(t)
  /\ \A t \in Turns : Busy(t) => session.active = t

\* The history a Turn is given (list_messages, history_through_sequence): the
\* sequences have no gap, each Turn has one question, at most one answer, which
\* follows its question directly, and an answer exactly if it succeeded. A
\* double click makes one Turn, and two messages never share one (idempotency
\* record of post_message).
HistoryInOrder ==
  /\ {m.seq : m \in messages} = 1 .. session.next - 1
  /\ Cardinality(messages) = session.next - 1
  /\ \A t \in Posted : [seq |-> turn[t].context.through, turn |-> t, role |-> "user"] \in messages
  /\ \A m \in messages :
       m.role = "assistant" => m.seq = turn[m.turn].context.through + 1
  /\ \A t \in Posted : turn[t].status = "succeeded" <=>
       \E m \in messages : m.turn = t /\ m.role = "assistant"
  /\ \A r \in Requests : request[r].pc = "answered" => request[r].turn = record[key[r]]
  /\ Cardinality(Posted) = Cardinality({r \in Requests : record[r] # 0})
  /\ \A r, s \in Requests : record[r] = record[s] => r = s \/ record[r] = 0

\* Whatever a Turn has been promised in its context can be put into its inbox
\* (AgentAttachmentMaterializer): the row is AVAILABLE and the blob is there.
AttachmentsReadable ==
  \A t \in Posted : turn[t].context.attached => attachment.status = "available" /\ attachment.blob

\* A ticket lets one connection in at a time, over disconnections and crashes.
\* And each control is closed by exactly one Event, also when the page's query
\* and the person's end meet (agent_browser_control_ended, _expired).
OneViewer ==
  /\ \A v, w \in Viewers :
       (v # w /\ viewer[v].pc # "idle" /\ viewer[w].pc # "idle"
          /\ viewer[v].number = viewer[w].number)
         => "leaving" \in {viewer[v].pc, viewer[w].pc}
  /\ \A c \in Controls :
       closed[c] = IF c < control.number \/ (c = control.number /\ control.status # "active")
                   THEN 1 ELSE 0

\* A control that has expired, or whose sandbox is gone, does not lock the
\* Session for good (current), and no connection outlives its control or its
\* sandbox for good (fence_guard).
ControlEnds ==
  /\ \A c \in Controls :
       (/\ control.number = c /\ control.status = "active"
        /\ control.expired \/ lease.fence # control.fence \/ lease.status # "active")
         ~> ~(control.number = c /\ control.status = "active")
  /\ \A v \in Viewers :
       (/\ viewer[v].pc = "connected"
        /\ \/ control.number # viewer[v].number \/ control.status # "active"
           \/ lease.fence # viewer[v].fence \/ lease.status # "active")
         ~> viewer[v].pc # "connected"
=============================================================================
