----------------------------- MODULE HostSession -----------------------------
(***************************************************************************)
(* An editing session of an embedded workbench: the host page with its     *)
(* SolverHostClient (frontend/src/lib/solver-host-client.ts), the frame    *)
(* with useSolverHostBridge.ts and the project document behind it, and the *)
(* postMessage queue in each direction.                                    *)
(*                                                                         *)
(* The frame's message handlers are closures of the last render: what a    *)
(* handler changes with a setState (session, project) is seen by the next  *)
(* handler only after Render, what it keeps in a ref (protocol machine,    *)
(* document revision) at once.  An action is one task of an event loop.    *)
(*                                                                         *)
(* A project is [doc, edit]: the binding it was launched with and the last *)
(* edit made to it.  Left out: capability and version negotiation (this    *)
(* solver always passes), portal actions and themes (they change nothing   *)
(* of the session), and the set of expired requests (identifiers are new   *)
(* for each request, so a late answer never matches the pending one).      *)
(***************************************************************************)
EXTENDS HostProtocolMachine, Naturals, Sequences

CONSTANTS
  Circumstances,          \* what may happen to a session, one record for each kind
  MaxReloads,             \* bound on reloads of the frame
  MaxQueue                \* a launch is not retried behind this many messages

ASSUME SessionAssumption ==
  /\ MaxReloads \in Nat /\ MaxQueue \in Nat
  /\ Circumstances \subseteq
       [deferredRender: BOOLEAN, solverSaves: BOOLEAN, saveTimeouts: BOOLEAN, maxEdits: Nat]

VARIABLES
  client,      \* SolverHostClient: state, pendingLaunch and pendingSave
  solver,      \* the frame: machine, document, what the last render published
  toSolver, toHost,    \* messages posted and not handled yet
  stored,      \* what the host has persisted for each launched project
  seen,        \* what project.changed last told the host of it
  launched, requested, \* bindings and save identifiers used so far
  edits, reloads,      \* counted for the bounds
  circumstances        \* of this session; they never change

vars == <<client, solver, toSolver, toHost, stored, seen, launched, requested, edits, reloads, circumstances>>
used == <<launched, requested, edits, reloads, circumstances>>

DeferredRender == circumstances.deferredRender  \* messages, and edits of a launch, may precede a pending render
SolverSaves == circumstances.solverSaves        \* the user may ask for a save inside the frame
SaveTimeouts == circumstances.saveTimeouts      \* a snapshot may take longer than saveTimeoutMs
MaxEdits == circumstances.maxEdits              \* bound on edits

Content == [doc: Binding \cup {None}, edit: 0..MaxEdits]
Loaded(binding) == [doc |-> binding, edit |-> 0]

Active == {"active-editable", "active-readonly", "saving"}

----------------------------------------------------------------------------
(* The host page *)

noSave == [id |-> None, received |-> FALSE, snapshot |-> Loaded(None)]

(* launching: pendingLaunch is set; retrying: its interval runs. *)
initialClient ==
  [phase |-> "idle", binding |-> None, mode |-> None, compatible |-> FALSE,
   launching |-> FALSE, retrying |-> FALSE, save |-> noSave]

isCurrentBinding(message) == client.binding # None /\ message.binding = client.binding

launchMessage(c) == [type |-> "launch", binding |-> c.binding, mode |-> c.mode]

(* Mutant: a pending save outlives the session. *)
LaunchKeepsSave(binding, mode) ==
  /\ client.phase # "disposed" /\ binding \notin launched
  /\ client' = [client EXCEPT
       !.phase = IF client.compatible THEN "launching" ELSE "negotiating",
       !.binding = binding, !.mode = mode, !.launching = TRUE, !.retrying = client.compatible]
  /\ toSolver' = IF client.compatible THEN Append(toSolver, launchMessage(client')) ELSE toSolver
  /\ launched' = launched \cup {binding}
  /\ UNCHANGED <<solver, toHost, stored, seen, requested, edits, reloads, circumstances>>

(* launch(): whatever was pending is replaced, and a frame known to be
   compatible gets the message without waiting for its ready. *)
Launch(binding, mode) ==
  /\ client.phase # "disposed" /\ binding \notin launched
  /\ client' = [client EXCEPT
       !.phase = IF client.compatible THEN "launching" ELSE "negotiating",
       !.binding = binding, !.mode = mode,
       !.launching = TRUE, !.retrying = client.compatible, !.save = noSave]
  /\ toSolver' = IF client.compatible THEN Append(toSolver, launchMessage(client')) ELSE toSolver
  /\ launched' = launched \cup {binding}
  /\ UNCHANGED <<solver, toHost, stored, seen, requested, edits, reloads, circumstances>>

LaunchRetry ==
  /\ client.launching /\ client.retrying
  /\ Len(toSolver) < MaxQueue /\ Len(toHost) < MaxQueue
  /\ toSolver' = Append(toSolver, launchMessage(client))
  /\ UNCHANGED <<client, solver, toHost, stored, seen, used>>

(* Mutant: the caller is told, the phase is forgotten. *)
LaunchTimeoutKeepsPhase ==
  /\ client.launching
  /\ client' = [client EXCEPT !.launching = FALSE, !.retrying = FALSE]
  /\ UNCHANGED <<solver, toSolver, toHost, stored, seen, used>>

LaunchTimeout ==
  /\ client.launching
  /\ client' = [client EXCEPT !.phase = "error", !.launching = FALSE, !.retrying = FALSE]
  /\ UNCHANGED <<solver, toSolver, toHost, stored, seen, used>>

(* Mutant: any active session may be saved. *)
RequestSaveInReadonly(id) ==
  /\ client.phase \in {"active-editable", "active-readonly"} /\ client.save = noSave
  /\ id \notin requested
  /\ client' = [client EXCEPT !.phase = "saving", !.save = [noSave EXCEPT !.id = id]]
  /\ toSolver' = Append(toSolver, [type |-> "requestSave", binding |-> client.binding, id |-> id])
  /\ requested' = requested \cup {id}
  /\ UNCHANGED <<solver, toHost, stored, seen, launched, edits, reloads, circumstances>>

(* requestSave() *)
RequestSave(id) ==
  /\ client.phase = "active-editable" /\ client.save = noSave /\ id \notin requested
  /\ client' = [client EXCEPT !.phase = "saving", !.save = [noSave EXCEPT !.id = id]]
  /\ toSolver' = Append(toSolver, [type |-> "requestSave", binding |-> client.binding, id |-> id])
  /\ requested' = requested \cup {id}
  /\ UNCHANGED <<solver, toHost, stored, seen, launched, edits, reloads, circumstances>>

SaveTimeout ==
  /\ SaveTimeouts /\ client.save # noSave /\ ~client.save.received
  /\ client' = [client EXCEPT !.phase = "active-editable", !.save = noSave]
  /\ UNCHANGED <<solver, toSolver, toHost, stored, seen, used>>

(* Mutant: only success is reported. *)
SendSaveResultOfSuccess(status) ==
  /\ client.save.received /\ client.phase # "disposed"
  /\ stored' = IF status = "saved" THEN [stored EXCEPT ![client.binding] = client.save.snapshot]
               ELSE stored
  /\ toSolver' = IF status = "saved"
                  THEN Append(toSolver, [type |-> "saveResult", binding |-> client.binding,
                                         id |-> client.save.id, status |-> status])
                  ELSE toSolver
  /\ client' = [client EXCEPT !.phase = "active-editable", !.save = noSave]
  /\ UNCHANGED <<solver, toHost, seen, used>>

(* The host persists the snapshot, or fails to, and says so. *)
SendSaveResult(status) ==
  /\ client.save.received /\ client.phase # "disposed"
  /\ stored' = IF status = "saved" THEN [stored EXCEPT ![client.binding] = client.save.snapshot]
               ELSE stored
  /\ toSolver' = Append(toSolver, [type |-> "saveResult", binding |-> client.binding,
                                   id |-> client.save.id, status |-> status])
  /\ client' = [client EXCEPT !.phase = "active-editable", !.save = noSave]
  /\ UNCHANGED <<solver, toHost, seen, used>>

Dispose ==
  /\ client.phase # "disposed"
  /\ client' = [initialClient EXCEPT !.phase = "disposed", !.compatible = client.compatible]
  /\ UNCHANGED <<solver, toSolver, toHost, stored, seen, used>>

(* The client's message handler. *)
HostHandles(message) ==
  /\ toHost # <<>> /\ message = Head(toHost) /\ toHost' = Tail(toHost)
  /\ UNCHANGED <<solver, stored, used>>

(* ready without a session: the frame has just mounted.  It is stale when a
   session is active and none is being launched. *)
HandleBootstrapReady(message) ==
  /\ HostHandles(message) /\ message.type = "ready" /\ message.binding = None
  /\ client.phase # "disposed"
  /\ client.launching \/ client.phase \notin Active
  /\ client' = [client EXCEPT !.compatible = TRUE, !.retrying = client.launching,
                              !.phase = IF client.launching THEN "launching" ELSE @]
  /\ toSolver' = IF client.launching THEN Append(toSolver, launchMessage(client)) ELSE toSolver
  /\ UNCHANGED seen

activated ==
  [client EXCEPT !.phase = IF client.mode = "readonly" THEN "active-readonly" ELSE "active-editable",
                 !.compatible = TRUE, !.launching = FALSE, !.retrying = FALSE]

(* Mutant: any session's ready confirms the launch. *)
HandleAnyReady(message) ==
  /\ HostHandles(message) /\ message.type = "ready" /\ message.binding # None
  /\ client.launching
  /\ client' = activated
  /\ UNCHANGED <<toSolver, seen>>

(* ready of the launched session: the launch took effect. *)
HandleSessionReady(message) ==
  /\ HostHandles(message) /\ message.type = "ready" /\ isCurrentBinding(message)
  /\ client.launching
  /\ client' = activated
  /\ UNCHANGED <<toSolver, seen>>

HandleProjectChanged(message) ==
  /\ HostHandles(message) /\ message.type = "projectChanged" /\ isCurrentBinding(message)
  /\ client.phase \in {"active-editable", "saving"}
  /\ seen' = [seen EXCEPT ![message.binding] = message.content]
  /\ UNCHANGED <<client, toSolver>>

HandleSaveSnapshot(message) ==
  /\ HostHandles(message) /\ message.type = "saveRequest" /\ isCurrentBinding(message)
  /\ client.save.id = message.id /\ ~client.save.received
  /\ client' = [client EXCEPT !.save.received = TRUE, !.save.snapshot = message.content]
  /\ UNCHANGED <<toSolver, seen>>

HandleSolverError(message) ==
  /\ HostHandles(message) /\ message.type = "error" /\ isCurrentBinding(message)
  /\ client' = [client EXCEPT !.phase = "error", !.launching = FALSE, !.retrying = FALSE, !.save = noSave]
  /\ UNCHANGED <<toSolver, seen>>

(* All the returns of the handler that do nothing. *)
HostIgnores(message) ==
  /\ HostHandles(message)
  /\ \/ client.phase = "disposed"
     \/ message.binding # None /\ ~isCurrentBinding(message)
     \/ message.type = "ready" /\ ~client.launching
        /\ (message.binding = None => client.phase \in Active)
     \/ message.type = "projectChanged" /\ client.phase \notin {"active-editable", "saving"}
     \/ message.type = "saveRequest" /\ (client.save.id # message.id \/ client.save.received)
  /\ UNCHANGED <<client, toSolver, seen>>

----------------------------------------------------------------------------
(* The frame *)

(* shown is what the last render published: the session in the handlers'
   closure, the project in the bridge's ref, the dirty flag.  ref is the
   projectRef most edits start from: they move it, the functional updates of
   React's state leave it behind until the render.  revs holds the
   document revision at which each unanswered save request was served. *)
initialSolver ==
  [mounted |-> FALSE, machine |-> createHostProtocolState,
   content |-> Loaded(None), ref |-> Loaded(None), revision |-> 0, saved |-> 0, readOnly |-> FALSE,
   shown |-> [binding |-> None, content |-> Loaded(None), dirty |-> FALSE],
   revs |-> {}]

dirty == solver.saved # solver.revision
current == [binding |-> solver.machine.binding, content |-> solver.content, dirty |-> dirty]
renderPending == solver.mounted /\ solver.shown # current
launchUnrendered == solver.shown.binding # solver.machine.binding

boundEvent(type, binding) == [type |-> type, binding |-> binding]
saveEvent(type, binding, id) == [type |-> type, binding |-> binding, id |-> id]

readyMessage(binding) == [type |-> "ready", binding |-> binding]

(* First effects: the listener, then the ready without a session. *)
Mount ==
  /\ ~solver.mounted
  /\ solver' = [initialSolver EXCEPT !.mounted = TRUE,
       !.machine = transitionHostProtocol(@, [type |-> "announce-ready"]).state]
  /\ toHost' = Append(toHost, readyMessage(None))
  /\ UNCHANGED <<client, toSolver, stored, seen, used>>

(* The page in the frame goes away; nobody listens until the next Mount. *)
Reload ==
  /\ solver.mounted /\ reloads < MaxReloads
  /\ solver' = initialSolver /\ toSolver' = <<>> /\ reloads' = reloads + 1
  /\ UNCHANGED <<client, toHost, stored, seen, launched, requested, edits, circumstances>>

LoseMessage ==
  /\ ~solver.mounted /\ toSolver # <<>> /\ toSolver' = Tail(toSolver)
  /\ UNCHANGED <<client, solver, toHost, stored, seen, used>>

(* Any mutation of the project: an edit, undo, a committed result, which
   start from the ref; or a setting, which updates React's state.  The first
   kind, between a launch and its render, starts from the project before it
   and replaces the launched one. *)
Edit ==
  /\ solver.mounted /\ ~solver.readOnly /\ edits < MaxEdits
  /\ DeferredRender \/ ~launchUnrendered
  /\ edits' = edits + 1
  /\ LET edited(project) == [project EXCEPT !.edit = edits']
     IN \/ solver' = [solver EXCEPT !.content = edited(solver.ref), !.ref = edited(@), !.revision = @ + 1]
        \/ solver' = [solver EXCEPT !.content = edited(@), !.revision = @ + 1]
  /\ UNCHANGED <<client, toSolver, toHost, stored, seen, launched, requested, reloads, circumstances>>

(* React renders and runs the effects in the order of their declaration: the
   bridge's project, the handlers, the ready of a new session, and a change
   of the project, or of its being unsaved, to the host. *)
Render ==
  LET announced == IF launchUnrendered
                   THEN transitionHostProtocol(solver.machine, [type |-> "announce-ready"]).state
                   ELSE solver.machine
      changes == dirty /\ solver.machine.binding # None
      change == transitionHostProtocol(announced, boundEvent("project-changed", solver.machine.binding))
  IN /\ renderPending
     /\ solver' = [solver EXCEPT !.shown = current, !.ref = solver.content,
                                 !.machine = IF changes THEN change.state ELSE announced]
     /\ toHost' = toHost
          \o (IF launchUnrendered THEN <<readyMessage(solver.machine.binding)>> ELSE <<>>)
          \o (IF changes /\ change.accepted
              THEN <<[type |-> "projectChanged", binding |-> solver.machine.binding,
                      content |-> solver.content]>>
              ELSE <<>>)
     /\ UNCHANGED <<client, toSolver, stored, seen, used>>

(* requestHostSave(): what the frame is after it, and what it posts.  The
   revision is that of the document now, the snapshot that of the last render. *)
saveStarted(id) ==
  [solver EXCEPT !.machine = transitionHostProtocol(@, saveEvent("request-save", @.binding, id)).state,
                 !.revs = @ \cup {<<id, solver.revision>>}]
saveRequestMessage(id) ==
  [type |-> "saveRequest", binding |-> solver.machine.binding, id |-> id,
   content |-> solver.shown.content]

(* Ctrl+S in the frame. *)
SaveInFrame(id) ==
  /\ SolverSaves /\ solver.mounted /\ ~solver.readOnly /\ id \notin requested
  /\ solver.machine.binding # None /\ solver.shown.binding # None
  /\ requested' = requested \cup {id}
  /\ LET step == transitionHostProtocol(solver.machine,
                   saveEvent("request-save", solver.machine.binding, id))
     IN IF step.accepted
        THEN solver' = saveStarted(id) /\ toHost' = Append(toHost, saveRequestMessage(id))
        ELSE solver' = [solver EXCEPT !.machine = step.state] /\ UNCHANGED toHost
  /\ UNCHANGED <<client, toSolver, stored, seen, launched, edits, reloads, circumstances>>

(* The frame's message handler: the next message, in the closure of the last
   render. *)
FrameHandles(message) ==
  /\ solver.mounted /\ (DeferredRender \/ ~renderPending)
  /\ toSolver # <<>> /\ message = Head(toSolver) /\ toSolver' = Tail(toSolver)
  /\ UNCHANGED <<client, stored, seen, used>>

errorMessage(message) ==
  [type |-> "error",
   binding |-> IF message.type = "launch" \/ solver.shown.binding = None THEN message.binding
               ELSE solver.shown.binding]

(* What every branch does with an event the machine refuses. *)
refuses(step, message) ==
  /\ solver' = [solver EXCEPT !.machine = step.state]
  /\ toHost' = Append(toHost, errorMessage(message))

(* replaceProject: a new document without changes, at a revision of its own.
   The ref moves only when React runs the state update, in the render. *)
replaced(message, machine) ==
  [solver EXCEPT !.machine = machine, !.revs = {}, !.readOnly = (message.mode = "readonly"),
                 !.content = Loaded(message.binding),
                 !.revision = @ + 1, !.saved = solver.revision + 1]

(* A repeated launch is only confirmed again. *)
HandleLaunch(message) ==
  /\ FrameHandles(message) /\ message.type = "launch"
  /\ LET step == transitionHostProtocol(solver.machine,
                   [type |-> "launch", binding |-> message.binding, mode |-> message.mode])
     IN IF ~step.accepted THEN refuses(step, message)
        ELSE IF step.idempotent
        THEN /\ solver' = [solver EXCEPT !.machine = step.state]
             /\ toHost' = Append(toHost, readyMessage(message.binding))
        ELSE /\ solver' = replaced(message, step.state)
             /\ UNCHANGED toHost

HandleRequestSave(message) ==
  /\ FrameHandles(message) /\ message.type = "requestSave" /\ solver.shown.binding # None
  /\ LET step == transitionHostProtocol(solver.machine,
                   saveEvent("request-save", message.binding, message.id))
     IN \/ ~step.accepted /\ refuses(step, message)
        \/ /\ step.accepted /\ solver' = saveStarted(message.id)
           /\ toHost' = Append(toHost, saveRequestMessage(message.id))

(* Mutant: a save is completed whatever was edited since. *)
completeSaveAnyRevision(document, revision) == [document EXCEPT !.saved = document.revision]

(* markProjectSaved: only for the revision the document still has. *)
completeSave(document, revision) ==
  IF revision = document.revision THEN [document EXCEPT !.saved = revision] ELSE document

HandleSaveResult(message) ==
  /\ FrameHandles(message) /\ message.type = "saveResult" /\ solver.shown.binding # None
  /\ LET step == transitionHostProtocol(solver.machine,
                   saveEvent("save-result", message.binding, message.id))
         served == {entry[2] : entry \in {e \in solver.revs : e[1] = message.id}}
         answered == [solver EXCEPT !.machine = step.state,
                        !.revs = {entry \in @ : entry[1] # message.id}]
     IN \/ ~step.accepted /\ refuses(step, message)
        \/ /\ step.accepted
           /\ solver' = IF message.status = "saved" /\ served # {}
                        THEN completeSave(answered, CHOOSE r \in served : TRUE)
                        ELSE answered
           /\ UNCHANGED toHost

(* Before the first session is rendered the handler knows no origin. *)
FrameIgnores(message) ==
  /\ FrameHandles(message) /\ message.type # "launch" /\ solver.shown.binding = None
  /\ UNCHANGED <<solver, toHost>>
----------------------------------------------------------------------------
HostReceives ==
  \E message \in {toHost[i] : i \in DOMAIN toHost} :
    \/ HandleBootstrapReady(message) \/ HandleSessionReady(message)
    \/ HandleProjectChanged(message) \/ HandleSaveSnapshot(message)
    \/ HandleSolverError(message) \/ HostIgnores(message)

FrameReceives ==
  \E message \in {toSolver[i] : i \in DOMAIN toSolver} :
    \/ HandleLaunch(message) \/ HandleRequestSave(message)
    \/ HandleSaveResult(message) \/ FrameIgnores(message)

HostActs ==
  \/ \E binding \in Binding, mode \in Mode : Launch(binding, mode)
  \/ \E id \in RequestId : RequestSave(id)
  \/ \E status \in {"saved", "failed"} : SendSaveResult(status)
  \/ LaunchRetry \/ LaunchTimeout \/ SaveTimeout \/ Dispose

FrameActs == Mount \/ Reload \/ LoseMessage \/ Edit \/ Render \/ \E id \in RequestId : SaveInFrame(id)

Init ==
  /\ client = initialClient /\ solver = initialSolver
  /\ toSolver = <<>> /\ toHost = <<>>
  /\ stored = [binding \in Binding |-> Loaded(binding)]
  /\ seen = stored
  /\ launched = {} /\ requested = {} /\ edits = 0 /\ reloads = 0
  /\ circumstances \in Circumstances

Next == HostActs \/ HostReceives \/ FrameActs \/ FrameReceives
Spec == Init /\ [][Next]_vars

(* Both event loops run, timers fire, and the host answers each snapshot. *)
Fairness ==
  /\ WF_vars(HostReceives) /\ WF_vars(FrameReceives)
  /\ WF_vars(Mount) /\ WF_vars(LoseMessage) /\ WF_vars(Render)
  /\ WF_vars(LaunchTimeout) /\ WF_vars(SaveTimeout)
  /\ WF_vars(\E status \in {"saved", "failed"} : SendSaveResult(status))
LiveSpec == Spec /\ Fairness
----------------------------------------------------------------------------
(* Every variable has its shape; the machine, the document and what the host
   was told and has persisted are sessions and projects of this run. *)
TypeOK ==
  /\ client.phase \in {"idle", "negotiating", "launching", "error", "disposed"} \cup Active
  /\ client.binding \in Binding \cup {None} /\ client.mode \in Mode \cup {None}
  /\ solver.machine \in State /\ solver.content \in Content /\ solver.ref \in Content
  /\ solver.revs \subseteq RequestId \X Nat
  /\ stored \in [Binding -> Content] /\ seen \in [Binding -> Content]
  /\ launched \subseteq Binding /\ requested \subseteq RequestId

(* On each side the phase and the bookkeeping of what is pending agree: the
   client's phase with pendingLaunch and pendingSave, the machine's with the
   revisions the bridge keeps for unanswered saves. *)
PendingAgrees ==
  /\ client.launching = (client.phase \in {"negotiating", "launching"})
  /\ (client.save # noSave) = (client.phase = "saving")
  /\ {entry[1] : entry \in solver.revs} =
       IF solver.machine.phase = "saving" THEN {solver.machine.pending} ELSE {}

(* While the client calls a session active, the frame is in that session and
   mode, or has been reloaded since and is in none. *)
ActiveMeansBound ==
  client.phase \in Active /\ solver.mounted /\ solver.machine.binding # None =>
    /\ solver.machine.binding = client.binding
    /\ solver.machine.mode = client.mode
    /\ solver.readOnly = (client.mode = "readonly")

(* Nothing that arrives in a session, a retried launch in particular, takes
   an edit or the launched project away ("host-protocol-1.md": a repeated
   launch does not replace the workspace again).  One thing does replace the
   launched project: an edit made before it was rendered, which starts from
   the one still shown. *)
EditsSurviveRetries ==
  [][solver'.mounted /\ solver.machine.binding # None
       /\ solver'.machine.binding = solver.machine.binding
     => /\ solver'.content.edit >= solver.content.edit
        /\ \/ solver'.content.doc = solver.content.doc
           \/ DeferredRender /\ edits' = edits + 1 /\ solver'.content.doc = solver.shown.content.doc]_vars

(* A project of a session that shows no unsaved changes is what the host has
   persisted of it. *)
SavedMeansStored ==
  solver.machine.binding # None /\ ~dirty => stored[solver.machine.binding] = solver.content

(* As long as no message is handled between a change and its render, nor an
   edit between a launch and its render, saved means stored, and what the host
   persists for a session is the project of that session. *)
StoredInTime ==
  ~DeferredRender => SavedMeansStored /\ \A binding \in Binding : stored[binding].doc = binding

(* A session the client calls active ends with a launch or dispose, never
   because the frame refused something, as long as no save is given up and
   all saves are the host's: a host save that meets one of the frame's own is
   refused, and the client ends the session. *)
ActiveNeverFails ==
  [][~SaveTimeouts /\ ~SolverSaves /\ client.phase \in Active => client'.phase # "error"]_vars

(* Once everything posted is handled, the host has been told the present
   project of its active session, if it is not saved. *)
HostSeesEdits ==
  toHost = <<>> /\ solver.mounted /\ ~renderPending /\ dirty
    /\ client.phase \in {"active-editable", "saving"} /\ solver.machine.binding = client.binding
  => seen[client.binding] = solver.content

(* A save the host asked for in its active session ends, so that the next one
   is not refused for ever; unless the client's timer gave it up, since a
   snapshot that comes after that gets no result. *)
SavingForHost ==
  /\ ~SolverSaves /\ ~SaveTimeouts /\ solver.machine.phase = "saving" /\ client.phase \in Active
  /\ solver.machine.binding = client.binding
EverySaveEnds ==
  SavingForHost ~> ~SavingForHost

(* The host's promises settle: a launch is not pending for ever, nor is a save
   whose snapshot may be late, or never come, as long as its timer runs. *)
Promised == client.phase \in {"negotiating", "launching"} \/ (SaveTimeouts /\ client.phase = "saving")
HostNeverHangs == Promised ~> ~Promised
=============================================================================
