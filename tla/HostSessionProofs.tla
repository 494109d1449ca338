-------------------------- MODULE HostSessionProofs --------------------------
(***************************************************************************)
(* The editing session of an embedded workbench, for every set of sessions *)
(* and save identifiers, every circumstance, any number of edits, reloads  *)
(* and messages under way.                                                 *)
(*                                                                         *)
(* What client and frame believe of each other only makes sense together   *)
(* with the messages between them, so most of the invariant is about the   *)
(* two queues: which messages may still stand in them, in which order.     *)
(***************************************************************************)
EXTENDS HostSession, SequenceTheorems, TLAPS

machine == solver.machine

----------------------------------------------------------------------------
(* The shapes of the variables. *)

SolverMessage ==
  [type: {"launch"}, binding: Binding, mode: Mode]
  \cup [type: {"requestSave"}, binding: Binding, id: RequestId]
  \cup [type: {"saveResult"}, binding: Binding, id: RequestId, status: {"saved", "failed"}]

HostMessage ==
  [type: {"ready"}, binding: Binding \cup {None}]
  \cup [type: {"projectChanged"}, binding: Binding, content: Content]
  \cup [type: {"saveRequest"}, binding: Binding, id: RequestId, content: Content]
  \cup [type: {"error"}, binding: Binding]

ClientPhase == {"idle", "negotiating", "launching", "error", "disposed"} \cup Active
SaveType == [id: RequestId \cup {None}, received: BOOLEAN, snapshot: Content]
ClientType ==
  [phase: ClientPhase, binding: Binding \cup {None}, mode: Mode \cup {None},
   compatible: BOOLEAN, launching: BOOLEAN, retrying: BOOLEAN, save: SaveType]

ShownType == [binding: Binding \cup {None}, content: Content, dirty: BOOLEAN]
SolverType ==
  [mounted: BOOLEAN, machine: State, content: Content, ref: Content, revision: Nat, saved: Nat,
   readOnly: BOOLEAN, shown: ShownType, revs: SUBSET (RequestId \X Nat)]

TypeInv ==
  /\ circumstances \in
       [deferredRender: BOOLEAN, solverSaves: BOOLEAN, saveTimeouts: BOOLEAN, maxEdits: Nat]
  /\ client \in ClientType /\ solver \in SolverType
  /\ toSolver \in Seq(SolverMessage) /\ toHost \in Seq(HostMessage)
  /\ stored \in [Binding -> Content] /\ seen \in [Binding -> Content]
  /\ launched \subseteq Binding /\ requested \subseteq RequestId
  /\ edits \in 0..MaxEdits /\ reloads \in Nat
  /\ client.save.received => client.save.snapshot \in Content

(* The client: what is pending fits the phase, and so does the mode. *)
ClientShape ==
  /\ client.launching = (client.phase \in {"negotiating", "launching"})
  /\ (client.save # noSave) = (client.phase = "saving")
  /\ client.save # noSave => client.save.id # None
  /\ client.launching \/ client.phase \in Active => client.binding # None /\ client.mode # None
  /\ client.phase \in {"active-editable", "saving"} => client.mode = "editable"
  /\ client.phase = "active-readonly" => client.mode = "readonly"

(* Without an edit ahead of a launch's render the frame's document is that of
   its session, now and when it was last rendered. *)
OwnDocument ==
  /\ solver.content.doc = machine.binding
  /\ solver.shown.content.doc = solver.shown.binding

(* The frame: the session of its machine, the document of that session, and
   the revisions of unanswered saves. *)
FrameShape ==
  /\ machine.phase # "closed"
  /\ (machine.binding = None) = (machine.phase \in {"bootstrap", "negotiating"})
  /\ (machine.mode = None) = (machine.binding = None)
  /\ (machine.mode = "readonly") = (machine.phase = "active-readonly")
  /\ (machine.pending = None) = (machine.phase # "saving")
  /\ solver.mounted \/ solver = initialSolver
  /\ solver.readOnly = (machine.mode = "readonly")
  /\ machine.binding = None => solver.shown.binding = None
  /\ solver.ref.doc = solver.shown.content.doc
  /\ ~DeferredRender => OwnDocument
  /\ solver.saved <= solver.revision
  /\ solver.content.edit <= edits
  /\ \A entry \in solver.revs :
       entry[1] = machine.pending /\ solver.saved <= entry[2] /\ entry[2] <= solver.revision
  /\ machine.phase = "saving" => \E entry \in solver.revs : entry[1] = machine.pending
  /\ machine.phase # "saving" => solver.revs = {}

----------------------------------------------------------------------------
(* The protocol machine, event by event. *)

announcing(s) == transitionHostProtocol(s, [type |-> "announce-ready"])
launching(s, b, m) == transitionHostProtocol(s, [type |-> "launch", binding |-> b, mode |-> m])
requesting(s, b, id) == transitionHostProtocol(s, saveEvent("request-save", b, id))
resulting(s, b, id) == transitionHostProtocol(s, saveEvent("save-result", b, id))
changing(s, b) == transitionHostProtocol(s, boundEvent("project-changed", b))

SameSession(s, t) ==
  /\ t \in State /\ t.phase = s.phase /\ t.binding = s.binding
  /\ t.mode = s.mode /\ t.pending = s.pending

(* A rejection, and forgetting the last issue, keep the session. *)
Refused(s, r) == \E code \in IssueCode, condition \in {"error", "invalid"} : r = rejected(s, code, condition)

LEMMA RejectedKeeps ==
  ASSUME NEW s \in State, NEW r, Refused(s, r)
  PROVE  r.accepted = FALSE /\ SameSession(s, r.state)
<1>1. PICK code \in IssueCode, condition \in {"error", "invalid"} : r = rejected(s, code, condition)
  BY DEF Refused
<1>2. r.accepted = FALSE /\ r.state = IF s.phase = "closed" THEN s
                                     ELSE [s EXCEPT !.condition = condition, !.lastIssue = code]
  BY <1>1 DEF rejected
<1> QED BY <1>2 DEF SameSession, State, Condition

LEMMA AcceptedKeeps ==
  ASSUME NEW s
  PROVE  accepted(s).accepted = TRUE /\ accepted(s).idempotent = FALSE /\ accepted(s).state = s
  BY DEF accepted

LEMMA HealthyKeeps ==
  ASSUME NEW s \in State
  PROVE  SameSession(s, healthy(s))
  BY DEF healthy, SameSession, State, Condition

LEMMA AnnounceStep ==
  ASSUME NEW s \in State, s.phase # "closed"
  PROVE  /\ s.phase # "bootstrap" => SameSession(s, announcing(s).state)
         /\ s.phase = "bootstrap" =>
              /\ announcing(s).state \in State /\ announcing(s).state.phase = "negotiating"
              /\ announcing(s).state.binding = s.binding /\ announcing(s).state.mode = s.mode
              /\ announcing(s).state.pending = s.pending
<1>1. announcing(s) = onAnnounceReady(s)
  BY DEF announcing, transitionHostProtocol, IsClosed
<1>2. CASE s.phase = "bootstrap"
  <2>1. announcing(s).state = [healthy(s) EXCEPT !.phase = "negotiating"]
    BY <1>1, <1>2 DEF onAnnounceReady, accepted
  <2> QED BY <2>1, <1>2, HealthyKeeps DEF SameSession, State, Phase
<1>3. CASE s.phase # "bootstrap"
  <2>1. announcing(s).state = healthy(s)
    BY <1>1, <1>3 DEF onAnnounceReady, unchanged
  <2> QED BY <2>1, <1>3, HealthyKeeps
<1> QED BY <1>2, <1>3

(* A launch: confirmed when it is a repetition, refused with another mode, a
   new session otherwise. *)
LEMMA LaunchStep ==
  ASSUME NEW s \in State, s.phase # "closed", NEW b \in Binding, NEW m \in Mode
  PROVE  /\ s.binding = b /\ s.mode = m =>
              launching(s, b, m).accepted /\ launching(s, b, m).idempotent /\ launching(s, b, m).state = s
         /\ s.binding = b /\ s.mode # m => Refused(s, launching(s, b, m))
         /\ s.binding # b =>
              /\ launching(s, b, m).accepted /\ ~launching(s, b, m).idempotent
              /\ launching(s, b, m).state \in State
              /\ launching(s, b, m).state.phase =
                   (IF m = "readonly" THEN "active-readonly" ELSE "active-editable")
              /\ launching(s, b, m).state.binding = b /\ launching(s, b, m).state.mode = m
              /\ launching(s, b, m).state.pending = None
<1> DEFINE event == [type |-> "launch", binding |-> b, mode |-> m]
<1>1. launching(s, b, m) = onLaunch(s, event)
  BY NoneAssumption DEF launching, transitionHostProtocol, IsClosed
<1>2. CASE s.binding = b /\ s.mode = m
  BY <1>1, <1>2 DEF onLaunch, bindingMatches, unchanged
<1>3. CASE s.binding = b /\ s.mode # m
  BY <1>1, <1>3 DEF onLaunch, bindingMatches, Refused, IssueCode
<1>4. CASE s.binding # b
  <2> DEFINE t == [createHostProtocolState EXCEPT
          !.phase = IF m = "readonly" THEN "active-readonly" ELSE "active-editable",
          !.binding = b, !.mode = m]
  <2>1. launching(s, b, m) = accepted(t)
    BY <1>1, <1>4 DEF onLaunch, bindingMatches
  <2>2. /\ t \in State /\ t.phase = (IF m = "readonly" THEN "active-readonly" ELSE "active-editable")
        /\ t.binding = b /\ t.mode = m /\ t.pending = None
    BY DEF createHostProtocolState, State, Phase, Condition, Mode
  <2> HIDE DEF t
  <2> QED BY <2>1, <2>2, <1>4, AcceptedKeeps
<1> QED BY <1>2, <1>3, <1>4

(* A save starts only in the session named, with no other under way. *)
LEMMA RequestSaveStep ==
  ASSUME NEW s \in State, s.phase # "closed", NEW b \in Binding, NEW id \in RequestId
  PROVE  /\ requesting(s, b, id).accepted \in BOOLEAN
         /\ requesting(s, b, id).accepted = (s.binding = b /\ s.phase = "active-editable")
         /\ ~requesting(s, b, id).accepted => SameSession(s, requesting(s, b, id).state)
         /\ requesting(s, b, id).accepted =>
              /\ requesting(s, b, id).state \in State
              /\ requesting(s, b, id).state.phase = "saving" /\ requesting(s, b, id).state.pending = id
              /\ requesting(s, b, id).state.binding = b /\ requesting(s, b, id).state.mode = s.mode
<1> DEFINE event == saveEvent("request-save", b, id)
<1>0. event.type = "request-save" /\ event.binding = b /\ event.id = id /\ b # None /\ id # None
  BY NoneAssumption DEF saveEvent
<1>d. requesting(s, b, id) = transitionHostProtocol(s, event)
  BY DEF requesting
<1> HIDE DEF event
<1>1. CASE s.binding # b
  <2>1. requesting(s, b, id) = rejected(s, "session-binding-mismatch", "invalid")
    BY <1>0, <1>d, <1>1 DEF transitionHostProtocol, IsClosed, bindingMatches
  <2>2. Refused(s, requesting(s, b, id))
    BY <2>1 DEF Refused, IssueCode
  <2> QED BY <2>2, <1>1, RejectedKeeps
<1>2. CASE s.binding = b
  <2>1. requesting(s, b, id) = onRequestSave(s, event)
    BY <1>0, <1>d, <1>2 DEF transitionHostProtocol, IsClosed, bindingMatches, HasRequestId
  <2>2. CASE s.phase # "active-editable"
    <3>1. Refused(s, requesting(s, b, id))
      BY <2>1, <2>2 DEF onRequestSave, IssueCode, Refused
    <3> QED BY <3>1, <2>2, RejectedKeeps
  <2>3. CASE s.phase = "active-editable"
    <3> DEFINE t == [healthy(s) EXCEPT !.phase = "saving", !.pending = id]
    <3>1. requesting(s, b, id) = accepted(t)
      BY <2>1, <2>3, <1>0 DEF onRequestSave
    <3>2. healthy(s) \in State /\ healthy(s).binding = b /\ healthy(s).mode = s.mode
      BY <1>2, HealthyKeeps DEF SameSession
    <3>3. /\ t \in State /\ t.phase = "saving" /\ t.pending = id
          /\ t.binding = b /\ t.mode = s.mode
      BY <3>2 DEF State, Phase
    <3> HIDE DEF t
    <3> QED BY <3>1, <3>3, <2>3, <1>2, AcceptedKeeps
  <2> QED BY <2>2, <2>3
<1> QED BY <1>1, <1>2

(* A result is that of the save under way, or refused. *)
LEMMA SaveResultStep ==
  ASSUME NEW s \in State, s.phase # "closed", NEW b \in Binding, NEW id \in RequestId
  PROVE  /\ resulting(s, b, id).accepted \in BOOLEAN
         /\ resulting(s, b, id).accepted = (s.binding = b /\ s.phase = "saving" /\ s.pending = id)
         /\ ~resulting(s, b, id).accepted => SameSession(s, resulting(s, b, id).state)
         /\ resulting(s, b, id).accepted =>
              /\ resulting(s, b, id).state \in State
              /\ resulting(s, b, id).state.phase = "active-editable"
              /\ resulting(s, b, id).state.pending = None
              /\ resulting(s, b, id).state.binding = b /\ resulting(s, b, id).state.mode = s.mode
<1> DEFINE event == saveEvent("save-result", b, id)
<1>0. event.type = "save-result" /\ event.binding = b /\ event.id = id /\ b # None /\ id # None
  BY NoneAssumption DEF saveEvent
<1>d. resulting(s, b, id) = transitionHostProtocol(s, event)
  BY DEF resulting
<1> HIDE DEF event
<1>1. CASE s.binding # b
  <2>1. resulting(s, b, id) = rejected(s, "session-binding-mismatch", "invalid")
    BY <1>0, <1>d, <1>1 DEF transitionHostProtocol, IsClosed, bindingMatches
  <2>2. Refused(s, resulting(s, b, id))
    BY <2>1 DEF Refused, IssueCode
  <2> QED BY <2>2, <1>1, RejectedKeeps
<1>2. CASE s.binding = b
  <2>1. resulting(s, b, id) = onSaveResult(s, event)
    BY <1>0, <1>d, <1>2 DEF transitionHostProtocol, IsClosed, bindingMatches, HasRequestId
  <2>2. CASE s.phase # "saving" \/ s.pending # id
    <3>1. Refused(s, resulting(s, b, id))
      BY <2>1, <2>2, <1>0 DEF onSaveResult, IssueCode, Refused
    <3> QED BY <3>1, <2>2, RejectedKeeps
  <2>3. CASE s.phase = "saving" /\ s.pending = id
    <3> DEFINE t == [healthy(s) EXCEPT !.phase = "active-editable", !.pending = None]
    <3>1. resulting(s, b, id) = accepted(t)
      BY <2>1, <2>3, <1>0 DEF onSaveResult
    <3>2. healthy(s) \in State /\ healthy(s).binding = b /\ healthy(s).mode = s.mode
      BY <1>2, HealthyKeeps DEF SameSession
    <3>3. /\ t \in State /\ t.phase = "active-editable" /\ t.pending = None
          /\ t.binding = b /\ t.mode = s.mode
      BY <3>2 DEF State, Phase
    <3> HIDE DEF t
    <3> QED BY <3>1, <3>3, <2>3, <1>2, AcceptedKeeps
  <2> QED BY <2>2, <2>3
<1> QED BY <1>1, <1>2

(* A change is told in an editable session only, and never changes it. *)
LEMMA ProjectChangedStep ==
  ASSUME NEW s \in State, s.phase # "closed", s.binding # None
  PROVE  /\ changing(s, s.binding).accepted \in BOOLEAN
         /\ changing(s, s.binding).accepted = (s.phase \in {"active-editable", "saving"})
         /\ SameSession(s, changing(s, s.binding).state)
<1>1. changing(s, s.binding) = onProjectChanged(s)
  BY DEF changing, transitionHostProtocol, IsClosed, bindingMatches, boundEvent
<1>2. CASE s.phase \notin {"active-editable", "saving"}
  <2>1. Refused(s, changing(s, s.binding))
    BY <1>1, <1>2 DEF onProjectChanged, IssueCode, Refused
  <2>2. changing(s, s.binding).accepted = FALSE /\ SameSession(s, changing(s, s.binding).state)
    BY <2>1, RejectedKeeps
  <2>3. (s.phase \in {"active-editable", "saving"}) = FALSE
    BY <1>2
  <2> QED BY <2>2, <2>3
<1>3. CASE s.phase \in {"active-editable", "saving"}
  <2>1. changing(s, s.binding) = accepted(healthy(s))
    BY <1>1, <1>3 DEF onProjectChanged
  <2>2. changing(s, s.binding).accepted = TRUE /\ changing(s, s.binding).state = healthy(s)
    BY <2>1, AcceptedKeeps
  <2>3. SameSession(s, changing(s, s.binding).state)
    BY <2>2, HealthyKeeps
  <2>4. changing(s, s.binding).accepted \in BOOLEAN
    BY <2>2
  <2>5. changing(s, s.binding).accepted = (s.phase \in {"active-editable", "saving"})
    BY <2>2, <1>3
  <2> QED BY <2>3, <2>4, <2>5
<1> QED BY <1>2, <1>3
----------------------------------------------------------------------------
(* What a step of the frame does, said of its session and its document. *)

SameDocument ==
  /\ solver'.content = solver.content /\ solver'.revision = solver.revision
  /\ solver'.saved = solver.saved /\ solver'.readOnly = solver.readOnly
  /\ solver'.shown = solver.shown /\ solver'.mounted = solver.mounted
  /\ solver'.ref = solver.ref

FrameReceivesOf(message) ==
  /\ toSolver # <<>> /\ message = Head(toSolver) /\ toSolver' = Tail(toSolver)
  /\ solver.mounted /\ (DeferredRender \/ ~renderPending)
  /\ solver' \in SolverType
  /\ UNCHANGED <<client, stored, seen, used>>

FrameRefuses(message) ==
  /\ SameSession(machine, solver'.machine) /\ SameDocument /\ solver'.revs = solver.revs
  /\ toHost' = Append(toHost, errorMessage(message))
  /\ message.type = "launch" => machine.binding = message.binding /\ machine.mode # message.mode
  /\ message.type # "launch" => solver.shown.binding # None
  /\ message.type = "requestSave" => ~(machine.binding = message.binding /\ machine.phase = "active-editable")
  /\ message.type = "saveResult" =>
       ~(machine.binding = message.binding /\ machine.phase = "saving" /\ machine.pending = message.id)

FrameConfirms(message) ==
  /\ message.type = "launch" /\ machine.binding = message.binding /\ machine.mode = message.mode
  /\ solver' = solver /\ toHost' = Append(toHost, readyMessage(message.binding))

FrameReplaces(message) ==
  /\ message.type = "launch" /\ machine.binding # message.binding
  /\ solver'.machine.phase = (IF message.mode = "readonly" THEN "active-readonly" ELSE "active-editable")
  /\ solver'.machine.binding = message.binding /\ solver'.machine.mode = message.mode
  /\ solver'.machine.pending = None
  /\ solver'.revs = {} /\ solver'.readOnly = (message.mode = "readonly")
  /\ solver'.content = Loaded(message.binding)
  /\ solver'.revision = solver.revision + 1 /\ solver'.saved = solver.revision + 1
  /\ solver'.shown = solver.shown /\ solver'.mounted = solver.mounted
  /\ solver'.ref = solver.ref /\ toHost' = toHost

SaveStarts(id) ==
  /\ machine.phase = "active-editable" /\ solver.shown.binding # None
  /\ solver'.machine.phase = "saving" /\ solver'.machine.pending = id
  /\ solver'.machine.binding = machine.binding /\ solver'.machine.mode = machine.mode
  /\ SameDocument /\ solver'.revs = solver.revs \cup {<<id, solver.revision>>}
  /\ toHost' = Append(toHost, saveRequestMessage(id))

FrameServes(message) ==
  message.type = "requestSave" /\ machine.binding = message.binding /\ SaveStarts(message.id)

FrameCompletes(message) ==
  /\ message.type = "saveResult" /\ machine.binding = message.binding
  /\ machine.phase = "saving" /\ machine.pending = message.id
  /\ solver'.machine.phase = "active-editable" /\ solver'.machine.pending = None
  /\ solver'.machine.binding = machine.binding /\ solver'.machine.mode = machine.mode
  /\ solver'.content = solver.content /\ solver'.revision = solver.revision
  /\ solver'.readOnly = solver.readOnly /\ solver'.shown = solver.shown /\ solver'.mounted = solver.mounted
  /\ solver'.ref = solver.ref
  /\ solver'.revs = {entry \in solver.revs : entry[1] # message.id}
  /\ \/ solver'.saved = solver.saved
     \/ /\ message.status = "saved" /\ solver'.saved = solver.revision
        /\ \E entry \in solver.revs : entry[1] = message.id /\ entry[2] = solver.revision
  /\ toHost' = toHost

FramePasses(message) ==
  /\ message.type # "launch" /\ solver.shown.binding = None
  /\ solver' = solver /\ toHost' = toHost

LEMMA FrameReceiveCases ==
  ASSUME TypeInv, FrameShape,
         NEW message \in {toSolver[i] : i \in DOMAIN toSolver},
         HandleLaunch(message) \/ HandleRequestSave(message) \/ HandleSaveResult(message) \/ FrameIgnores(message)
  PROVE  /\ FrameReceivesOf(message) /\ message \in SolverMessage
         /\ \/ FrameRefuses(message) \/ FrameConfirms(message) \/ FrameReplaces(message)
            \/ FrameServes(message) \/ FrameCompletes(message) \/ FramePasses(message)
<1>m. message \in SolverMessage /\ message.binding \in Binding
  BY DEF TypeInv, SolverMessage
<1>s. solver \in SolverType /\ machine \in State /\ machine.phase # "closed"
  BY DEF TypeInv, FrameShape, SolverType, machine
<1>h. FrameHandles(message)
  BY DEF HandleLaunch, HandleRequestSave, HandleSaveResult, FrameIgnores
<1>n. None \notin Binding /\ None \notin RequestId
  BY NoneAssumption
<1>r. ASSUME NEW step, SameSession(machine, step.state), solver' = [solver EXCEPT !.machine = step.state]
      PROVE  SameSession(machine, solver'.machine) /\ SameDocument /\ solver'.revs = solver.revs
             /\ solver' \in SolverType
  BY <1>r, <1>s DEF SameSession, SameDocument, SolverType
<1>1. CASE HandleLaunch(message)
  <2> DEFINE step == launching(machine, message.binding, message.mode)
  <2>1. message.type = "launch" /\ message.mode \in Mode
    BY <1>1, <1>m DEF HandleLaunch, SolverMessage
  <2>2. IF ~step.accepted THEN refuses(step, message)
        ELSE IF step.idempotent
        THEN /\ solver' = [solver EXCEPT !.machine = step.state]
             /\ toHost' = Append(toHost, readyMessage(message.binding))
        ELSE solver' = replaced(message, step.state) /\ toHost' = toHost
    BY <1>1 DEF HandleLaunch, launching, machine
  <2> HIDE DEF step
  <2>3. CASE machine.binding = message.binding /\ machine.mode = message.mode
    <3>1. step.accepted /\ step.idempotent /\ step.state = machine
      BY <2>1, <2>3, <1>m, <1>s, LaunchStep DEF step
    <3>2. solver' = solver
      BY <3>1, <2>2, <1>s DEF SolverType, machine
    <3> QED BY <3>1, <3>2, <2>1, <2>2, <2>3, <1>h, <1>s, <1>m DEF FrameReceivesOf, FrameHandles, FrameConfirms
  <2>4. CASE machine.binding = message.binding /\ machine.mode # message.mode
    <3>0. Refused(machine, step)
      BY <2>1, <2>4, <1>m, <1>s, LaunchStep DEF step
    <3>1. step.accepted = FALSE /\ SameSession(machine, step.state)
      BY <3>0, <1>s, RejectedKeeps
    <3>2. solver' = [solver EXCEPT !.machine = step.state] /\ toHost' = Append(toHost, errorMessage(message))
      BY <3>1, <2>2 DEF refuses
    <3> QED BY <3>1, <3>2, <2>1, <2>4, <1>h, <1>r, <1>m DEF FrameReceivesOf, FrameHandles, FrameRefuses
  <2>5. CASE machine.binding # message.binding
    <3> DEFINE t == step.state
    <3>1. /\ step.accepted /\ ~step.idempotent
          /\ t \in State
          /\ t.phase = (IF message.mode = "readonly" THEN "active-readonly" ELSE "active-editable")
          /\ t.binding = message.binding /\ t.mode = message.mode /\ t.pending = None
      BY <2>1, <2>5, <1>m, <1>s, LaunchStep DEF step
    <3>2. solver' = replaced(message, t) /\ toHost' = toHost
      BY <3>1, <2>2
    <3> HIDE DEF t
    <3>3. Loaded(message.binding) \in Content
      BY <1>m, SessionAssumption DEF Loaded, Content, TypeInv, MaxEdits
    <3>4. solver' = [solver EXCEPT !.machine = t, !.revs = {}, !.readOnly = (message.mode = "readonly"),
                 !.content = Loaded(message.binding),
                 !.revision = solver.revision + 1, !.saved = solver.revision + 1]
      BY <3>2, <1>s DEF replaced, SolverType
    <3> DEFINE locked == (message.mode = "readonly")
               next == solver.revision + 1
    <3>a. locked \in BOOLEAN /\ next \in Nat
      BY <1>s DEF SolverType
    <3> HIDE DEF locked, next
    <3>b. solver' = [solver EXCEPT !.machine = t, !.revs = {}, !.readOnly = locked,
                 !.content = Loaded(message.binding), !.revision = next, !.saved = next]
      BY <3>4 DEF locked, next
    <3>5. solver' \in SolverType /\ solver'.machine = t
      BY <3>1, <3>3, <3>a, <3>b, <1>s DEF SolverType
    <3>6. /\ solver'.revs = {} /\ solver'.readOnly = (message.mode = "readonly")
          /\ solver'.content = Loaded(message.binding)
          /\ solver'.revision = solver.revision + 1 /\ solver'.saved = solver.revision + 1
          /\ solver'.shown = solver.shown /\ solver'.mounted = solver.mounted
          /\ solver'.ref = solver.ref
      BY <3>4, <1>s DEF SolverType
    <3>7. FrameReplaces(message)
      BY <3>1, <3>2, <3>5, <3>6, <2>1, <2>5 DEF FrameReplaces
    <3> QED BY <3>5, <3>7, <1>h, <1>m DEF FrameReceivesOf, FrameHandles
  <2> QED BY <2>3, <2>4, <2>5
<1>2. CASE HandleRequestSave(message)
  <2> DEFINE step == requesting(machine, message.binding, message.id)
  <2>1. message.type = "requestSave" /\ message.id \in RequestId /\ solver.shown.binding # None
    BY <1>2, <1>m DEF HandleRequestSave, SolverMessage
  <2>2. \/ ~step.accepted /\ refuses(step, message)
        \/ /\ step.accepted /\ solver' = saveStarted(message.id)
           /\ toHost' = Append(toHost, saveRequestMessage(message.id))
    BY <1>2 DEF HandleRequestSave, requesting, machine
  <2>3. /\ step.accepted = (machine.binding = message.binding /\ machine.phase = "active-editable")
        /\ ~step.accepted => SameSession(machine, step.state)
        /\ step.accepted => /\ step.state \in State
                            /\ step.state.phase = "saving" /\ step.state.pending = message.id
                            /\ step.state.binding = machine.binding /\ step.state.mode = machine.mode
    BY <2>1, <1>m, <1>s, RequestSaveStep
  <2>4. ASSUME step.accepted
        PROVE  solver' = [solver EXCEPT !.machine = step.state, !.revs = @ \cup {<<message.id, solver.revision>>}]
    <3>1. machine.binding = message.binding
      BY <2>3, <2>4
    <3>2. step = transitionHostProtocol(machine, saveEvent("request-save", machine.binding, message.id))
      BY <3>1 DEF requesting
    <3> HIDE DEF step
    <3> QED BY <2>2, <2>3, <2>4, <3>2, <1>s DEF saveStarted, machine
  <2> HIDE DEF step
  <2>5. CASE ~step.accepted
    <3>1. solver' = [solver EXCEPT !.machine = step.state] /\ toHost' = Append(toHost, errorMessage(message))
      BY <2>2, <2>5 DEF refuses
    <3> QED BY <3>1, <2>1, <2>3, <2>5, <1>h, <1>r, <1>m DEF FrameReceivesOf, FrameHandles, FrameRefuses
  <2>6. CASE step.accepted
    <3>0. solver' \in SolverType /\ SameDocument /\ solver'.machine = step.state
          /\ solver'.revs = solver.revs \cup {<<message.id, solver.revision>>}
      <4> DEFINE entries == solver.revs \cup {<<message.id, solver.revision>>}
      <4>1. step.state \in State
        BY <2>3, <2>6
      <4>2. entries \in SUBSET (RequestId \X Nat)
        BY <2>1, <1>s DEF SolverType
      <4>3. solver' = [solver EXCEPT !.machine = step.state, !.revs = entries]
        BY <2>4, <2>6, <1>s DEF SolverType
      <4> HIDE DEF entries
      <4>4. solver' \in SolverType /\ SameDocument /\ solver'.machine = step.state /\ solver'.revs = entries
        BY <4>1, <4>2, <4>3, <1>s DEF SameDocument, SolverType
      <4> QED BY <4>4 DEF entries
    <3>1. SaveStarts(message.id)
      BY <3>0, <2>1, <2>2, <2>3, <2>6 DEF SaveStarts
    <3> QED BY <3>0, <3>1, <2>1, <2>3, <2>6, <1>h, <1>m DEF FrameReceivesOf, FrameHandles, FrameServes
  <2> QED BY <2>5, <2>6
<1>3. CASE HandleSaveResult(message)
  <2> DEFINE step == resulting(machine, message.binding, message.id)
             served == {entry[2] : entry \in {e \in solver.revs : e[1] = message.id}}
             answered == [solver EXCEPT !.machine = step.state,
                            !.revs = {entry \in @ : entry[1] # message.id}]
  <2>1. message.type = "saveResult" /\ message.id \in RequestId /\ solver.shown.binding # None
    BY <1>3, <1>m DEF HandleSaveResult, SolverMessage
  <2>2. \/ ~step.accepted /\ refuses(step, message)
        \/ /\ step.accepted
           /\ solver' = IF message.status = "saved" /\ served # {}
                        THEN completeSave(answered, CHOOSE r \in served : TRUE)
                        ELSE answered
           /\ toHost' = toHost
    BY <1>3 DEF HandleSaveResult, resulting, machine
  <2>3. /\ step.accepted = (machine.binding = message.binding /\ machine.phase = "saving" /\ machine.pending = message.id)
        /\ ~step.accepted => SameSession(machine, step.state)
        /\ step.accepted => /\ step.state \in State
                            /\ step.state.phase = "active-editable" /\ step.state.pending = None
                            /\ step.state.binding = machine.binding /\ step.state.mode = machine.mode
    BY <2>1, <1>m, <1>s, SaveResultStep
  <2> HIDE DEF step
  <2>5. CASE ~step.accepted
    <3>1. solver' = [solver EXCEPT !.machine = step.state] /\ toHost' = Append(toHost, errorMessage(message))
      BY <2>2, <2>5 DEF refuses
    <3> QED BY <3>1, <2>1, <2>3, <2>5, <1>h, <1>r, <1>m DEF FrameReceivesOf, FrameHandles, FrameRefuses
  <2>6. CASE step.accepted
    <3> DEFINE r == CHOOSE r \in served : TRUE
    <3>0. answered \in SolverType
      BY <2>3, <2>6, <1>s DEF SolverType
    <3>1. solver' = answered \/ (solver' = [answered EXCEPT !.saved = solver.revision]
                                /\ message.status = "saved" /\ r = solver.revision /\ r \in served)
      BY <2>2, <2>6, <3>0 DEF completeSave, SolverType
    <3>2. r \in served => \E entry \in solver.revs : entry[1] = message.id /\ entry[2] = r
      OBVIOUS
    <3> HIDE DEF r
    <3>3. /\ solver' \in SolverType /\ solver'.machine = step.state
          /\ solver'.content = solver.content /\ solver'.revision = solver.revision
          /\ solver'.readOnly = solver.readOnly /\ solver'.shown = solver.shown
          /\ solver'.mounted = solver.mounted /\ solver'.ref = solver.ref
          /\ solver'.revs = {entry \in solver.revs : entry[1] # message.id}
      BY <3>0, <3>1, <1>s DEF SolverType
    <3>4. \/ solver'.saved = solver.saved
          \/ /\ message.status = "saved" /\ solver'.saved = solver.revision
             /\ \E entry \in solver.revs : entry[1] = message.id /\ entry[2] = solver.revision
      BY <3>0, <3>1, <3>2, <1>s DEF SolverType
    <3>5. FrameCompletes(message)
      BY <2>1, <2>2, <2>3, <2>6, <3>3, <3>4 DEF FrameCompletes
    <3> QED BY <3>3, <3>5, <1>h, <1>m DEF FrameReceivesOf, FrameHandles
  <2> QED BY <2>5, <2>6
<1>4. CASE FrameIgnores(message)
  BY <1>4, <1>h, <1>s, <1>m DEF FrameIgnores, FrameReceivesOf, FrameHandles, FramePasses
<1> QED BY <1>1, <1>2, <1>3, <1>4
(* What the frame does of its own accord. *)

FrameMounts ==
  /\ ~solver.mounted /\ solver'.mounted = TRUE
  /\ solver'.machine.phase = "negotiating" /\ solver'.machine.binding = None
  /\ solver'.machine.mode = None /\ solver'.machine.pending = None
  /\ solver'.content = Loaded(None) /\ solver'.revision = 0 /\ solver'.saved = 0
  /\ solver'.ref = Loaded(None)
  /\ solver'.readOnly = FALSE /\ solver'.revs = {}
  /\ solver'.shown = [binding |-> None, content |-> Loaded(None), dirty |-> FALSE]
  /\ toHost' = Append(toHost, readyMessage(None))

newSession == solver.shown.binding # machine.binding
tells == dirty /\ machine.phase \in {"active-editable", "saving"}
changeMessage == [type |-> "projectChanged", binding |-> machine.binding, content |-> solver.content]

FrameRenders ==
  /\ renderPending /\ SameSession(machine, solver'.machine)
  /\ solver'.content = solver.content /\ solver'.revision = solver.revision
  /\ solver'.saved = solver.saved /\ solver'.readOnly = solver.readOnly
  /\ solver'.revs = solver.revs /\ solver'.mounted = solver.mounted
  /\ solver'.shown = current /\ solver'.ref = solver.content
  /\ newSession => machine.binding # None
  /\ newSession /\ tells => toHost' = Append(Append(toHost, readyMessage(machine.binding)), changeMessage)
  /\ newSession /\ ~tells => toHost' = Append(toHost, readyMessage(machine.binding))
  /\ ~newSession /\ tells => toHost' = Append(toHost, changeMessage)
  /\ ~newSession /\ ~tells => toHost' = toHost

LEMMA MountCase ==
  ASSUME TypeInv, Mount
  PROVE  FrameMounts /\ solver' \in SolverType
<1>1. createHostProtocolState \in State
  BY DEF createHostProtocolState, State, Phase, Condition
<1> DEFINE t == announcing(createHostProtocolState).state
<1>2. t \in State /\ t.phase = "negotiating" /\ t.binding = None /\ t.mode = None /\ t.pending = None
  BY <1>1, AnnounceStep DEF createHostProtocolState
<1>3. solver' = [initialSolver EXCEPT !.mounted = TRUE, !.machine = t]
  BY DEF Mount, initialSolver, announcing
<1>4. Loaded(None) \in Content
  BY SessionAssumption DEF Loaded, Content, TypeInv, MaxEdits
<1> HIDE DEF t
<1>5. solver' = [mounted |-> TRUE, machine |-> t,
   content |-> Loaded(None), ref |-> Loaded(None), revision |-> 0, saved |-> 0, readOnly |-> FALSE,
   shown |-> [binding |-> None, content |-> Loaded(None), dirty |-> FALSE],
   revs |-> {}]
  BY <1>3 DEF initialSolver
<1>6. solver' \in SolverType
  BY <1>2, <1>4, <1>5 DEF SolverType, ShownType
<1>7. ~solver.mounted /\ toHost' = Append(toHost, readyMessage(None))
  BY DEF Mount
<1> QED BY <1>2, <1>5, <1>6, <1>7 DEF FrameMounts

LEMMA InitialSolver ==
  ASSUME TypeInv
  PROVE  initialSolver \in SolverType /\ Loaded(None) \in Content
<1>1. createHostProtocolState \in State
  BY DEF createHostProtocolState, State, Phase, Condition
<1>2. Loaded(None) \in Content
  BY SessionAssumption DEF Loaded, Content, TypeInv, MaxEdits
<1> QED BY <1>1, <1>2 DEF initialSolver, SolverType, ShownType

LEMMA RenderCase ==
  ASSUME TypeInv, FrameShape, Render
  PROVE  FrameRenders /\ solver' \in SolverType
<1>s. /\ solver \in SolverType /\ machine \in State /\ machine.phase # "closed"
      /\ dirty \in BOOLEAN /\ current \in ShownType
  BY DEF TypeInv, FrameShape, SolverType, machine, dirty, current, ShownType, State
<1>n. newSession => machine.binding # None /\ machine.phase # "bootstrap"
  BY DEF newSession, FrameShape
<1> DEFINE announced == IF newSession THEN announcing(machine).state ELSE machine
           changes == dirty /\ machine.binding # None
           change == changing(announced, machine.binding)
           m == IF changes THEN change.state ELSE announced
<1>1. /\ renderPending
      /\ solver' = [solver EXCEPT !.shown = current, !.ref = solver.content, !.machine = m]
      /\ toHost' = toHost
          \o (IF newSession THEN <<readyMessage(machine.binding)>> ELSE <<>>)
          \o (IF changes /\ change.accepted THEN <<changeMessage>> ELSE <<>>)
  BY DEF Render, launchUnrendered, announcing, changing, newSession, changeMessage, machine
<1>2. SameSession(machine, announced)
  BY <1>s, <1>n, AnnounceStep DEF SameSession
<1> HIDE DEF announced
<1>3. changes => /\ change.accepted = (machine.phase \in {"active-editable", "saving"})
                 /\ SameSession(machine, change.state)
  <2>1. announced \in State /\ announced.phase # "closed" /\ announced.binding = machine.binding
    BY <1>2, <1>s DEF SameSession
  <2>2. announced.binding # None => /\ changing(announced, announced.binding).accepted = (announced.phase \in {"active-editable", "saving"})
                                    /\ SameSession(announced, changing(announced, announced.binding).state)
    BY <2>1, ProjectChangedStep
  <2> QED BY <2>1, <2>2, <1>2 DEF SameSession
<1>4. SameSession(machine, m)
  BY <1>2, <1>3
<1> HIDE DEF change
<1>5. (changes /\ change.accepted) = tells
  <2>1. machine.binding = None => machine.phase \notin {"active-editable", "saving"}
    BY DEF FrameShape
  <2> QED BY <2>1, <1>3, <1>s DEF tells
<1> HIDE DEF m, changes
<1>6. /\ solver' \in SolverType /\ solver'.shown = current /\ solver'.machine = m
      /\ solver'.ref = solver.content
      /\ solver'.content = solver.content /\ solver'.revision = solver.revision
      /\ solver'.saved = solver.saved /\ solver'.readOnly = solver.readOnly
      /\ solver'.revs = solver.revs /\ solver'.mounted = solver.mounted
  <2>1. m \in State
    BY <1>4 DEF SameSession
  <2> QED BY <2>1, <1>1, <1>s DEF SolverType
<1>7. /\ machine.binding # None => readyMessage(machine.binding) \in HostMessage
      /\ tells => changeMessage \in HostMessage
  <2>1. machine.binding \in Binding \cup {None} /\ solver.content \in Content
    BY <1>s DEF State, SolverType
  <2>2. tells => machine.binding # None
    BY DEF tells, FrameShape
  <2> QED BY <2>1, <2>2 DEF readyMessage, changeMessage, HostMessage, Content
<1>8. /\ newSession /\ tells => toHost' = Append(Append(toHost, readyMessage(machine.binding)), changeMessage)
      /\ newSession /\ ~tells => toHost' = Append(toHost, readyMessage(machine.binding))
      /\ ~newSession /\ tells => toHost' = Append(toHost, changeMessage)
      /\ ~newSession /\ ~tells => toHost' = toHost
  <2> DEFINE r == readyMessage(machine.binding)
  <2>1. toHost \in Seq(HostMessage)
    BY DEF TypeInv
  <2>2. toHost' = toHost \o (IF newSession THEN <<r>> ELSE <<>>) \o (IF tells THEN <<changeMessage>> ELSE <<>>)
    BY <1>1, <1>5
  <2>3. newSession => r \in HostMessage
    BY <1>7, <1>n
  <2>4. tells => changeMessage \in HostMessage
    BY <1>7
  <2> HIDE DEF r
  <2>5. newSession => <<r>> \in Seq(HostMessage) /\ toHost \o <<r>> = Append(toHost, r) /\ Append(toHost, r) \in Seq(HostMessage)
    BY <2>1, <2>3
  <2>6. toHost \o <<>> = toHost
    BY <2>1
  <2>7. ASSUME NEW q \in Seq(HostMessage), tells
        PROVE  q \o <<changeMessage>> = Append(q, changeMessage)
    BY <2>4, <2>7
  <2>8. ASSUME NEW q \in Seq(HostMessage)
        PROVE  q \o <<>> = q
    BY <2>8
  <2> QED BY <2>1, <2>2, <2>5, <2>6, <2>7, <2>8 DEF r
<1> QED BY <1>1, <1>4, <1>6, <1>n, <1>8 DEF FrameRenders

(* Ctrl+S starts a save, or is refused without a word to the host. *)
LEMMA SaveInFrameCase ==
  ASSUME TypeInv, FrameShape, NEW id \in RequestId, SaveInFrame(id)
  PROVE  /\ solver' \in SolverType
         /\ \/ SaveStarts(id)
            \/ /\ SameSession(machine, solver'.machine) /\ SameDocument
               /\ solver'.revs = solver.revs /\ toHost' = toHost
<1>s. solver \in SolverType /\ machine \in State /\ machine.phase # "closed" /\ machine.binding \in Binding
  BY DEF TypeInv, FrameShape, SolverType, machine, State, SaveInFrame
<1> DEFINE step == requesting(machine, machine.binding, id)
<1>1. IF step.accepted
      THEN solver' = saveStarted(id) /\ toHost' = Append(toHost, saveRequestMessage(id))
      ELSE solver' = [solver EXCEPT !.machine = step.state] /\ toHost' = toHost
  BY DEF SaveInFrame, requesting, machine
<1>2. /\ step.accepted = (machine.phase = "active-editable")
      /\ ~step.accepted => SameSession(machine, step.state)
      /\ step.accepted => /\ step.state \in State
                          /\ step.state.phase = "saving" /\ step.state.pending = id
                          /\ step.state.binding = machine.binding /\ step.state.mode = machine.mode
  BY <1>s, RequestSaveStep
<1>3. saveStarted(id) = [solver EXCEPT !.machine = step.state, !.revs = solver.revs \cup {<<id, solver.revision>>}]
  BY <1>s DEF saveStarted, requesting, machine, SolverType
<1> HIDE DEF step
<1>4. CASE ~step.accepted
  <2>1. solver' = [solver EXCEPT !.machine = step.state] /\ toHost' = toHost
    BY <1>1, <1>4
  <2> QED BY <2>1, <1>2, <1>4, <1>s DEF SameDocument, SolverType, SameSession
<1>5. CASE step.accepted
  <2> DEFINE entries == solver.revs \cup {<<id, solver.revision>>}
  <2>1. step.state \in State
    BY <1>2, <1>5
  <2>2. entries \in SUBSET (RequestId \X Nat)
    BY <1>s DEF SolverType
  <2>3. solver' = [solver EXCEPT !.machine = step.state, !.revs = entries]
    BY <1>1, <1>3, <1>5
  <2> HIDE DEF entries
  <2>4. solver' \in SolverType /\ SameDocument /\ solver'.machine = step.state /\ solver'.revs = entries
    BY <2>1, <2>2, <2>3, <1>s DEF SameDocument, SolverType
  <2> QED BY <2>4, <1>1, <1>2, <1>5 DEF SaveStarts, SaveInFrame, entries
<1> QED BY <1>4, <1>5
----------------------------------------------------------------------------
(* The queues, position by position. *)

LEMMA TailAt ==
  ASSUME NEW S, NEW q \in Seq(S), q # <<>>
  PROVE  /\ Tail(q) \in Seq(S) /\ Head(q) = q[1] /\ Head(q) \in S
         /\ Len(q) \in Nat /\ 1 \in 1..Len(q) /\ Len(Tail(q)) = Len(q) - 1
         /\ \A i \in 1..Len(Tail(q)) : i + 1 \in 1..Len(q) /\ Tail(q)[i] = q[i + 1]
<1>1. Len(q) \in Nat /\ Len(q) # 0
  BY EmptySeq, LenProperties
<1>2. Tail(q) \in Seq(S) /\ Len(Tail(q)) = Len(q) - 1 /\ Head(q) = q[1] /\ Head(q) \in S
  BY HeadTailProperties
<1>3. \A i \in 1..Len(Tail(q)) : Tail(q)[i] = q[i + 1]
  BY HeadTailProperties
<1> QED BY <1>1, <1>2, <1>3

LEMMA AppendAt ==
  ASSUME NEW S, NEW q \in Seq(S), NEW m \in S
  PROVE  /\ Append(q, m) \in Seq(S) /\ Len(q) \in Nat /\ Len(Append(q, m)) = Len(q) + 1
         /\ \A i \in 1..Len(q) : Append(q, m)[i] = q[i]
         /\ Append(q, m)[Len(q) + 1] = m
  BY AppendProperties, LenProperties

----------------------------------------------------------------------------
(* The three shapes are kept by every step. *)

Shapes == TypeInv /\ ClientShape /\ FrameShape

LEMMA MessageShapes ==
  ASSUME Shapes
  PROVE  /\ client.launching => launchMessage(client) \in SolverMessage
         /\ \A message \in SolverMessage :
              message.type = "launch" \/ solver.shown.binding # None => errorMessage(message) \in HostMessage
         /\ \A id \in RequestId : machine.binding # None /\ solver.shown.binding # None
              => saveRequestMessage(id) \in HostMessage
         /\ \A b \in Binding \cup {None} : readyMessage(b) \in HostMessage
         /\ tells => changeMessage \in HostMessage
<1>s. /\ client \in ClientType /\ solver \in SolverType /\ machine \in State
      /\ solver.shown \in ShownType
  BY DEF Shapes, TypeInv, SolverType, machine
<1>1. client.launching => client.binding \in Binding /\ client.mode \in Mode
  BY <1>s DEF Shapes, ClientShape, ClientType
<1>2. client.launching => launchMessage(client) \in SolverMessage
  BY <1>1 DEF launchMessage, SolverMessage
<1>3. ASSUME NEW message \in SolverMessage, message.type = "launch" \/ solver.shown.binding # None
      PROVE  errorMessage(message) \in HostMessage
  <2>1. message.binding \in Binding
    BY DEF SolverMessage
  <2>2. solver.shown.binding # None => solver.shown.binding \in Binding
    BY <1>s DEF ShownType
  <2> QED BY <1>3, <2>1, <2>2 DEF errorMessage, HostMessage
<1>4. ASSUME NEW id \in RequestId, machine.binding # None, solver.shown.binding # None
      PROVE  saveRequestMessage(id) \in HostMessage
  <2>1. machine.binding \in Binding /\ solver.shown.content \in Content
    BY <1>4, <1>s DEF State, ShownType
  <2> QED BY <2>1 DEF saveRequestMessage, HostMessage, machine
<1>5. \A b \in Binding \cup {None} : readyMessage(b) \in HostMessage
  BY DEF readyMessage, HostMessage
<1>6. tells => changeMessage \in HostMessage
  <2>1. tells => machine.binding \in Binding
    BY <1>s DEF tells, Shapes, FrameShape, State
  <2>2. tells => solver.content \in Content
    BY <2>1, <1>s DEF Shapes, FrameShape, SolverType, Content
  <2> QED BY <2>1, <2>2 DEF changeMessage, HostMessage
<1> QED BY <1>2, <1>3, <1>4, <1>5, <1>6

(* What remains of the queue to the host behind its first message. *)
LEMMA HostHandlesCase ==
  ASSUME TypeInv, NEW message \in {toHost[i] : i \in DOMAIN toHost}, HostHandles(message)
  PROVE  /\ toHost # <<>> /\ message = toHost[1] /\ message \in HostMessage
         /\ toHost' = Tail(toHost) /\ toHost' \in Seq(HostMessage)
         /\ UNCHANGED <<solver, stored, used>>
  BY TailAt DEF TypeInv, HostHandles

LEMMA SameTypes ==
  ASSUME circumstances' = circumstances
  PROVE  /\ Content' = Content /\ HostMessage' = HostMessage
         /\ SaveType' = SaveType /\ ClientType' = ClientType /\ ShownType' = ShownType
         /\ SolverType' = SolverType /\ MaxEdits' = MaxEdits
         /\ DeferredRender' = DeferredRender /\ SolverSaves' = SolverSaves /\ SaveTimeouts' = SaveTimeouts
  BY DEF Content, HostMessage, SaveType, ClientType, ShownType, SolverType, MaxEdits,
         DeferredRender, SolverSaves, SaveTimeouts

(* The client's side: what changes when the frame does nothing. *)
HostStep == HostActs \/ HostReceives

LEMMA ConstantCircumstances ==
  ASSUME Next
  PROVE  circumstances' = circumstances
<1>1. HostActs => circumstances' = circumstances
  BY DEF HostActs, Launch, RequestSave, SendSaveResult, LaunchRetry, LaunchTimeout, SaveTimeout, Dispose, used
<1>2. HostReceives => circumstances' = circumstances
  BY DEF HostReceives, HandleBootstrapReady, HandleSessionReady, HandleProjectChanged,
         HandleSaveSnapshot, HandleSolverError, HostIgnores, HostHandles, used
<1>3. FrameActs => circumstances' = circumstances
  BY DEF FrameActs, Mount, Reload, LoseMessage, Edit, Render, SaveInFrame, used
<1>4. FrameReceives => circumstances' = circumstances
  BY DEF FrameReceives, HandleLaunch, HandleRequestSave, HandleSaveResult, FrameIgnores, FrameHandles, used
<1> QED BY <1>1, <1>2, <1>3, <1>4 DEF Next

(* A client without anything pending. *)
LEMMA ClientRests ==
  ASSUME client'.launching = FALSE, client'.save = noSave,
         client'.phase \in {"idle", "error", "disposed", "active-editable", "active-readonly"},
         client'.phase = "active-editable" => client'.binding # None /\ client'.mode = "editable",
         client'.phase = "active-readonly" => client'.binding # None /\ client'.mode = "readonly"
  PROVE  ClientShape'
<1>n. None \notin Mode
  BY NoneAssumption
<1>1. client'.launching = (client'.phase \in {"negotiating", "launching"})
  <2>1. (client'.phase \in {"negotiating", "launching"}) = FALSE
    OBVIOUS
  <2> QED BY <2>1
<1>2. (client'.save # noSave) = (client'.phase = "saving")
  <2>1. (client'.phase = "saving") = FALSE
    OBVIOUS
  <2> QED BY <2>1
<1>3. client'.launching \/ client'.phase \in Active => client'.binding # None /\ client'.mode # None
  BY <1>n DEF Active, Mode
<1>k. noSave' = noSave
  BY DEF noSave, Loaded
<1> QED BY <1>1, <1>2, <1>3, <1>k DEF ClientShape, Active

(* The steps of the host that only touch the client and what it posts. *)
LEMMA HostClientType ==
  ASSUME Shapes, HostStep
  PROVE  /\ client' \in ClientType /\ (client'.save.received => client'.save.snapshot \in Content)
         /\ toSolver' \in Seq(SolverMessage) /\ toHost' \in Seq(HostMessage)
         /\ stored' \in [Binding -> Content] /\ seen' \in [Binding -> Content]
         /\ launched' \subseteq Binding /\ requested' \subseteq RequestId
         /\ solver' = solver /\ edits' = edits /\ reloads' = reloads
         /\ ClientShape'
<1>s. /\ client \in ClientType /\ client.save \in SaveType
      /\ toSolver \in Seq(SolverMessage) /\ toHost \in Seq(HostMessage)
      /\ stored \in [Binding -> Content] /\ seen \in [Binding -> Content]
      /\ launched \subseteq Binding /\ requested \subseteq RequestId
      /\ client.save.received => client.save.snapshot \in Content
  BY DEF Shapes, TypeInv, ClientType
<1>c. ClientShape
  BY DEF Shapes
<1>n. None \notin Binding /\ None \notin RequestId /\ None \notin Mode
  BY NoneAssumption
<1>0. noSave \in SaveType /\ noSave.id = None /\ ~noSave.received
  BY InitialSolver DEF noSave, SaveType, Shapes
<1>1. ASSUME NEW binding \in Binding, NEW mode \in Mode, Launch(binding, mode)
      PROVE  /\ client' \in ClientType /\ ~client'.save.received /\ ClientShape'
             /\ toSolver' \in Seq(SolverMessage)
             /\ launched' \subseteq Binding
  <2>1. client' = [client EXCEPT
       !.phase = IF client.compatible THEN "launching" ELSE "negotiating",
       !.binding = binding, !.mode = mode,
       !.launching = TRUE, !.retrying = client.compatible, !.save = noSave]
    BY <1>1 DEF Launch
  <2>2. client' \in ClientType
    BY <2>1, <1>s, <1>0 DEF ClientType, ClientPhase
  <2>3. client'.binding = binding /\ client'.mode = mode /\ client'.launching = TRUE
        /\ client'.phase \in {"launching", "negotiating"} /\ client'.save = noSave
    BY <2>1, <1>s DEF ClientType
  <2>4. launchMessage(client') \in SolverMessage
    BY <2>3 DEF launchMessage, SolverMessage
  <2>5. toSolver' \in Seq(SolverMessage)
    BY <2>4, <1>s, <1>1, AppendAt DEF Launch
  <2>6. ClientShape'
    BY <2>2, <2>3, <1>0, <1>n DEF ClientShape, Active, noSave, Loaded
  <2> QED BY <2>2, <2>3, <2>5, <2>6, <1>0, <1>s, <1>1 DEF Launch
<1>2. ASSUME NEW id \in RequestId, RequestSave(id)
      PROVE  /\ client' \in ClientType /\ ~client'.save.received /\ ClientShape'
             /\ toSolver' \in Seq(SolverMessage)
             /\ requested' \subseteq RequestId
  <2> DEFINE asked == [noSave EXCEPT !.id = id]
  <2>1. client' = [client EXCEPT !.phase = "saving", !.save = asked]
    BY <1>2 DEF RequestSave
  <2>2. asked \in SaveType /\ asked.id = id /\ ~asked.received /\ asked # noSave
    BY <1>0, <1>n DEF SaveType, noSave
  <2> HIDE DEF asked
  <2>3. client' \in ClientType /\ client'.phase = "saving" /\ client'.save = asked
        /\ client'.binding = client.binding /\ client'.mode = client.mode
        /\ client'.launching = client.launching
    BY <2>1, <2>2, <1>s DEF ClientType, ClientPhase, Active
  <2>4. client.phase = "active-editable"
    BY <1>2 DEF RequestSave
  <2>5. client.binding \in Binding
    BY <2>4, <1>s, <1>c DEF ClientType, ClientShape, Active
  <2>6. [type |-> "requestSave", binding |-> client.binding, id |-> id] \in SolverMessage
    BY <2>5 DEF SolverMessage
  <2>7. toSolver' \in Seq(SolverMessage)
    BY <2>6, <1>s, <1>2, AppendAt DEF RequestSave
  <2>8. ClientShape'
    <3>1. noSave' = noSave
      BY DEF noSave, Loaded
    <3> QED BY <2>2, <2>3, <2>4, <1>c, <1>n, <3>1 DEF ClientShape, Active
  <2> QED BY <2>2, <2>3, <2>7, <2>8, <1>2, <1>s DEF RequestSave
<1>k. noSave' = noSave
  BY DEF noSave, Loaded
<1>3. ASSUME NEW status \in {"saved", "failed"}, SendSaveResult(status)
      PROVE  /\ client' \in ClientType /\ ~client'.save.received /\ ClientShape'
             /\ toSolver' \in Seq(SolverMessage) /\ stored' \in [Binding -> Content]
  <2>1. client' = [client EXCEPT !.phase = "active-editable", !.save = noSave] /\ client.save.received
    BY <1>3 DEF SendSaveResult
  <2>2. client.save # noSave
    BY <2>1, <1>0
  <2>3. client.phase = "saving" /\ client.save.id \in RequestId
    BY <2>2, <1>s, <1>c DEF ClientShape, SaveType
  <2>4. client.binding \in Binding /\ client.mode = "editable" /\ client.launching = FALSE
    BY <2>3, <1>s, <1>c DEF ClientType, ClientShape, Active
  <2>5. [type |-> "saveResult", binding |-> client.binding, id |-> client.save.id, status |-> status] \in SolverMessage
    BY <2>3, <2>4 DEF SolverMessage
  <2>6. toSolver' \in Seq(SolverMessage)
    BY <2>5, <1>s, <1>3, AppendAt DEF SendSaveResult
  <2>7. stored' \in [Binding -> Content]
    BY <2>1, <1>s, <1>3 DEF SendSaveResult
  <2>8. client' \in ClientType /\ client'.phase = "active-editable" /\ client'.save = noSave
        /\ client'.binding = client.binding /\ client'.mode = client.mode
        /\ client'.launching = client.launching
    BY <2>1, <1>0, <1>s DEF ClientType, ClientPhase, Active
  <2>9. ClientShape'
    BY <2>4, <2>8, ClientRests, <1>n
  <2> QED BY <2>6, <2>7, <2>8, <2>9, <1>0
<1>4. ASSUME LaunchRetry
      PROVE  client' = client /\ toSolver' \in Seq(SolverMessage)
  BY <1>4, <1>s, AppendAt, MessageShapes DEF LaunchRetry
<1>5. ASSUME LaunchTimeout \/ SaveTimeout \/ Dispose
      PROVE  client' \in ClientType /\ ClientShape' /\ (client'.save.received => client.save.received /\ client'.save = client.save)
  <2>1. CASE LaunchTimeout
    <3>1. client' \in ClientType /\ client'.phase = "error" /\ client'.launching = FALSE
          /\ client'.save = client.save
      BY <2>1, <1>s DEF LaunchTimeout, ClientType, ClientPhase
    <3>2. client.save = noSave
      BY <2>1, <1>c DEF ClientShape, LaunchTimeout
    <3> QED BY <3>1, <3>2, ClientRests
  <2>2. CASE SaveTimeout
    <3>1. client' \in ClientType /\ client'.phase = "active-editable" /\ client'.launching = client.launching
          /\ client'.save = noSave /\ client'.binding = client.binding /\ client'.mode = client.mode
      BY <2>2, <1>s, <1>0 DEF SaveTimeout, ClientType, ClientPhase, Active
    <3>2. client.phase = "saving" /\ client.binding # None /\ client.mode = "editable" /\ client.launching = FALSE
      BY <2>2, <1>s, <1>c DEF ClientType, ClientShape, SaveTimeout, Active
    <3> QED BY <3>1, <3>2, ClientRests, <1>0
  <2>3. CASE Dispose
    <3>1. client' = [initialClient EXCEPT !.phase = "disposed", !.compatible = client.compatible]
      BY <2>3 DEF Dispose
    <3>2. client' \in ClientType /\ client'.phase = "disposed" /\ client'.launching = FALSE
          /\ client'.save = noSave
      BY <3>1, <1>s, <1>0 DEF initialClient, ClientType, ClientPhase
    <3> QED BY <3>2, ClientRests, <1>0
  <2> QED BY <1>5, <2>1, <2>2, <2>3
<1>6. ASSUME NEW message \in {toHost[i] : i \in DOMAIN toHost}, HandleBootstrapReady(message)
      PROVE  /\ client' \in ClientType /\ ClientShape' /\ client'.save = client.save
             /\ toSolver' \in Seq(SolverMessage)
  <2>1. client' = [client EXCEPT !.compatible = TRUE, !.retrying = client.launching,
                              !.phase = IF client.launching THEN "launching" ELSE @]
    BY <1>6 DEF HandleBootstrapReady
  <2>2. client' \in ClientType /\ client'.launching = client.launching /\ client'.save = client.save
        /\ client'.binding = client.binding /\ client'.mode = client.mode
        /\ client'.phase = IF client.launching THEN "launching" ELSE client.phase
    BY <2>1, <1>s DEF ClientType, ClientPhase
  <2>3. ClientShape'
    BY <2>2, <1>k, <1>c DEF ClientShape, Active
  <2>4. toSolver' \in Seq(SolverMessage)
    BY <1>6, <1>s, AppendAt, MessageShapes DEF HandleBootstrapReady
  <2> QED BY <2>2, <2>3, <2>4
<1>7. ASSUME NEW message, HandleSessionReady(message)
      PROVE  client' \in ClientType /\ ClientShape' /\ client'.save = client.save
  <2>1. client.launching /\ client' = activated
    BY <1>7 DEF HandleSessionReady
  <2>2. client.mode \in Mode /\ client.binding # None /\ client.save = noSave
    BY <2>1, <1>s, <1>c DEF ClientShape, ClientType
  <2>3. client' \in ClientType /\ client'.launching = FALSE /\ client'.save = client.save
        /\ client'.binding = client.binding /\ client'.mode = client.mode
        /\ client'.phase = IF client.mode = "readonly" THEN "active-readonly" ELSE "active-editable"
    BY <2>1, <1>s DEF activated, ClientType, ClientPhase, Active
  <2> QED BY <2>2, <2>3, ClientRests DEF Mode
<1>8. ASSUME NEW message \in HostMessage, HandleProjectChanged(message)
      PROVE  client' = client /\ seen' \in [Binding -> Content]
  <2>1. message.content \in Content
    BY <1>8 DEF HandleProjectChanged, HostMessage, Content
  <2> QED BY <2>1, <1>8, <1>s DEF HandleProjectChanged
<1>9. ASSUME NEW message \in HostMessage, HandleSaveSnapshot(message)
      PROVE  client' \in ClientType /\ ClientShape' /\ client'.save.snapshot \in Content
  <2>1. client' = [client EXCEPT !.save = [client.save EXCEPT !.received = TRUE, !.snapshot = message.content]]
    BY <1>9, <1>s DEF HandleSaveSnapshot, ClientType
  <2>2. message.content \in Content /\ client.save.id = message.id /\ message.id \in RequestId
    BY <1>9 DEF HandleSaveSnapshot, HostMessage, Content
  <2> DEFINE s == [client.save EXCEPT !.received = TRUE, !.snapshot = message.content]
  <2>3. s \in SaveType /\ s.id = client.save.id /\ s.snapshot = message.content
    BY <2>2, <1>s DEF SaveType
  <2> HIDE DEF s
  <2>4. client' \in ClientType /\ client'.save = s /\ client'.phase = client.phase
        /\ client'.binding = client.binding /\ client'.mode = client.mode
        /\ client'.launching = client.launching
    BY <2>1, <2>3, <1>s DEF ClientType, s
  <2>5. client.save # noSave /\ s # noSave
    BY <2>2, <2>3, <1>0, <1>n
  <2> QED BY <2>2, <2>3, <2>4, <2>5, <1>k, <1>c DEF ClientShape, Active
<1>10. ASSUME NEW message, HandleSolverError(message)
       PROVE  client' \in ClientType /\ ClientShape' /\ ~client'.save.received
  <2>1. client' \in ClientType /\ client'.phase = "error" /\ client'.launching = FALSE
          /\ client'.save = noSave
    BY <1>10, <1>s, <1>0 DEF HandleSolverError, ClientType, ClientPhase
  <2> QED BY <2>1, ClientRests, <1>0
<1>11. client' = client => ClientShape'
  BY <1>c, <1>k DEF ClientShape, Active
<1>a. CASE HostActs
  <2>1. CASE \E binding \in Binding, mode \in Mode : Launch(binding, mode)
    BY <2>1, <1>1, <1>s DEF Launch
  <2>2. CASE \E id \in RequestId : RequestSave(id)
    BY <2>2, <1>2, <1>s DEF RequestSave
  <2>3. CASE \E status \in {"saved", "failed"} : SendSaveResult(status)
    BY <2>3, <1>3, <1>s DEF SendSaveResult, used
  <2>4. CASE LaunchRetry
    BY <2>4, <1>4, <1>11, <1>s DEF LaunchRetry, used
  <2>5. CASE LaunchTimeout \/ SaveTimeout \/ Dispose
    <3>1. UNCHANGED <<solver, toSolver, toHost, stored, seen, used>>
      BY <2>5 DEF LaunchTimeout, SaveTimeout, Dispose
    <3> QED BY <2>5, <3>1, <1>5, <1>s DEF used
  <2> QED BY <1>a, <2>1, <2>2, <2>3, <2>4, <2>5 DEF HostActs
<1>b. CASE HostReceives
  <2>1. PICK message \in {toHost[i] : i \in DOMAIN toHost} :
           \/ HandleBootstrapReady(message) \/ HandleSessionReady(message)
           \/ HandleProjectChanged(message) \/ HandleSaveSnapshot(message)
           \/ HandleSolverError(message) \/ HostIgnores(message)
    BY <1>b DEF HostReceives
  <2>2. HostHandles(message)
    BY <2>1 DEF HandleBootstrapReady, HandleSessionReady, HandleProjectChanged, HandleSaveSnapshot,
                HandleSolverError, HostIgnores
  <2>3. message \in HostMessage /\ toHost' \in Seq(HostMessage) /\ UNCHANGED <<solver, stored, used>>
    BY <2>2, HostHandlesCase DEF Shapes
  <2>4. CASE HandleBootstrapReady(message)
    BY <2>3, <2>4, <1>6, <1>s DEF HandleBootstrapReady, used
  <2>5. CASE HandleSessionReady(message)
    BY <2>3, <2>5, <1>7, <1>s DEF HandleSessionReady, used
  <2>6. CASE HandleProjectChanged(message)
    BY <2>3, <2>6, <1>8, <1>11, <1>s DEF HandleProjectChanged, used
  <2>7. CASE HandleSaveSnapshot(message)
    BY <2>3, <2>7, <1>9, <1>s DEF HandleSaveSnapshot, used
  <2>8. CASE HandleSolverError(message)
    BY <2>3, <2>8, <1>10, <1>s DEF HandleSolverError, used
  <2>9. CASE HostIgnores(message)
    BY <2>3, <2>9, <1>11, <1>s DEF HostIgnores, used
  <2> QED BY <2>1, <2>4, <2>5, <2>6, <2>7, <2>8, <2>9
<1> QED BY <1>a, <1>b DEF HostStep
(* The frame's steps, by what they do. *)
FrameReceived(message) ==
  /\ FrameReceivesOf(message)
  /\ \/ FrameRefuses(message) \/ FrameConfirms(message) \/ FrameReplaces(message)
     \/ FrameServes(message) \/ FrameCompletes(message) \/ FramePasses(message)

Mounted == FrameMounts /\ UNCHANGED <<client, toSolver, stored, seen, used>>
Rendered == FrameRenders /\ UNCHANGED <<client, toSolver, stored, seen, used>>
SavedInFrame(id) ==
  /\ SolverSaves /\ solver.mounted /\ id \notin requested /\ requested' = requested \cup {id}
  /\ solver.shown.binding # None /\ machine.binding # None
  /\ \/ SaveStarts(id)
     \/ SameSession(machine, solver'.machine) /\ SameDocument /\ solver'.revs = solver.revs /\ toHost' = toHost
  /\ UNCHANGED <<client, toSolver, stored, seen, launched, edits, reloads, circumstances>>

FrameStep == FrameActs \/ FrameReceives

(* An edit leaves the session alone; the project it leads to was that of the
   document or of the ref. *)
Edits ==
  /\ solver.mounted /\ edits' = edits + 1
  /\ solver'.machine = solver.machine /\ solver'.revision = solver.revision + 1
  /\ solver'.saved = solver.saved /\ solver'.readOnly = solver.readOnly
  /\ solver'.shown = solver.shown /\ solver'.mounted = solver.mounted
  /\ solver'.revs = solver.revs
  /\ solver'.content.edit = edits' /\ solver'.ref.doc = solver.ref.doc
  /\ \/ solver'.content.doc = solver.content.doc
     \/ solver'.content.doc = solver.ref.doc
  /\ DeferredRender \/ ~launchUnrendered

LEMMA EditCase ==
  ASSUME Shapes, Edit
  PROVE  Edits /\ solver' \in SolverType
<1>s. /\ solver \in SolverType /\ solver.content \in Content /\ solver.ref \in Content
      /\ edits \in Nat /\ MaxEdits \in Nat
  BY SessionAssumption DEF Shapes, TypeInv, SolverType, MaxEdits
<1>1. edits' = edits + 1 /\ edits' \in 0..MaxEdits
  BY <1>s DEF Edit
<1> DEFINE edited(project) == [project EXCEPT !.edit = edits']
           next == solver.revision + 1
<1>2. ASSUME NEW project \in Content
      PROVE  edited(project) \in Content /\ edited(project).doc = project.doc /\ edited(project).edit = edits'
  BY <1>1, <1>2 DEF Content
<1> DEFINE fromRef == edited(solver.ref)
           fromState == edited(solver.content)
<1>3. /\ fromRef \in Content /\ fromRef.doc = solver.ref.doc /\ fromRef.edit = edits'
      /\ fromState \in Content /\ fromState.doc = solver.content.doc /\ fromState.edit = edits'
  BY <1>2, <1>s
<1>4. \/ solver' = [solver EXCEPT !.content = fromRef, !.ref = fromRef, !.revision = next]
      \/ solver' = [solver EXCEPT !.content = fromState, !.revision = next]
  BY <1>s DEF Edit, SolverType
<1>5. next \in Nat
  BY <1>s DEF SolverType
<1> HIDE DEF fromRef, fromState, next
<1>6. CASE solver' = [solver EXCEPT !.content = fromRef, !.ref = fromRef, !.revision = next]
  BY <1>1, <1>3, <1>5, <1>6, <1>s DEF SolverType, Edits, Edit, next
<1>7. CASE solver' = [solver EXCEPT !.content = fromState, !.revision = next]
  BY <1>1, <1>3, <1>5, <1>7, <1>s DEF SolverType, Edits, Edit, next
<1> QED BY <1>4, <1>6, <1>7

LEMMA FrameCases ==
  ASSUME Shapes, FrameStep
  PROVE  /\ solver' \in SolverType
         /\ \/ Mounted \/ Reload \/ LoseMessage \/ Edit \/ Rendered
            \/ \E id \in RequestId : SavedInFrame(id)
            \/ \E message \in SolverMessage : FrameReceived(message)
<1>s. TypeInv /\ FrameShape /\ solver \in SolverType
  BY DEF Shapes, TypeInv
<1>1. CASE Mount
  BY <1>1, <1>s, MountCase DEF Mounted, Mount
<1>2. CASE Reload
  BY <1>2, <1>s, InitialSolver DEF Reload
<1>3. CASE LoseMessage
  BY <1>3, <1>s DEF LoseMessage
<1>4. CASE Edit
  BY <1>4, <1>s, EditCase DEF Edits
<1>5. CASE Render
  BY <1>5, <1>s, RenderCase DEF Rendered, Render
<1>6. ASSUME NEW id \in RequestId, SaveInFrame(id) PROVE SavedInFrame(id) /\ solver' \in SolverType
  BY <1>6, <1>s, SaveInFrameCase DEF SavedInFrame, SaveInFrame, machine
<1>7. CASE FrameReceives
  <2>1. PICK message \in {toSolver[i] : i \in DOMAIN toSolver} :
          HandleLaunch(message) \/ HandleRequestSave(message) \/ HandleSaveResult(message) \/ FrameIgnores(message)
    BY <1>7 DEF FrameReceives
  <2>2. FrameReceived(message) /\ message \in SolverMessage
    BY <2>1, <1>s, FrameReceiveCases DEF FrameReceived
  <2> QED BY <2>2 DEF FrameReceived, FrameReceivesOf
<1> QED BY <1>1, <1>2, <1>3, <1>4, <1>5, <1>6, <1>7 DEF FrameStep, FrameActs

(* What the frame posts is well formed. *)
LEMMA FramePosts ==
  ASSUME Shapes, FrameStep
  PROVE  toHost' \in Seq(HostMessage) /\ toSolver' \in Seq(SolverMessage)
<1>s. toHost \in Seq(HostMessage) /\ toSolver \in Seq(SolverMessage)
  BY DEF Shapes, TypeInv
<1>a. \A m \in HostMessage : Append(toHost, m) \in Seq(HostMessage)
  BY <1>s, AppendAt
<1>1. CASE Mounted
  BY <1>1, <1>a, <1>s, MessageShapes DEF Mounted, FrameMounts
<1>2. CASE Reload
  BY <1>2, <1>s, EmptySeq DEF Reload
<1>3. CASE LoseMessage
  BY <1>3, <1>s, TailAt DEF LoseMessage
<1>4. CASE Edit
  BY <1>4, <1>s DEF Edit
<1>5. CASE Rendered
  <2> DEFINE r == readyMessage(machine.binding)
  <2>1. newSession => r \in HostMessage
    <3>1. machine.binding \in Binding \cup {None}
      BY DEF Shapes, TypeInv, SolverType, State, machine
    <3> QED BY <3>1, MessageShapes
  <2>2. tells => changeMessage \in HostMessage
    BY MessageShapes
  <2> HIDE DEF r
  <2>3. newSession => Append(toHost, r) \in Seq(HostMessage)
    BY <2>1, <1>a
  <2>4. newSession /\ tells => Append(Append(toHost, r), changeMessage) \in Seq(HostMessage)
    BY <2>2, <2>3, AppendAt
  <2>5. tells => Append(toHost, changeMessage) \in Seq(HostMessage)
    BY <2>2, <1>a
  <2> QED BY <1>5, <2>3, <2>4, <2>5, <1>s DEF Rendered, FrameRenders, r
<1>6. ASSUME NEW id \in RequestId, SavedInFrame(id)
      PROVE  toHost' \in Seq(HostMessage) /\ toSolver' \in Seq(SolverMessage)
  BY <1>6, <1>a, <1>s, MessageShapes DEF SavedInFrame, SaveStarts
<1>7. ASSUME NEW message \in SolverMessage, FrameReceived(message)
      PROVE  toHost' \in Seq(HostMessage) /\ toSolver' \in Seq(SolverMessage)
  <2>1. toSolver' \in Seq(SolverMessage)
    BY <1>7, <1>s, TailAt DEF FrameReceived, FrameReceivesOf
  <2>2. message.binding \in Binding
    BY DEF SolverMessage
  <2>3. CASE FrameRefuses(message)
    <3>1. errorMessage(message) \in HostMessage
      BY <2>3, MessageShapes DEF FrameRefuses
    <3> QED BY <3>1, <2>1, <2>3, <1>a DEF FrameRefuses
  <2>4. CASE FrameServes(message)
    <3>1. message.id \in RequestId /\ machine.binding # None /\ solver.shown.binding # None
      BY <2>4, NoneAssumption DEF FrameServes, SaveStarts, SolverMessage
    <3>2. saveRequestMessage(message.id) \in HostMessage
      BY <3>1, MessageShapes
    <3> QED BY <3>2, <2>1, <2>4, <1>a DEF FrameServes, SaveStarts
  <2>5. CASE FrameConfirms(message)
    BY <2>5, <2>1, <2>2, <1>a, MessageShapes DEF FrameConfirms
  <2> QED BY <1>7, <2>1, <2>3, <2>4, <2>5, <1>s DEF FrameReceived, FrameReplaces, FrameCompletes, FramePasses
<1> QED BY <1>1, <1>2, <1>3, <1>4, <1>5, <1>6, <1>7, FrameCases

LEMMA FreshFrameShape ==
  ASSUME solver'.machine.phase \in {"bootstrap", "negotiating"}, solver'.machine.binding = None,
         solver'.machine.mode = None, solver'.machine.pending = None,
         solver'.content.doc = None, solver'.content.edit <= edits',
         solver'.revision = 0, solver'.saved = 0, solver'.readOnly = FALSE, solver'.revs = {},
         solver'.shown.binding = None, solver'.shown.content.doc = None, solver'.ref.doc = None,
         solver'.mounted \/ solver' = initialSolver
  PROVE  FrameShape'
<1>1. (solver'.machine.binding = None) = (solver'.machine.phase \in {"bootstrap", "negotiating"})
  BY Zenon
<1>2. None # "readonly"
  BY NoneAssumption DEF Mode
<1>3. (solver'.machine.mode = "readonly") = (solver'.machine.phase = "active-readonly")
  <2>1. (solver'.machine.mode = "readonly") = FALSE
    BY <1>2
  <2>2. (solver'.machine.phase = "active-readonly") = FALSE
    OBVIOUS
  <2> QED BY <2>1, <2>2
<1>4. solver'.readOnly = (solver'.machine.mode = "readonly")
  <2>1. (solver'.machine.mode = "readonly") = FALSE
    BY <1>2
  <2> QED BY <2>1
<1>5. (solver'.machine.mode = None) = (solver'.machine.binding = None)
  BY Zenon
<1>6. (solver'.machine.pending = None) = (solver'.machine.phase # "saving")
  <2>1. (solver'.machine.phase # "saving") = TRUE
    OBVIOUS
  <2> QED BY <2>1
<1>7. initialSolver' = initialSolver
  BY DEF initialSolver, createHostProtocolState, Loaded
<1> QED BY <1>1, <1>3, <1>4, <1>5, <1>6, <1>7 DEF FrameShape, OwnDocument, machine

LEMMA FrameShapeKept ==
  ASSUME Shapes, FrameStep
  PROVE  FrameShape'
<1>s. /\ FrameShape /\ solver \in SolverType /\ machine \in State /\ edits \in Nat
      /\ solver.revision \in Nat /\ solver.saved \in Nat
      /\ solver.revs \subseteq RequestId \X Nat
      /\ solver.content \in Content
  BY SessionAssumption DEF Shapes, TypeInv, SolverType, machine, MaxEdits
<1>n. None \notin Binding /\ None \notin RequestId /\ None \notin Mode
  BY NoneAssumption
<1>d. DeferredRender' = DeferredRender
  <2>1. Next
    BY DEF Next, FrameStep
  <2> QED BY <2>1, ConstantCircumstances DEF DeferredRender
<1>0. Loaded(None).doc = None /\ Loaded(None).edit = 0
  BY DEF Loaded
<1>1. CASE Mounted
  <2>1. /\ solver'.mounted = TRUE
        /\ solver'.machine.phase = "negotiating" /\ solver'.machine.binding = None
        /\ solver'.machine.mode = None /\ solver'.machine.pending = None
        /\ solver'.content.doc = None /\ solver'.content.edit = 0
        /\ solver'.revision = 0 /\ solver'.saved = 0
        /\ solver'.readOnly = FALSE /\ solver'.revs = {}
        /\ solver'.shown.binding = None /\ solver'.shown.content.doc = None /\ edits' = edits
        /\ solver'.ref.doc = None
    BY <1>1, <1>0 DEF Mounted, FrameMounts, used
  <2>2. solver'.content.edit <= edits' /\ solver'.machine.phase \in {"bootstrap", "negotiating"}
    BY <2>1, <1>s
  <2> QED BY <2>1, <2>2, FreshFrameShape
<1>2. CASE Reload
  <2>1. solver' = initialSolver /\ edits' = edits
    BY <1>2 DEF Reload
  <2>3. /\ solver'.machine.phase = "bootstrap" /\ solver'.machine.binding = None
        /\ solver'.machine.mode = None /\ solver'.machine.pending = None
        /\ solver'.content.doc = None /\ solver'.content.edit = 0
        /\ solver'.revision = 0 /\ solver'.saved = 0
        /\ solver'.readOnly = FALSE /\ solver'.revs = {}
        /\ solver'.shown.binding = None /\ solver'.shown.content.doc = None /\ solver'.ref.doc = None
    BY <2>1 DEF initialSolver, createHostProtocolState, Loaded
  <2>4. solver'.content.edit <= edits' /\ solver'.machine.phase \in {"bootstrap", "negotiating"}
    BY <2>1, <2>3, <1>s
  <2> QED BY <2>1, <2>3, <2>4, FreshFrameShape
<1>3. CASE LoseMessage
  <2>1. solver' = solver /\ edits' = edits
    BY <1>3 DEF LoseMessage, used
  <2>2. initialSolver' = initialSolver
    BY DEF initialSolver, createHostProtocolState, Loaded
  <2> QED BY <2>1, <2>2, <1>s, <1>d DEF FrameShape, OwnDocument, machine
<1>4. CASE Edit
  <2>1. Edits
    BY <1>4, EditCase
  <2>2. solver'.revision = solver.revision + 1 /\ solver'.content.edit <= edits'
    BY <2>1, <1>s DEF Edits
  <2>3. ASSUME ~DeferredRender PROVE OwnDocument'
    <3>1. OwnDocument /\ solver.ref.doc = solver.shown.content.doc /\ solver.shown.binding = machine.binding
      BY <2>1, <2>3, <1>s DEF FrameShape, Edits, launchUnrendered, machine
    <3> QED BY <3>1, <2>1 DEF OwnDocument, Edits, machine
  <2> QED BY <2>1, <2>2, <2>3, <1>d, <1>s DEF FrameShape, machine, Edits
<1>5. CASE Rendered
  <2>1. /\ SameSession(machine, solver'.machine) /\ edits' = edits
        /\ solver'.content = solver.content /\ solver'.revision = solver.revision
        /\ solver'.saved = solver.saved /\ solver'.readOnly = solver.readOnly
        /\ solver'.revs = solver.revs /\ solver'.mounted = solver.mounted /\ solver.mounted
        /\ solver'.shown.content = solver.content /\ solver'.shown.binding = machine.binding
        /\ solver'.ref = solver.content
    BY <1>5 DEF Rendered, FrameRenders, renderPending, current, used, machine
  <2> QED BY <2>1, <1>s, <1>d DEF FrameShape, OwnDocument, machine, SameSession
<1>a. ASSUME SameSession(machine, solver'.machine), SameDocument, solver'.revs = solver.revs,
             edits' = edits, solver.mounted
      PROVE  FrameShape'
  BY <1>a, <1>s, <1>d DEF FrameShape, OwnDocument, machine, SameSession, SameDocument
<1>b. ASSUME NEW id \in RequestId, SaveStarts(id), edits' = edits, solver.mounted
      PROVE  FrameShape'
  <2>1. solver.revs = {} /\ solver'.revs = {<<id, solver.revision>>}
    BY <1>b, <1>s DEF SaveStarts, FrameShape
  <2>2. machine.binding # None /\ machine.mode # None /\ machine.mode # "readonly"
    BY <1>b, <1>s DEF SaveStarts, FrameShape
  <2> QED BY <2>1, <2>2, <1>b, <1>s, <1>n, <1>d DEF FrameShape, OwnDocument, machine, SaveStarts, SameDocument
<1>6. ASSUME NEW id \in RequestId, SavedInFrame(id)
      PROVE  FrameShape'
  BY <1>6, <1>a, <1>b DEF SavedInFrame
<1>7. ASSUME NEW message \in SolverMessage, FrameReceived(message)
      PROVE  FrameShape'
  <2>0. solver.mounted /\ edits' = edits /\ message.binding \in Binding
    BY <1>7 DEF FrameReceived, FrameReceivesOf, used, SolverMessage
  <2>1. CASE FrameRefuses(message)
    BY <2>0, <2>1, <1>a DEF FrameRefuses
  <2>2. CASE solver' = solver
    BY <2>0, <2>2, <1>s, <1>d DEF FrameShape, OwnDocument, machine
  <2>3. CASE FrameReplaces(message)
    <3>1. message.mode \in Mode
      BY <2>3 DEF FrameReplaces, SolverMessage
    <3>2. solver'.content.doc = message.binding /\ solver'.content.edit = 0
      BY <2>3 DEF FrameReplaces, Loaded
    <3>3. solver'.readOnly = (solver'.machine.mode = "readonly")
      BY <2>3 DEF FrameReplaces
    <3>4. (solver'.machine.mode = "readonly") = (solver'.machine.phase = "active-readonly")
      BY <2>3 DEF FrameReplaces
    <3> QED BY <2>0, <2>3, <3>1, <3>2, <3>3, <3>4, <1>s, <1>n, <1>d DEF FrameShape, OwnDocument, machine, FrameReplaces
  <2>4. CASE FrameServes(message)
    <3>1. message.id \in RequestId
      BY <2>4 DEF FrameServes, SolverMessage
    <3> QED BY <2>0, <2>4, <3>1, <1>b DEF FrameServes
  <2>5. CASE FrameCompletes(message)
    <3>1. solver'.revs = {}
      BY <2>5, <1>s DEF FrameCompletes, FrameShape
    <3>2. machine.binding # None /\ machine.mode # None /\ machine.mode # "readonly"
      BY <2>5, <1>s DEF FrameCompletes, FrameShape
    <3>3. solver'.saved <= solver'.revision
      BY <2>5, <1>s DEF FrameCompletes, FrameShape
    <3> QED BY <2>0, <2>5, <3>1, <3>2, <3>3, <1>s, <1>n, <1>d DEF FrameShape, OwnDocument, machine, FrameCompletes
  <2> QED BY <1>7, <2>1, <2>2, <2>3, <2>4, <2>5 DEF FrameReceived, FrameConfirms, FramePasses
<1> QED BY <1>1, <1>2, <1>3, <1>4, <1>5, <1>6, <1>7, FrameCases

LEMMA ShapesStep == Shapes /\ [Next]_vars => Shapes'
<1> SUFFICES ASSUME Shapes, [Next]_vars PROVE Shapes'
  OBVIOUS
<1>1. CASE UNCHANGED vars
  BY <1>1 DEF vars, used, Shapes, TypeInv, ClientShape, FrameShape, Content, HostMessage, SaveType, OwnDocument, DeferredRender,
     ClientType, ShownType, SolverType, MaxEdits, noSave, Loaded, initialSolver, createHostProtocolState, machine
<1>2. CASE Next /\ HostStep
  <2>1. /\ client' \in ClientType /\ (client'.save.received => client'.save.snapshot \in Content)
        /\ toSolver' \in Seq(SolverMessage) /\ toHost' \in Seq(HostMessage)
        /\ stored' \in [Binding -> Content] /\ seen' \in [Binding -> Content]
        /\ launched' \subseteq Binding /\ requested' \subseteq RequestId
        /\ solver' = solver /\ edits' = edits /\ reloads' = reloads
        /\ ClientShape'
    BY <1>2, HostClientType
  <2>2. circumstances' = circumstances
    BY <1>2, ConstantCircumstances
  <2>3. TypeInv'
    BY <2>1, <2>2, SameTypes DEF TypeInv, Shapes
  <2>4. initialSolver' = initialSolver
    BY DEF initialSolver, createHostProtocolState, Loaded
  <2>5. FrameShape'
    BY <2>1, <2>2, <2>4 DEF FrameShape, OwnDocument, DeferredRender, Shapes, machine
  <2> QED BY <2>1, <2>3, <2>5 DEF Shapes
<1>3. CASE Next /\ FrameStep
  <2>1. solver' \in SolverType /\ toHost' \in Seq(HostMessage) /\ toSolver' \in Seq(SolverMessage) /\ FrameShape'
    BY <1>3, FrameCases, FramePosts, FrameShapeKept
  <2>2. circumstances' = circumstances
    BY <1>3, ConstantCircumstances
  <2>3. client' = client /\ stored' = stored /\ seen' = seen /\ launched' = launched
        /\ requested' \subseteq RequestId /\ edits' \in 0..MaxEdits /\ reloads' \in Nat
    <3>s. edits \in Nat /\ MaxEdits \in Nat /\ reloads \in Nat /\ edits \in 0..MaxEdits /\ requested \subseteq RequestId
      BY SessionAssumption DEF Shapes, TypeInv, MaxEdits
    <3>1. Mounted \/ LoseMessage \/ Rendered => UNCHANGED <<client, stored, seen, used>>
      BY DEF Mounted, LoseMessage, Rendered
    <3>2. CASE Reload
      BY <3>2, <3>s DEF Reload
    <3>3. CASE Edit
      BY <3>3, <3>s DEF Edit
    <3>4. ASSUME NEW id \in RequestId, SavedInFrame(id)
          PROVE  /\ UNCHANGED <<client, stored, seen, launched, edits, reloads>>
                 /\ requested' \subseteq RequestId
      BY <3>4, <3>s DEF SavedInFrame
    <3>5. \A message \in SolverMessage : FrameReceived(message) => UNCHANGED <<client, stored, seen, used>>
      BY DEF FrameReceived, FrameReceivesOf
    <3> QED BY <1>3, <3>s, <3>1, <3>2, <3>3, <3>4, <3>5, FrameCases DEF used
  <2>4. TypeInv'
    BY <2>1, <2>2, <2>3, SameTypes DEF TypeInv, Shapes
  <2>5. ClientShape'
    BY <2>3 DEF ClientShape, Shapes, Active, noSave, Loaded
  <2> QED BY <2>1, <2>4, <2>5 DEF Shapes
<1> QED BY <1>1, <1>2, <1>3 DEF Next, HostStep, FrameStep
LEMMA InitShapes == Init => Shapes
<1> SUFFICES ASSUME Init PROVE Shapes
  OBVIOUS
<1>1. circumstances \in
       [deferredRender: BOOLEAN, solverSaves: BOOLEAN, saveTimeouts: BOOLEAN, maxEdits: Nat]
  BY SessionAssumption DEF Init
<1>2. MaxEdits \in Nat
  BY <1>1 DEF MaxEdits
<1>3. Loaded(None) \in Content /\ \A b \in Binding : Loaded(b) \in Content 
  BY <1>2 DEF Loaded, Content
<1>4. createHostProtocolState \in State
  BY DEF createHostProtocolState, State, Phase, Condition
<1>5. noSave \in SaveType /\ noSave.received = FALSE
  BY <1>3 DEF noSave, SaveType
<1>6. client \in ClientType /\ client.save.received = FALSE
  BY <1>5 DEF Init, initialClient, ClientType, ClientPhase
<1>7. solver \in SolverType
  BY <1>3, <1>4 DEF Init, initialSolver, SolverType, ShownType
<1>8. toSolver \in Seq(SolverMessage) /\ toHost \in Seq(HostMessage)
  BY DEF Init
<1>9. stored \in [Binding -> Content] /\ seen \in [Binding -> Content]
  BY <1>3 DEF Init
<1>10. TypeInv
  BY <1>1, <1>2, <1>6, <1>7, <1>8, <1>9 DEF Init, TypeInv
<1>11. ClientShape
  <2>1. client.launching = FALSE /\ client.phase = "idle" /\ client.save = noSave
    BY DEF Init, initialClient
  <2>2. (client.phase \in {"negotiating", "launching"}) = FALSE /\ (client.phase = "saving") = FALSE
    BY <2>1
  <2> QED BY <2>1, <2>2 DEF ClientShape, Active
<1>12. FrameShape
  <2>1. /\ solver = initialSolver /\ edits = 0
        /\ machine.phase = "bootstrap" /\ machine.binding = None
        /\ machine.mode = None /\ machine.pending = None
        /\ solver.content.doc = None /\ solver.content.edit = 0
        /\ solver.revision = 0 /\ solver.saved = 0
        /\ solver.readOnly = FALSE /\ solver.revs = {}
        /\ solver.shown.binding = None /\ solver.shown.content.doc = None /\ solver.ref.doc = None
    BY DEF Init, initialSolver, createHostProtocolState, Loaded, machine
  <2>2. None # "readonly"
    BY NoneAssumption DEF Mode
  <2>3. (machine.mode = "readonly") = FALSE /\ (machine.phase = "active-readonly") = FALSE
        /\ (machine.phase # "saving") = TRUE /\ (machine.pending = None) = TRUE
        /\ (machine.binding = None) = TRUE /\ (machine.mode = None) = TRUE
        /\ (machine.phase \in {"bootstrap", "negotiating"}) = TRUE
    BY <2>1, <2>2
  <2>4. /\ (machine.binding = None) = (machine.phase \in {"bootstrap", "negotiating"})
        /\ (machine.mode = None) = (machine.binding = None)
        /\ (machine.mode = "readonly") = (machine.phase = "active-readonly")
        /\ (machine.pending = None) = (machine.phase # "saving")
        /\ solver.readOnly = (machine.mode = "readonly")
    BY <2>1, <2>3, Zenon
  <2> QED BY <2>1, <2>4 DEF FrameShape, OwnDocument
<1> QED BY <1>10, <1>11, <1>12 DEF Shapes

LEMMA ShapesAlways == Spec => []Shapes
  BY InitShapes, ShapesStep, PTL DEF Spec

(* TypeOK: every variable has its shape; the machine, the document and what
   the host was told and has persisted are sessions and projects of this run. *)
THEOREM TypeCorrect == Spec => []TypeOK
<1>1. Shapes => TypeOK
  BY DEF Shapes, TypeInv, TypeOK, ClientType, ClientPhase, SolverType, Content
<1> QED BY <1>1, ShapesAlways, PTL

(* PendingAgrees: phase and bookkeeping agree, in the client and in the frame. *)
THEOREM PendingAlwaysAgrees == Spec => []PendingAgrees
<1>1. ASSUME Shapes PROVE PendingAgrees
  <2>1. {entry[1] : entry \in solver.revs} =
          IF solver.machine.phase = "saving" THEN {solver.machine.pending} ELSE {}
    BY <1>1 DEF Shapes, FrameShape, machine
  <2> QED BY <1>1, <2>1 DEF Shapes, ClientShape, PendingAgrees
<1> QED BY <1>1, ShapesAlways, PTL

(* EditsSurviveRetries: while the frame stays in a session, nothing it handles
   takes an edit away, and nothing but an edit ahead of the launch's render
   takes the launched project away. *)
THEOREM EditsAlwaysSurvive == Spec => EditsSurviveRetries
<1> DEFINE Survives == solver'.mounted /\ solver.machine.binding # None
                         /\ solver'.machine.binding = solver.machine.binding
                       => /\ solver'.content.edit >= solver.content.edit
                          /\ \/ solver'.content.doc = solver.content.doc
                             \/ DeferredRender /\ edits' = edits + 1
                                /\ solver'.content.doc = solver.shown.content.doc
<1>1. ASSUME Shapes, [Next]_vars PROVE Survives
  <2>s. solver.content.edit \in Nat /\ edits \in Nat /\ solver.content.edit <= edits /\ solver.content \in Content
        /\ solver \in SolverType
    BY <1>1, SessionAssumption DEF Shapes, TypeInv, FrameShape, SolverType, Content, MaxEdits
  <2>0. solver'.content = solver.content => Survives
    BY <2>s
  <2>1. CASE UNCHANGED vars
    BY <2>0, <2>1 DEF vars
  <2>2. CASE HostStep
    BY <2>0, <2>2, <1>1, HostClientType
  <2>3. CASE FrameStep
    <3>1. CASE Mounted
      BY <3>1 DEF Mounted, FrameMounts
    <3>2. CASE Reload
      BY <3>2 DEF Reload, initialSolver
    <3>3. CASE Edit
      <4>1. Edits /\ solver.ref.doc = solver.shown.content.doc
        BY <3>3, <1>1, EditCase DEF Shapes, FrameShape
      <4>2. ~DeferredRender => solver.content.doc = solver.shown.content.doc
        BY <4>1, <1>1 DEF Shapes, FrameShape, OwnDocument, Edits, launchUnrendered, machine
      <4> QED BY <4>1, <4>2, <2>s DEF Edits
    <3>4. CASE LoseMessage \/ Rendered \/ \E id \in RequestId : SavedInFrame(id)
      BY <3>4, <2>0 DEF LoseMessage, Rendered, FrameRenders, SavedInFrame, SaveStarts, SameDocument
    <3>5. ASSUME NEW message \in SolverMessage, FrameReceived(message) PROVE Survives
      BY <3>5, <2>0 DEF FrameReceived, FrameRefuses, FrameConfirms, FrameReplaces, FrameServes,
         SaveStarts, FrameCompletes, FramePasses, SameDocument, machine
    <3> QED BY <2>3, <3>1, <3>2, <3>3, <3>4, <3>5, <1>1, FrameCases
  <2> QED BY <1>1, <2>1, <2>2, <2>3 DEF Next, HostStep, FrameStep
<1> QED BY <1>1, ShapesAlways, PTL DEF Spec, EditsSurviveRetries
----------------------------------------------------------------------------
(* The host's steps, by what they do to the session. *)

SameClient ==
  /\ client'.phase = client.phase /\ client'.binding = client.binding /\ client'.mode = client.mode
  /\ client'.launching = client.launching /\ client'.save = client.save

HostReads(message) ==
  /\ toHost # <<>> /\ message = toHost[1] /\ message \in HostMessage /\ toHost' = Tail(toHost)

(* A launch is posted again, by the timer or for a frame that has just mounted. *)
Relaunches ==
  /\ client.launching /\ toSolver' = Append(toSolver, launchMessage(client))
  /\ client'.binding = client.binding /\ client'.mode = client.mode
  /\ client'.launching = TRUE /\ client'.save = client.save
  /\ toHost' = toHost \/ \E message \in HostMessage : HostReads(message) /\ message.type = "ready" /\ message.binding = None
  /\ UNCHANGED <<solver, stored, seen, used>>

Activates(message) ==
  /\ HostReads(message) /\ message.type = "ready" /\ message.binding = client.binding
  /\ client.launching
  /\ client'.phase = (IF client.mode = "readonly" THEN "active-readonly" ELSE "active-editable")
  /\ client'.binding = client.binding /\ client'.mode = client.mode /\ client'.launching = FALSE
  /\ client'.save = client.save
  /\ UNCHANGED <<solver, toSolver, stored, seen, used>>

Learns(message) ==
  /\ HostReads(message) /\ message.type = "projectChanged" /\ message.binding = client.binding
  /\ client.phase \in {"active-editable", "saving"}
  /\ client' = client /\ seen' = [seen EXCEPT ![message.binding] = message.content]
  /\ UNCHANGED <<solver, toSolver, stored, used>>

TakesSnapshot(message) ==
  /\ HostReads(message) /\ message.type = "saveRequest" /\ message.binding = client.binding
  /\ client.save.id = message.id /\ ~client.save.received
  /\ client'.phase = client.phase /\ client'.binding = client.binding /\ client'.mode = client.mode
  /\ client'.launching = client.launching
  /\ client'.save.id = client.save.id /\ client'.save.received = TRUE
  /\ client'.save.snapshot = message.content
  /\ UNCHANGED <<solver, toSolver, stored, seen, used>>

Fails(message) ==
  /\ HostReads(message) /\ message.type = "error" /\ message.binding = client.binding
  /\ client'.phase = "error" /\ client'.launching = FALSE /\ client'.save = noSave
  /\ client'.binding = client.binding /\ client'.mode = client.mode
  /\ UNCHANGED <<solver, toSolver, stored, seen, used>>

(* What the client does not act upon: of its own session, only what comes
   outside the phases it is for, and requests it does not wait for. *)
Overlooks(message) ==
  /\ HostReads(message) /\ SameClient
  /\ client.launching => message.type # "ready" \/ message.binding # client.binding
  /\ client.phase \in {"active-editable", "saving"} => message.type # "projectChanged" \/ message.binding # client.binding
  /\ UNCHANGED <<solver, toSolver, stored, seen, used>>

GivesUp ==
  /\ client.launching /\ client'.phase = "error" /\ client'.launching = FALSE /\ client'.save = client.save
  /\ client'.binding = client.binding /\ client'.mode = client.mode
  /\ UNCHANGED <<solver, toSolver, toHost, stored, seen, used>>

GivesUpSave ==
  /\ SaveTimeouts /\ client.phase = "saving" /\ client'.phase = "active-editable" /\ client'.save = noSave
  /\ client'.binding = client.binding /\ client'.mode = client.mode /\ client'.launching = FALSE
  /\ UNCHANGED <<solver, toSolver, toHost, stored, seen, used>>

Disposes ==
  /\ client'.phase = "disposed" /\ client'.binding = None /\ client'.mode = None
  /\ client'.launching = FALSE /\ client'.save = noSave
  /\ UNCHANGED <<solver, toSolver, toHost, stored, seen, used>>

Launches(b, m) ==
  /\ b \notin launched /\ launched' = launched \cup {b}
  /\ client'.phase \in {"launching", "negotiating"} /\ client'.binding = b /\ client'.mode = m
  /\ client'.launching = TRUE /\ client'.save = noSave
  /\ toSolver' = toSolver \/ toSolver' = Append(toSolver, [type |-> "launch", binding |-> b, mode |-> m])
  /\ UNCHANGED <<solver, toHost, stored, seen, requested, edits, reloads, circumstances>>

AsksToSave(id) ==
  /\ client.phase = "active-editable" /\ client.save = noSave /\ id \notin requested
  /\ requested' = requested \cup {id}
  /\ client'.phase = "saving" /\ client'.save.id = id /\ client'.save.received = FALSE
  /\ client'.binding = client.binding /\ client'.mode = client.mode /\ client'.launching = FALSE
  /\ client.binding \in Binding /\ client.mode = "editable"
  /\ toSolver' = Append(toSolver, [type |-> "requestSave", binding |-> client.binding, id |-> id])
  /\ UNCHANGED <<solver, toHost, stored, seen, launched, edits, reloads, circumstances>>

AnswersSave(status) ==
  /\ client.save.received /\ client.phase = "saving" /\ client.save.id \in RequestId
  /\ client'.phase = "active-editable" /\ client'.save = noSave
  /\ client'.binding = client.binding /\ client'.mode = client.mode /\ client'.launching = FALSE
  /\ client.binding \in Binding /\ client.mode = "editable"
  /\ status = "saved" => stored' = [stored EXCEPT ![client.binding] = client.save.snapshot]
  /\ status = "failed" => stored' = stored
  /\ toSolver' = Append(toSolver, [type |-> "saveResult", binding |-> client.binding,
                                   id |-> client.save.id, status |-> status])
  /\ UNCHANGED <<solver, toHost, seen, used>>

HostQuiet(message) ==
  Activates(message) \/ Learns(message) \/ TakesSnapshot(message) \/ Fails(message) \/ Overlooks(message)

LEMMA HostCases ==
  ASSUME Shapes, HostStep
  PROVE  \/ \E b \in Binding, m \in Mode : Launches(b, m)
         \/ \E id \in RequestId : AsksToSave(id)
         \/ \E status \in {"saved", "failed"} : AnswersSave(status)
         \/ Relaunches \/ GivesUp \/ GivesUpSave \/ Disposes
         \/ \E message \in HostMessage : HostQuiet(message)
<1>s. client \in ClientType /\ client.save \in SaveType /\ ClientShape
  BY DEF Shapes, TypeInv, ClientType
<1>0. noSave \in SaveType /\ noSave.id = None /\ noSave.received = FALSE
  BY InitialSolver DEF noSave, SaveType, Shapes
<1>n. None \notin Binding /\ None \notin RequestId
  BY NoneAssumption
<1>1. ASSUME NEW b \in Binding, NEW m \in Mode, Launch(b, m) PROVE Launches(b, m)
  <2>1. client' = [client EXCEPT
       !.phase = IF client.compatible THEN "launching" ELSE "negotiating",
       !.binding = b, !.mode = m,
       !.launching = TRUE, !.retrying = client.compatible, !.save = noSave]
    BY <1>1 DEF Launch
  <2>2. client'.phase \in {"launching", "negotiating"} /\ client'.binding = b /\ client'.mode = m
        /\ client'.launching = TRUE /\ client'.save = noSave
    BY <2>1, <1>s DEF ClientType
  <2> QED BY <1>1, <2>2 DEF Launch, Launches, launchMessage
<1>2. ASSUME NEW id \in RequestId, RequestSave(id) PROVE AsksToSave(id)
  <2>1. client' = [client EXCEPT !.phase = "saving", !.save = [noSave EXCEPT !.id = id]]
    BY <1>2 DEF RequestSave
  <2>2. client'.phase = "saving" /\ client'.save = [noSave EXCEPT !.id = id]
        /\ client'.binding = client.binding /\ client'.mode = client.mode /\ client'.launching = client.launching
    BY <2>1, <1>s DEF ClientType
  <2>3. client'.save.id = id /\ client'.save.received = FALSE
    BY <2>2 DEF noSave
  <2>4. client.phase = "active-editable" /\ client.launching = FALSE /\ client.binding \in Binding /\ client.mode = "editable"
    BY <1>2, <1>s DEF RequestSave, ClientShape, ClientType, Active
  <2> QED BY <1>2, <2>2, <2>3, <2>4 DEF RequestSave, AsksToSave
<1>3. ASSUME NEW status \in {"saved", "failed"}, SendSaveResult(status) PROVE AnswersSave(status)
  <2>1. client' = [client EXCEPT !.phase = "active-editable", !.save = noSave] /\ client.save.received
    BY <1>3 DEF SendSaveResult
  <2>2. client'.phase = "active-editable" /\ client'.save = noSave
        /\ client'.binding = client.binding /\ client'.mode = client.mode /\ client'.launching = client.launching
    BY <2>1, <1>s DEF ClientType
  <2>3. client.phase = "saving" /\ client.save.id \in RequestId
    BY <2>1, <1>0, <1>s DEF ClientShape, SaveType
  <2>4. client.launching = FALSE /\ client.binding \in Binding /\ client.mode = "editable"
    BY <2>3, <1>s DEF ClientShape, ClientType, Active
  <2> QED BY <1>3, <2>1, <2>2, <2>3, <2>4 DEF SendSaveResult, AnswersSave
<1>4. CASE LaunchRetry
  BY <1>4, <1>s DEF LaunchRetry, Relaunches, ClientType
<1>5. CASE LaunchTimeout
  <2>1. client' = [client EXCEPT !.phase = "error", !.launching = FALSE, !.retrying = FALSE]
    BY <1>5 DEF LaunchTimeout
  <2> QED BY <2>1, <1>5, <1>s DEF LaunchTimeout, GivesUp, ClientType
<1>6. CASE SaveTimeout
  <2>1. client' = [client EXCEPT !.phase = "active-editable", !.save = noSave] /\ client.save # noSave
    BY <1>6 DEF SaveTimeout
  <2>2. client.phase = "saving" /\ client.launching = FALSE
    BY <2>1, <1>s DEF ClientShape, ClientType
  <2> QED BY <2>1, <2>2, <1>6, <1>s DEF SaveTimeout, GivesUpSave, ClientType
<1>7. CASE Dispose
  <2>1. client' = [initialClient EXCEPT !.phase = "disposed", !.compatible = client.compatible]
    BY <1>7 DEF Dispose
  <2> QED BY <2>1, <1>7 DEF Dispose, Disposes, initialClient
<1>b. CASE HostReceives
  <2>1. PICK message \in {toHost[i] : i \in DOMAIN toHost} :
           \/ HandleBootstrapReady(message) \/ HandleSessionReady(message)
           \/ HandleProjectChanged(message) \/ HandleSaveSnapshot(message)
           \/ HandleSolverError(message) \/ HostIgnores(message)
    BY <1>b DEF HostReceives
  <2>2. HostHandles(message)
    BY <2>1 DEF HandleBootstrapReady, HandleSessionReady, HandleProjectChanged, HandleSaveSnapshot,
                HandleSolverError, HostIgnores
  <2>3. HostReads(message) /\ message \in HostMessage /\ UNCHANGED <<solver, stored, used>>
    BY <2>2, HostHandlesCase DEF Shapes, HostReads
  <2>4. ASSUME HandleBootstrapReady(message) PROVE Relaunches \/ Overlooks(message)
    <3>1. client' = [client EXCEPT !.compatible = TRUE, !.retrying = client.launching,
                              !.phase = IF client.launching THEN "launching" ELSE @]
      BY <2>4 DEF HandleBootstrapReady
    <3>2. client'.launching = client.launching /\ client'.save = client.save
          /\ client'.binding = client.binding /\ client'.mode = client.mode
          /\ (~client.launching => client'.phase = client.phase)
      BY <3>1, <1>s DEF ClientType
    <3>3. CASE client.launching
      <4>1. client.launching = TRUE
        BY <3>3, <1>s DEF ClientType
      <4> QED BY <2>3, <2>4, <3>2, <3>3, <4>1 DEF HandleBootstrapReady, Relaunches
    <3>4. CASE ~client.launching
      <4>1. message.type # "projectChanged" /\ toSolver' = toSolver /\ seen' = seen
        BY <2>4, <3>4 DEF HandleBootstrapReady
      <4>2. SameClient
        BY <3>2, <3>4 DEF SameClient
      <4> QED BY <2>3, <3>4, <4>1, <4>2 DEF Overlooks
    <3> QED BY <3>3, <3>4
  <2>5. ASSUME HandleSessionReady(message) PROVE Activates(message)
    BY <2>3, <2>5, <1>s DEF HandleSessionReady, activated, Activates, ClientType, isCurrentBinding
  <2>6. ASSUME HandleProjectChanged(message) PROVE Learns(message)
    BY <2>3, <2>6 DEF HandleProjectChanged, Learns, isCurrentBinding
  <2>7. ASSUME HandleSaveSnapshot(message) PROVE TakesSnapshot(message)
    <3>1. client' = [client EXCEPT !.save = [client.save EXCEPT !.received = TRUE, !.snapshot = message.content]]
          /\ client.save.id = message.id
      BY <2>7, <1>s DEF HandleSaveSnapshot, ClientType
    <3>2. client'.save.id = client.save.id /\ client'.save.received = TRUE
          /\ client'.save.snapshot = message.content
      BY <3>1, <1>s DEF SaveType, ClientType
    <3> QED BY <2>3, <2>7, <3>1, <3>2, <1>s DEF HandleSaveSnapshot, TakesSnapshot, ClientType, isCurrentBinding
  <2>8. ASSUME HandleSolverError(message) PROVE Fails(message)
    BY <2>3, <2>8, <1>s DEF HandleSolverError, Fails, ClientType, isCurrentBinding
  <2>9. ASSUME HostIgnores(message) PROVE Overlooks(message)
    <3>1. client.launching => client.phase \in {"negotiating", "launching"} /\ client.binding # None
      BY <1>s DEF ClientShape
    <3>2. client.phase \in Active => client.binding # None
      BY <1>s DEF ClientShape
    <3>3. client.launching => message.type # "ready" \/ message.binding # client.binding
      BY <2>9, <3>1 DEF HostIgnores, isCurrentBinding
    <3>4. client.phase \in {"active-editable", "saving"} => message.type # "projectChanged" \/ message.binding # client.binding
      BY <2>9, <3>2 DEF HostIgnores, isCurrentBinding, Active
    <3> QED BY <2>3, <2>9, <3>3, <3>4 DEF HostIgnores, Overlooks, SameClient
  <2> QED BY <2>1, <2>3, <2>4, <2>5, <2>6, <2>7, <2>8, <2>9 DEF HostQuiet
<1> QED BY <1>1, <1>2, <1>3, <1>4, <1>5, <1>6, <1>7, <1>b DEF HostStep, HostActs
----------------------------------------------------------------------------
(* The queues from one step to the next. *)

Sent == 1..Len(toSolver)
Told == 1..Len(toHost)

(* What is left of the queue to the frame: its first k messages are gone. *)
Kept(k) ==
  k \in Nat /\ \A i \in Sent' : i + k \in Sent /\ toSolver'[i] = toSolver[i + k]

LEMMA QueueKept ==
  ASSUME Shapes
  PROVE  /\ toSolver' = toSolver => Kept(0)
         /\ toSolver' = <<>> => Kept(0)
         /\ toSolver # <<>> /\ toSolver' = Tail(toSolver) => Kept(1)
<1>s. toSolver \in Seq(SolverMessage) /\ Len(toSolver) \in Nat
  BY LenProperties DEF Shapes, TypeInv
<1>1. toSolver' = toSolver => Kept(0)
  BY <1>s DEF Kept, Sent
<1>2. toSolver' = <<>> => Kept(0)
  BY <1>s, EmptySeq DEF Kept, Sent
<1>3. toSolver # <<>> /\ toSolver' = Tail(toSolver) => Kept(1)
  BY <1>s, TailAt DEF Kept, Sent
<1> QED BY <1>1, <1>2, <1>3

LEMMA QueuePosted ==
  ASSUME Shapes, NEW m \in SolverMessage, toSolver' = Append(toSolver, m)
  PROVE  /\ Len(toSolver) \in Nat /\ Len(toSolver') = Len(toSolver) + 1
         /\ \A i \in Sent' : \/ i \in Sent /\ toSolver'[i] = toSolver[i]
                             \/ i = Len(toSolver') /\ toSolver'[i] = m /\ i \notin Sent
         /\ \A i \in Sent : i \in Sent' /\ i < Len(toSolver')
<1>1. /\ Len(toSolver) \in Nat /\ Len(toSolver') = Len(toSolver) + 1
      /\ \A i \in 1..Len(toSolver) : toSolver'[i] = toSolver[i]
      /\ toSolver'[Len(toSolver) + 1] = m
  BY AppendAt DEF Shapes, TypeInv
<1>2. ASSUME NEW i \in Sent'
      PROVE  \/ i \in Sent /\ toSolver'[i] = toSolver[i]
             \/ i = Len(toSolver') /\ toSolver'[i] = m /\ i \notin Sent
  <2>1. i \in Nat /\ i >= 1 /\ i <= Len(toSolver) + 1
    BY <1>1, <1>2 DEF Sent
  <2>2. CASE i <= Len(toSolver)
    BY <2>1, <2>2, <1>1 DEF Sent
  <2>3. CASE i = Len(toSolver) + 1
    BY <2>1, <2>3, <1>1 DEF Sent
  <2> QED BY <2>1, <2>2, <2>3, <1>1
<1>3. \A i \in Sent : i \in Sent' /\ i < Len(toSolver')
  BY <1>1 DEF Sent
<1> QED BY <1>1, <1>2, <1>3

LEMMA FirstOfQueue ==
  ASSUME Shapes, NEW message \in SolverMessage, FrameReceivesOf(message)
  PROVE  message = toSolver[1] /\ 1 \in Sent /\ Len(toSolver) \in Nat /\ Kept(1)
         /\ Len(toSolver') = Len(toSolver) - 1
  BY TailAt, QueueKept DEF Shapes, TypeInv, FrameReceivesOf, Sent

LEMMA FrameQueue ==
  ASSUME Shapes, FrameStep
  PROVE  \E k \in Nat : Kept(k)
<1>1. CASE Mounted \/ Edit \/ Rendered \/ \E id \in RequestId : SavedInFrame(id)
  <2>1. toSolver' = toSolver
    BY <1>1 DEF Mounted, Edit, Rendered, SavedInFrame
  <2> QED BY <2>1, QueueKept
<1>2. CASE Reload
  BY <1>2, QueueKept DEF Reload
<1>3. CASE LoseMessage
  BY <1>3, QueueKept DEF LoseMessage
<1>4. ASSUME NEW message \in SolverMessage, FrameReceived(message) PROVE Kept(1)
  BY <1>4, FirstOfQueue DEF FrameReceived
<1> QED BY <1>1, <1>2, <1>3, <1>4, FrameCases

LEMMA HostQueueRead ==
  ASSUME Shapes, NEW message, HostReads(message)
  PROVE  /\ message = toHost[1] /\ 1 \in Told /\ Len(toHost) \in Nat
         /\ Len(toHost') = Len(toHost) - 1
         /\ \A i \in Told' : i + 1 \in Told /\ toHost'[i] = toHost[i + 1]
  BY TailAt DEF Shapes, TypeInv, HostReads, Told

LEMMA HostQueuePosted ==
  ASSUME Shapes, NEW m \in HostMessage, toHost' = Append(toHost, m)
  PROVE  /\ Len(toHost) \in Nat /\ Len(toHost') = Len(toHost) + 1
         /\ \A i \in Told' : \/ i \in Told /\ toHost'[i] = toHost[i]
                             \/ i = Len(toHost') /\ toHost'[i] = m /\ i \notin Told
         /\ \A i \in Told : i \in Told' /\ toHost'[i] = toHost[i] /\ i < Len(toHost')
         /\ Len(toHost') \in Told' /\ toHost'[Len(toHost')] = m
<1>1. /\ Len(toHost) \in Nat /\ Len(toHost') = Len(toHost) + 1
      /\ \A i \in 1..Len(toHost) : toHost'[i] = toHost[i]
      /\ toHost'[Len(toHost) + 1] = m
  BY AppendAt DEF Shapes, TypeInv
<1>2. ASSUME NEW i \in Told'
      PROVE  \/ i \in Told /\ toHost'[i] = toHost[i]
             \/ i = Len(toHost') /\ toHost'[i] = m /\ i \notin Told
  <2>1. i \in Nat /\ i >= 1 /\ i <= Len(toHost) + 1
    BY <1>1, <1>2 DEF Told
  <2>2. CASE i <= Len(toHost)
    BY <2>1, <2>2, <1>1 DEF Told
  <2>3. CASE i = Len(toHost) + 1
    BY <2>1, <2>3, <1>1 DEF Told
  <2> QED BY <2>1, <2>2, <2>3, <1>1
<1>3. \A i \in Told : i \in Told' /\ toHost'[i] = toHost[i] /\ i < Len(toHost')
  BY <1>1 DEF Told
<1>4. Len(toHost') \in Told' /\ toHost'[Len(toHost')] = m
  BY <1>1 DEF Told
<1> QED BY <1>1, <1>2, <1>3, <1>4

(* Every message to the host is an old one, or says something of what the
   frame has just done. *)
News(m) ==
  \/ m.type = "ready" /\ m.binding = None
  \/ m.type = "ready" /\ m.binding = solver'.machine.binding /\ m.binding # None /\ m.binding = machine.binding
  \/ m.type = "projectChanged" /\ m.binding = machine.binding /\ machine.binding # None
  \/ m.type = "saveRequest" /\ m.binding = machine.binding /\ machine.binding # None /\ SaveStarts(m.id)
     /\ m.id \in requested' /\ m.content = solver.shown.content
  \/ m.type = "error" /\ (m.binding = solver.shown.binding \/ \E i \in Sent : m.binding = toSolver[i].binding)
     /\ m.binding # None /\ \E message \in SolverMessage : FrameReceived(message) /\ FrameRefuses(message)

LEMMA HostMail ==
  ASSUME Shapes, Next, \A i \in Sent : toSolver[i].type # "launch" => toSolver[i].id \in requested
  PROVE  \A i \in Told' : (\E j \in Told : toHost'[i] = toHost[j]) \/ News(toHost'[i])
<1>s. /\ toHost \in Seq(HostMessage) /\ Shapes /\ TypeInv /\ FrameShape
      /\ solver.shown \in ShownType /\ machine \in State
  BY DEF Shapes, TypeInv, SolverType, machine
<1> DEFINE Goal == \A i \in Told' : (\E j \in Told : toHost'[i] = toHost[j]) \/ News(toHost'[i])
<1>0. toHost' = toHost => Goal
  BY DEF Told
<1>r. ASSUME NEW message, HostReads(message) PROVE Goal
  BY <1>r, <1>s, HostQueueRead
<1>a. ASSUME NEW m \in HostMessage, News(m), toHost' = Append(toHost, m) PROVE Goal
  BY <1>a, <1>s, HostQueuePosted
<1>1. CASE HostStep
  <2>1. toHost' = toHost \/ \E message \in HostMessage : HostReads(message)
    BY <1>1, <1>s, HostCases DEF Launches, AsksToSave, AnswersSave, Relaunches, GivesUp, GivesUpSave,
       Disposes, HostQuiet, Activates, Learns, TakesSnapshot, Fails, Overlooks
  <2> QED BY <2>1, <1>0, <1>r
<1>2. CASE Mounted
  <2>1. readyMessage(None) \in HostMessage /\ News(readyMessage(None)) /\ toHost' = Append(toHost, readyMessage(None))
    BY <1>2, <1>s, MessageShapes DEF Mounted, FrameMounts, News, readyMessage
  <2> QED BY <2>1, <1>a
<1>3. CASE Reload \/ LoseMessage \/ Edit
  BY <1>3, <1>0 DEF Reload, LoseMessage, Edit
<1>4. CASE Rendered
  <2> DEFINE r == readyMessage(machine.binding)
  <2>1. newSession => r \in HostMessage /\ News(r)
    <3>1. machine.binding \in Binding \cup {None}
      BY <1>s DEF State
    <3>2. newSession => machine.binding # None /\ solver'.machine.binding = machine.binding
      BY <1>4 DEF Rendered, FrameRenders, SameSession
    <3> QED BY <3>1, <3>2, <1>s, MessageShapes DEF News, readyMessage
  <2>2. tells => changeMessage \in HostMessage /\ News(changeMessage)
    BY <1>s, MessageShapes DEF News, changeMessage, tells, FrameShape
  <2> HIDE DEF r
  <2>3. CASE newSession /\ tells
    <3>1. toHost' = Append(Append(toHost, r), changeMessage)
      BY <1>4, <2>3 DEF Rendered, FrameRenders, r
    <3>2. Append(toHost, r) \in Seq(HostMessage) /\ Len(toHost) \in Nat /\ Len(Append(toHost, r)) = Len(toHost) + 1
          /\ (\A i \in 1..Len(toHost) : Append(toHost, r)[i] = toHost[i])
          /\ Append(toHost, r)[Len(toHost) + 1] = r
      BY <2>1, <2>3, <1>s, AppendAt
    <3> DEFINE p == Append(toHost, r)
    <3>3. Len(toHost') = Len(p) + 1 /\ (\A i \in 1..Len(p) : toHost'[i] = p[i]) /\ toHost'[Len(p) + 1] = changeMessage
      BY <2>2, <2>3, <3>1, <3>2, AppendAt
    <3> HIDE DEF p
    <3>4. Len(p) = Len(toHost) + 1 /\ (\A i \in 1..Len(toHost) : p[i] = toHost[i]) /\ p[Len(toHost) + 1] = r
      BY <3>2 DEF p
    <3> QED BY <3>2, <3>3, <3>4, <2>1, <2>2, <2>3 DEF Told
  <2>4. CASE newSession /\ ~tells
    BY <1>4, <2>1, <2>4, <1>a DEF Rendered, FrameRenders, r
  <2>5. CASE ~newSession /\ tells
    BY <1>4, <2>2, <2>5, <1>a DEF Rendered, FrameRenders
  <2>6. CASE ~newSession /\ ~tells
    BY <1>4, <2>6, <1>0 DEF Rendered, FrameRenders
  <2> QED BY <2>3, <2>4, <2>5, <2>6
<1>5. ASSUME NEW id \in RequestId, SaveStarts(id), id \in requested', machine.binding # None, solver.shown.binding # None
      PROVE  Goal
  <2>1. saveRequestMessage(id) \in HostMessage /\ toHost' = Append(toHost, saveRequestMessage(id))
    BY <1>5, <1>s, MessageShapes DEF SaveStarts
  <2>2. News(saveRequestMessage(id))
    BY <1>5 DEF News, saveRequestMessage, machine
  <2> QED BY <2>1, <2>2, <1>a
<1>6. ASSUME NEW id \in RequestId, SavedInFrame(id) PROVE Goal
  BY <1>6, <1>5, <1>0 DEF SavedInFrame
<1>7. ASSUME NEW message \in SolverMessage, FrameReceived(message) PROVE Goal
  <2>0. message.binding \in Binding /\ message = toSolver[1] /\ 1 \in Sent /\ message.binding # None
    BY <1>7, <1>s, FirstOfQueue, NoneAssumption DEF FrameReceived, SolverMessage
  <2>1. CASE FrameRefuses(message)
    <3>1. errorMessage(message) \in HostMessage
      BY <2>1, <1>s, MessageShapes DEF FrameRefuses
    <3>2. errorMessage(message).type = "error" /\ (errorMessage(message).binding = message.binding
             \/ (solver.shown.binding # None /\ errorMessage(message).binding = solver.shown.binding))
      BY DEF errorMessage
    <3>3. News(errorMessage(message))
      BY <1>7, <2>0, <2>1, <3>2 DEF News
    <3> QED BY <2>1, <3>1, <3>3, <1>a DEF FrameRefuses
  <2>2. CASE FrameConfirms(message)
    <3>1. readyMessage(message.binding) \in HostMessage
      BY <2>0, <1>s, MessageShapes
    <3>2. News(readyMessage(message.binding))
      BY <2>0, <2>2 DEF News, readyMessage, FrameConfirms, machine
    <3> QED BY <2>2, <3>1, <3>2, <1>a DEF FrameConfirms
  <2>3. CASE FrameServes(message)
    <3>1. message.id \in RequestId /\ message.id \in requested /\ requested' = requested
      BY <1>7, <2>0, <2>3 DEF FrameServes, SolverMessage, FrameReceived, FrameReceivesOf, used
    <3>2. machine.binding # None /\ solver.shown.binding # None /\ SaveStarts(message.id)
      BY <2>0, <2>3 DEF FrameServes, SaveStarts
    <3> QED BY <3>1, <3>2, <1>5
  <2>4. CASE FrameReplaces(message) \/ FrameCompletes(message) \/ FramePasses(message)
    BY <2>4, <1>0 DEF FrameReplaces, FrameCompletes, FramePasses
  <2> QED BY <1>7, <2>1, <2>2, <2>3, <2>4 DEF FrameReceived
<1> QED BY <1>s, <1>1, <1>2, <1>3, <1>4, <1>6, <1>7, FrameCases DEF Next, HostStep, FrameStep
----------------------------------------------------------------------------
(* Every name in use was given by the host: a new launch, or a new save, is
   not confused with anything under way. *)
Names ==
  /\ client.binding \in launched \cup {None} /\ client.save.id \in requested \cup {None}
  /\ machine.binding \in launched \cup {None} /\ solver.shown.binding \in launched \cup {None}
  /\ \A i \in Sent : toSolver[i].binding \in launched
  /\ \A i \in Sent : toSolver[i].type # "launch" => toSolver[i].id \in requested
  /\ \A i \in Told : toHost[i].binding \in launched \cup {None}
  /\ \A i \in Told : toHost[i].type = "saveRequest" => toHost[i].id \in requested

(* Every session has one mode, wherever it is spoken of. *)
ModeOf(m) == IF m.type = "launch" THEN m.mode ELSE "editable"
Agree(b, m) ==
  /\ machine.binding = b => machine.mode = m
  /\ client.binding = b => client.mode = m
  /\ \A i \in Sent : toSolver[i].binding = b => ModeOf(toSolver[i]) = m
OneMode == \A b \in Binding : \E m \in Mode : Agree(b, m)

(* Once a launch took effect, or the client was told so, only messages of that
   session are under way to the frame.  Behind a launch of the present session
   there are no others; before a message of a session no other launch. *)
Ready(b) == \E i \in Told : toHost[i].type = "ready" /\ toHost[i].binding = b
Reached == client.binding # None
             /\ (machine.binding = client.binding \/ client.phase \in Active \/ Ready(client.binding))
InSession ==
  /\ \A i, j \in Sent : i < j /\ toSolver[i].type = "launch" /\ toSolver[i].binding = client.binding
       => toSolver[j].binding = client.binding
  /\ Reached => /\ machine.binding \in {None, client.binding}
                /\ \A i \in Sent : toSolver[i].binding = client.binding
  /\ \A j \in Sent : toSolver[j].type # "launch" =>
       /\ machine.binding \in {None, toSolver[j].binding}
       /\ \A i \in Sent : i < j /\ toSolver[i].type = "launch" => toSolver[i].binding = toSolver[j].binding

Session == Shapes /\ Names /\ OneMode /\ InSession

LEMMA NamesKept ==
  ASSUME Shapes, Names, Next
  PROVE  Names'
<1>s. /\ noSave.id = None /\ noSave' = noSave
      /\ \A i \in Sent : toSolver[i].type # "launch" => toSolver[i].id \in requested
      /\ FrameShape
  BY DEF noSave, Loaded, Names, Shapes
<1> DEFINE ToHostNames == /\ \A i \in Told' : toHost'[i].binding \in launched' \cup {None}
                          /\ \A i \in Told' : toHost'[i].type = "saveRequest" => toHost'[i].id \in requested'
           ToSolverNames == /\ \A i \in Sent' : toSolver'[i].binding \in launched'
                            /\ \A i \in Sent' : toSolver'[i].type # "launch" => toSolver'[i].id \in requested'
           ClientNames == client'.binding \in launched' \cup {None} /\ client'.save.id \in requested' \cup {None}
           SolverNames == solver'.machine.binding \in launched' \cup {None}
                          /\ solver'.shown.binding \in launched' \cup {None}
<1>m. launched \subseteq launched' /\ requested \subseteq requested' => ToHostNames
  <2> SUFFICES ASSUME launched \subseteq launched', requested \subseteq requested' PROVE ToHostNames
    OBVIOUS
  <2>1. ASSUME NEW i \in Told'
        PROVE  toHost'[i].binding \in launched' \cup {None}
               /\ (toHost'[i].type = "saveRequest" => toHost'[i].id \in requested')
    <3>1. (\E j \in Told : toHost'[i] = toHost[j]) \/ News(toHost'[i])
      BY <2>1, <1>s, HostMail
    <3>2. CASE \E j \in Told : toHost'[i] = toHost[j]
      BY <3>2 DEF Names
    <3>3. CASE News(toHost'[i])
      BY <3>3 DEF News, Names
    <3> QED BY <3>1, <3>2, <3>3
  <2> QED BY <2>1
<1>k. ASSUME NEW k \in Nat, Kept(k), launched \subseteq launched', requested \subseteq requested' PROVE ToSolverNames
  BY <1>k DEF Kept, Names
<1>q. ASSUME toSolver' = toSolver, launched \subseteq launched', requested \subseteq requested' PROVE ToSolverNames
  BY <1>q DEF Sent, Names
<1>c. client'.binding = client.binding /\ (client'.save = client.save \/ client'.save = noSave)
      /\ launched \subseteq launched' /\ requested \subseteq requested' => ClientNames
  BY <1>s DEF Names
<1>d. solver' = solver /\ launched \subseteq launched' => SolverNames
  BY DEF Names, machine
<1>p. ASSUME NEW m \in SolverMessage, toSolver' = Append(toSolver, m), m.binding \in launched',
             m.type # "launch" => m.id \in requested', launched \subseteq launched', requested \subseteq requested'
      PROVE  ToSolverNames
  BY <1>p, QueuePosted DEF Names
<1> HIDE DEF ToHostNames, ToSolverNames, ClientNames, SolverNames
<1>g. ToHostNames /\ ToSolverNames /\ ClientNames /\ SolverNames => Names'
  BY DEF ToHostNames, ToSolverNames, ClientNames, SolverNames, Names, machine
<1>1. CASE HostStep
  <2>1. ASSUME NEW b \in Binding, NEW m \in Mode, Launches(b, m) PROVE Names'
    <3>1. launched \subseteq launched' /\ requested \subseteq requested' /\ b \in launched' /\ solver' = solver
      BY <2>1 DEF Launches
    <3>2. ClientNames
      BY <2>1, <1>s DEF Launches, ClientNames
    <3>3. ToSolverNames
      <4> DEFINE l == [type |-> "launch", binding |-> b, mode |-> m]
      <4>1. l \in SolverMessage /\ l.binding = b /\ l.type = "launch"
        BY DEF SolverMessage
      <4>2. toSolver' = toSolver \/ toSolver' = Append(toSolver, l)
        BY <2>1 DEF Launches
      <4> HIDE DEF l
      <4> QED BY <3>1, <4>1, <4>2, <1>q, <1>p
    <3> QED BY <3>1, <3>2, <3>3, <1>m, <1>d, <1>g
  <2>2. ASSUME NEW id \in RequestId, AsksToSave(id) PROVE Names'
    <3>1. launched \subseteq launched' /\ requested \subseteq requested' /\ id \in requested' /\ solver' = solver
      BY <2>2 DEF AsksToSave
    <3>2. ClientNames
      BY <2>2 DEF AsksToSave, ClientNames, Names
    <3>3. ToSolverNames
      <4> DEFINE l == [type |-> "requestSave", binding |-> client.binding, id |-> id]
      <4>1. l \in SolverMessage /\ l.binding \in launched' /\ l.id = id
        BY <2>2, NoneAssumption DEF SolverMessage, AsksToSave, Names
      <4>2. toSolver' = Append(toSolver, l)
        BY <2>2 DEF AsksToSave
      <4> HIDE DEF l
      <4> QED BY <3>1, <4>1, <4>2, <1>p
    <3> QED BY <3>1, <3>2, <3>3, <1>m, <1>d, <1>g
  <2>3. ASSUME NEW status \in {"saved", "failed"}, AnswersSave(status) PROVE Names'
    <3>1. launched \subseteq launched' /\ requested \subseteq requested' /\ solver' = solver
      BY <2>3 DEF AnswersSave, used
    <3>2. ClientNames
      BY <2>3, <3>1, <1>c DEF AnswersSave
    <3>3. ToSolverNames
      <4> DEFINE l == [type |-> "saveResult", binding |-> client.binding, id |-> client.save.id, status |-> status]
      <4>1. l \in SolverMessage /\ l.binding \in launched' /\ l.id \in requested'
        BY <2>3, NoneAssumption DEF SolverMessage, AnswersSave, Names, used
      <4>2. toSolver' = Append(toSolver, l)
        BY <2>3 DEF AnswersSave
      <4> HIDE DEF l
      <4> QED BY <3>1, <4>1, <4>2, <1>p
    <3> QED BY <3>1, <3>2, <3>3, <1>m, <1>d, <1>g
  <2>4. CASE Relaunches
    <3>1. launched' = launched /\ requested' = requested /\ solver' = solver
      BY <2>4 DEF Relaunches, used
    <3>2. launchMessage(client) \in SolverMessage
      BY <2>4, MessageShapes DEF Relaunches
    <3>3. launchMessage(client).type = "launch" /\ launchMessage(client).binding = client.binding
      BY DEF launchMessage
    <3>4. client.binding \in launched
      BY <2>4 DEF Relaunches, Names, Shapes, ClientShape
    <3>5. toSolver' = Append(toSolver, launchMessage(client)) /\ client'.binding = client.binding /\ client'.save = client.save
      BY <2>4 DEF Relaunches
    <3>6. ToSolverNames
      BY <3>1, <3>2, <3>3, <3>4, <3>5, <1>p
    <3> QED BY <3>1, <3>5, <3>6, <1>m, <1>c, <1>d, <1>g
  <2>5. CASE GivesUp \/ GivesUpSave \/ \E message \in HostMessage : HostQuiet(message)
    <3>1. /\ toSolver' = toSolver /\ launched' = launched /\ requested' = requested /\ solver' = solver
          /\ client'.binding = client.binding
      BY <2>5 DEF GivesUp, GivesUpSave, HostQuiet, Activates, Learns, TakesSnapshot, Fails, Overlooks, SameClient, used
    <3>2. client'.save.id = client.save.id \/ client'.save = noSave
      BY <2>5 DEF GivesUp, GivesUpSave, HostQuiet, Activates, Learns, TakesSnapshot, Fails, Overlooks, SameClient
    <3>3. ClientNames
      BY <3>1, <3>2, <1>s DEF ClientNames, Names
    <3> QED BY <3>1, <3>3, <1>m, <1>q, <1>d, <1>g
  <2>6. CASE Disposes
    <3>1. toSolver' = toSolver /\ launched' = launched /\ requested' = requested /\ solver' = solver
      BY <2>6 DEF Disposes, used
    <3>2. ClientNames
      BY <2>6, <1>s DEF Disposes, ClientNames
    <3> QED BY <3>1, <3>2, <1>m, <1>q, <1>d, <1>g
  <2> QED BY <1>1, <2>1, <2>2, <2>3, <2>4, <2>5, <2>6, HostCases
<1>2. CASE FrameStep
  <2>1. client' = client /\ launched' = launched /\ requested \subseteq requested'
    BY <1>2, FrameCases DEF Mounted, Reload, LoseMessage, Edit, Rendered, SavedInFrame, FrameReceived, FrameReceivesOf, used
  <2>2. ToSolverNames
    BY <1>2, <2>1, <1>k, FrameQueue
  <2>3. SolverNames
    <3>1. CASE Mounted \/ Reload
      BY <3>1 DEF Mounted, FrameMounts, Reload, initialSolver, createHostProtocolState, SolverNames
    <3>2. CASE LoseMessage \/ Edit
      <4>1. solver'.machine = solver.machine /\ solver'.shown = solver.shown
        BY <3>2 DEF LoseMessage, Edit, Shapes, TypeInv, SolverType
      <4> QED BY <4>1, <2>1 DEF SolverNames, Names, machine
    <3>3. CASE Rendered
      BY <3>3, <2>1 DEF Rendered, FrameRenders, current, SameSession, SolverNames, Names, machine
    <3>4. ASSUME NEW id \in RequestId, SavedInFrame(id) PROVE SolverNames
      BY <3>4, <2>1 DEF SavedInFrame, SaveStarts, SameSession, SameDocument, SolverNames, Names, machine
    <3>5. ASSUME NEW message \in SolverMessage, FrameReceived(message) PROVE SolverNames
      <4>1. message.binding \in launched
        BY <3>5, FirstOfQueue DEF FrameReceived, Names
      <4> QED BY <3>5, <4>1, <2>1 DEF FrameReceived, FrameRefuses, FrameConfirms, FrameReplaces, FrameServes,
           SaveStarts, FrameCompletes, FramePasses, SameSession, SameDocument, SolverNames, Names, machine
    <3> QED BY <1>2, <3>1, <3>2, <3>3, <3>4, <3>5, FrameCases
  <2> QED BY <2>1, <2>2, <2>3, <1>m, <1>c, <1>g
<1> QED BY <1>1, <1>2 DEF Next, HostStep, FrameStep

LEMMA OneModeKept ==
  ASSUME Shapes, Names, OneMode, Next
  PROVE  OneMode'
<1>n. None \notin Binding
  BY NoneAssumption
<1> SUFFICES ASSUME NEW b \in Binding PROVE \E m \in Mode : Agree(b, m)'
  BY DEF OneMode
<1>0. PICK m \in Mode : Agree(b, m)
  BY DEF OneMode
<1> DEFINE SolverAgrees == solver'.machine.binding = b => solver'.machine.mode = m
           ClientAgrees == client'.binding = b => client'.mode = m
           QueueAgrees == \A i \in Sent' : toSolver'[i].binding = b => ModeOf(toSolver'[i]) = m
<1>g. SolverAgrees /\ ClientAgrees /\ QueueAgrees => \E mode \in Mode : Agree(b, mode)'
  BY DEF Agree, machine, ModeOf
<1>a. solver' = solver => SolverAgrees
  BY <1>0 DEF Agree, machine
<1>b. client'.binding = client.binding /\ client'.mode = client.mode => ClientAgrees
  BY <1>0 DEF Agree
<1>c. toSolver' = toSolver => QueueAgrees
  BY <1>0 DEF Agree, Sent
<1>d. ASSUME NEW l \in SolverMessage, toSolver' = Append(toSolver, l), l.binding = b => ModeOf(l) = m
      PROVE  QueueAgrees
  BY <1>0, <1>d, QueuePosted DEF Agree
<1>e. ASSUME NEW k \in Nat, Kept(k) PROVE QueueAgrees
  BY <1>0, <1>e DEF Agree, Kept
<1> HIDE DEF SolverAgrees, ClientAgrees, QueueAgrees
<1>1. CASE HostStep
  <2>1. ASSUME NEW c \in Binding, NEW mode \in Mode, Launches(c, mode)
        PROVE  \E x \in Mode : Agree(b, x)'
    <3> DEFINE l == [type |-> "launch", binding |-> c, mode |-> mode]
    <3>1. l \in SolverMessage /\ l.binding = c /\ ModeOf(l) = mode
      BY DEF SolverMessage, ModeOf
    <3>2. toSolver' = toSolver \/ toSolver' = Append(toSolver, l)
      BY <2>1 DEF Launches
    <3> HIDE DEF l
    <3>3. CASE b # c
      <4>1. ClientAgrees
        BY <2>1, <3>3 DEF Launches, ClientAgrees
      <4>2. QueueAgrees
        BY <3>1, <3>2, <3>3, <1>c, <1>d
      <4> QED BY <4>1, <4>2, <2>1, <1>a, <1>g DEF Launches
    <3>4. CASE b = c
      <4>1. solver' = solver /\ machine.binding # b
        BY <2>1, <3>4, <1>n DEF Launches, Names
      <4>2. client'.mode = mode
        BY <2>1 DEF Launches
      <4>3. \A i \in Sent : toSolver[i].binding # b
        BY <2>1, <3>4 DEF Launches, Names
      <4>4. \A i \in Sent' : toSolver'[i].binding = b => ModeOf(toSolver'[i]) = mode
        <5>1. CASE toSolver' = toSolver
          BY <5>1, <4>3 DEF Sent
        <5>2. CASE toSolver' = Append(toSolver, l)
          BY <5>2, <3>1, <4>3, QueuePosted
        <5> QED BY <3>2, <5>1, <5>2
      <4>5. Agree(b, mode)'
        BY <4>1, <4>2, <4>4 DEF Agree, machine, ModeOf
      <4> QED BY <4>5
    <3> QED BY <3>3, <3>4
  <2>2. ASSUME NEW id \in RequestId, AsksToSave(id) PROVE SolverAgrees /\ ClientAgrees /\ QueueAgrees
    <3> DEFINE l == [type |-> "requestSave", binding |-> client.binding, id |-> id]
    <3>1. l \in SolverMessage /\ l.binding = client.binding /\ ModeOf(l) = "editable"
      BY <2>2 DEF SolverMessage, AsksToSave, ModeOf
    <3>2. toSolver' = Append(toSolver, l) /\ client.mode = "editable"
      BY <2>2 DEF AsksToSave
    <3> HIDE DEF l
    <3>3. QueueAgrees
      BY <3>1, <3>2, <1>0, <1>d DEF Agree
    <3> QED BY <3>3, <2>2, <1>a, <1>b DEF AsksToSave
  <2>3. ASSUME NEW status \in {"saved", "failed"}, AnswersSave(status) PROVE SolverAgrees /\ ClientAgrees /\ QueueAgrees
    <3> DEFINE l == [type |-> "saveResult", binding |-> client.binding, id |-> client.save.id, status |-> status]
    <3>1. l \in SolverMessage /\ l.binding = client.binding /\ ModeOf(l) = "editable"
      BY <2>3 DEF SolverMessage, AnswersSave, ModeOf
    <3>2. toSolver' = Append(toSolver, l) /\ client.mode = "editable"
      BY <2>3 DEF AnswersSave
    <3> HIDE DEF l
    <3>3. QueueAgrees
      BY <3>1, <3>2, <1>0, <1>d DEF Agree
    <3> QED BY <3>3, <2>3, <1>a, <1>b DEF AnswersSave
  <2>4. ASSUME Relaunches PROVE SolverAgrees /\ ClientAgrees /\ QueueAgrees
    <3>1. launchMessage(client) \in SolverMessage
      BY <2>4, MessageShapes DEF Relaunches
    <3>2. launchMessage(client).binding = client.binding /\ ModeOf(launchMessage(client)) = client.mode
      BY DEF launchMessage, ModeOf
    <3>3. toSolver' = Append(toSolver, launchMessage(client))
      BY <2>4 DEF Relaunches
    <3>4. QueueAgrees
      BY <3>1, <3>2, <3>3, <1>0, <1>d DEF Agree
    <3> QED BY <3>4, <2>4, <1>a, <1>b DEF Relaunches
  <2>5. ASSUME GivesUp \/ GivesUpSave \/ \E message \in HostMessage : HostQuiet(message)
        PROVE  SolverAgrees /\ ClientAgrees /\ QueueAgrees
    <3>1. toSolver' = toSolver /\ solver' = solver /\ client'.binding = client.binding /\ client'.mode = client.mode
      BY <2>5 DEF GivesUp, GivesUpSave, HostQuiet, Activates, Learns, TakesSnapshot, Fails, Overlooks, SameClient
    <3> QED BY <3>1, <1>a, <1>b, <1>c
  <2>6. ASSUME Disposes PROVE SolverAgrees /\ ClientAgrees /\ QueueAgrees
    BY <2>6, <1>a, <1>c, <1>n DEF Disposes, ClientAgrees
  <2> QED BY <1>1, <1>g, <2>1, <2>2, <2>3, <2>4, <2>5, <2>6, HostCases
<1>2. CASE FrameStep
  <2>1. client' = client
    BY <1>2, FrameCases DEF Mounted, Reload, LoseMessage, Edit, Rendered, SavedInFrame, FrameReceived, FrameReceivesOf
  <2>2. QueueAgrees
    BY <1>2, <1>e, FrameQueue
  <2>3. SolverAgrees
    <3>1. CASE Mounted \/ Reload
      BY <3>1, <1>n DEF Mounted, FrameMounts, Reload, initialSolver, createHostProtocolState, SolverAgrees
    <3>2. CASE LoseMessage \/ Edit
      <4>1. solver'.machine = solver.machine
        BY <3>2 DEF LoseMessage, Edit, Shapes, TypeInv, SolverType
      <4> QED BY <4>1, <1>0 DEF SolverAgrees, Agree, machine
    <3>3. CASE Rendered
      BY <3>3, <1>0 DEF Rendered, FrameRenders, SameSession, SolverAgrees, Agree, machine
    <3>4. ASSUME NEW id \in RequestId, SavedInFrame(id) PROVE SolverAgrees
      BY <3>4, <1>0 DEF SavedInFrame, SaveStarts, SameSession, SolverAgrees, Agree, machine
    <3>5. ASSUME NEW message \in SolverMessage, FrameReceived(message) PROVE SolverAgrees
      <4>1. message.binding = b /\ message.type = "launch" => message.mode = m
        BY <3>5, <1>0, FirstOfQueue DEF FrameReceived, Agree, ModeOf
      <4> QED BY <3>5, <4>1, <1>0 DEF FrameReceived, FrameRefuses, FrameConfirms, FrameReplaces, FrameServes,
           SaveStarts, FrameCompletes, FramePasses, SameSession, SolverAgrees, Agree, machine
    <3> QED BY <1>2, <3>1, <3>2, <3>3, <3>4, <3>5, FrameCases
  <2> QED BY <2>1, <2>2, <2>3, <1>b, <1>g
<1> QED BY <1>1, <1>2 DEF Next, HostStep, FrameStep
(* A step that takes messages away, stays in the client's session and leaves
   the frame in its session or in none. *)
LEMMA InSessionShrinks ==
  ASSUME InSession, NEW k \in Nat, Kept(k),
         client'.binding = client.binding, solver'.machine.binding \in {None, machine.binding},
         Reached' => Reached
  PROVE  InSession'
<1>1. \A i, j \in Sent' : i < j /\ toSolver'[i].type = "launch" /\ toSolver'[i].binding = client'.binding
       => toSolver'[j].binding = client'.binding
  <2> SUFFICES ASSUME NEW i \in Sent', NEW j \in Sent', i < j, toSolver'[i].type = "launch",
                      toSolver'[i].binding = client'.binding
               PROVE  toSolver'[j].binding = client'.binding
    OBVIOUS
  <2>1. i + k \in Sent /\ j + k \in Sent /\ i + k < j + k
        /\ toSolver'[i] = toSolver[i + k] /\ toSolver'[j] = toSolver[j + k]
    BY DEF Kept, Sent
  <2> QED BY <2>1 DEF InSession
<1>2. Reached' => /\ solver'.machine.binding \in {None, client'.binding}
                  /\ \A i \in Sent' : toSolver'[i].binding = client'.binding
  BY DEF InSession, Kept
<1>3. ASSUME NEW j \in Sent', toSolver'[j].type # "launch"
      PROVE  /\ solver'.machine.binding \in {None, toSolver'[j].binding}
             /\ \A i \in Sent' : i < j /\ toSolver'[i].type = "launch" => toSolver'[i].binding = toSolver'[j].binding
  <2>1. j + k \in Sent /\ toSolver'[j] = toSolver[j + k]
    BY DEF Kept
  <2>2. solver'.machine.binding \in {None, toSolver'[j].binding}
    BY <1>3, <2>1 DEF InSession
  <2>3. ASSUME NEW i \in Sent', i < j, toSolver'[i].type = "launch" PROVE toSolver'[i].binding = toSolver'[j].binding
    <3>1. i + k \in Sent /\ i + k < j + k /\ toSolver'[i] = toSolver[i + k]
      BY <2>3 DEF Kept, Sent
    <3> QED BY <3>1, <2>1, <2>3, <1>3 DEF InSession
  <2> QED BY <2>2, <2>3
<1> QED BY <1>1, <1>2, <1>3 DEF InSession, machine

(* The host posts a message of its session. *)
LEMMA InSessionPosts ==
  ASSUME Shapes, InSession, NEW l \in SolverMessage, toSolver' = Append(toSolver, l),
         l.binding = client.binding, client'.binding = client.binding, solver' = solver,
         Reached' => Reached, l.type = "launch" \/ Reached
  PROVE  InSession'
<1>q. /\ \A i \in Sent' : \/ i \in Sent /\ toSolver'[i] = toSolver[i]
                          \/ i = Len(toSolver') /\ toSolver'[i] = l /\ i \notin Sent
      /\ \A i \in Sent' : i <= Len(toSolver')
      /\ \A i \in Sent : i < Len(toSolver')
  BY QueuePosted DEF Sent
<1>i. Sent' \subseteq Nat /\ Len(toSolver') \in Nat
  BY QueuePosted DEF Sent
<1>1. ASSUME NEW i \in Sent', NEW j \in Sent', i < j, toSolver'[i].type = "launch",
             toSolver'[i].binding = client'.binding
      PROVE  toSolver'[j].binding = client'.binding
  <2>0. i \in Nat /\ j \in Nat /\ j <= Len(toSolver') /\ i < j
    BY <1>1, <1>q, <1>i
  <2>1. i \in Sent /\ toSolver'[i] = toSolver[i]
    <3>1. i # Len(toSolver')
      BY <2>0, <1>i
    <3> QED BY <3>1, <1>q
  <2> QED BY <1>1, <1>q, <2>1 DEF InSession
<1>2. Reached' => /\ solver'.machine.binding \in {None, client'.binding}
                  /\ \A i \in Sent' : toSolver'[i].binding = client'.binding
  BY <1>q DEF InSession, machine
<1>3. ASSUME NEW j \in Sent', toSolver'[j].type # "launch"
      PROVE  /\ solver'.machine.binding \in {None, toSolver'[j].binding}
             /\ \A i \in Sent' : i < j /\ toSolver'[i].type = "launch" => toSolver'[i].binding = toSolver'[j].binding
  <2>1. CASE j \in Sent /\ toSolver'[j] = toSolver[j]
    <3>1. ASSUME NEW i \in Sent', i < j PROVE i \in Sent /\ toSolver'[i] = toSolver[i]
      <4>1. i # Len(toSolver')
        BY <3>1, <2>1, <1>q, <1>i
      <4> QED BY <4>1, <1>q
    <3> QED BY <1>3, <2>1, <3>1 DEF InSession, machine
  <2>2. CASE j = Len(toSolver') /\ toSolver'[j] = l
    <3>1. Reached
      BY <1>3, <2>2
    <3>2. machine.binding \in {None, l.binding} /\ \A i \in Sent : toSolver[i].binding = l.binding
      BY <3>1 DEF InSession
    <3> QED BY <3>2, <2>2, <1>q DEF machine
  <2> QED BY <1>q, <2>1, <2>2
<1> QED BY <1>1, <1>2, <1>3 DEF InSession, machine

LEMMA InSessionKept ==
  ASSUME Session, Next
  PROVE  InSession'
<1>s. Shapes /\ Names /\ OneMode /\ InSession /\ ClientShape /\ FrameShape /\ None \notin Binding
  BY NoneAssumption DEF Session, Shapes
<1>t. \A i \in Told' : (\E j \in Told : toHost'[i] = toHost[j]) \/ News(toHost'[i])
  BY <1>s, HostMail DEF Names
<1>r. ASSUME client'.binding = client.binding, client'.phase \in Active => client.phase \in Active,
             solver'.machine.binding \in {None, machine.binding}
      PROVE  Reached' => Reached
  <2>1. ASSUME Reached' PROVE Reached
    <3>1. client.binding # None
      BY <1>r, <2>1 DEF Reached
    <3>2. CASE solver'.machine.binding = client.binding
      BY <1>r, <3>1, <3>2 DEF Reached
    <3>3. CASE client'.phase \in Active
      BY <1>r, <3>1, <3>3 DEF Reached
    <3>4. CASE \E i \in Told' : toHost'[i].type = "ready" /\ toHost'[i].binding = client.binding
      BY <1>r, <1>t, <3>1, <3>4 DEF Reached, Ready, News
    <3>5. \/ solver'.machine.binding = client'.binding \/ client'.phase \in Active
          \/ \E i \in Told' : toHost'[i].type = "ready" /\ toHost'[i].binding = client'.binding
      BY <2>1 DEF Reached, Ready, machine, Active
    <3> QED BY <1>r, <3>2, <3>3, <3>4, <3>5
  <2> QED BY <2>1
<1>k. toSolver' = toSolver => Kept(0)
  BY <1>s, QueueKept
<1>1. CASE HostStep
  <2>1. ASSUME NEW b \in Binding, NEW m \in Mode, Launches(b, m) PROVE InSession'
    <3> DEFINE l == [type |-> "launch", binding |-> b, mode |-> m]
    <3>1. l \in SolverMessage /\ l.binding = b /\ l.type = "launch"
      BY DEF SolverMessage
    <3>2. toSolver' = toSolver \/ toSolver' = Append(toSolver, l)
      BY <2>1 DEF Launches
    <3> HIDE DEF l
    <3>3. solver' = solver /\ toHost' = toHost /\ client'.binding = b /\ client'.phase \notin Active /\ b \notin launched
      BY <2>1 DEF Launches, Active
    <3>4. ~Reached'
      <4>1. machine.binding # b /\ \A i \in Told : toHost[i].binding # b
        BY <3>3, <1>s DEF Names
      <4> QED BY <3>3, <4>1 DEF Reached, Ready, Told, machine, Active
    <3>5. \A i \in Sent' : \/ i \in Sent /\ toSolver'[i] = toSolver[i]
                           \/ i = Len(toSolver') /\ toSolver'[i] = l /\ i \notin Sent
      BY <3>1, <3>2, <1>s, QueuePosted DEF Sent
    <3>6. \A i \in Sent' : i \in Nat /\ i <= Len(toSolver') /\ Len(toSolver') \in Nat
      <4>1. Len(toSolver') \in Nat
        BY <3>1, <3>2, <1>s, QueuePosted, LenProperties DEF Shapes, TypeInv
      <4> QED BY <4>1 DEF Sent
    <3>7. ASSUME NEW i \in Sent', NEW j \in Sent', i < j, toSolver'[i].binding = b PROVE FALSE
      <4>1. toSolver'[i] = l /\ i = Len(toSolver')
        BY <3>3, <3>5, <3>7, <1>s DEF Names
      <4> QED BY <4>1, <3>6, <3>7
    <3>8. ASSUME NEW j \in Sent', toSolver'[j].type # "launch"
          PROVE  /\ machine.binding \in {None, toSolver'[j].binding}
                 /\ \A i \in Sent' : i < j /\ toSolver'[i].type = "launch" => toSolver'[i].binding = toSolver'[j].binding
      <4>1. j \in Sent /\ toSolver'[j] = toSolver[j]
        BY <3>1, <3>5, <3>8
      <4>2. \A i \in Sent' : i < j => i \in Sent /\ toSolver'[i] = toSolver[i]
        BY <3>5, <3>6, <4>1 DEF Sent
      <4> QED BY <4>1, <4>2, <3>8, <1>s DEF InSession
    <3> QED BY <3>3, <3>4, <3>7, <3>8 DEF InSession, machine
  <2>2. ASSUME NEW id \in RequestId, AsksToSave(id) PROVE InSession'
    <3> DEFINE l == [type |-> "requestSave", binding |-> client.binding, id |-> id]
    <3>1. l \in SolverMessage /\ l.binding = client.binding
      BY <2>2 DEF SolverMessage, AsksToSave
    <3>2. toSolver' = Append(toSolver, l) /\ solver' = solver /\ client'.binding = client.binding
          /\ client.phase \in Active /\ client.binding # None
      BY <2>2, <1>s DEF AsksToSave, Active
    <3> HIDE DEF l
    <3>3. Reached
      BY <3>2 DEF Reached
    <3> QED BY <3>1, <3>2, <3>3, <1>s, InSessionPosts
  <2>3. ASSUME NEW status \in {"saved", "failed"}, AnswersSave(status) PROVE InSession'
    <3> DEFINE l == [type |-> "saveResult", binding |-> client.binding, id |-> client.save.id, status |-> status]
    <3>1. l \in SolverMessage /\ l.binding = client.binding
      BY <2>3 DEF SolverMessage, AnswersSave
    <3>2. toSolver' = Append(toSolver, l) /\ solver' = solver /\ client'.binding = client.binding
          /\ client.phase \in Active /\ client.binding # None
      BY <2>3, <1>s DEF AnswersSave, Active
    <3> HIDE DEF l
    <3>3. Reached
      BY <3>2 DEF Reached
    <3> QED BY <3>1, <3>2, <3>3, <1>s, InSessionPosts
  <2>4. ASSUME Relaunches PROVE InSession'
    <3>1. launchMessage(client) \in SolverMessage
      BY <2>4, <1>s, MessageShapes DEF Relaunches
    <3>2. launchMessage(client).binding = client.binding /\ launchMessage(client).type = "launch"
      BY DEF launchMessage
    <3>3. toSolver' = Append(toSolver, launchMessage(client)) /\ solver' = solver /\ client'.binding = client.binding
          /\ client'.launching = TRUE
      BY <2>4 DEF Relaunches
    <3>4. client'.phase \notin Active
      <4>1. ClientShape'
        BY <1>1, <1>s, HostClientType
      <4> QED BY <3>3, <4>1 DEF ClientShape, Active
    <3>5. Reached' => Reached
      BY <1>r, <3>3, <3>4 DEF machine
    <3> QED BY <3>1, <3>2, <3>3, <3>5, <1>s, InSessionPosts
  <2>5. ASSUME GivesUp \/ GivesUpSave \/ \E message \in HostMessage : HostQuiet(message)
        PROVE  InSession'
    <3>1. toSolver' = toSolver /\ solver' = solver /\ client'.binding = client.binding
      BY <2>5 DEF GivesUp, GivesUpSave, HostQuiet, Activates, Learns, TakesSnapshot, Fails, Overlooks, SameClient
    <3>2. (client'.phase \in Active => client.phase \in Active) \/ \E message \in HostMessage : Activates(message)
      BY <2>5 DEF GivesUp, GivesUpSave, HostQuiet, Learns, TakesSnapshot, Fails, Overlooks, SameClient, Active
    <3>3. ASSUME NEW message \in HostMessage, Activates(message) PROVE Reached
      <4>1. message = toHost[1] /\ 1 \in Told
        BY <3>3, <1>s, HostQueueRead DEF Activates
      <4>2. client.binding # None
        BY <3>3, <1>s DEF Activates, ClientShape
      <4> QED BY <4>1, <4>2, <3>3 DEF Activates, Reached, Ready
    <3>4. Reached' => Reached
      BY <3>1, <3>2, <3>3, <1>r DEF machine
    <3> QED BY <3>1, <3>4, <1>k, <1>s, InSessionShrinks DEF machine
  <2>6. ASSUME Disposes PROVE InSession'
    <3>1. solver' = solver /\ toSolver' = toSolver /\ client'.binding = None
      BY <2>6 DEF Disposes
    <3>2. \A i \in Sent : toSolver[i].binding # None
      BY <1>s DEF Names, Shapes, TypeInv
    <3> QED BY <3>1, <3>2, <1>s DEF InSession, Reached, Sent, machine
  <2> QED BY <1>1, <1>s, <2>1, <2>2, <2>3, <2>4, <2>5, <2>6, HostCases
<1>2. CASE FrameStep
  <2>1. client' = client
    BY <1>2, <1>s, FrameCases DEF Mounted, Reload, LoseMessage, Edit, Rendered, SavedInFrame, FrameReceived, FrameReceivesOf
  <2>2. PICK k \in Nat : Kept(k)
    BY <1>2, <1>s, FrameQueue
  <2>3. CASE solver'.machine.binding \in {None, machine.binding}
    <3>1. Reached' => Reached
      BY <2>1, <2>3, <1>r
    <3> QED BY <2>1, <2>2, <2>3, <3>1, <1>s, InSessionShrinks
  <2>4. ASSUME NEW message \in SolverMessage, FrameReceived(message), FrameReplaces(message) PROVE InSession'
    <3>1. /\ message = toSolver[1] /\ 1 \in Sent /\ Kept(1)
          /\ solver'.machine.binding = message.binding /\ message.type = "launch"
          /\ machine.binding # message.binding /\ message.binding \in Binding /\ toHost' = toHost
      BY <2>4, <1>s, FirstOfQueue DEF FrameReceived, FrameReplaces, SolverMessage
    <3>2. \A i \in Sent' : i \in Nat /\ i + 1 \in Sent /\ toSolver'[i] = toSolver[i + 1] /\ 1 < i + 1
      BY <3>1 DEF Kept, Sent
    <3>3. \A i, j \in Sent' : i < j /\ toSolver'[i].type = "launch" /\ toSolver'[i].binding = client'.binding
            => toSolver'[j].binding = client'.binding
      <4> SUFFICES ASSUME NEW i \in Sent', NEW j \in Sent', i < j, toSolver'[i].type = "launch",
                          toSolver'[i].binding = client'.binding
                   PROVE  toSolver'[j].binding = client'.binding
        OBVIOUS
      <4>1. i + 1 \in Sent /\ j + 1 \in Sent /\ i + 1 < j + 1
        BY <3>2
      <4> QED BY <4>1, <3>2, <2>1, <1>s DEF InSession
    <3>4. ASSUME Reached'
          PROVE  /\ solver'.machine.binding \in {None, client'.binding}
                 /\ \A i \in Sent' : toSolver'[i].binding = client'.binding
      <4>1. CASE message.binding = client.binding
        BY <4>1, <2>1, <3>1, <3>2, <1>s DEF InSession
      <4>2. CASE message.binding # client.binding
        <5>1. Reached
          BY <3>4, <4>2, <3>1, <2>1 DEF Reached, Ready, Told, machine, Active
        <5> QED BY <5>1, <4>2, <3>1, <1>s DEF InSession
      <4> QED BY <4>1, <4>2
    <3>5. ASSUME NEW j \in Sent', toSolver'[j].type # "launch"
          PROVE  /\ solver'.machine.binding \in {None, toSolver'[j].binding}
                 /\ \A i \in Sent' : i < j /\ toSolver'[i].type = "launch" => toSolver'[i].binding = toSolver'[j].binding
      <4>1. j + 1 \in Sent /\ toSolver'[j] = toSolver[j + 1] /\ 1 < j + 1
        BY <3>2, <3>5
      <4>2. message.binding = toSolver'[j].binding
        BY <3>1, <3>5, <4>1, <1>s DEF InSession
      <4>3. \A i \in Sent' : i < j => i + 1 \in Sent /\ i + 1 < j + 1 /\ toSolver'[i] = toSolver[i + 1]
        BY <3>2, <3>5
      <4> QED BY <3>1, <3>5, <4>1, <4>2, <4>3, <1>s DEF InSession
    <3> QED BY <3>3, <3>4, <3>5 DEF InSession, machine
  <2>5. solver'.machine.binding \in {None, machine.binding}
        \/ \E message \in SolverMessage : FrameReceived(message) /\ FrameReplaces(message)
    <3>1. CASE Mounted \/ Reload
      BY <3>1 DEF Mounted, FrameMounts, Reload, initialSolver, createHostProtocolState
    <3>2. CASE LoseMessage \/ Edit
      BY <3>2, <1>s DEF LoseMessage, Edit, Shapes, TypeInv, SolverType, machine
    <3>3. CASE Rendered \/ \E id \in RequestId : SavedInFrame(id)
      BY <3>3 DEF Rendered, FrameRenders, SameSession, SavedInFrame, SaveStarts, machine
    <3>4. ASSUME NEW message \in SolverMessage, FrameReceived(message), ~FrameReplaces(message)
          PROVE  solver'.machine.binding = machine.binding
      BY <3>4 DEF FrameReceived, FrameRefuses, FrameConfirms, FrameServes,
           SaveStarts, FrameCompletes, FramePasses, SameSession, machine
    <3> QED BY <1>2, <1>s, <3>1, <3>2, <3>3, <3>4, FrameCases
  <2> QED BY <2>3, <2>4, <2>5
<1> QED BY <1>1, <1>2 DEF Next, HostStep, FrameStep
LEMMA SessionStep == Session /\ [Next]_vars => Session'
<1> SUFFICES ASSUME Session, [Next]_vars PROVE Session'
  OBVIOUS
<1>1. CASE Next
  <2>1. Shapes'
    BY <1>1, ShapesStep DEF Session
  <2> QED BY <1>1, <2>1, NamesKept, OneModeKept, InSessionKept DEF Session
<1>2. CASE UNCHANGED vars
  <2>1. Shapes'
    BY <1>2, ShapesStep DEF Session
  <2> QED BY <1>2, <2>1 DEF vars, Session, Names, OneMode, Agree, ModeOf, InSession, Reached, Ready, Active,
        Sent, Told, machine
<1> QED BY <1>1, <1>2

LEMMA InitSession == Init => Session
<1> SUFFICES ASSUME Init PROVE Session
  OBVIOUS
<1>1. client.binding = None /\ client.mode = None /\ client.save.id = None /\ client.phase = "idle"
      /\ machine.binding = None /\ machine.mode = None /\ solver.shown.binding = None
  BY DEF Init, initialClient, noSave, initialSolver, createHostProtocolState, machine
<1>2. Sent = {} /\ Told = {}
  BY EmptySeq DEF Init, Sent, Told
<1>3. Names
  BY <1>1, <1>2 DEF Names
<1>4. OneMode
  <2> SUFFICES ASSUME NEW b \in Binding PROVE \E m \in Mode : Agree(b, m)
    BY DEF OneMode
  <2>1. Agree(b, "editable")
    BY <1>1, <1>2, NoneAssumption DEF Agree
  <2> QED BY <2>1 DEF Mode
<1>5. InSession
  BY <1>1, <1>2 DEF InSession, Reached
<1> QED BY <1>3, <1>4, <1>5, InitShapes DEF Session

LEMMA SessionAlways == Spec => []Session
  BY InitSession, SessionStep, PTL DEF Spec

(* ActiveMeansBound: whatever is delayed, repeated or lost on the way, a frame
   the client calls active is in the session and the mode the client means. *)
THEOREM ActiveIsBound == Spec => []ActiveMeansBound
<1>1. ASSUME Session PROVE ActiveMeansBound
  <2> SUFFICES ASSUME client.phase \in Active, machine.binding # None
               PROVE  /\ machine.binding = client.binding /\ machine.mode = client.mode
                      /\ solver.readOnly = (client.mode = "readonly")
    BY DEF ActiveMeansBound, machine
  <2>1. client.binding # None /\ client.binding \in Binding
    BY <1>1 DEF Session, Shapes, ClientShape, TypeInv, ClientType
  <2>2. machine.binding = client.binding
    BY <1>1, <2>1 DEF Session, InSession, Reached
  <2>3. machine.mode = client.mode
    BY <1>1, <2>1, <2>2 DEF Session, OneMode, Agree
  <2> QED BY <1>1, <2>2, <2>3 DEF Session, Shapes, FrameShape
<1> QED BY <1>1, SessionAlways, PTL
----------------------------------------------------------------------------
(* Saves in their order.  A session that is being launched has not been saved
   yet; a launch never follows a save of its session; nothing follows the
   request the client waits for, and nothing is under way when the frame has
   served it; the answer to a request is the first message, and what it
   answers is what the frame of that session waits for. *)
LaunchedUnsaved ==
  client.launching => \A i \in Sent : toSolver[i].binding = client.binding => toSolver[i].type = "launch"
LaunchesFirst ==
  \A i, j \in Sent : j < i /\ toSolver[i].type = "launch" /\ toSolver[j].binding = toSolver[i].binding
    => toSolver[j].type = "launch"
AskedLast ==
  \A i, j \in Sent : toSolver[i].type = "requestSave" /\ toSolver[i].id = client.save.id
    => j <= i /\ ~client.save.received
WaitsFor(b, id) == machine.binding = b => machine.pending = id
ServedAlone ==
  \A i \in Told : toHost[i].type = "saveRequest" /\ toHost[i].id = client.save.id
    => Sent = {} /\ WaitsFor(toHost[i].binding, toHost[i].id)
TakenAlone ==
  client.save.received => Sent = {} /\ WaitsFor(client.binding, client.save.id)
AnsweredFirst ==
  \A i, j \in Sent : toSolver[i].type = "saveResult"
    => i <= j /\ WaitsFor(toSolver[i].binding, toSolver[i].id)
SavingShown == machine.phase = "saving" => solver.shown.binding # None

SavesInOrder ==
  /\ LaunchedUnsaved /\ LaunchesFirst /\ AskedLast /\ ServedAlone /\ TakenAlone
  /\ AnsweredFirst /\ SavingShown

LEMMA NothingSent ==
  ASSUME Shapes
  PROVE  (toSolver = <<>>) <=> (Sent = {})
<1>1. toSolver \in Seq(SolverMessage) /\ Len(toSolver) \in Nat /\ (toSolver = <<>> <=> Len(toSolver) = 0)
  BY EmptySeq, LenProperties DEF Shapes, TypeInv
<1>2. Len(toSolver) = 0 <=> Sent = {}
  <2>1. CASE Len(toSolver) = 0
    BY <2>1 DEF Sent
  <2>2. CASE Len(toSolver) # 0
    <3>1. 1 \in Sent
      BY <2>2, <1>1 DEF Sent
    <3> QED BY <3>1, <2>2
  <2> QED BY <2>1, <2>2
<1> QED BY <1>1, <1>2

(* The host reads a message, or posts none. *)
LEMMA SavesInOrderQuiet ==
  ASSUME Session, SavesInOrder, solver' = solver, toSolver' = toSolver,
         toHost' = toHost \/ (\E message : HostReads(message)),
         client'.launching => client.launching /\ client'.binding = client.binding,
         \/ client'.save = noSave
         \/ client'.save = client.save /\ client'.binding = client.binding
         \/ \E message \in HostMessage : TakesSnapshot(message)
  PROVE  SavesInOrder'
<1>s. Shapes /\ Names /\ Sent' = Sent /\ noSave.id = None /\ noSave.received = FALSE
      /\ None \notin RequestId
  BY NoneAssumption DEF Session, Sent, noSave
<1>i. /\ \A i \in Sent : toSolver[i].type = "requestSave" => toSolver[i].id \in RequestId
      /\ \A i \in Told : toHost[i].type = "saveRequest" => toHost[i].id \in RequestId
  BY <1>s DEF Names, Shapes, TypeInv
<1>h. \A i \in Told' : \E j \in Told : toHost'[i] = toHost[j]
  BY <1>s, HostQueueRead DEF Told
<1>1. LaunchedUnsaved' /\ LaunchesFirst' /\ AnsweredFirst' /\ SavingShown'
  BY <1>s DEF SavesInOrder, LaunchedUnsaved, LaunchesFirst, AnsweredFirst, SavingShown, WaitsFor, machine
<1>2. CASE client'.save = noSave
  BY <1>2, <1>1, <1>s, <1>i, <1>h DEF SavesInOrder, AskedLast, ServedAlone, TakenAlone
<1>3. CASE client'.save = client.save /\ client'.binding = client.binding
  BY <1>3, <1>1, <1>s, <1>h DEF SavesInOrder, AskedLast, ServedAlone, TakenAlone, WaitsFor, machine
<1>4. ASSUME NEW message \in HostMessage, TakesSnapshot(message) PROVE SavesInOrder'
  <2>1. message = toHost[1] /\ 1 \in Told
    BY <1>4, <1>s, HostQueueRead DEF TakesSnapshot
  <2>2. Sent = {} /\ WaitsFor(client.binding, client.save.id)
    BY <1>4, <2>1 DEF TakesSnapshot, SavesInOrder, ServedAlone
  <2>3. client'.save.id = client.save.id /\ client'.binding = client.binding
    BY <1>4 DEF TakesSnapshot
  <2> QED BY <2>2, <2>3, <1>1, <1>s, <1>h DEF SavesInOrder, AskedLast, ServedAlone, TakenAlone, WaitsFor, machine
<1> QED BY <1>2, <1>3, <1>4

LEMMA SavesInOrderHost ==
  ASSUME Session, SavesInOrder, HostStep
  PROVE  SavesInOrder'
<1>s. Shapes /\ Names /\ ClientShape /\ noSave.id = None /\ noSave.received = FALSE
      /\ None \notin RequestId /\ None \notin Binding
  BY NoneAssumption DEF Session, noSave, Shapes
<1>i. /\ \A i \in Sent : toSolver[i].type = "requestSave" => toSolver[i].id \in RequestId
      /\ \A i \in Told : toHost[i].type = "saveRequest" => toHost[i].id \in RequestId
  BY <1>s DEF Names, Shapes, TypeInv
<1>j. Len(toSolver) \in Nat /\ Sent \subseteq Nat
  BY <1>s, LenProperties DEF Shapes, TypeInv, Sent
<1>1. ASSUME NEW b \in Binding, NEW m \in Mode, Launches(b, m) PROVE SavesInOrder'
  <2> DEFINE l == [type |-> "launch", binding |-> b, mode |-> m]
  <2>1. l \in SolverMessage /\ l.binding = b /\ l.type = "launch"
    BY DEF SolverMessage
  <2>2. toSolver' = toSolver \/ toSolver' = Append(toSolver, l)
    BY <1>1 DEF Launches
  <2> HIDE DEF l
  <2>3. solver' = solver /\ toHost' = toHost /\ client'.binding = b /\ client'.save = noSave /\ b \notin launched
    BY <1>1 DEF Launches
  <2>4. \A i \in Sent : toSolver[i].binding # b
    BY <2>3, <1>s DEF Names
  <2>5. \A i \in Sent' : \/ i \in Sent /\ toSolver'[i] = toSolver[i]
                         \/ i = Len(toSolver') /\ toSolver'[i] = l /\ i \notin Sent
    BY <2>1, <2>2, <1>s, QueuePosted DEF Sent
  <2>6. Sent' \subseteq Nat /\ \A i \in Sent' : i <= Len(toSolver') /\ Len(toSolver') \in Nat
        /\ (i \in Sent => \A j \in Sent' : j \notin Sent => i <= j)
    <3>1. CASE toSolver' = toSolver
      BY <3>1, <1>j DEF Sent
    <3>2. CASE toSolver' = Append(toSolver, l)
      <4>1. Len(toSolver') \in Nat /\ \A i \in Sent : i < Len(toSolver')
        BY <3>2, <2>1, <1>s, QueuePosted
      <4> QED BY <4>1, <2>5, <1>j DEF Sent
    <3> QED BY <2>2, <3>1, <3>2
  <2>7. LaunchedUnsaved'
    BY <2>1, <2>3, <2>4, <2>5 DEF LaunchedUnsaved
  <2>8. LaunchesFirst'
    <3> SUFFICES ASSUME NEW i \in Sent', NEW j \in Sent', j < i, toSolver'[i].type = "launch",
                        toSolver'[j].binding = toSolver'[i].binding
                 PROVE  toSolver'[j].type = "launch"
      BY DEF LaunchesFirst
    <3>1. CASE i \in Sent /\ j \in Sent
      BY <3>1, <2>5 DEF SavesInOrder, LaunchesFirst
    <3>2. CASE j \notin Sent
      BY <3>2, <2>1, <2>5
    <3>3. CASE i \notin Sent /\ j \in Sent
      BY <3>3, <2>1, <2>4, <2>5
    <3> QED BY <3>1, <3>2, <3>3
  <2>9. AskedLast' /\ ServedAlone' /\ TakenAlone'
    BY <2>1, <2>3, <2>5, <1>i, <1>s DEF AskedLast, ServedAlone, TakenAlone, Told
  <2>10. AnsweredFirst'
    BY <2>1, <2>3, <2>5, <2>6 DEF SavesInOrder, AnsweredFirst, WaitsFor, machine
  <2> QED BY <2>3, <2>7, <2>8, <2>9, <2>10 DEF SavesInOrder, SavingShown, machine
<1>2. ASSUME NEW id \in RequestId, AsksToSave(id) PROVE SavesInOrder'
  <2> DEFINE l == [type |-> "requestSave", binding |-> client.binding, id |-> id]
  <2>1. l \in SolverMessage /\ l.type = "requestSave" /\ l.id = id
    BY <1>2 DEF SolverMessage, AsksToSave
  <2>2. toSolver' = Append(toSolver, l)
    BY <1>2 DEF AsksToSave
  <2> HIDE DEF l
  <2>3. solver' = solver /\ toHost' = toHost /\ client'.save.id = id /\ client'.save.received = FALSE
        /\ id \notin requested /\ client'.launching = FALSE
    BY <1>2 DEF AsksToSave
  <2>4. /\ \A i \in Sent : toSolver[i].type # "launch" => toSolver[i].id # id
        /\ \A i \in Told : toHost[i].type = "saveRequest" => toHost[i].id # id
    BY <2>3, <1>s DEF Names
  <2>5. /\ \A i \in Sent' : \/ i \in Sent /\ toSolver'[i] = toSolver[i]
                            \/ i = Len(toSolver') /\ toSolver'[i] = l /\ i \notin Sent
        /\ \A i \in Sent : i < Len(toSolver')
        /\ Len(toSolver') \in Nat
    BY <2>1, <2>2, <1>s, QueuePosted DEF Sent
  <2>6. \A i \in Sent' : i \in Nat /\ i <= Len(toSolver')
    BY <2>5 DEF Sent
  <2>7. LaunchedUnsaved' /\ TakenAlone'
    BY <2>3 DEF LaunchedUnsaved, TakenAlone
  <2>8. LaunchesFirst'
    BY <2>1, <2>5, <2>6 DEF SavesInOrder, LaunchesFirst
  <2>9. AskedLast'
    BY <2>1, <2>3, <2>4, <2>5, <2>6 DEF AskedLast
  <2>10. ServedAlone'
    BY <2>3, <2>4 DEF ServedAlone, Told
  <2>11. AnsweredFirst'
    BY <2>1, <2>3, <2>5, <2>6, <1>j DEF SavesInOrder, AnsweredFirst, WaitsFor, machine
  <2> QED BY <2>3, <2>7, <2>8, <2>9, <2>10, <2>11 DEF SavesInOrder, SavingShown, machine
<1>3. ASSUME NEW status \in {"saved", "failed"}, AnswersSave(status) PROVE SavesInOrder'
  <2> DEFINE l == [type |-> "saveResult", binding |-> client.binding, id |-> client.save.id, status |-> status]
  <2>1. l \in SolverMessage /\ l.type = "saveResult" /\ l.id = client.save.id /\ l.binding = client.binding
    BY <1>3 DEF SolverMessage, AnswersSave
  <2>2. toSolver' = Append(toSolver, l)
    BY <1>3 DEF AnswersSave
  <2> HIDE DEF l
  <2>3. solver' = solver /\ toHost' = toHost /\ client'.save = noSave /\ client'.launching = FALSE
    BY <1>3 DEF AnswersSave
  <2>4. Sent = {} /\ WaitsFor(client.binding, client.save.id)
    BY <1>3 DEF AnswersSave, SavesInOrder, TakenAlone
  <2>5. /\ \A i \in Sent' : i = Len(toSolver') /\ toSolver'[i] = l
        /\ Len(toSolver') \in Nat
    BY <2>1, <2>2, <2>4, <1>s, QueuePosted
  <2>6. LaunchedUnsaved' /\ LaunchesFirst' /\ AskedLast' /\ ServedAlone' /\ TakenAlone'
    BY <2>1, <2>3, <2>5, <1>s, <1>i DEF LaunchedUnsaved, LaunchesFirst, AskedLast, ServedAlone, TakenAlone, Told
  <2>7. AnsweredFirst'
    BY <2>1, <2>3, <2>4, <2>5 DEF AnsweredFirst, WaitsFor, machine
  <2> QED BY <2>3, <2>6, <2>7 DEF SavesInOrder, SavingShown, machine
<1>4. ASSUME Relaunches PROVE SavesInOrder'
  <2> DEFINE l == launchMessage(client)
  <2>1. l \in SolverMessage
    BY <1>4, <1>s, MessageShapes DEF Relaunches
  <2>2. l.type = "launch" /\ l.binding = client.binding
    BY DEF launchMessage
  <2>3. toSolver' = Append(toSolver, l) /\ solver' = solver /\ client'.binding = client.binding
        /\ client.launching /\ client'.save = client.save
    BY <1>4 DEF Relaunches
  <2> HIDE DEF l
  <2>4. client.save = noSave
    BY <2>3, <1>s DEF ClientShape
  <2>5. /\ \A i \in Sent' : \/ i \in Sent /\ toSolver'[i] = toSolver[i]
                            \/ i = Len(toSolver') /\ toSolver'[i] = l /\ i \notin Sent
        /\ \A i \in Sent : i < Len(toSolver')
        /\ Len(toSolver') \in Nat
    BY <2>1, <2>3, <1>s, QueuePosted DEF Sent
  <2>6. \A i \in Sent' : i \in Nat /\ i <= Len(toSolver')
    BY <2>5 DEF Sent
  <2>7. \A i \in Told' : \E j \in Told : toHost'[i] = toHost[j]
    BY <1>4, <1>s, HostQueueRead DEF Relaunches, Told
  <2>8. LaunchedUnsaved'
    BY <2>2, <2>3, <2>5 DEF SavesInOrder, LaunchedUnsaved
  <2>9. LaunchesFirst'
    <3> SUFFICES ASSUME NEW i \in Sent', NEW j \in Sent', j < i, toSolver'[i].type = "launch",
                        toSolver'[j].binding = toSolver'[i].binding
                 PROVE  toSolver'[j].type = "launch"
      BY DEF LaunchesFirst
    <3>1. CASE i \in Sent /\ j \in Sent
      BY <3>1, <2>5 DEF SavesInOrder, LaunchesFirst
    <3>2. CASE j \notin Sent
      BY <3>2, <2>2, <2>5
    <3>3. CASE i \notin Sent /\ j \in Sent
      BY <3>3, <2>2, <2>3, <2>5 DEF SavesInOrder, LaunchedUnsaved
    <3> QED BY <3>1, <3>2, <3>3
  <2>10. AskedLast' /\ ServedAlone' /\ TakenAlone'
    <3>0. client'.save.id = None /\ client'.save.received = FALSE
      BY <2>3, <2>4, <1>s
    <3>1. AskedLast'
      BY <3>0, <2>2, <2>5, <1>i, <1>s DEF AskedLast
    <3>2. ServedAlone'
      BY <3>0, <2>7, <1>i, <1>s DEF ServedAlone
    <3>3. TakenAlone'
      BY <3>0 DEF TakenAlone
    <3> QED BY <3>1, <3>2, <3>3
  <2>11. AnsweredFirst'
    BY <2>2, <2>3, <2>5, <2>6, <1>j DEF SavesInOrder, AnsweredFirst, WaitsFor, machine
  <2> QED BY <2>3, <2>8, <2>9, <2>10, <2>11 DEF SavesInOrder, SavingShown, machine
<1>5. ASSUME GivesUp \/ GivesUpSave \/ Disposes \/ \E message \in HostMessage : HostQuiet(message) PROVE SavesInOrder'
  <2>1. solver' = solver /\ toSolver' = toSolver /\ (toHost' = toHost \/ \E message : HostReads(message))
    BY <1>5 DEF GivesUp, GivesUpSave, Disposes, HostQuiet, Activates, Learns, TakesSnapshot, Fails, Overlooks
  <2>2. client'.launching => client.launching /\ client'.binding = client.binding
    BY <1>5 DEF GivesUp, GivesUpSave, Disposes, HostQuiet, Activates, Learns, TakesSnapshot, Fails, Overlooks, SameClient
  <2>3. \/ client'.save = noSave
        \/ client'.save = client.save /\ client'.binding = client.binding
        \/ \E message \in HostMessage : TakesSnapshot(message)
    BY <1>5 DEF GivesUp, GivesUpSave, Disposes, HostQuiet, Activates, Learns, Fails, Overlooks, SameClient
  <2> QED BY <2>1, <2>2, <2>3, SavesInOrderQuiet
<1> QED BY <1>1, <1>2, <1>3, <1>4, <1>5, <1>s, HostCases

StillWaits(b, id) == solver'.machine.binding = b => solver'.machine.pending = id

LEMMA WaitingKept ==
  ASSUME Shapes, NEW b \in Binding, NEW id \in RequestId, WaitsFor(b, id),
         \/ Mounted \/ Reload \/ LoseMessage \/ Edit \/ Rendered
         \/ \E other \in RequestId : SavedInFrame(other)
  PROVE  StillWaits(b, id)
<1>s. b # None /\ id # None /\ solver \in SolverType /\ FrameShape
  BY NoneAssumption DEF Shapes, TypeInv
<1>1. CASE Mounted
  BY <1>1, <1>s DEF Mounted, FrameMounts, WaitsFor, StillWaits, machine
<1>2. CASE Reload
  BY <1>2, <1>s DEF Reload, initialSolver, createHostProtocolState, WaitsFor, StillWaits, machine
<1>3. CASE LoseMessage \/ Edit
  BY <1>3, <1>s DEF LoseMessage, Edit, SolverType, WaitsFor, StillWaits, machine
<1>4. CASE Rendered
  BY <1>4 DEF Rendered, FrameRenders, SameSession, WaitsFor, StillWaits, machine
<1>5. ASSUME NEW other \in RequestId, SavedInFrame(other) PROVE StillWaits(b, id)
  <2>1. CASE SaveStarts(other)
    <3>1. machine.pending = None /\ solver'.machine.binding = machine.binding
      BY <2>1, <1>s DEF SaveStarts, FrameShape
    <3> QED BY <3>1, <1>s DEF WaitsFor, StillWaits, machine
  <2>2. CASE ~SaveStarts(other)
    BY <1>5, <2>2 DEF SavedInFrame, SameSession, WaitsFor, StillWaits, machine
  <2> QED BY <2>1, <2>2
<1> QED BY <1>1, <1>2, <1>3, <1>4, <1>5

LEMMA SavingShownKept ==
  ASSUME Shapes, SavingShown, FrameStep
  PROVE  SavingShown'
<1>s. solver \in SolverType /\ FrameShape
  BY DEF Shapes, TypeInv
<1>1. CASE Mounted \/ Reload
  BY <1>1 DEF Mounted, FrameMounts, Reload, initialSolver, createHostProtocolState, SavingShown, machine
<1>2. CASE LoseMessage \/ Edit
  BY <1>2, <1>s DEF LoseMessage, Edit, SolverType, SavingShown, machine
<1>3. CASE Rendered
  BY <1>3, <1>s DEF Rendered, FrameRenders, SameSession, FrameShape, current, SavingShown, machine
<1>4. ASSUME NEW id \in RequestId, SavedInFrame(id) PROVE SavingShown'
  BY <1>4 DEF SavedInFrame, SaveStarts, SameSession, SameDocument, SavingShown, machine
<1>5. ASSUME NEW message \in SolverMessage, FrameReceived(message) PROVE SavingShown'
  BY <1>5 DEF FrameReceived, FrameRefuses, FrameConfirms, FrameReplaces, FrameServes, SaveStarts,
     FrameCompletes, FramePasses, SameSession, SameDocument, SavingShown, machine
<1> QED BY <1>1, <1>2, <1>3, <1>4, <1>5, FrameCases

LEMMA SavesInOrderFrame ==
  ASSUME Session, SavesInOrder, FrameStep, Next
  PROVE  SavesInOrder'
<1>s. Shapes /\ Names /\ None \notin RequestId /\ None \notin Binding /\ Sent \subseteq Nat
  BY NoneAssumption DEF Session, Sent
<1>c. client' = client
  BY <1>s, FrameCases DEF Mounted, Reload, LoseMessage, Edit, Rendered, SavedInFrame, FrameReceived, FrameReceivesOf
<1>k. PICK k \in Nat : Kept(k)
  BY <1>s, FrameQueue
<1>n. Sent' \subseteq Nat /\ \A i \in Sent' : i + k \in Sent /\ toSolver'[i] = toSolver[i + k]
  BY <1>k DEF Kept, Sent
<1>w. \/ Mounted \/ Reload \/ LoseMessage \/ Edit \/ Rendered
      \/ \E id \in RequestId : SavedInFrame(id)
      \/ \E message \in SolverMessage : FrameReceived(message) /\ 1 \in Sent /\ message = toSolver[1] /\ Kept(1)
  BY <1>s, FrameCases, FirstOfQueue DEF FrameReceived
<1>e. Sent = {} => Sent' = {}
  BY <1>n
<1>1. LaunchedUnsaved'
  BY <1>c, <1>n DEF SavesInOrder, LaunchedUnsaved
<1>2. LaunchesFirst'
  <2> SUFFICES ASSUME NEW i \in Sent', NEW j \in Sent', j < i, toSolver'[i].type = "launch",
                      toSolver'[j].binding = toSolver'[i].binding
               PROVE  toSolver'[j].type = "launch"
    BY DEF LaunchesFirst
  <2>1. i + k \in Sent /\ j + k \in Sent /\ j + k < i + k
    BY <1>n
  <2> QED BY <2>1, <1>n DEF SavesInOrder, LaunchesFirst
<1>3. AskedLast'
  <2> SUFFICES ASSUME NEW i \in Sent', NEW j \in Sent', toSolver'[i].type = "requestSave",
                      toSolver'[i].id = client.save.id
               PROVE  j <= i /\ ~client.save.received
    BY <1>c DEF AskedLast
  <2>1. i + k \in Sent /\ j + k \in Sent /\ i \in Nat /\ j \in Nat /\ toSolver'[i] = toSolver[i + k]
    BY <1>n
  <2>2. j + k <= i + k /\ ~client.save.received
    BY <2>1 DEF SavesInOrder, AskedLast
  <2> QED BY <2>1, <2>2
<1>4. ServedAlone'
  <2> SUFFICES ASSUME NEW i \in Told', toHost'[i].type = "saveRequest", toHost'[i].id = client.save.id
               PROVE  Sent' = {} /\ StillWaits(toHost'[i].binding, toHost'[i].id)
    BY <1>c DEF ServedAlone, WaitsFor, StillWaits, machine
  <2>0. (\E j \in Told : toHost'[i] = toHost[j]) \/ News(toHost'[i])
    BY <1>s, HostMail DEF Names
  <2>i. toHost'[i] \in HostMessage /\ toHost'[i].binding \in Binding /\ toHost'[i].id \in RequestId
    <3>1. toHost'[i] \in HostMessage
      BY <1>s, FramePosts DEF Told
    <3> QED BY <3>1 DEF HostMessage
  <2>1. ASSUME NEW j \in Told, toHost'[i] = toHost[j]
        PROVE  Sent' = {} /\ StillWaits(toHost'[i].binding, toHost'[i].id)
    <3>1. Sent = {} /\ WaitsFor(toHost'[i].binding, toHost'[i].id)
      BY <2>1 DEF SavesInOrder, ServedAlone
    <3> DEFINE b == toHost'[i].binding
               id == toHost'[i].id
    <3>2. b \in Binding /\ id \in RequestId /\ WaitsFor(b, id)
      BY <2>i, <3>1
    <3> HIDE DEF b, id
    <3>3. WaitsFor(b, id)
      BY <3>2
    <3>4. StillWaits(b, id)
      BY <3>1, <3>2, <1>s, <1>w, WaitingKept DEF WaitsFor, StillWaits, machine
    <3> QED BY <3>1, <3>4, <1>e DEF WaitsFor, StillWaits, machine, b, id
  <2>2. CASE News(toHost'[i])
    <3>1. SaveStarts(client.save.id) /\ toHost'[i].binding = machine.binding
      BY <2>2 DEF News
    <3>2. StillWaits(toHost'[i].binding, toHost'[i].id)
      BY <3>1 DEF SaveStarts, WaitsFor, StillWaits, machine
    <3>p. machine.phase = "active-editable" /\ solver'.machine.phase = "saving" /\ solver'.machine.pending = client.save.id
      BY <3>1 DEF SaveStarts
    <3>3. ASSUME NEW id \in RequestId, SavedInFrame(id) PROVE FALSE
      <4>1. solver'.machine.pending = id
        BY <3>3, <3>p DEF SavedInFrame, SaveStarts, SameSession
      <4> QED BY <4>1, <3>3, <3>p, <1>s, <2>i DEF SavedInFrame, Names
    <3>4. ASSUME NEW message \in SolverMessage, FrameReceived(message), 1 \in Sent, message = toSolver[1], Kept(1)
          PROVE  Sent' = {}
      <4>1. message.type = "requestSave" /\ message.id = client.save.id
        BY <3>4, <3>p DEF FrameReceived, FrameRefuses, FrameConfirms, FrameReplaces, FrameServes, SaveStarts,
            FrameCompletes, FramePasses, SameSession, machine
      <4>2. \A j \in Sent : j <= 1
        BY <4>1, <3>4 DEF SavesInOrder, AskedLast
      <4>3. ASSUME NEW j \in Sent' PROVE FALSE
        <5>1. j + 1 \in Sent /\ j \in Nat /\ j # 0
          BY <3>4, <4>3 DEF Kept, Sent
        <5> QED BY <5>1, <4>2
      <4> QED BY <4>3
    <3>5. ~(Mounted \/ Reload \/ LoseMessage \/ Edit \/ Rendered)
      <4>1. ~Mounted /\ ~Reload
        BY <3>p DEF Mounted, FrameMounts, Reload, initialSolver, createHostProtocolState
      <4>2. ~LoseMessage /\ ~Edit
        BY <3>p, <1>s DEF LoseMessage, Edit, Shapes, TypeInv, SolverType, machine
      <4>3. ~Rendered
        BY <3>p DEF Rendered, FrameRenders, SameSession
      <4> QED BY <4>1, <4>2, <4>3
    <3> QED BY <3>2, <3>3, <3>4, <3>5, <1>w
  <2> QED BY <2>0, <2>1, <2>2
<1>5. TakenAlone'
  <2> SUFFICES ASSUME client.save.received
               PROVE  Sent' = {} /\ StillWaits(client.binding, client.save.id)
    BY <1>c DEF TakenAlone, WaitsFor, StillWaits, machine
  <2>1. Sent = {} /\ WaitsFor(client.binding, client.save.id)
    BY DEF SavesInOrder, TakenAlone
  <2>2. client.binding \in Binding /\ client.save.id \in RequestId
    <3>1. client.save # noSave
      BY DEF noSave
    <3> QED BY <3>1, <1>s DEF Shapes, ClientShape, TypeInv, ClientType, SaveType, Active
  <2>3. StillWaits(client.binding, client.save.id)
    <3> DEFINE b == client.binding
               id == client.save.id
    <3>1. b \in Binding /\ id \in RequestId /\ WaitsFor(b, id)
      BY <2>1, <2>2
    <3> HIDE DEF b, id
    <3>2. StillWaits(b, id)
      BY <2>1, <3>1, <1>s, <1>w, WaitingKept DEF WaitsFor, StillWaits, machine
    <3> QED BY <3>2, <1>c DEF WaitsFor, StillWaits, machine, b, id
  <2> QED BY <2>1, <2>3, <1>e
<1>6. AnsweredFirst'
  <2> SUFFICES ASSUME NEW i \in Sent', NEW j \in Sent', toSolver'[i].type = "saveResult"
               PROVE  i <= j /\ StillWaits(toSolver'[i].binding, toSolver'[i].id)
    BY DEF AnsweredFirst, WaitsFor, StillWaits, machine
  <2>m. i \in Nat /\ j \in Nat /\ i >= 1 /\ j >= 1
    BY DEF Sent
  <2>1. ASSUME Kept(1), 1 \in Sent PROVE FALSE
    <3>1. i + 1 \in Sent /\ toSolver'[i] = toSolver[i + 1]
      BY <2>1 DEF Kept
    <3>2. i + 1 <= 1
      BY <3>1, <2>1 DEF SavesInOrder, AnsweredFirst
    <3> QED BY <3>2, <2>m
  <2>2. CASE LoseMessage
    <3>1. Kept(1) /\ Sent # {}
      BY <2>2, <1>s, QueueKept, NothingSent DEF LoseMessage
    <3>2. 1 \in Sent
      <4>1. Len(toSolver) \in Nat
        BY <1>s, LenProperties DEF Shapes, TypeInv
      <4> QED BY <3>1, <4>1 DEF Sent
    <3> QED BY <3>1, <3>2, <2>1
  <2>3. CASE Reload
    BY <2>3, EmptySeq DEF Reload, Sent
  <2>4. CASE Mounted \/ Edit \/ Rendered \/ \E id \in RequestId : SavedInFrame(id)
    <3>1. toSolver' = toSolver
      BY <2>4 DEF Mounted, Edit, Rendered, SavedInFrame
    <3>2. i \in Sent /\ j \in Sent /\ toSolver'[i] = toSolver[i]
      BY <3>1 DEF Sent
    <3>3. i <= j /\ WaitsFor(toSolver[i].binding, toSolver[i].id)
      BY <3>2 DEF SavesInOrder, AnsweredFirst
    <3> DEFINE b == toSolver[i].binding
               id == toSolver[i].id
    <3>4. b \in Binding /\ id \in RequestId
      <4>1. toSolver[i] \in SolverMessage
        BY <3>2, <1>s DEF Shapes, TypeInv, Sent
      <4> QED BY <4>1, <3>2 DEF SolverMessage
    <3>5. WaitsFor(b, id)
      BY <3>3
    <3> HIDE DEF b, id
    <3>6. StillWaits(b, id)
      BY <2>4, <3>4, <3>5, <1>s, WaitingKept DEF WaitsFor, StillWaits, machine
    <3> QED BY <3>2, <3>3, <3>6 DEF WaitsFor, StillWaits, machine, b, id
  <2> QED BY <1>w, <2>1, <2>2, <2>3, <2>4
<1>7. SavingShown'
  BY <1>s, SavingShownKept DEF SavesInOrder
<1> QED BY <1>1, <1>2, <1>3, <1>4, <1>5, <1>6, <1>7 DEF SavesInOrder

Saves == Session /\ SavesInOrder

LEMMA SavesStep == Saves /\ [Next]_vars => Saves'
<1> SUFFICES ASSUME Saves, [Next]_vars PROVE Saves'
  OBVIOUS
<1>1. Session'
  BY SessionStep DEF Saves
<1>2. CASE Next
  BY <1>1, <1>2, SavesInOrderHost, SavesInOrderFrame DEF Saves, Next, HostStep, FrameStep
<1>3. CASE UNCHANGED vars
  BY <1>1, <1>3 DEF vars, Saves, SavesInOrder, LaunchedUnsaved, LaunchesFirst, AskedLast, ServedAlone,
     TakenAlone, AnsweredFirst, SavingShown, WaitsFor, Sent, Told, machine
<1> QED BY <1>2, <1>3

LEMMA SavesAlways == Spec => []Saves
<1>1. Init => Saves
  <2> SUFFICES ASSUME Init PROVE Saves
    OBVIOUS
  <2>1. client.launching = FALSE /\ client.save.received = FALSE /\ machine.phase = "bootstrap"
    BY DEF Init, initialClient, noSave, initialSolver, createHostProtocolState, machine
  <2>2. Sent = {} /\ Told = {}
    BY EmptySeq DEF Init, Sent, Told
  <2>3. SavesInOrder
    BY <2>1, <2>2 DEF SavesInOrder, LaunchedUnsaved, LaunchesFirst, AskedLast, ServedAlone, TakenAlone,
       AnsweredFirst, SavingShown
  <2> QED BY <2>3, InitSession DEF Saves
<1> QED BY <1>1, SavesStep, PTL DEF Spec
----------------------------------------------------------------------------
(* While the host waits for its saves, and only the host asks for them, the
   frame refuses nothing.  A frame that is saving has its answer under way
   when the client is ready for the next save, or has asked for it; there is
   one request of a session at a time, none when the client waits for none,
   and a session is not saving before its launch is confirmed. *)
Calm == ~SaveTimeouts /\ ~SolverSaves

Answering == 1 \in Sent /\ toSolver[1].type = "saveResult" /\ toSolver[1].binding = machine.binding
Asked(b) == \E i \in Sent : toSolver[i].type = "requestSave" /\ toSolver[i].binding = b

AnswerUnderWay ==
  machine.phase = "saving"
    /\ (Asked(machine.binding) \/ (client.phase = "active-editable" /\ machine.binding = client.binding))
  => Answering
AskedOnce ==
  \A i, j \in Sent : toSolver[i].type = "requestSave" /\ toSolver[j].type = "requestSave"
    /\ toSolver[i].binding = toSolver[j].binding => i = j
NothingAsked == client.phase = "active-editable" => ~Asked(client.binding)
LaunchedIdle == client.launching /\ machine.binding = client.binding => machine.phase # "saving"
NoError == \A i \in Told : toHost[i].type # "error"

NothingRefused == AnswerUnderWay /\ AskedOnce /\ NothingAsked /\ LaunchedIdle /\ NoError

(* The host reads a message or posts a launch, and is ready for no save that
   it was not ready for. *)
LEMMA NothingRefusedQuiet ==
  ASSUME Saves, NothingRefused, solver' = solver,
         toSolver' = toSolver \/ (\E l \in SolverMessage : l.type = "launch" /\ toSolver' = Append(toSolver, l)),
         toHost' = toHost \/ (\E message : HostReads(message)),
         client'.phase = "active-editable" => client.phase = "active-editable" /\ client'.binding = client.binding,
         client'.launching /\ machine.binding = client'.binding => client.launching /\ client'.binding = client.binding
  PROVE  NothingRefused'
<1>s. Shapes
  BY DEF Saves, Session
<1>1. /\ \A i \in Sent' : toSolver'[i].type = "requestSave" => i \in Sent /\ toSolver'[i] = toSolver[i]
      /\ \A i \in Sent : i \in Sent' /\ toSolver'[i] = toSolver[i]
  <2>1. CASE toSolver' = toSolver
    BY <2>1 DEF Sent
  <2>2. ASSUME NEW l \in SolverMessage, l.type = "launch", toSolver' = Append(toSolver, l)
        PROVE  /\ \A i \in Sent' : toSolver'[i].type = "requestSave" => i \in Sent /\ toSolver'[i] = toSolver[i]
               /\ \A i \in Sent : i \in Sent' /\ toSolver'[i] = toSolver[i]
    BY <2>2, <1>s, QueuePosted DEF Sent
  <2> QED BY <2>1, <2>2
<1>2. \A i \in Told' : \E j \in Told : toHost'[i] = toHost[j]
  BY <1>s, HostQueueRead DEF Told
<1>3. ASSUME NEW b, Asked(b)' PROVE Asked(b)
  BY <1>1, <1>3 DEF Asked
<1>4. Answering => Answering'
  BY <1>1 DEF Answering, machine
<1>5. AnswerUnderWay'
  <2>1. Asked(machine.binding)' => Asked(machine.binding)
    BY <1>1 DEF Asked, machine
  <2>2. machine' = machine
    BY DEF machine
  <2> SUFFICES ASSUME machine.phase = "saving",
                      Asked(machine.binding)' \/ (client'.phase = "active-editable" /\ machine.binding = client'.binding)
               PROVE  Answering'
    BY <2>2 DEF AnswerUnderWay
  <2>3. Asked(machine.binding) \/ (client.phase = "active-editable" /\ machine.binding = client.binding)
    BY <2>1
  <2> QED BY <1>4, <2>3 DEF NothingRefused, AnswerUnderWay
<1>6. AskedOnce'
  BY <1>1 DEF NothingRefused, AskedOnce
<1>7. NothingAsked'
  BY <1>1 DEF NothingRefused, NothingAsked, Asked
<1>8. LaunchedIdle' /\ NoError'
  BY <1>2 DEF NothingRefused, LaunchedIdle, NoError, machine
<1> QED BY <1>5, <1>6, <1>7, <1>8 DEF NothingRefused

LEMMA NothingRefusedHost ==
  ASSUME Calm, Saves, NothingRefused, HostStep
  PROVE  NothingRefused'
<1>s. Shapes /\ Names /\ ClientShape /\ ClientShape' /\ None \notin Binding
  BY NoneAssumption, HostClientType DEF Saves, Session, Shapes
<1>1. ASSUME NEW b \in Binding, NEW m \in Mode, Launches(b, m) PROVE NothingRefused'
  <2> DEFINE l == [type |-> "launch", binding |-> b, mode |-> m]
  <2>1. l \in SolverMessage /\ l.type = "launch"
    BY DEF SolverMessage
  <2>2. toSolver' = toSolver \/ toSolver' = Append(toSolver, l)
    BY <1>1 DEF Launches
  <2> HIDE DEF l
  <2>3. solver' = solver /\ toHost' = toHost /\ client'.phase # "active-editable" /\ client'.binding = b
        /\ b \notin launched
    BY <1>1 DEF Launches
  <2>4. machine.binding # b
    BY <2>3, <1>s DEF Names
  <2> QED BY <2>1, <2>2, <2>3, <2>4, NothingRefusedQuiet
<1>2. ASSUME NEW id \in RequestId, AsksToSave(id) PROVE NothingRefused'
  <2> DEFINE l == [type |-> "requestSave", binding |-> client.binding, id |-> id]
  <2>1. l \in SolverMessage /\ l.type = "requestSave" /\ l.binding = client.binding
    BY <1>2 DEF SolverMessage, AsksToSave
  <2>2. toSolver' = Append(toSolver, l)
    BY <1>2 DEF AsksToSave
  <2> HIDE DEF l
  <2>3. solver' = solver /\ toHost' = toHost /\ client.phase = "active-editable" /\ client'.phase = "saving"
        /\ client'.binding = client.binding /\ client'.launching = FALSE
    BY <1>2 DEF AsksToSave
  <2>4. /\ \A i \in Sent' : \/ i \in Sent /\ toSolver'[i] = toSolver[i]
                            \/ i = Len(toSolver') /\ toSolver'[i] = l /\ i \notin Sent
        /\ \A i \in Sent : i \in Sent' /\ toSolver'[i] = toSolver[i]
    BY <2>1, <2>2, <1>s, QueuePosted DEF Sent
  <2>5. \A i \in Sent : toSolver[i].type = "requestSave" => toSolver[i].binding # client.binding
    BY <2>3 DEF NothingRefused, NothingAsked, Asked
  <2>6. Answering => Answering'
    BY <2>3, <2>4 DEF Answering, machine
  <2>7. AnswerUnderWay'
    <3>1. Asked(machine.binding)' => Asked(machine.binding) \/ machine.binding = client.binding
      BY <2>1, <2>3, <2>4 DEF Asked, machine
    <3> QED BY <2>3, <2>6, <3>1 DEF NothingRefused, AnswerUnderWay, machine
  <2>8. AskedOnce'
    BY <2>1, <2>4, <2>5 DEF NothingRefused, AskedOnce
  <2>9. NothingAsked' /\ LaunchedIdle' /\ NoError'
    BY <2>3 DEF NothingRefused, NothingAsked, LaunchedIdle, NoError, Told
  <2> QED BY <2>7, <2>8, <2>9 DEF NothingRefused
<1>3. ASSUME NEW status \in {"saved", "failed"}, AnswersSave(status) PROVE NothingRefused'
  <2> DEFINE l == [type |-> "saveResult", binding |-> client.binding, id |-> client.save.id, status |-> status]
  <2>1. l \in SolverMessage /\ l.type = "saveResult" /\ l.binding = client.binding
    BY <1>3 DEF SolverMessage, AnswersSave
  <2>2. toSolver' = Append(toSolver, l)
    BY <1>3 DEF AnswersSave
  <2> HIDE DEF l
  <2>3. solver' = solver /\ toHost' = toHost /\ client'.binding = client.binding /\ client'.launching = FALSE
    BY <1>3 DEF AnswersSave
  <2>4. Sent = {} /\ Len(toSolver) \in Nat
    BY <1>3, <1>s, LenProperties DEF AnswersSave, Saves, SavesInOrder, TakenAlone, Shapes, TypeInv
  <2>5. Len(toSolver) = 0
    BY <2>4 DEF Sent
  <2>6. Sent' = {1} /\ toSolver'[1] = l
    <3>1. Len(toSolver') = 1
      BY <2>1, <2>2, <2>5, <1>s, QueuePosted
    <3>2. Sent' = {1}
      BY <3>1 DEF Sent
    <3> QED BY <2>1, <2>2, <2>4, <3>2, <1>s, QueuePosted
  <2>7. AnswerUnderWay'
    BY <2>1, <2>3, <2>6 DEF AnswerUnderWay, Answering, Asked, machine
  <2>8. AskedOnce' /\ NothingAsked'
    BY <2>1, <2>6 DEF AskedOnce, NothingAsked, Asked
  <2>9. LaunchedIdle' /\ NoError'
    BY <2>3 DEF NothingRefused, LaunchedIdle, NoError, Told
  <2> QED BY <2>7, <2>8, <2>9 DEF NothingRefused
<1>4. ASSUME Relaunches PROVE NothingRefused'
  <2>1. launchMessage(client) \in SolverMessage
    BY <1>4, <1>s, MessageShapes DEF Relaunches
  <2>2. launchMessage(client).type = "launch"
    BY DEF launchMessage
  <2>3. client'.phase # "active-editable"
    BY <1>4, <1>s DEF Relaunches, ClientShape
  <2>4. /\ toSolver' = Append(toSolver, launchMessage(client)) /\ solver' = solver
        /\ client.launching /\ client'.binding = client.binding
        /\ (toHost' = toHost \/ \E message : HostReads(message))
    BY <1>4 DEF Relaunches
  <2> QED BY <2>1, <2>2, <2>3, <2>4, NothingRefusedQuiet
<1>5. ASSUME NEW message \in HostMessage, Activates(message) PROVE NothingRefused'
  <2>1. /\ solver' = solver /\ toSolver' = toSolver /\ HostReads(message)
        /\ client.launching /\ client'.binding = client.binding /\ client'.launching = FALSE
    BY <1>5 DEF Activates
  <2>2. \A i \in Told' : \E j \in Told : toHost'[i] = toHost[j]
    BY <2>1, <1>s, HostQueueRead
  <2>3. ~Asked(client.binding) /\ Sent' = Sent
    BY <2>1 DEF Saves, SavesInOrder, LaunchedUnsaved, Asked, Sent
  <2>4. AnswerUnderWay'
    <3>1. machine.binding = client.binding => machine.phase # "saving"
      BY <2>1 DEF NothingRefused, LaunchedIdle
    <3> QED BY <2>1, <2>3, <3>1 DEF NothingRefused, AnswerUnderWay, Answering, Asked, machine
  <2>5. AskedOnce' /\ NothingAsked' /\ LaunchedIdle' /\ NoError'
    BY <2>1, <2>2, <2>3 DEF NothingRefused, AskedOnce, NothingAsked, Asked, LaunchedIdle, NoError
  <2> QED BY <2>4, <2>5 DEF NothingRefused
<1>6. ASSUME GivesUp \/ GivesUpSave \/ Disposes
             \/ \E message \in HostMessage : HostQuiet(message) /\ ~Activates(message)
      PROVE  NothingRefused'
  <2>1. solver' = solver /\ toSolver' = toSolver /\ (toHost' = toHost \/ \E message : HostReads(message))
    BY <1>6 DEF GivesUp, GivesUpSave, Disposes, HostQuiet, Activates, Learns, TakesSnapshot, Fails, Overlooks
  <2>2. client'.phase = "active-editable" => client.phase = "active-editable" /\ client'.binding = client.binding
    BY <1>6 DEF Calm, GivesUp, GivesUpSave, Disposes, HostQuiet, Learns, TakesSnapshot, Fails, Overlooks, SameClient
  <2>3. client'.launching => client.launching /\ client'.binding = client.binding
    BY <1>6 DEF GivesUp, GivesUpSave, Disposes, HostQuiet, Learns, TakesSnapshot, Fails, Overlooks, SameClient
  <2> QED BY <2>1, <2>2, <2>3, NothingRefusedQuiet
<1> QED BY <1>1, <1>2, <1>3, <1>4, <1>5, <1>6, <1>s, HostCases DEF HostQuiet

(* The messages the frame might refuse, one by one. *)
LEMMA NeverRefused ==
  ASSUME Calm, Saves, NothingRefused, NEW message \in SolverMessage, FrameReceived(message)
  PROVE  ~FrameRefuses(message)
<1> SUFFICES ASSUME FrameRefuses(message) PROVE FALSE
  OBVIOUS
<1>s. Shapes /\ Session /\ OneMode /\ InSession /\ FrameShape /\ machine \in State
      /\ None \notin RequestId /\ None \notin Binding
  BY NoneAssumption DEF Saves, Session, Shapes, TypeInv, SolverType, machine
<1>m. message = toSolver[1] /\ 1 \in Sent /\ message.binding \in Binding
  BY <1>s, FirstOfQueue DEF FrameReceived, SolverMessage
<1>1. PICK mode \in Mode : Agree(message.binding, mode)
  BY <1>m, <1>s DEF OneMode
<1>2. ModeOf(message) = mode /\ (machine.binding = message.binding => machine.mode = mode)
  BY <1>m, <1>1 DEF Agree
<1>3. CASE message.type = "launch"
  BY <1>2, <1>3 DEF FrameRefuses, ModeOf
<1>4. CASE message.type # "launch"
  <2>1. machine.binding = message.binding
    <3>1. machine.binding # None
      BY <1>4, <1>s DEF FrameRefuses, FrameShape
    <3> QED BY <3>1, <1>m, <1>4, <1>s DEF InSession
  <2>2. machine.mode = "editable"
    BY <2>1, <1>2, <1>4 DEF ModeOf
  <2>3. CASE message.type = "requestSave"
    <3>1. machine.phase = "saving"
      <4>1. machine.phase \in {"bootstrap", "negotiating", "active-editable", "active-readonly", "saving", "closed"}
        BY <1>s DEF State, Phase
      <4>2. machine.phase # "active-editable"
        BY <2>1, <2>3 DEF FrameRefuses
      <4>3. machine.phase \notin {"bootstrap", "negotiating", "active-readonly", "closed"}
        BY <2>1, <2>2, <1>m, <1>s DEF FrameShape
      <4> QED BY <4>1, <4>2, <4>3
    <3>2. Asked(machine.binding)
      BY <1>m, <2>1, <2>3 DEF Asked
    <3>3. AnswerUnderWay
      BY DEF NothingRefused
    <3>4. Answering
      BY <3>1, <3>2, <3>3 DEF AnswerUnderWay
    <3> QED BY <3>4, <2>3, <1>m DEF Answering
  <2>4. CASE message.type = "saveResult"
    <3>1. WaitsFor(message.binding, message.id) /\ message.id \in RequestId
      BY <2>4, <1>m DEF Saves, SavesInOrder, AnsweredFirst, SolverMessage
    <3>2. machine.pending = message.id /\ machine.pending # None
      BY <3>1, <2>1, <1>s DEF WaitsFor
    <3>3. machine.phase = "saving"
      BY <3>2, <1>s DEF FrameShape
    <3> QED BY <3>2, <3>3, <2>1, <2>4 DEF FrameRefuses
  <2> QED BY <2>3, <2>4, <1>4 DEF SolverMessage
<1> QED BY <1>3, <1>4

LEMMA NothingRefusedFrame ==
  ASSUME Calm, Saves, NothingRefused, FrameStep, Next
  PROVE  NothingRefused'
<1>s. Shapes /\ Names /\ FrameShape
  BY DEF Saves, Session, Shapes
<1>c. client' = client
  BY <1>s, FrameCases DEF Mounted, Reload, LoseMessage, Edit, Rendered, SavedInFrame, FrameReceived, FrameReceivesOf
<1>k. PICK k \in Nat : Kept(k)
  BY <1>s, FrameQueue
<1>1. NoError'
  <2>1. \A i \in Told' : (\E j \in Told : toHost'[i] = toHost[j]) \/ News(toHost'[i])
    BY <1>s, HostMail DEF Names
  <2>2. \A i \in Told' : toHost'[i].type = "error" => \E j \in Told : toHost'[i] = toHost[j]
    BY <2>1, NeverRefused DEF News
  <2> QED BY <2>2 DEF NothingRefused, NoError
<1>2. AskedOnce'
  <2> SUFFICES ASSUME NEW i \in Sent', NEW j \in Sent', toSolver'[i].type = "requestSave",
                      toSolver'[j].type = "requestSave", toSolver'[i].binding = toSolver'[j].binding
               PROVE  i = j
    BY DEF AskedOnce
  <2>1. i + k \in Sent /\ j + k \in Sent /\ toSolver'[i] = toSolver[i + k] /\ toSolver'[j] = toSolver[j + k]
        /\ i \in Nat /\ j \in Nat
    BY <1>k DEF Kept, Sent
  <2>2. i + k = j + k
    BY <2>1 DEF NothingRefused, AskedOnce
  <2> QED BY <2>1, <2>2
<1>a. \A b : (\E i \in Sent' : toSolver'[i].type = "requestSave" /\ toSolver'[i].binding = b) => Asked(b)
  BY <1>k DEF Kept, Asked
<1>3. NothingAsked'
  BY <1>a, <1>c DEF NothingRefused, NothingAsked, Asked
<1>n. solver'.machine.phase # "saving" => NothingRefused'
  BY <1>1, <1>2, <1>3 DEF NothingRefused, AnswerUnderWay, LaunchedIdle, machine
<1>t. ASSUME SameSession(machine, solver'.machine), toSolver' = toSolver PROVE NothingRefused'
  BY <1>t, <1>c, <1>1, <1>2, <1>3 DEF NothingRefused, AnswerUnderWay, LaunchedIdle, Answering, Asked, Sent,
      SameSession, machine
<1>4. CASE Mounted \/ Reload
  BY <1>4, <1>n DEF Mounted, FrameMounts, Reload, initialSolver, createHostProtocolState
<1>5. CASE LoseMessage
  <2>1. solver' = solver /\ solver = initialSolver
    BY <1>5, <1>s DEF LoseMessage, FrameShape
  <2> QED BY <2>1, <1>n DEF initialSolver, createHostProtocolState
<1>6. CASE Edit
  <2>1. solver'.machine = machine /\ toSolver' = toSolver
    BY <1>6, <1>s DEF Edit, Shapes, TypeInv, SolverType, machine
  <2>2. machine \in State
    BY <1>s DEF Shapes, TypeInv, SolverType, machine
  <2> QED BY <2>1, <2>2, <1>t DEF SameSession
<1>7. CASE Rendered
  BY <1>7, <1>t DEF Rendered, FrameRenders
<1>8. ASSUME NEW id \in RequestId, SavedInFrame(id) PROVE FALSE
  BY <1>8 DEF Calm, SavedInFrame
<1>9. ASSUME NEW message \in SolverMessage, FrameReceived(message) PROVE NothingRefused'
  <2>m. message = toSolver[1] /\ 1 \in Sent /\ Kept(1)
    BY <1>9, <1>s, FirstOfQueue DEF FrameReceived
  <2>1. CASE FrameConfirms(message)
    <3>1. solver' = solver /\ ~Answering
      BY <2>1, <2>m DEF FrameConfirms, Answering
    <3>2. AnswerUnderWay' /\ LaunchedIdle'
      <4>1. Asked(machine.binding)' => Asked(machine.binding)
        BY <1>a, <3>1 DEF Asked, machine
      <4> QED BY <4>1, <3>1, <1>c DEF NothingRefused, AnswerUnderWay, LaunchedIdle, machine
    <3> QED BY <3>2, <1>1, <1>2, <1>3 DEF NothingRefused
  <2>2. CASE FrameServes(message)
    <3>1. message.type = "requestSave" /\ message.binding = machine.binding
          /\ solver'.machine.binding = machine.binding
      BY <2>2 DEF FrameServes, SaveStarts
    <3>2. Asked(machine.binding)
      BY <3>1, <2>m DEF Asked
    <3>3. ~(client.phase = "active-editable" /\ machine.binding = client.binding)
      BY <3>2 DEF NothingRefused, NothingAsked
    <3>4. ~(client.launching /\ machine.binding = client.binding)
      BY <3>1, <2>m DEF Saves, SavesInOrder, LaunchedUnsaved
    <3>5. ~Asked(machine.binding)'
      <4>1. ASSUME NEW i \in Sent', toSolver'[i].type = "requestSave", toSolver'[i].binding = machine.binding
            PROVE  FALSE
        <5>1. i + 1 \in Sent /\ toSolver'[i] = toSolver[i + 1] /\ i + 1 # 1
          BY <2>m DEF Kept, Sent
        <5> QED BY <5>1, <4>1, <3>1, <2>m DEF NothingRefused, AskedOnce
      <4> QED BY <4>1, <3>1 DEF Asked, machine
    <3> QED BY <3>1, <3>3, <3>4, <3>5, <1>c, <1>1, <1>2, <1>3 DEF NothingRefused, AnswerUnderWay, LaunchedIdle, machine
  <2>3. CASE FramePasses(message)
    <3>1. solver' = solver /\ machine.phase # "saving"
      BY <2>3 DEF FramePasses, Saves, SavesInOrder, SavingShown
    <3> QED BY <3>1, <1>n DEF machine
  <2>4. CASE FrameReplaces(message) \/ FrameCompletes(message)
    BY <2>4, <1>n DEF FrameReplaces, FrameCompletes
  <2> QED BY <1>9, <2>1, <2>2, <2>3, <2>4, NeverRefused DEF FrameReceived
<1> QED BY <1>4, <1>5, <1>6, <1>7, <1>8, <1>9, <1>s, FrameCases

CalmSaves == Saves /\ (Calm => NothingRefused)

LEMMA CalmStep == CalmSaves /\ [Next]_vars => CalmSaves'
<1> SUFFICES ASSUME CalmSaves, [Next]_vars PROVE CalmSaves'
  OBVIOUS
<1>1. Saves' /\ Saves
  BY SavesStep DEF CalmSaves
<1>2. CASE Next
  <2>1. Calm' => Calm
    BY <1>2, ConstantCircumstances DEF Calm, SaveTimeouts, SolverSaves
  <2>2. Calm => NothingRefused'
    BY <1>1, <1>2, NothingRefusedHost, NothingRefusedFrame DEF CalmSaves, Next, HostStep, FrameStep
  <2> QED BY <1>1, <2>1, <2>2 DEF CalmSaves
<1>3. CASE UNCHANGED vars
  BY <1>1, <1>3 DEF vars, CalmSaves, Calm, SaveTimeouts, SolverSaves, NothingRefused, AnswerUnderWay, Answering, Asked,
     AskedOnce, NothingAsked, LaunchedIdle, NoError, Sent, Told, machine
<1> QED BY <1>2, <1>3

LEMMA CalmAlways == Spec => []CalmSaves
<1>1. Init => CalmSaves
  <2> SUFFICES ASSUME Init PROVE NothingRefused /\ Saves
    BY DEF CalmSaves
  <2>1. client.launching = FALSE /\ client.phase = "idle" /\ machine.phase = "bootstrap"
        /\ client.save.received = FALSE
    BY DEF Init, initialClient, noSave, initialSolver, createHostProtocolState, machine
  <2>2. Sent = {} /\ Told = {}
    BY EmptySeq DEF Init, Sent, Told
  <2>3. NothingRefused
    BY <2>1, <2>2 DEF NothingRefused, AnswerUnderWay, AskedOnce, NothingAsked, LaunchedIdle, NoError
  <2>4. SavesInOrder
    BY <2>1, <2>2 DEF SavesInOrder, LaunchedUnsaved, LaunchesFirst, AskedLast, ServedAlone, TakenAlone,
       AnsweredFirst, SavingShown
  <2> QED BY <2>3, <2>4, InitSession DEF Saves
<1> QED BY <1>1, CalmStep, PTL DEF Spec

(* ActiveNeverFails: a session the client calls active is not ended by
   anything the frame refuses, however late, repeated or lost the messages:
   the frame refuses nothing. *)
THEOREM ActiveStaysUp == Spec => ActiveNeverFails
<1> DEFINE NoEnd == Calm /\ client.phase \in Active => client'.phase # "error"
<1>1. ASSUME CalmSaves, [Next]_vars PROVE NoEnd
  <2> SUFFICES ASSUME Calm, client.phase \in Active PROVE client'.phase # "error"
    OBVIOUS
  <2>s. Shapes /\ ClientShape /\ NothingRefused
    BY <1>1 DEF CalmSaves, Saves, Session, Shapes
  <2>l. ~client.launching /\ client.phase # "error"
    BY <2>s DEF ClientShape, Active
  <2>1. CASE HostStep
    <3>1. ASSUME NEW message \in HostMessage, Fails(message) PROVE FALSE
      <4>1. message = toHost[1] /\ 1 \in Told /\ message.type = "error"
        BY <3>1, <2>s, HostQueueRead DEF Fails
      <4> QED BY <4>1, <2>s DEF NothingRefused, NoError
    <3>2. ASSUME NEW message \in HostMessage, HostQuiet(message) PROVE client'.phase # "error"
      BY <3>1, <3>2, <2>l DEF HostQuiet, Activates, Learns, TakesSnapshot, Overlooks, SameClient
    <3> QED BY <2>1, <2>s, <2>l, <3>2, HostCases DEF Launches, AsksToSave, AnswersSave, Relaunches,
          GivesUp, GivesUpSave, Disposes
  <2>2. CASE FrameStep
    <3>1. client' = client
      BY <2>2, <2>s, FrameCases DEF Mounted, Reload, LoseMessage, Edit, Rendered, SavedInFrame, FrameReceived,
         FrameReceivesOf
    <3> QED BY <3>1, <2>l
  <2>3. CASE UNCHANGED vars
    BY <2>3, <2>l DEF vars
  <2> QED BY <1>1, <2>1, <2>2, <2>3 DEF Next, HostStep, FrameStep
<1>2. NoEnd => (~SaveTimeouts /\ ~SolverSaves /\ client.phase \in Active => client'.phase # "error")
  BY DEF Calm
<1> QED BY <1>1, <1>2, CalmAlways, PTL DEF Spec, ActiveNeverFails
----------------------------------------------------------------------------
(* What the host has stored.  It loads a session with what is stored of it,
   and stores nothing of it before the launch is confirmed. *)
LaunchingStored == client.launching => stored[client.binding] = Loaded(client.binding)
UnusedStored == \A c \in Binding \ launched : stored[c] = Loaded(c)
LaunchStored ==
  \A i \in Sent : toSolver[i].type = "launch" => stored[toSolver[i].binding] = Loaded(toSolver[i].binding)
AsLaunched == LaunchingStored /\ UnusedStored /\ LaunchStored

(* A project that is to be stored for session c: the frame, if it is in that
   session, would call its document saved only if this is what it is. *)
Fits(c, content) ==
  /\ content.doc = c
  /\ machine.binding = c =>
       \A entry \in solver.revs : entry[2] = solver.revision => content = solver.content

OwnProjects == \A c \in Binding : stored[c].doc = c
RequestFits ==
  \A i \in Told : toHost[i].type = "saveRequest" /\ toHost[i].binding = client.binding
    /\ toHost[i].id = client.save.id => Fits(client.binding, toHost[i].content)
SnapshotFits == client.save.received => Fits(client.binding, client.save.snapshot)
ResultFits ==
  \A i \in Sent : toSolver[i].type = "saveResult" /\ toSolver[i].status = "saved"
    => Fits(toSolver[i].binding, stored[toSolver[i].binding])

InTime == OwnProjects /\ SavedMeansStored /\ RequestFits /\ SnapshotFits /\ ResultFits

LEMMA AsLaunchedKept ==
  ASSUME Saves, AsLaunched, Next
  PROVE  AsLaunched'
<1>s. Shapes /\ Names /\ ClientShape /\ stored \in [Binding -> Content] /\ None \notin Binding
  BY NoneAssumption DEF Saves, Session, Shapes, TypeInv
<1>b. \A i \in Sent : toSolver[i].binding \in Binding
  BY <1>s DEF Names, Shapes, TypeInv
<1>1. ASSUME NEW b \in Binding, NEW m \in Mode, Launches(b, m) PROVE AsLaunched'
  <2> DEFINE l == [type |-> "launch", binding |-> b, mode |-> m]
  <2>1. l \in SolverMessage /\ l.binding = b
    BY DEF SolverMessage
  <2>2. toSolver' = toSolver \/ toSolver' = Append(toSolver, l)
    BY <1>1 DEF Launches
  <2> HIDE DEF l
  <2>3. stored' = stored /\ client'.binding = b /\ launched' = launched \cup {b} /\ stored[b] = Loaded(b)
    BY <1>1 DEF Launches, AsLaunched, UnusedStored
  <2>4. \A i \in Sent' : (i \in Sent /\ toSolver'[i] = toSolver[i]) \/ toSolver'[i] = l
    BY <2>1, <2>2, <1>s, QueuePosted DEF Sent
  <2>5. LaunchStored'
    BY <2>1, <2>3, <2>4 DEF AsLaunched, LaunchStored
  <2> QED BY <2>3, <2>5 DEF AsLaunched, LaunchingStored, UnusedStored
<1>2. ASSUME NEW id \in RequestId, AsksToSave(id) PROVE AsLaunched'
  <2> DEFINE l == [type |-> "requestSave", binding |-> client.binding, id |-> id]
  <2>1. l \in SolverMessage /\ l.type = "requestSave" /\ toSolver' = Append(toSolver, l)
    BY <1>2 DEF SolverMessage, AsksToSave
  <2> HIDE DEF l
  <2>2. \A i \in Sent' : (i \in Sent /\ toSolver'[i] = toSolver[i]) \/ toSolver'[i] = l
    BY <2>1, <1>s, QueuePosted
  <2>3. stored' = stored /\ launched' = launched /\ client'.launching = FALSE
    BY <1>2 DEF AsksToSave
  <2> QED BY <2>1, <2>2, <2>3 DEF AsLaunched, LaunchingStored, UnusedStored, LaunchStored
<1>3. ASSUME NEW status \in {"saved", "failed"}, AnswersSave(status) PROVE AsLaunched'
  <2> DEFINE l == [type |-> "saveResult", binding |-> client.binding, id |-> client.save.id, status |-> status]
  <2>1. l \in SolverMessage /\ l.type = "saveResult" /\ toSolver' = Append(toSolver, l)
    BY <1>3 DEF SolverMessage, AnswersSave
  <2> HIDE DEF l
  <2>2. Sent = {} /\ client'.launching = FALSE /\ launched' = launched /\ client.binding \in launched
    BY <1>3, <1>s DEF AnswersSave, Saves, SavesInOrder, TakenAlone, used, Names
  <2>3. \A i \in Sent' : toSolver'[i] = l
    BY <2>1, <2>2, <1>s, QueuePosted
  <2>4. \A c \in Binding \ launched : stored'[c] = stored[c]
    BY <1>3, <2>2, <1>s DEF AnswersSave
  <2> QED BY <2>1, <2>2, <2>3, <2>4 DEF AsLaunched, LaunchingStored, UnusedStored, LaunchStored
<1>4. ASSUME Relaunches PROVE AsLaunched'
  <2>1. launchMessage(client) \in SolverMessage
    BY <1>4, <1>s, MessageShapes DEF Relaunches
  <2>2. launchMessage(client).binding = client.binding
    BY DEF launchMessage
  <2>3. /\ toSolver' = Append(toSolver, launchMessage(client)) /\ stored' = stored /\ launched' = launched
        /\ client.launching /\ client'.binding = client.binding
    BY <1>4 DEF Relaunches, used
  <2>4. \A i \in Sent' : (i \in Sent /\ toSolver'[i] = toSolver[i]) \/ toSolver'[i] = launchMessage(client)
    BY <2>1, <2>3, <1>s, QueuePosted
  <2>5. LaunchStored'
    BY <2>2, <2>3, <2>4 DEF AsLaunched, LaunchingStored, LaunchStored
  <2> QED BY <2>3, <2>5 DEF AsLaunched, LaunchingStored, UnusedStored
<1>5. ASSUME GivesUp \/ GivesUpSave \/ Disposes \/ \E message \in HostMessage : HostQuiet(message) PROVE AsLaunched'
  <2>1. /\ toSolver' = toSolver /\ stored' = stored /\ launched' = launched
        /\ client'.launching => client.launching /\ client'.binding = client.binding
    BY <1>5 DEF GivesUp, GivesUpSave, Disposes, HostQuiet, Activates, Learns, TakesSnapshot, Fails, Overlooks,
       SameClient, used
  <2> QED BY <2>1 DEF AsLaunched, LaunchingStored, UnusedStored, LaunchStored, Sent
<1>6. CASE FrameStep
  <2>1. client' = client /\ stored' = stored /\ launched' = launched
    BY <1>6, <1>s, FrameCases DEF Mounted, Reload, LoseMessage, Edit, Rendered, SavedInFrame, FrameReceived,
       FrameReceivesOf, used
  <2>2. PICK k \in Nat : Kept(k)
    BY <1>6, <1>s, FrameQueue
  <2> QED BY <2>1, <2>2 DEF Kept, AsLaunched, LaunchingStored, UnusedStored, LaunchStored
<1> QED BY <1>1, <1>2, <1>3, <1>4, <1>5, <1>6, <1>s, HostCases DEF Next, HostStep, FrameStep

(* Whoever is waited for stays fit: an edit makes the document one that no
   answer completes, and no second save is served. *)
StillFits(c, content) ==
  /\ content.doc = c
  /\ solver'.machine.binding = c =>
       \A entry \in solver'.revs : entry[2] = solver'.revision => content = solver'.content

LEMMA FitsKept ==
  ASSUME Shapes, NEW b \in Binding, NEW id \in RequestId, NEW content, WaitsFor(b, id), Fits(b, content),
         \/ Mounted \/ Reload \/ LoseMessage \/ Edit \/ Rendered
         \/ \E other \in RequestId : SavedInFrame(other)
  PROVE  StillFits(b, content)
<1>s. b # None /\ id # None /\ solver \in SolverType /\ FrameShape
  BY NoneAssumption DEF Shapes, TypeInv
<1>1. CASE Mounted
  BY <1>1, <1>s DEF Mounted, FrameMounts, Fits, StillFits
<1>2. CASE Reload
  BY <1>2, <1>s DEF Reload, initialSolver, createHostProtocolState, Fits, StillFits
<1>3. CASE LoseMessage
  BY <1>3 DEF LoseMessage, Fits, StillFits, machine
<1>4. CASE Edit
  <2>1. solver'.revision = solver.revision + 1 /\ solver'.revs = solver.revs
    BY <1>4, <1>s DEF Edit, SolverType
  <2>2. \A entry \in solver.revs : entry[2] <= solver.revision /\ entry[2] \in Nat /\ solver.revision \in Nat
    BY <1>s DEF FrameShape, SolverType
  <2> QED BY <2>1, <2>2 DEF Fits, StillFits
<1>5. CASE Rendered
  BY <1>5 DEF Rendered, FrameRenders, SameSession, Fits, StillFits, machine
<1>6. ASSUME NEW other \in RequestId, SavedInFrame(other) PROVE StillFits(b, content)
  <2>1. CASE SaveStarts(other)
    <3>1. machine.pending = None /\ solver'.machine.binding = machine.binding
      BY <2>1, <1>s DEF SaveStarts, FrameShape
    <3> QED BY <3>1, <1>s DEF WaitsFor, Fits, StillFits
  <2>2. CASE ~SaveStarts(other)
    BY <1>6, <2>2 DEF SavedInFrame, SameSession, SameDocument, Fits, StillFits, machine
  <2> QED BY <2>1, <2>2
<1> QED BY <1>1, <1>2, <1>3, <1>4, <1>5, <1>6

LEMMA InTimeHost ==
  ASSUME Saves, InTime, HostStep
  PROVE  InTime'
<1>s. /\ Shapes /\ Names /\ FrameShape /\ stored \in [Binding -> Content] /\ noSave.id = None
      /\ noSave.received = FALSE /\ None \notin RequestId /\ None \notin Binding
  BY NoneAssumption DEF Saves, Session, Shapes, TypeInv, noSave
<1>i. \A i \in Told : toHost[i].type = "saveRequest" => toHost[i].id \in RequestId
  BY <1>s DEF Names, Shapes, TypeInv
<1>f. solver' = solver => \A c, content : Fits(c, content)' <=> Fits(c, content)
  BY DEF Fits, machine
<1>1. ASSUME stored' = stored, solver' = solver,
             \A i \in Sent' : toSolver'[i].type = "saveResult" => \E j \in Sent : toSolver'[i] = toSolver[j]
      PROVE  OwnProjects' /\ SavedMeansStored' /\ ResultFits'
  <2>1. OwnProjects' /\ SavedMeansStored'
    BY <1>1 DEF InTime, OwnProjects, SavedMeansStored, dirty
  <2>2. ASSUME NEW i \in Sent', toSolver'[i].type = "saveResult", toSolver'[i].status = "saved"
        PROVE  Fits(toSolver'[i].binding, stored[toSolver'[i].binding])
    BY <1>1, <2>2 DEF InTime, ResultFits
  <2>3. ResultFits'
    BY <1>1, <2>2 DEF ResultFits, Fits, machine
  <2> QED BY <2>1, <2>3
<1>2. ASSUME solver' = solver, \A i \in Told' : \E j \in Told : toHost'[i] = toHost[j],
             \/ client'.save = noSave
             \/ client'.save = client.save /\ client'.binding = client.binding
             \/ client'.save.received = FALSE /\ \A i \in Told : toHost[i].type = "saveRequest" => toHost[i].id # client'.save.id
      PROVE  RequestFits' /\ SnapshotFits'
  <2>1. CASE client'.save = client.save /\ client'.binding = client.binding
    BY <1>2, <2>1 DEF InTime, RequestFits, SnapshotFits, Fits, machine
  <2>2. CASE client'.save = noSave
    BY <1>2, <2>2, <1>s, <1>i DEF RequestFits, SnapshotFits
  <2>3. CASE client'.save.received = FALSE /\ \A i \in Told : toHost[i].type = "saveRequest" => toHost[i].id # client'.save.id
    BY <1>2, <2>3 DEF RequestFits, SnapshotFits
  <2> QED BY <1>2, <2>1, <2>2, <2>3
<1>3. toHost' = toHost => \A i \in Told' : \E j \in Told : toHost'[i] = toHost[j]
  BY DEF Told
<1>4. ASSUME NEW l \in SolverMessage, l.type # "saveResult", toSolver' = toSolver \/ toSolver' = Append(toSolver, l)
      PROVE  \A i \in Sent' : toSolver'[i].type = "saveResult" => \E j \in Sent : toSolver'[i] = toSolver[j]
  <2>1. CASE toSolver' = toSolver
    BY <2>1 DEF Sent
  <2>2. CASE toSolver' = Append(toSolver, l)
    BY <2>2, <1>4, <1>s, QueuePosted
  <2> QED BY <1>4, <2>1, <2>2
<1>5. ASSUME NEW b \in Binding, NEW m \in Mode, Launches(b, m) PROVE InTime'
  <2>1. [type |-> "launch", binding |-> b, mode |-> m] \in SolverMessage
    BY DEF SolverMessage
  <2>2. solver' = solver /\ stored' = stored /\ toHost' = toHost /\ client'.save = noSave
    BY <1>5 DEF Launches
  <2>3. \A i \in Sent' : toSolver'[i].type = "saveResult" => \E j \in Sent : toSolver'[i] = toSolver[j]
    BY <1>5, <2>1, <1>4 DEF Launches
  <2> QED BY <2>2, <2>3, <1>1, <1>2, <1>3 DEF InTime
<1>6. ASSUME NEW id \in RequestId, AsksToSave(id) PROVE InTime'
  <2> DEFINE l == [type |-> "requestSave", binding |-> client.binding, id |-> id]
  <2>1. l \in SolverMessage /\ l.type # "saveResult" /\ toSolver' = Append(toSolver, l)
    BY <1>6 DEF SolverMessage, AsksToSave
  <2> HIDE DEF l
  <2>2. solver' = solver /\ stored' = stored /\ toHost' = toHost /\ client'.save.id = id
        /\ client'.save.received = FALSE /\ id \notin requested
    BY <1>6 DEF AsksToSave
  <2>3. \A i \in Sent' : toSolver'[i].type = "saveResult" => \E j \in Sent : toSolver'[i] = toSolver[j]
    BY <2>1, <1>4
  <2>4. \A i \in Told : toHost[i].type = "saveRequest" => toHost[i].id # client'.save.id
    BY <2>2, <1>s DEF Names
  <2> QED BY <2>2, <2>3, <2>4, <1>1, <1>2, <1>3 DEF InTime
<1>7. ASSUME NEW status \in {"saved", "failed"}, AnswersSave(status) PROVE InTime'
  <2> DEFINE l == [type |-> "saveResult", binding |-> client.binding, id |-> client.save.id, status |-> status]
  <2>1. /\ l \in SolverMessage /\ l.binding = client.binding /\ l.status = status
        /\ toSolver' = Append(toSolver, l)
    BY <1>7 DEF SolverMessage, AnswersSave
  <2> HIDE DEF l
  <2>2. /\ Sent = {} /\ WaitsFor(client.binding, client.save.id) /\ client.save.id \in RequestId
        /\ Fits(client.binding, client.save.snapshot) /\ client.binding \in Binding
    BY <1>7 DEF AnswersSave, Saves, SavesInOrder, TakenAlone, InTime, SnapshotFits
  <2>3. \A i \in Sent' : toSolver'[i] = l
    BY <2>1, <2>2, <1>s, QueuePosted
  <2>4. /\ solver' = solver /\ toHost' = toHost /\ client'.save = noSave
        /\ status = "saved" => stored' = [stored EXCEPT ![client.binding] = client.save.snapshot]
        /\ status = "failed" => stored' = stored
    BY <1>7 DEF AnswersSave
  <2>5. RequestFits' /\ SnapshotFits'
    BY <2>4, <1>2, <1>3
  <2>6. OwnProjects'
    BY <2>2, <2>4, <1>s DEF InTime, OwnProjects, Fits
  <2>7. SavedMeansStored'
    <3> SUFFICES ASSUME machine.binding # None, ~dirty PROVE stored'[machine.binding] = solver.content
      BY <2>4 DEF SavedMeansStored, machine, dirty
    <3>0. stored[machine.binding] = solver.content /\ machine.binding \in Binding
      BY <1>s DEF InTime, SavedMeansStored, machine, Shapes, TypeInv, SolverType, State
    <3>1. CASE status = "saved" /\ machine.binding = client.binding
      <4>1. machine.phase = "saving"
        BY <2>2, <3>1, <1>s DEF WaitsFor, FrameShape
      <4>2. PICK entry \in solver.revs : solver.saved <= entry[2] /\ entry[2] <= solver.revision
        BY <4>1, <1>s DEF FrameShape
      <4>3. entry[2] \in Nat /\ solver.saved = solver.revision /\ solver.revision \in Nat
        BY <4>2, <1>s DEF Shapes, TypeInv, SolverType, dirty
      <4>4. client.save.snapshot = solver.content
        BY <2>2, <3>1, <4>2, <4>3 DEF Fits
      <4> QED BY <2>4, <3>0, <3>1, <4>4, <1>s
    <3>2. CASE ~(status = "saved" /\ machine.binding = client.binding)
      BY <2>4, <3>0, <3>2, <1>s
    <3> QED BY <3>1, <3>2
  <2>8. ResultFits'
    <3>1. ASSUME status = "saved" PROVE stored'[client.binding] = client.save.snapshot
      BY <2>2, <2>4, <3>1, <1>s
    <3> QED BY <2>1, <2>2, <2>3, <2>4, <3>1 DEF ResultFits, Fits, machine
  <2> QED BY <2>5, <2>6, <2>7, <2>8 DEF InTime
<1>8. ASSUME NEW message \in HostMessage, TakesSnapshot(message) PROVE InTime'
  <2>1. /\ message = toHost[1] /\ 1 \in Told /\ solver' = solver /\ stored' = stored /\ toSolver' = toSolver
        /\ \A i \in Told' : \E j \in Told : toHost'[i] = toHost[j]
    BY <1>8, <1>s, HostQueueRead DEF TakesSnapshot
  <2>2. OwnProjects' /\ SavedMeansStored' /\ ResultFits'
    BY <2>1, <1>1 DEF Sent
  <2>3. client'.binding = client.binding /\ client'.save.id = client.save.id
        /\ client'.save.snapshot = message.content
    BY <1>8 DEF TakesSnapshot
  <2>4. Fits(client.binding, message.content)
    BY <1>8, <2>1 DEF TakesSnapshot, InTime, RequestFits
  <2>5. RequestFits' /\ SnapshotFits'
    BY <2>1, <2>3, <2>4 DEF InTime, RequestFits, SnapshotFits, Fits, machine
  <2> QED BY <2>2, <2>5 DEF InTime
<1>9. ASSUME Relaunches PROVE InTime'
  <2>1. launchMessage(client) \in SolverMessage
    BY <1>9, <1>s, MessageShapes DEF Relaunches
  <2>2. launchMessage(client).type # "saveResult"
    BY DEF launchMessage
  <2>3. /\ toSolver' = Append(toSolver, launchMessage(client)) /\ solver' = solver /\ stored' = stored
        /\ client'.save = client.save /\ client'.binding = client.binding
    BY <1>9 DEF Relaunches
  <2>4. \A i \in Told' : \E j \in Told : toHost'[i] = toHost[j]
    BY <1>9, <1>3, <1>s, HostQueueRead DEF Relaunches
  <2>5. \A i \in Sent' : toSolver'[i].type = "saveResult" => \E j \in Sent : toSolver'[i] = toSolver[j]
    BY <2>1, <2>2, <2>3, <1>4
  <2> QED BY <2>3, <2>4, <2>5, <1>1, <1>2 DEF InTime
<1>10. ASSUME GivesUp \/ GivesUpSave \/ Disposes
              \/ \E message \in HostMessage : HostQuiet(message) /\ ~TakesSnapshot(message)
       PROVE  InTime'
  <2>1. /\ solver' = solver /\ stored' = stored /\ toSolver' = toSolver
        /\ (toHost' = toHost \/ \E message : HostReads(message))
    BY <1>10 DEF GivesUp, GivesUpSave, Disposes, HostQuiet, Activates, Learns, Fails, Overlooks
  <2>2. client'.save = noSave \/ (client'.save = client.save /\ client'.binding = client.binding)
    BY <1>10 DEF GivesUp, GivesUpSave, Disposes, HostQuiet, Activates, Learns, Fails, Overlooks, SameClient
  <2>3. \A i \in Told' : \E j \in Told : toHost'[i] = toHost[j]
    BY <2>1, <1>3, <1>s, HostQueueRead
  <2> QED BY <2>1, <2>2, <2>3, <1>1, <1>2 DEF InTime, Sent
<1> QED BY <1>5, <1>6, <1>7, <1>8, <1>9, <1>10, <1>s, HostCases DEF HostQuiet

LEMMA InTimeFrame ==
  ASSUME ~DeferredRender, Saves, AsLaunched, InTime, FrameStep, Next
  PROVE  InTime'
<1>s. /\ Shapes /\ Names /\ FrameShape /\ stored \in [Binding -> Content]
      /\ solver \in SolverType /\ machine \in State
      /\ None \notin RequestId /\ None \notin Binding
  BY NoneAssumption DEF Saves, Session, Shapes, TypeInv, SolverType, machine
<1>c. client' = client /\ stored' = stored
  BY <1>s, FrameCases DEF Mounted, Reload, LoseMessage, Edit, Rendered, SavedInFrame, FrameReceived, FrameReceivesOf
<1>w. \/ Mounted \/ Reload \/ LoseMessage \/ Edit \/ Rendered
      \/ \E id \in RequestId : SavedInFrame(id)
      \/ \E message \in SolverMessage : FrameReceived(message) /\ 1 \in Sent /\ message = toSolver[1] /\ Kept(1)
  BY <1>s, FrameCases, FirstOfQueue DEF FrameReceived
<1>p. \A c, content : StillFits(c, content) <=> Fits(c, content)'
  BY DEF StillFits, Fits, machine
<1>1. OwnProjects'
  BY <1>c DEF InTime, OwnProjects
<1>2. SavedMeansStored'
  <2> DEFINE Kind == solver'.machine.binding # None /\ solver'.saved = solver'.revision
                       => stored[solver'.machine.binding] = solver'.content
  <2> SUFFICES Kind
    BY <1>c DEF SavedMeansStored, dirty
  <2>k. machine.binding # None /\ solver.saved = solver.revision => stored[machine.binding] = solver.content
    BY DEF InTime, SavedMeansStored, dirty, machine
  <2>1. CASE Mounted \/ Reload
    BY <2>1 DEF Mounted, FrameMounts, Reload, initialSolver, createHostProtocolState
  <2>2. CASE LoseMessage
    BY <2>2, <2>k DEF LoseMessage, machine
  <2>3. CASE Edit
    <3>1. solver'.saved = solver.saved /\ solver'.revision = solver.revision + 1
          /\ solver.saved <= solver.revision /\ solver.saved \in Nat /\ solver.revision \in Nat
      BY <2>3, <1>s DEF Edit, SolverType, FrameShape
    <3> QED BY <3>1
  <2>4. CASE Rendered
    BY <2>4, <2>k DEF Rendered, FrameRenders, SameSession
  <2>5. ASSUME NEW id \in RequestId, SavedInFrame(id) PROVE Kind
    BY <2>5, <2>k DEF SavedInFrame, SaveStarts, SameSession, SameDocument
  <2>6. ASSUME NEW message \in SolverMessage, FrameReceived(message), 1 \in Sent, message = toSolver[1] PROVE Kind
    <3>1. CASE FrameRefuses(message)
      BY <3>1, <2>k DEF FrameRefuses, SameSession, SameDocument
    <3>2. CASE FrameConfirms(message) \/ FramePasses(message)
      BY <3>2, <2>k DEF FrameConfirms, FramePasses, machine
    <3>3. CASE FrameReplaces(message)
      BY <3>3, <2>6 DEF FrameReplaces, AsLaunched, LaunchStored
    <3>4. CASE FrameServes(message)
      BY <3>4, <2>k DEF FrameServes, SaveStarts, SameDocument
    <3>5. CASE FrameCompletes(message)
      <4>1. solver'.machine.binding = machine.binding /\ solver'.content = solver.content
            /\ solver'.revision = solver.revision
        BY <3>5 DEF FrameCompletes
      <4>2. CASE solver'.saved = solver.saved
        BY <4>1, <4>2, <2>k
      <4>3. CASE solver'.saved # solver.saved
        <5>1. /\ message.type = "saveResult" /\ message.status = "saved" /\ machine.binding = message.binding
              /\ \E entry \in solver.revs : entry[2] = solver.revision
          BY <3>5, <4>3 DEF FrameCompletes
        <5>2. Fits(message.binding, stored[message.binding])
          BY <5>1, <2>6 DEF InTime, ResultFits
        <5>3. stored[message.binding] = solver.content
          BY <5>1, <5>2 DEF Fits
        <5> QED BY <4>1, <5>1, <5>3
      <4> QED BY <4>2, <4>3
    <3> QED BY <2>6, <3>1, <3>2, <3>3, <3>4, <3>5 DEF FrameReceived
  <2> QED BY <1>w, <2>1, <2>2, <2>3, <2>4, <2>5, <2>6
<1>3. RequestFits'
  <2> SUFFICES ASSUME NEW i \in Told', toHost'[i].type = "saveRequest", toHost'[i].binding = client.binding,
                      toHost'[i].id = client.save.id
               PROVE  StillFits(client.binding, toHost'[i].content)
    BY <1>c DEF RequestFits, StillFits, Fits, machine
  <2>0. (\E j \in Told : toHost'[i] = toHost[j]) \/ News(toHost'[i])
    BY <1>s, HostMail DEF Names
  <2>i. toHost'[i] \in HostMessage /\ client.binding \in Binding /\ client.save.id \in RequestId
    <3>1. toHost'[i] \in HostMessage
      BY <1>s, FramePosts DEF Told
    <3> QED BY <3>1 DEF HostMessage
  <2>1. ASSUME NEW j \in Told, toHost'[i] = toHost[j]
        PROVE  StillFits(client.binding, toHost'[i].content)
    <3>1. Sent = {} /\ WaitsFor(client.binding, client.save.id)
      BY <2>1 DEF Saves, SavesInOrder, ServedAlone
    <3>2. Fits(client.binding, toHost[j].content)
      BY <2>1 DEF InTime, RequestFits
    <3> DEFINE content == toHost[j].content
    <3>3. Fits(client.binding, content)
      BY <3>2
    <3> HIDE DEF content
    <3>4. StillFits(client.binding, content)
      BY <3>1, <3>3, <2>i, <1>s, <1>w, FitsKept
    <3> QED BY <3>4, <2>1 DEF content
  <2>2. CASE News(toHost'[i])
    <3>1. /\ SaveStarts(client.save.id) /\ toHost'[i].binding = machine.binding
          /\ toHost'[i].content = solver.shown.content
      BY <2>2 DEF News
    <3>2. ASSUME NEW id \in RequestId, SavedInFrame(id) PROVE FALSE
      <4>1. solver'.machine.pending = client.save.id /\ machine.phase # "saving"
        BY <3>1 DEF SaveStarts
      <4>2. machine.pending = None
        BY <4>1, <1>s DEF FrameShape
      <4>3. solver'.machine.pending = id
        BY <3>2, <4>1, <4>2, <2>i, <1>s DEF SavedInFrame, SaveStarts, SameSession
      <4> QED BY <4>1, <4>3, <3>2, <1>s, <2>i DEF SavedInFrame, Names
    <3>3. ASSUME NEW message \in SolverMessage, FrameReceived(message)
          PROVE  StillFits(client.binding, toHost'[i].content)
      <4>1. solver.shown = current
        BY <3>3 DEF FrameReceived, FrameReceivesOf, renderPending
      <4>2. solver.shown.content = solver.content /\ solver'.content = solver.content
            /\ solver.content.doc = machine.binding
        BY <4>1, <3>1, <1>s DEF current, SaveStarts, SameDocument, FrameShape, OwnDocument
      <4> QED BY <4>2, <3>1 DEF StillFits
    <3>4. ~(Mounted \/ Reload \/ LoseMessage \/ Edit \/ Rendered)
      <4>0. machine.phase # "saving" /\ solver'.machine.phase = "saving"
        BY <3>1 DEF SaveStarts
      <4>1. ~Mounted /\ ~Reload
        BY <4>0 DEF Mounted, FrameMounts, Reload, initialSolver, createHostProtocolState
      <4>2. ~LoseMessage /\ ~Edit
        BY <4>0, <1>s DEF LoseMessage, Edit, SolverType, machine
      <4>3. ~Rendered
        BY <4>0 DEF Rendered, FrameRenders, SameSession
      <4> QED BY <4>1, <4>2, <4>3
    <3> QED BY <3>2, <3>3, <3>4, <1>w
  <2> QED BY <2>0, <2>1, <2>2
<1>4. SnapshotFits'
  <2> SUFFICES ASSUME client.save.received
               PROVE  StillFits(client.binding, client.save.snapshot)
    BY <1>c DEF SnapshotFits, StillFits, Fits, machine
  <2>1. Sent = {} /\ WaitsFor(client.binding, client.save.id) /\ Fits(client.binding, client.save.snapshot)
    BY DEF Saves, SavesInOrder, TakenAlone, InTime, SnapshotFits
  <2>2. client.binding \in Binding /\ client.save.id \in RequestId
    <3>1. client.save # noSave
      BY DEF noSave
    <3> QED BY <3>1, <1>s DEF Shapes, ClientShape, TypeInv, ClientType, SaveType, Active
  <2> DEFINE content == client.save.snapshot
  <2>3. Fits(client.binding, content)
    BY <2>1
  <2> HIDE DEF content
  <2>4. StillFits(client.binding, content)
    BY <2>1, <2>2, <2>3, <1>s, <1>w, FitsKept
  <2> QED BY <2>4 DEF content
<1>5. ResultFits'
  <2> SUFFICES ASSUME NEW i \in Sent', toSolver'[i].type = "saveResult", toSolver'[i].status = "saved"
               PROVE  StillFits(toSolver'[i].binding, stored[toSolver'[i].binding])
    BY <1>c DEF ResultFits, StillFits, Fits, machine
  <2>n. i \in Nat /\ i >= 1
    BY DEF Sent
  <2>1. ASSUME Kept(1), 1 \in Sent PROVE FALSE
    <3>1. i + 1 \in Sent /\ toSolver'[i] = toSolver[i + 1]
      BY <2>1 DEF Kept
    <3>2. i + 1 <= 1
      BY <3>1, <2>1 DEF Saves, SavesInOrder, AnsweredFirst
    <3> QED BY <3>2, <2>n
  <2>2. CASE LoseMessage
    <3>1. Kept(1) /\ Sent # {}
      BY <2>2, <1>s, QueueKept, NothingSent DEF LoseMessage
    <3>2. 1 \in Sent
      <4>1. Len(toSolver) \in Nat
        BY <1>s, LenProperties DEF Shapes, TypeInv
      <4> QED BY <3>1, <4>1 DEF Sent
    <3> QED BY <3>1, <3>2, <2>1
  <2>3. CASE Reload
    BY <2>3, EmptySeq DEF Reload, Sent
  <2>4. CASE Mounted \/ Edit \/ Rendered \/ \E id \in RequestId : SavedInFrame(id)
    <3>1. toSolver' = toSolver
      BY <2>4 DEF Mounted, Edit, Rendered, SavedInFrame
    <3>2. i \in Sent /\ toSolver'[i] = toSolver[i]
      BY <3>1 DEF Sent
    <3>3. WaitsFor(toSolver[i].binding, toSolver[i].id) /\ Fits(toSolver[i].binding, stored[toSolver[i].binding])
      BY <3>2 DEF Saves, SavesInOrder, AnsweredFirst, InTime, ResultFits
    <3> DEFINE b == toSolver[i].binding
               id == toSolver[i].id
               content == stored[toSolver[i].binding]
    <3>4. b \in Binding /\ id \in RequestId
      <4>1. toSolver[i] \in SolverMessage
        BY <3>2, <1>s DEF Shapes, TypeInv, Sent
      <4> QED BY <4>1, <3>2 DEF SolverMessage
    <3>5. WaitsFor(b, id) /\ Fits(b, content)
      BY <3>3
    <3> HIDE DEF b, id, content
    <3>6. StillFits(b, content)
      BY <2>4, <3>4, <3>5, <1>s, FitsKept
    <3> QED BY <3>2, <3>6 DEF b, content
  <2> QED BY <1>w, <2>1, <2>2, <2>3, <2>4
<1> QED BY <1>1, <1>2, <1>3, <1>4, <1>5 DEF InTime

Persisted == Saves /\ AsLaunched /\ (~DeferredRender => InTime)

LEMMA PersistedStep == Persisted /\ [Next]_vars => Persisted'
<1> SUFFICES ASSUME Persisted, [Next]_vars PROVE Persisted'
  OBVIOUS
<1>1. Saves' /\ Saves
  BY SavesStep DEF Persisted
<1>2. CASE Next
  <2>1. AsLaunched'
    BY <1>2, AsLaunchedKept DEF Persisted
  <2>2. DeferredRender' <=> DeferredRender
    BY <1>2, ConstantCircumstances DEF DeferredRender
  <2>3. ~DeferredRender => InTime'
    BY <1>2, InTimeHost, InTimeFrame DEF Persisted, Next, HostStep, FrameStep
  <2> QED BY <1>1, <2>1, <2>2, <2>3 DEF Persisted
<1>3. CASE UNCHANGED vars
  BY <1>1, <1>3 DEF vars, Persisted, DeferredRender, AsLaunched, LaunchingStored, UnusedStored, LaunchStored, InTime,
     OwnProjects, SavedMeansStored, RequestFits, SnapshotFits, ResultFits, Fits, dirty, Sent, Told, machine
<1> QED BY <1>2, <1>3

LEMMA PersistedAlways == Spec => []Persisted
<1>1. Init => Persisted
  <2> SUFFICES ASSUME Init PROVE Persisted
    OBVIOUS
  <2>1. client.launching = FALSE /\ client.save.received = FALSE /\ machine.phase = "bootstrap"
        /\ machine.binding = None
    BY DEF Init, initialClient, noSave, initialSolver, createHostProtocolState, machine
  <2>2. Sent = {} /\ Told = {}
    BY EmptySeq DEF Init, Sent, Told
  <2>3. \A c \in Binding : stored[c] = Loaded(c) /\ stored[c].doc = c
    BY DEF Init, Loaded
  <2>4. AsLaunched
    BY <2>1, <2>2, <2>3 DEF AsLaunched, LaunchingStored, UnusedStored, LaunchStored
  <2>5. InTime
    BY <2>1, <2>2, <2>3 DEF InTime, OwnProjects, SavedMeansStored, RequestFits, SnapshotFits, ResultFits, machine
  <2>6. SavesInOrder
    BY <2>1, <2>2 DEF SavesInOrder, LaunchedUnsaved, LaunchesFirst, AskedLast, ServedAlone, TakenAlone,
       AnsweredFirst, SavingShown
  <2> QED BY <2>4, <2>5, <2>6, InitSession DEF Persisted, Saves
<1> QED BY <1>1, PersistedStep, PTL DEF Spec

(* StoredInTime: when every change is rendered before the next message is
   handled, a project shown as saved is what the host has stored, whatever
   was edited, retried, timed out or lost while the save was under way. *)
THEOREM SavedIsStored == Spec => []StoredInTime
<1>1. Persisted => StoredInTime
  BY DEF Persisted, InTime, OwnProjects, StoredInTime
<1> QED BY <1>1, PersistedAlways, PTL
----------------------------------------------------------------------------
(* What the frame last rendered of a session is announced: to a client that
   launches it, a ready is under way; to one that follows its edits, the last
   change under way is what was rendered, behind that ready, or no change is
   under way and the client has seen it. *)
Shown == solver.shown.binding # None /\ solver.shown.binding = client.binding
IsReady(i) == toHost[i].type = "ready" /\ toHost[i].binding = client.binding
IsChange(i) == toHost[i].type = "projectChanged" /\ toHost[i].binding = client.binding

ReadyAhead == Shown /\ client.launching => \E i \in Told : IsReady(i)

Followed ==
  /\ Shown /\ solver.shown.dirty /\ client.mode = "editable"
  /\ client.launching \/ client.phase \in {"active-editable", "saving"}
UnderWay(content) ==
  \E i \in Told :
    /\ IsChange(i) /\ toHost[i].content = content
    /\ \A j \in Told : i < j => ~IsChange(j)
    /\ client.launching => \E k \in Told : k < i /\ IsReady(k)
Noted(content) ==
  /\ ~client.launching /\ (\A j \in Told : ~IsChange(j))
  /\ seen[client.binding] = content
EditsAhead == Followed => UnderWay(solver.shown.content) \/ Noted(solver.shown.content)

(* The client reads a message that is not the last change. *)
LEMMA ChangeStays ==
  ASSUME Shapes, NEW message, HostReads(message), NEW content, UnderWay(content),
         client'.binding = client.binding, client'.launching => client.launching,
         message.type = "projectChanged" /\ message.binding = client.binding => client.launching,
         client'.launching => ~(message.type = "ready" /\ message.binding = client.binding)
  PROVE  UnderWay(content)'
<1>1. /\ message = toHost[1] /\ Len(toHost) \in Nat /\ Len(toHost') = Len(toHost) - 1
      /\ \A i \in Told' : i + 1 \in Told /\ toHost'[i] = toHost[i + 1]
  BY HostQueueRead
<1>2. PICK i \in Told :
        /\ IsChange(i) /\ toHost[i].content = content
        /\ \A j \in Told : i < j => ~IsChange(j)
        /\ client.launching => \E k \in Told : k < i /\ IsReady(k)
  BY DEF UnderWay
<1>3. Told \subseteq Nat /\ Told' \subseteq Nat /\ \A j \in Told : j # 1 => j - 1 \in Told' /\ (j - 1) + 1 = j
  BY <1>1 DEF Told
<1>4. i # 1
  <2>1. \A k \in Told : ~(k < 1)
    BY DEF Told
  <2> QED BY <2>1, <1>1, <1>2 DEF IsChange
<1>5. i - 1 \in Told' /\ toHost'[i - 1] = toHost[i]
  BY <1>1, <1>3, <1>4
<1>6. ASSUME NEW j \in Told', i - 1 < j PROVE ~IsChange(j)'
  <2>1. j + 1 \in Told /\ i < j + 1 /\ toHost'[j] = toHost[j + 1]
    BY <1>1, <1>3, <1>6
  <2> QED BY <2>1, <1>2 DEF IsChange
<1>7. ASSUME client'.launching PROVE \E k \in Told' : k < i - 1 /\ IsReady(k)'
  <2>1. PICK k \in Told : k < i /\ IsReady(k)
    BY <1>2, <1>7
  <2>2. k # 1
    BY <2>1, <1>1, <1>7 DEF IsReady
  <2>3. k - 1 \in Told' /\ k - 1 < i - 1 /\ toHost'[k - 1] = toHost[k]
    BY <2>1, <2>2, <1>1, <1>3
  <2>4. IsReady(k - 1)'
    BY <2>1, <2>3 DEF IsReady
  <2> QED BY <2>3, <2>4
<1>8. IsChange(i - 1)' /\ toHost'[i - 1].content = content
  BY <1>2, <1>5 DEF IsChange
<1> QED BY <1>5, <1>6, <1>7, <1>8 DEF UnderWay

Announced == ReadyAhead /\ EditsAhead

(* The client reads a message of no concern to what it follows. *)
LEMMA AnnouncedRead ==
  ASSUME Shapes, Announced, NEW message, HostReads(message), solver' = solver, seen' = seen,
         client'.binding = client.binding, client'.mode = client.mode,
         client'.launching => client.launching,
         Followed' => Followed,
         Followed' /\ message.type = "projectChanged" /\ message.binding = client.binding => client.launching,
         client'.launching => ~(message.type = "ready" /\ message.binding = client.binding),
         client.launching /\ ~client'.launching => message.type = "ready"
  PROVE  Announced'
<1>1. /\ message = toHost[1] /\ Len(toHost) \in Nat /\ Len(toHost') = Len(toHost) - 1
      /\ \A i \in Told' : i + 1 \in Told /\ toHost'[i] = toHost[i + 1]
  BY HostQueueRead
<1>2. ReadyAhead'
  <2> SUFFICES ASSUME Shown, client'.launching PROVE \E i \in Told' : IsReady(i)'
    BY DEF ReadyAhead, Shown
  <2>1. PICK i \in Told : IsReady(i)
    BY DEF Announced, ReadyAhead
  <2>2. i # 1
    BY <2>1, <1>1 DEF IsReady
  <2>3. i - 1 \in Told' /\ (i - 1) + 1 = i
    BY <2>1, <2>2, <1>1 DEF Told
  <2>4. toHost'[i - 1] = toHost[i]
    BY <2>3, <1>1
  <2> QED BY <2>1, <2>3, <2>4 DEF IsReady
<1>3. EditsAhead'
  <2> SUFFICES ASSUME Followed' PROVE (UnderWay(solver.shown.content) \/ Noted(solver.shown.content))'
    BY DEF EditsAhead
  <2> DEFINE content == solver.shown.content
  <2>1. UnderWay(content) \/ Noted(content)
    BY DEF Announced, EditsAhead
  <2>2. CASE Noted(content)
    <3>1. \A j \in Told' : ~IsChange(j)'
      BY <2>2, <1>1 DEF Noted, IsChange
    <3> QED BY <2>2, <3>1 DEF Noted
  <2>3. CASE UnderWay(content)
    <3> HIDE DEF content
    <3>1. UnderWay(content)'
      <4> DEFINE c == content
      <4>0. UnderWay(c)
        BY <2>3
      <4>1. content' = content
        BY DEF content
      <4> HIDE DEF c
      <4>2. ASSUME NEW d, UnderWay(d) PROVE UnderWay(d)'
        BY <4>2, ChangeStays
      <4>3. \A d : UnderWay(d) => UnderWay(d)'
        BY <4>2
      <4> QED BY <2>3, <4>1, <4>3 DEF UnderWay
    <3> QED BY <3>1 DEF content
  <2> QED BY <2>1, <2>2, <2>3
<1> QED BY <1>2, <1>3 DEF Announced

(* Nothing is read, and nothing posted but what tells of no change. *)
LEMMA AnnouncedRests ==
  ASSUME Shapes, Announced, solver'.shown = solver.shown, seen' = seen,
         client'.binding = client.binding, client'.mode = client.mode, client'.launching => client.launching,
         Followed' => Followed /\ client'.launching = client.launching,
         toHost' = toHost \/ (\E m \in HostMessage : m.type # "projectChanged" /\ toHost' = Append(toHost, m))
  PROVE  Announced'
<1>1. /\ \A i \in Told : i \in Told' /\ toHost'[i] = toHost[i]
      /\ \A i \in Told' : (i \in Told /\ toHost'[i] = toHost[i]) \/ toHost'[i].type # "projectChanged"
  <2>1. CASE toHost' = toHost
    BY <2>1 DEF Told
  <2>2. ASSUME NEW m \in HostMessage, m.type # "projectChanged", toHost' = Append(toHost, m)
        PROVE  /\ \A i \in Told : i \in Told' /\ toHost'[i] = toHost[i]
               /\ \A i \in Told' : (i \in Told /\ toHost'[i] = toHost[i]) \/ toHost'[i].type # "projectChanged"
    BY <2>2, HostQueuePosted
  <2> QED BY <2>1, <2>2
<1>2. ReadyAhead'
  BY <1>1 DEF Announced, ReadyAhead, Shown, IsReady
<1>3. EditsAhead'
  <2> SUFFICES ASSUME Followed' PROVE (UnderWay(solver.shown.content) \/ Noted(solver.shown.content))'
    BY DEF EditsAhead
  <2>1. CASE Noted(solver.shown.content)
    BY <1>1, <2>1 DEF Noted, IsChange
  <2>2. CASE UnderWay(solver.shown.content)
    <3>1. PICK i \in Told :
            /\ IsChange(i) /\ toHost[i].content = solver.shown.content
            /\ \A j \in Told : i < j => ~IsChange(j)
            /\ client.launching => \E k \in Told : k < i /\ IsReady(k)
      BY <2>2 DEF UnderWay
    <3>2. i \in Told' /\ IsChange(i)' /\ toHost'[i].content = solver.shown.content
      BY <3>1, <1>1 DEF IsChange
    <3>3. \A j \in Told' : i < j => ~IsChange(j)'
      BY <3>1, <1>1 DEF IsChange
    <3>4. client'.launching => \E k \in Told' : k < i /\ IsReady(k)'
      BY <3>1, <1>1 DEF IsReady
    <3> QED BY <3>2, <3>3, <3>4 DEF UnderWay
  <2> QED BY <2>1, <2>2 DEF Announced, EditsAhead
<1> QED BY <1>2, <1>3 DEF Announced

LEMMA AnnouncedHost ==
  ASSUME Session, Announced, HostStep
  PROVE  Announced'
<1>s. Shapes /\ Names /\ ClientShape /\ None \notin Binding /\ seen \in [Binding -> Content]
  BY NoneAssumption DEF Session, Shapes, TypeInv
<1>0. ~Shown' => Announced'
  BY DEF Announced, ReadyAhead, EditsAhead, Followed
<1>1. ASSUME NEW b \in Binding, NEW m \in Mode, Launches(b, m) PROVE Announced'
  <2>1. solver' = solver /\ client'.binding = b /\ b \notin launched
    BY <1>1 DEF Launches
  <2> QED BY <2>1, <1>0, <1>s DEF Shown, Names
<1>2. CASE Disposes
  BY <1>2, <1>0 DEF Disposes, Shown
<1>3. ASSUME GivesUp \/ GivesUpSave \/ (\E id \in RequestId : AsksToSave(id))
             \/ \E status \in {"saved", "failed"} : AnswersSave(status)
      PROVE  Announced'
  <2>1. /\ solver' = solver /\ seen' = seen /\ toHost' = toHost /\ client'.binding = client.binding
        /\ client'.mode = client.mode /\ client'.launching = FALSE
    BY <1>3 DEF GivesUp, GivesUpSave, AsksToSave, AnswersSave
  <2>2. client'.phase \in {"active-editable", "saving"} => client.phase \in {"active-editable", "saving"}
    BY <1>3 DEF GivesUp, GivesUpSave, AsksToSave, AnswersSave
  <2>3. client.phase \in {"active-editable", "saving"} => client.launching = FALSE
    BY <1>s DEF ClientShape, Shapes, TypeInv, ClientType
  <2> QED BY <2>1, <2>2, <2>3, <1>s, AnnouncedRests DEF Followed, Shown
<1>4. CASE Relaunches
  <2>1. /\ solver' = solver /\ seen' = seen /\ client'.binding = client.binding
        /\ client'.mode = client.mode /\ client'.launching = TRUE /\ client.launching = TRUE
        /\ client.binding # None
    BY <1>4, <1>s DEF Relaunches, ClientShape, Shapes, TypeInv, ClientType
  <2>2. Followed' => Followed
    BY <2>1 DEF Followed, Shown
  <2>3. CASE toHost' = toHost
    BY <2>1, <2>2, <2>3, <1>s, AnnouncedRests
  <2>4. ASSUME NEW message, HostReads(message), message.type = "ready", message.binding = None
        PROVE  Announced'
    BY <2>1, <2>2, <2>4, <1>s, AnnouncedRead
  <2> QED BY <2>3, <2>4, <1>4 DEF Relaunches
<1>5. ASSUME NEW message \in HostMessage, Activates(message) PROVE Announced'
  <2>1. /\ HostReads(message) /\ message.type = "ready" /\ solver' = solver /\ seen' = seen
        /\ client'.binding = client.binding /\ client'.mode = client.mode
        /\ client'.launching = FALSE /\ client.launching
    BY <1>5 DEF Activates
  <2>2. Followed' => Followed
    BY <2>1 DEF Followed, Shown
  <2> QED BY <2>1, <2>2, <1>s, AnnouncedRead
<1>6. ASSUME NEW message \in HostMessage, TakesSnapshot(message) \/ Overlooks(message) PROVE Announced'
  <2>1. /\ HostReads(message) /\ solver' = solver /\ seen' = seen
        /\ client'.binding = client.binding /\ client'.mode = client.mode
        /\ client'.launching = client.launching /\ client'.phase = client.phase
    BY <1>6 DEF TakesSnapshot, Overlooks, SameClient
  <2>2. Followed' => Followed
    BY <2>1 DEF Followed, Shown
  <2>3. Followed' /\ message.type = "projectChanged" /\ message.binding = client.binding => client.launching
    BY <1>6, <2>1 DEF TakesSnapshot, Overlooks, Followed
  <2>4. client.launching => ~(message.type = "ready" /\ message.binding = client.binding)
    BY <1>6 DEF TakesSnapshot, Overlooks
  <2> QED BY <2>1, <2>2, <2>3, <2>4, <1>s, AnnouncedRead
<1>7. ASSUME NEW message \in HostMessage, Fails(message) PROVE Announced'
  <2>1. client'.launching = FALSE /\ client'.phase = "error"
    BY <1>7 DEF Fails
  <2> QED BY <2>1 DEF Announced, ReadyAhead, EditsAhead, Followed
<1>8. ASSUME NEW message \in HostMessage, Learns(message) PROVE Announced'
  <2>1. /\ HostReads(message) /\ solver' = solver /\ client' = client
        /\ message.type = "projectChanged" /\ message.binding = client.binding
        /\ client.phase \in {"active-editable", "saving"}
        /\ seen' = [seen EXCEPT ![client.binding] = message.content]
    BY <1>8 DEF Learns
  <2>2. client.launching = FALSE /\ client.binding \in Binding
    BY <2>1, <1>s DEF ClientShape, Active, Shapes, TypeInv, ClientType
  <2>3. /\ message = toHost[1] /\ 1 \in Told /\ Len(toHost) \in Nat /\ Len(toHost') = Len(toHost) - 1
        /\ \A i \in Told' : i + 1 \in Told /\ toHost'[i] = toHost[i + 1]
    BY <2>1, <1>s, HostQueueRead
  <2>4. EditsAhead'
    <3> SUFFICES ASSUME Followed PROVE (UnderWay(solver.shown.content) \/ Noted(solver.shown.content))'
      BY <2>1 DEF EditsAhead, Followed, Shown
    <3>1. PICK i \in Told :
            /\ IsChange(i) /\ toHost[i].content = solver.shown.content
            /\ \A j \in Told : i < j => ~IsChange(j)
      <4>1. ~Noted(solver.shown.content)
        BY <2>1, <2>3 DEF Noted, IsChange
      <4> QED BY <4>1 DEF Announced, EditsAhead, UnderWay
    <3>2. CASE i = 1
      <4>1. \A j \in Told' : ~IsChange(j)'
        <5> SUFFICES ASSUME NEW j \in Told' PROVE ~IsChange(j)'
          OBVIOUS
        <5>1. j + 1 \in Told /\ i < j + 1 /\ toHost'[j] = toHost[j + 1]
          BY <2>3, <3>2 DEF Told
        <5> QED BY <5>1, <3>1, <2>1 DEF IsChange
      <4>2. seen'[client.binding] = solver.shown.content
        BY <2>1, <2>2, <2>3, <3>1, <3>2, <1>s
      <4> QED BY <4>1, <4>2, <2>1, <2>2 DEF Noted
    <3>3. CASE i # 1
      <4>1. i - 1 \in Told' /\ toHost'[i - 1] = toHost[i]
        <5>1. i - 1 \in Told' /\ (i - 1) + 1 = i
          BY <3>3, <2>3 DEF Told
        <5> QED BY <5>1, <2>3
      <4>2. ASSUME NEW j \in Told', i - 1 < j PROVE ~IsChange(j)'
        <5>1. j + 1 \in Told /\ i < j + 1 /\ toHost'[j] = toHost[j + 1]
          BY <2>3, <4>2 DEF Told
        <5> QED BY <5>1, <3>1, <2>1 DEF IsChange
      <4>3. IsChange(i - 1)' /\ toHost'[i - 1].content = solver.shown.content
        BY <4>1, <3>1, <2>1 DEF IsChange
      <4> QED BY <4>1, <4>2, <4>3, <2>1, <2>2 DEF UnderWay
    <3> QED BY <3>2, <3>3
  <2> QED BY <2>1, <2>2, <2>4 DEF Announced, ReadyAhead
<1> QED BY <1>1, <1>2, <1>3, <1>4, <1>5, <1>6, <1>7, <1>8, <1>s, HostCases DEF HostQuiet

LEMMA AnnouncedFrame ==
  ASSUME Session, Announced, FrameStep
  PROVE  Announced'
<1>s. /\ Shapes /\ FrameShape /\ OneMode /\ TypeInv /\ machine \in State /\ ClientShape
      /\ None \notin Binding /\ toHost \in Seq(HostMessage)
  BY NoneAssumption DEF Session, Shapes, TypeInv, SolverType, machine
<1>c. client' = client /\ seen' = seen
  BY <1>s, FrameCases DEF Mounted, Reload, LoseMessage, Edit, Rendered, SavedInFrame, FrameReceived, FrameReceivesOf
<1>r. ASSUME solver'.shown = solver.shown,
             toHost' = toHost \/ (\E m \in HostMessage : m.type # "projectChanged" /\ toHost' = Append(toHost, m))
      PROVE  Announced'
  <2>1. Followed' => Followed
    BY <1>c, <1>r DEF Followed, Shown
  <2> QED BY <1>c, <1>r, <1>s, <2>1, AnnouncedRests
<1>1. CASE Mounted \/ Reload
  <2>1. solver'.shown.binding = None
    BY <1>1 DEF Mounted, FrameMounts, Reload, initialSolver
  <2> QED BY <2>1 DEF Announced, ReadyAhead, EditsAhead, Followed, Shown
<1>2. CASE LoseMessage \/ Edit
  <2>1. solver'.shown = solver.shown /\ toHost' = toHost
    BY <1>2, <1>s DEF LoseMessage, Edit, TypeInv, SolverType
  <2> QED BY <2>1, <1>r
<1>3. CASE Rendered
  <2> DEFINE r == readyMessage(machine.binding)
  <2>1. /\ solver'.shown.binding = machine.binding /\ solver'.shown.content = solver.content
        /\ solver'.shown.dirty = dirty
    BY <1>3 DEF Rendered, FrameRenders, current, machine
  <2>2. newSession => r \in HostMessage /\ r.type = "ready" /\ r.binding = machine.binding
    <3>1. machine.binding \in Binding \cup {None}
      BY <1>s DEF State
    <3> QED BY <3>1, <1>s, MessageShapes DEF readyMessage
  <2>3. /\ newSession /\ tells => toHost' = Append(Append(toHost, r), changeMessage)
        /\ newSession /\ ~tells => toHost' = Append(toHost, r)
        /\ ~newSession /\ tells => toHost' = Append(toHost, changeMessage)
        /\ ~newSession /\ ~tells => toHost' = toHost
    BY <1>3 DEF Rendered, FrameRenders
  <2> HIDE DEF r
  <2>4. tells => changeMessage \in HostMessage
    BY <1>s, MessageShapes
  (* What there was to read is still there, and a new session's ready is. *)
  <2> DEFINE announcedTo == IF newSession THEN Append(toHost, r) ELSE toHost
  <2>5. /\ announcedTo \in Seq(HostMessage) /\ Len(announcedTo) \in Nat
        /\ \A i \in Told : i \in 1..Len(announcedTo) /\ announcedTo[i] = toHost[i]
        /\ newSession => \E i \in 1..Len(announcedTo) : announcedTo[i] = r
    <3>1. CASE newSession
      <4>1. /\ announcedTo \in Seq(HostMessage) /\ Len(toHost) \in Nat /\ Len(announcedTo) = Len(toHost) + 1
            /\ \A i \in 1..Len(toHost) : announcedTo[i] = toHost[i]
            /\ announcedTo[Len(toHost) + 1] = r
        BY <3>1, <2>2, <1>s, AppendAt
      <4>2. Len(toHost) + 1 \in 1..Len(announcedTo)
        BY <4>1
      <4>3. \A i \in Told : i \in 1..Len(announcedTo)
        BY <4>1 DEF Told
      <4> HIDE DEF announcedTo
      <4> QED BY <4>1, <4>2, <4>3 DEF Told
    <3>2. CASE ~newSession
      BY <3>2, <1>s, LenProperties DEF Told
    <3> QED BY <3>1, <3>2
  <2>6. /\ tells => toHost' = Append(announcedTo, changeMessage)
        /\ ~tells => toHost' = announcedTo
    BY <2>3
  <2> HIDE DEF announcedTo
  <2>7. Shown' /\ client.launching => \E i \in 1..Len(announcedTo) :
          announcedTo[i].type = "ready" /\ announcedTo[i].binding = client.binding
    <3> SUFFICES ASSUME Shown', client.launching
                 PROVE  \E i \in 1..Len(announcedTo) :
                          announcedTo[i].type = "ready" /\ announcedTo[i].binding = client.binding
      OBVIOUS
    <3>1. machine.binding = client.binding /\ machine.binding # None
      BY <2>1, <1>c DEF Shown
    <3>2. CASE newSession
      BY <3>1, <3>2, <2>2, <2>5
    <3>3. CASE ~newSession
      <4>1. Shown
        BY <3>1, <3>3 DEF Shown, newSession
      <4>2. PICK i \in Told : IsReady(i)
        BY <4>1 DEF Announced, ReadyAhead
      <4> QED BY <4>2, <2>5 DEF IsReady
    <3> QED BY <3>2, <3>3
  <2>8. tells => /\ Told' = 1..(Len(announcedTo) + 1) /\ Len(announcedTo) \in Nat
                 /\ \A i \in 1..Len(announcedTo) : toHost'[i] = announcedTo[i]
                 /\ toHost'[Len(announcedTo) + 1] = changeMessage
    BY <2>4, <2>5, <2>6, AppendAt DEF Told
  <2>9. ReadyAhead'
    <3> SUFFICES ASSUME Shown', client.launching PROVE \E i \in Told' : IsReady(i)'
      BY <1>c DEF ReadyAhead
    <3>1. PICK i \in 1..Len(announcedTo) : announcedTo[i].type = "ready" /\ announcedTo[i].binding = client.binding
      BY <2>7
    <3>2. CASE tells
      <4>1. i \in Told' /\ toHost'[i] = announcedTo[i]
        BY <3>2, <2>8
      <4> QED BY <4>1, <3>1, <1>c DEF IsReady
    <3>3. CASE ~tells
      <4>1. i \in Told' /\ toHost'[i] = announcedTo[i]
        BY <3>3, <2>6 DEF Told
      <4> QED BY <4>1, <3>1, <1>c DEF IsReady
    <3> QED BY <3>2, <3>3
  <2>10. EditsAhead'
    <3> SUFFICES ASSUME Followed' PROVE UnderWay(solver.shown.content)'
      BY DEF EditsAhead
    <3>1. /\ machine.binding = client.binding /\ machine.binding # None /\ dirty /\ client.mode = "editable"
          /\ Shown' /\ machine.binding \in Binding
      BY <2>1, <1>c, <1>s DEF Followed, Shown, State
    <3>2. machine.mode = "editable"
      BY <3>1, <1>s DEF OneMode, Agree
    <3>3. tells
      <4>1. machine.phase \in {"bootstrap", "negotiating", "active-editable", "active-readonly", "saving", "closed"}
        BY <1>s DEF State, Phase
      <4>2. machine.phase \notin {"bootstrap", "negotiating", "active-readonly", "closed"}
        BY <3>1, <3>2, <1>s DEF FrameShape
      <4> QED BY <3>1, <4>1, <4>2 DEF tells
    <3>n. PICK n \in Nat : n = Len(announcedTo) + 1
      BY <2>5
    <3>4. n \in Told' /\ toHost'[n] = changeMessage /\ n \in Nat
      BY <3>3, <3>n, <2>8
    <3>5. IsChange(n)' /\ toHost'[n].content = solver'.shown.content
      BY <3>1, <3>4, <2>1, <1>c DEF IsChange, changeMessage
    <3>6. \A j \in Told' : ~(n < j)
      BY <3>3, <3>n, <2>8
    <3>7. client.launching => \E k \in Told' : k < n /\ IsReady(k)'
      <4> SUFFICES ASSUME client.launching PROVE \E k \in Told' : k < n /\ IsReady(k)'
        OBVIOUS
      <4>1. PICK i \in 1..Len(announcedTo) : announcedTo[i].type = "ready" /\ announcedTo[i].binding = client.binding
        BY <2>7, <3>1
      <4>2. i \in Told' /\ toHost'[i] = announcedTo[i] /\ i < n
        BY <3>3, <3>n, <2>8
      <4> QED BY <4>1, <4>2, <1>c DEF IsReady
    <3> QED BY <3>4, <3>5, <3>6, <3>7, <1>c DEF UnderWay
  <2> QED BY <2>9, <2>10 DEF Announced
<1>4. ASSUME NEW id \in RequestId, SaveStarts(id), machine.binding # None PROVE Announced'
  <2>1. saveRequestMessage(id) \in HostMessage
    BY <1>4, <1>s, MessageShapes DEF SaveStarts
  <2>2. saveRequestMessage(id).type # "projectChanged"
    BY DEF saveRequestMessage
  <2> QED BY <1>4, <1>r, <2>1, <2>2 DEF SaveStarts, SameDocument
<1>5. ASSUME NEW id \in RequestId, SavedInFrame(id) PROVE Announced'
  BY <1>4, <1>5, <1>r DEF SavedInFrame, SameDocument
<1>6. ASSUME NEW message \in SolverMessage, FrameReceived(message) PROVE Announced'
  <2>0. message.binding \in Binding
    BY DEF SolverMessage
  <2>1. CASE FrameRefuses(message)
    <3>1. errorMessage(message) \in HostMessage
      BY <2>1, <1>s, MessageShapes DEF FrameRefuses
    <3>2. errorMessage(message).type # "projectChanged"
      BY DEF errorMessage
    <3> QED BY <2>1, <3>1, <3>2, <1>r DEF FrameRefuses, SameDocument
  <2>2. CASE FrameConfirms(message)
    <3>1. readyMessage(message.binding) \in HostMessage
      BY <2>0, <1>s, MessageShapes
    <3>2. readyMessage(message.binding).type # "projectChanged"
      BY DEF readyMessage
    <3> QED BY <2>2, <3>1, <3>2, <1>r DEF FrameConfirms
  <2>3. CASE FrameServes(message)
    <3>1. message.id \in RequestId /\ SaveStarts(message.id) /\ machine.binding # None
      BY <2>0, <2>3, <1>s DEF FrameServes, SolverMessage
    <3> QED BY <3>1, <1>4
  <2>4. CASE FrameReplaces(message) \/ FrameCompletes(message) \/ FramePasses(message)
    BY <2>4, <1>r DEF FrameReplaces, FrameCompletes, FramePasses
  <2> QED BY <1>6, <2>1, <2>2, <2>3, <2>4 DEF FrameReceived
<1> QED BY <1>1, <1>2, <1>3, <1>5, <1>6, <1>s, FrameCases

LEMMA AnnouncedAlways == Spec => [](Session /\ Announced)
<1>1. Init => Session /\ Announced
  <2> SUFFICES ASSUME Init PROVE Announced
    BY InitSession
  <2>1. solver.shown.binding = None
    BY DEF Init, initialSolver
  <2> QED BY <2>1 DEF Announced, ReadyAhead, EditsAhead, Followed, Shown
<1>2. ASSUME Session /\ Announced, [Next]_vars PROVE (Session /\ Announced)'
  <2>1. Session'
    BY <1>2, SessionStep
  <2>2. CASE Next
    BY <1>2, <2>1, <2>2, AnnouncedHost, AnnouncedFrame DEF Next, HostStep, FrameStep
  <2>3. CASE UNCHANGED vars
    BY <1>2, <2>1, <2>3 DEF vars, Announced, ReadyAhead, EditsAhead, Followed, UnderWay, Noted, Shown, IsReady,
       IsChange, Told
  <2> QED BY <1>2, <2>2, <2>3
<1> QED BY <1>1, <1>2, PTL DEF Spec

(* HostSeesEdits: when nothing is left to read or to render, the client has
   seen the edits of its active session as they are. *)
THEOREM EditsAreSeen == Spec => []HostSeesEdits
<1>1. ASSUME Session, Announced PROVE HostSeesEdits
  <2> SUFFICES ASSUME toHost = <<>>, solver.mounted, ~renderPending, dirty,
                      client.phase \in {"active-editable", "saving"}, solver.machine.binding = client.binding
               PROVE  seen[client.binding] = solver.content
    BY DEF HostSeesEdits
  <2>1. client.binding # None /\ client.mode = "editable"
    BY <1>1 DEF Session, Shapes, ClientShape, Active
  <2>2. solver.shown.binding = client.binding /\ solver.shown.content = solver.content
        /\ solver.shown.dirty
    <3>1. solver.shown = current
      BY DEF renderPending
    <3>2. current.binding = client.binding /\ current.content = solver.content /\ current.dirty = (solver.saved # solver.revision)
      BY DEF current, dirty
    <3> QED BY <3>1, <3>2 DEF dirty
  <2>3. Followed
    BY <2>1, <2>2 DEF Followed, Shown
  <2>4. ~UnderWay(solver.shown.content)
    <3>1. Told = {}
      BY EmptySeq DEF Told
    <3> QED BY <3>1 DEF UnderWay
  <2> QED BY <1>1, <2>2, <2>3, <2>4 DEF Announced, EditsAhead, Noted
<1> QED BY <1>1, AnnouncedAlways, PTL
=============================================================================
