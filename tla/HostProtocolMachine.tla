------------------------- MODULE HostProtocolMachine -------------------------
(***************************************************************************)
(* The solver's side of Host Protocol 1.0 as a function from a state and   *)
(* an event to the next state: frontend/src/lib/host-protocol-machine.ts.  *)
(* A binding stands for the pair of sessionId and nonce; None is the null  *)
(* of the code and, in an event, a blank field.                            *)
(***************************************************************************)
CONSTANTS
  Binding,      \* pairs of sessionId and nonce
  RequestId,    \* identifiers of save requests
  None          \* null, or a field left blank

Mode == {"editable", "readonly"}

ASSUME NoneAssumption == None \notin Binding \cup RequestId \cup Mode

Phase == {"bootstrap", "negotiating", "active-editable", "active-readonly", "saving", "closed"}
Condition == {"healthy", "error", "invalid", "closed"}
IssueCode ==
  {"session-closed", "invalid-session-binding", "session-binding-mismatch",
   "session-binding-reused", "session-not-active", "readonly-operation",
   "invalid-request-id", "duplicate-save-request", "save-in-progress", "stale-save-result"}

State == [phase: Phase, condition: Condition, binding: Binding \cup {None},
          mode: Mode \cup {None}, pending: RequestId \cup {None},
          lastIssue: IssueCode \cup {None}]

createHostProtocolState ==
  [phase |-> "bootstrap", condition |-> "healthy", binding |-> None, mode |-> None,
   pending |-> None, lastIssue |-> None]

Event ==
  [type: {"announce-ready", "close"}]
  \cup [type: {"launch"}, binding: Binding \cup {None}, mode: Mode]
  \cup [type: {"request-save", "save-result"}, binding: Binding \cup {None},
        id: RequestId \cup {None}]
  \cup [type: {"project-changed"}, binding: Binding \cup {None}]

----------------------------------------------------------------------------
accepted(state) == [accepted |-> TRUE, idempotent |-> FALSE, state |-> state]
unchanged(state) == [accepted |-> TRUE, idempotent |-> TRUE, state |-> state]

(* A rejection is noted in the state and changes nothing else of it. *)
rejected(state, code, condition) ==
  [accepted |-> FALSE, idempotent |-> FALSE,
   state |-> IF state.phase = "closed" THEN state
             ELSE [state EXCEPT !.condition = condition, !.lastIssue = code]]

healthy(state) == [state EXCEPT !.condition = "healthy", !.lastIssue = None]
bindingMatches(state, event) == state.binding = event.binding

(* A request with a blank identifier is refused. *)
HasRequestId(event) == event.id # None

IsClosed(state, event) == event.type # "close" /\ state.phase = "closed"

onClose(state) ==
  IF state.phase = "closed" THEN unchanged(state)
  ELSE accepted([createHostProtocolState EXCEPT !.phase = "closed", !.condition = "closed"])

onAnnounceReady(state) ==
  IF state.phase # "bootstrap" THEN unchanged(healthy(state))
  ELSE accepted([healthy(state) EXCEPT !.phase = "negotiating"])

(* Mutant: a new session inherits the save the old one was waiting for. *)
onLaunchKeepsPending(state, event) ==
  IF bindingMatches(state, event)
  THEN IF state.mode # event.mode THEN rejected(state, "session-binding-reused", "error")
       ELSE unchanged(state)
  ELSE accepted([state EXCEPT
         !.phase = IF event.mode = "readonly" THEN "active-readonly" ELSE "active-editable",
         !.condition = "healthy", !.binding = event.binding, !.mode = event.mode,
         !.lastIssue = None])

(* Mutant: every launch starts over. *)
onLaunchStartsOver(state, event) ==
  IF bindingMatches(state, event) /\ state.mode # event.mode
  THEN rejected(state, "session-binding-reused", "error")
  ELSE accepted([createHostProtocolState EXCEPT
         !.phase = IF event.mode = "readonly" THEN "active-readonly" ELSE "active-editable",
         !.binding = event.binding, !.mode = event.mode])

(* The same binding again is a retry and changes nothing; another binding
   starts a session with nothing of the last one. *)
onLaunch(state, event) ==
  IF bindingMatches(state, event)
  THEN IF state.mode # event.mode THEN rejected(state, "session-binding-reused", "error")
       ELSE unchanged(state)
  ELSE accepted([createHostProtocolState EXCEPT
         !.phase = IF event.mode = "readonly" THEN "active-readonly" ELSE "active-editable",
         !.binding = event.binding, !.mode = event.mode])

(* Mutant: changes are refused while a save is under way. *)
onProjectChangedNotSaving(state) ==
  IF state.phase # "active-editable" THEN rejected(state, "session-not-active", "error")
  ELSE accepted(healthy(state))

onProjectChanged(state) ==
  IF state.phase = "active-readonly" THEN rejected(state, "readonly-operation", "error")
  ELSE IF state.phase \notin {"active-editable", "saving"}
  THEN rejected(state, "session-not-active", "error")
  ELSE accepted(healthy(state))

(* Mutant: a read-only session may save. *)
onRequestSaveReadonly(state, event) ==
  IF state.phase = "saving" THEN rejected(state, "save-in-progress", "error")
  ELSE IF state.phase \notin {"active-editable", "active-readonly"}
  THEN rejected(state, "session-not-active", "error")
  ELSE accepted([healthy(state) EXCEPT !.phase = "saving", !.pending = event.id])

onRequestSave(state, event) ==
  IF state.phase = "active-readonly" THEN rejected(state, "readonly-operation", "error")
  ELSE IF state.phase = "saving"
  THEN IF state.pending = event.id THEN rejected(state, "duplicate-save-request", "invalid")
       ELSE rejected(state, "save-in-progress", "error")
  ELSE IF state.phase # "active-editable" THEN rejected(state, "session-not-active", "error")
  ELSE accepted([healthy(state) EXCEPT !.phase = "saving", !.pending = event.id])

onSaveResult(state, event) ==
  IF state.phase # "saving" \/ state.pending # event.id
  THEN rejected(state, "stale-save-result", "invalid")
  ELSE accepted([healthy(state) EXCEPT !.phase = "active-editable", !.pending = None])

(* The order of the checks is the order of the code. *)
transitionHostProtocol(state, event) ==
  IF event.type = "close" THEN onClose(state)
  ELSE IF IsClosed(state, event) THEN rejected(state, "session-closed", "invalid")
  ELSE IF event.type = "announce-ready" THEN onAnnounceReady(state)
  ELSE IF event.binding = None THEN rejected(state, "invalid-session-binding", "invalid")
  ELSE IF event.type = "launch" THEN onLaunch(state, event)
  ELSE IF ~bindingMatches(state, event)
  THEN rejected(state, "session-binding-mismatch", "invalid")
  ELSE IF event.type = "project-changed" THEN onProjectChanged(state)
  ELSE IF ~HasRequestId(event) THEN rejected(state, "invalid-request-id", "error")
  ELSE IF event.type = "request-save" THEN onRequestSave(state, event)
  ELSE onSaveResult(state, event)
=============================================================================
