------------------------- MODULE HostProtocolAnyHost -------------------------
(***************************************************************************)
(* The protocol machine of the solver in front of any host page: every     *)
(* event, well formed or not, may come at any time.  The bridge keeps the  *)
(* machine in a ref (useSolverHostBridge.ts) and always stores the state   *)
(* the transition answers, whether the event was accepted or not.          *)
(***************************************************************************)
EXTENDS HostProtocolMachine

VARIABLES
  state,     \* protocolStateRef.current
  asked      \* saves accepted and not answered yet, as <<binding, id>>

vars == <<state, asked>>

Init == state = createHostProtocolState /\ asked = {}

(* What an accepted event does to the saves under way, as the protocol
   document tells it: a new session and closing forget them. *)
Asked(event) ==
  CASE event.type = "request-save" -> asked \cup {<<event.binding, event.id>>}
    [] event.type = "save-result" -> asked \ {<<event.binding, event.id>>}
    [] event.type \in {"launch", "close"} -> {}
    [] OTHER -> asked

Deliver(event) ==
  LET step == transitionHostProtocol(state, event)
  IN /\ state' = step.state
     /\ asked' = IF step.accepted /\ ~step.idempotent THEN Asked(event) ELSE asked

Next == \E event \in Event : Deliver(event)
Spec == Init /\ [][Next]_vars
----------------------------------------------------------------------------
(* The state always has its shape; no save under way has a blank identifier. *)
TypeOK == state \in State /\ asked \subseteq (Binding \X RequestId)

(* Phase, mode and binding tell one story: a mode and a binding exactly
   while a session lasts, a pending request exactly while saving, and a read-only session is never anything but
   active-readonly, so it cannot be saving. *)
SessionShape ==
  /\ (state.binding = None) = (state.phase \in {"bootstrap", "negotiating", "closed"})
  /\ (state.mode = None) = (state.binding = None)
  /\ (state.mode = "readonly") = (state.phase = "active-readonly")
  /\ (state.pending # None) = (state.phase = "saving")

(* The save result the machine would accept is that of the one save request
   it accepted in this session and that has had no result: no duplicate,
   stale or foreign result can end a save (host-protocol-1.md, "stale
   results", "session replacement"). *)
OnlyAskedIsPending ==
  asked = IF state.pending = None THEN {} ELSE {<<state.binding, state.pending>>}

(* error and invalid are no terminal states: what was rejected leaves the
   session, its phase and its pending save as they were. *)
RejectionKeepsSession ==
  [][state'.condition \in {"error", "invalid"} =>
        /\ state'.phase = state.phase /\ state'.binding = state.binding
        /\ state'.mode = state.mode /\ state'.pending = state.pending]_vars

(* A closed bridge answers nothing any more. *)
ClosedForEver == [][state.phase = "closed" => state' = state]_vars
=============================================================================
