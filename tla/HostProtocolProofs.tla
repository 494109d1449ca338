-------------------------- MODULE HostProtocolProofs --------------------------
(***************************************************************************)
(* The solver's protocol machine, in front of any host page, for every set *)
(* of sessions and request identifiers.                                    *)
(***************************************************************************)
EXTENDS HostProtocolAnyHost, TLAPS

(* The three invariants hold each other up: a save result is matched against
   the pending request, which only means something with the session's shape. *)
SessionInv == TypeOK /\ SessionShape /\ OnlyAskedIsPending

(* A rejection keeps phase, binding, mode and pending request. *)
LEMMA RejectedKeeps ==
  ASSUME NEW s \in State, NEW code \in IssueCode, NEW condition \in {"error", "invalid"}
  PROVE  LET r == rejected(s, code, condition)
         IN /\ ~r.accepted
            /\ r.state \in State
            /\ r.state.phase = s.phase /\ r.state.binding = s.binding
            /\ r.state.mode = s.mode /\ r.state.pending = s.pending
            /\ s.phase = "closed" => r.state = s
  BY DEF rejected, State, Condition

(* So does forgetting the last issue. *)
LEMMA HealthyKeeps ==
  ASSUME NEW s \in State
  PROVE  /\ healthy(s) \in State
         /\ healthy(s).condition = "healthy"
         /\ healthy(s).phase = s.phase /\ healthy(s).binding = s.binding
         /\ healthy(s).mode = s.mode /\ healthy(s).pending = s.pending
  BY DEF healthy, State, Condition

(* What one delivery may have done: nothing to the session, or one of the
   five changes of session that the machine knows. *)
SameSession == /\ state'.phase = state.phase /\ state'.binding = state.binding
               /\ state'.mode = state.mode /\ state'.pending = state.pending
               /\ asked' = asked
Closes == state'.phase = "closed" /\ state'.binding = None /\ state'.mode = None
          /\ state'.pending = None /\ state'.condition = "closed" /\ asked' = {}
Announces == state.phase = "bootstrap" /\ state'.phase = "negotiating"
             /\ state'.binding = state.binding /\ state'.mode = state.mode
             /\ state'.pending = state.pending
             /\ state'.condition = "healthy" /\ asked' = asked
Launches == state.phase # "closed" /\ state'.binding \in Binding /\ state'.mode \in Mode
            /\ state'.phase = (IF state'.mode = "readonly" THEN "active-readonly" ELSE "active-editable")
            /\ state'.pending = None /\ state'.condition = "healthy" /\ asked' = {}
StartsSave == state.phase = "active-editable" /\ state'.phase = "saving"
              /\ state'.binding = state.binding /\ state'.mode = state.mode
              /\ state'.pending \in RequestId /\ state'.condition = "healthy"
              /\ asked' = asked \cup {<<state.binding, state'.pending>>}
EndsSave == state.phase = "saving" /\ state'.phase = "active-editable"
            /\ state'.binding = state.binding /\ state'.mode = state.mode
            /\ state'.pending = None /\ state'.condition = "healthy"
            /\ asked' = asked \ {<<state.binding, state.pending>>}

(* Every delivery is one of these, and a closed machine does not move. *)
LEMMA DeliveryCases ==
  ASSUME TypeOK, NEW event \in Event, Deliver(event)
  PROVE  /\ state' \in State
         /\ SameSession \/ Closes \/ Announces \/ Launches \/ StartsSave \/ EndsSave
         /\ state.phase = "closed" => state' = state /\ asked' = asked
<1>s. state \in State BY DEF TypeOK
<1>n. None \notin Binding /\ None \notin RequestId BY NoneAssumption
<1> DEFINE step == transitionHostProtocol(state, event)
<1>d. state' = step.state /\ asked' = IF step.accepted /\ ~step.idempotent THEN Asked(event) ELSE asked
  BY DEF Deliver
<1> HIDE DEF step
<1> DEFINE Refused == \E code \in IssueCode, condition \in {"error", "invalid"} :
                         step = rejected(state, code, condition)
<1>refused. ASSUME Refused PROVE state' \in State /\ SameSession
                                 /\ (state.phase = "closed" => state' = state /\ asked' = asked)
  BY <1>refused, <1>s, <1>d, RejectedKeeps DEF SameSession
<1>c. CASE event.type = "close"
  <2>1. step = onClose(state) BY <1>c DEF step, transitionHostProtocol
  <2>2. CASE state.phase = "closed"
    BY <2>1, <2>2, <1>s, <1>d DEF onClose, unchanged, SameSession
  <2>3. CASE state.phase # "closed"
    BY <2>1, <2>3, <1>c, <1>s, <1>d DEF onClose, accepted, Asked, Closes, State, Phase, Condition, createHostProtocolState
  <2> QED BY <2>2, <2>3
<1>l. CASE event.type # "close" /\ state.phase = "closed"
  <2>1. step = rejected(state, "session-closed", "invalid")
    BY <1>l DEF step, transitionHostProtocol, IsClosed
  <2> QED BY <2>1, <1>refused DEF IssueCode
<1> DEFINE Open == state.phase # "closed"
<1>a. CASE event.type = "announce-ready" /\ Open
  <2>1. step = onAnnounceReady(state)
    BY <1>a DEF step, transitionHostProtocol, IsClosed
  <2>2. CASE state.phase = "bootstrap"
    <3>1. state' = [healthy(state) EXCEPT !.phase = "negotiating"] /\ asked' = asked
      BY <2>1, <2>2, <1>d, <1>a DEF onAnnounceReady, accepted, Asked
    <3> QED BY <3>1, <2>2, <1>s, HealthyKeeps DEF Announces, State, Phase
  <2>3. CASE state.phase # "bootstrap"
    <3>1. state' = healthy(state) /\ asked' = asked
      BY <2>1, <2>3, <1>d, <1>a DEF onAnnounceReady, unchanged
    <3> QED BY <3>1, <1>s, <1>a, HealthyKeeps DEF SameSession
  <2> QED BY <2>2, <2>3
<1>b. CASE event.type \in {"launch", "project-changed", "request-save", "save-result"}
           /\ event.binding = None /\ Open
  <2>1. step = rejected(state, "invalid-session-binding", "invalid")
    BY <1>b DEF step, transitionHostProtocol, IsClosed
  <2> QED BY <2>1, <1>refused DEF IssueCode
<1>h. CASE event.type = "launch" /\ event.binding # None /\ Open
  <2>1. step = onLaunch(state, event)
    BY <1>h DEF step, transitionHostProtocol, IsClosed
  <2>2. event.binding \in Binding /\ event.mode \in Mode
    BY <1>h, <1>n DEF Event
  <2>3. CASE bindingMatches(state, event) /\ state.mode # event.mode
    BY <2>1, <2>3, <1>refused DEF onLaunch, IssueCode
  <2>4. CASE bindingMatches(state, event) /\ state.mode = event.mode
    BY <2>1, <2>4, <1>s, <1>d, <1>h DEF onLaunch, unchanged, SameSession
  <2>5. CASE ~bindingMatches(state, event)
    BY <2>1, <2>2, <2>5, <1>s, <1>d, <1>h
    DEF onLaunch, accepted, Asked, Launches, createHostProtocolState, State, Phase, Condition
  <2> QED BY <2>3, <2>4, <2>5
<1> DEFINE Bound == event.type \in {"project-changed", "request-save", "save-result"}
                    /\ event.binding # None /\ Open
<1>m. CASE Bound /\ ~bindingMatches(state, event)
  <2>1. step = rejected(state, "session-binding-mismatch", "invalid")
    BY <1>m DEF step, transitionHostProtocol, IsClosed
  <2> QED BY <2>1, <1>refused DEF IssueCode
<1>p. CASE Bound /\ bindingMatches(state, event) /\ event.type = "project-changed"
  <2>1. step = onProjectChanged(state)
    BY <1>p DEF step, transitionHostProtocol, IsClosed
  <2>2. CASE state.phase \notin {"active-editable", "saving"}
    BY <2>1, <2>2, <1>refused DEF onProjectChanged, IssueCode
  <2>3. CASE state.phase \in {"active-editable", "saving"}
    <3>1. state' = healthy(state) /\ asked' = asked
      BY <2>1, <2>3, <1>d, <1>p DEF onProjectChanged, accepted, Asked
    <3> QED BY <3>1, <1>s, <1>p, HealthyKeeps DEF SameSession
  <2> QED BY <2>2, <2>3
<1>i. CASE Bound /\ bindingMatches(state, event) /\ event.type # "project-changed"
           /\ event.id = None
  <2>1. step = rejected(state, "invalid-request-id", "error")
    BY <1>i DEF step, transitionHostProtocol, IsClosed, HasRequestId
  <2> QED BY <2>1, <1>refused DEF IssueCode
<1>r. CASE Bound /\ bindingMatches(state, event) /\ event.type = "request-save" /\ event.id # None
  <2>1. step = onRequestSave(state, event)
    BY <1>r DEF step, transitionHostProtocol, IsClosed, HasRequestId
  <2>2. event.id \in RequestId BY <1>r DEF Event
  <2>3. CASE state.phase # "active-editable"
    BY <2>1, <2>3, <1>refused DEF onRequestSave, IssueCode
  <2>4. CASE state.phase = "active-editable"
    <3>1. /\ state' = [healthy(state) EXCEPT !.phase = "saving", !.pending = event.id]
          /\ asked' = asked \cup {<<event.binding, event.id>>}
      BY <2>1, <2>4, <1>d, <1>r DEF onRequestSave, accepted, Asked
    <3> QED BY <3>1, <2>2, <2>4, <1>s, <1>r, HealthyKeeps DEF StartsSave, State, Phase, bindingMatches
  <2> QED BY <2>3, <2>4
<1>v. CASE Bound /\ bindingMatches(state, event) /\ event.type = "save-result" /\ event.id # None
  <2>1. step = onSaveResult(state, event)
    BY <1>v DEF step, transitionHostProtocol, IsClosed, HasRequestId
  <2>2. CASE state.phase # "saving" \/ state.pending # event.id
    BY <2>1, <2>2, <1>refused DEF onSaveResult, IssueCode
  <2>3. CASE state.phase = "saving" /\ state.pending = event.id
    <3>1. /\ state' = [healthy(state) EXCEPT !.phase = "active-editable", !.pending = None]
          /\ asked' = asked \ {<<event.binding, event.id>>}
      BY <2>1, <2>3, <1>d, <1>v DEF onSaveResult, accepted, Asked
    <3> QED BY <3>1, <2>3, <1>s, <1>v, HealthyKeeps DEF EndsSave, State, Phase, bindingMatches
  <2> QED BY <2>2, <2>3
<1>e. event.type \in {"announce-ready", "close", "launch", "request-save", "save-result", "project-changed"}
  BY DEF Event
<1> QED BY <1>c, <1>l, <1>a, <1>b, <1>h, <1>m, <1>p, <1>i, <1>r, <1>v, <1>e

(* The session's invariants survive every delivery. *)
LEMMA SessionInvStep == SessionInv /\ [Next]_vars => SessionInv'
<1> SUFFICES ASSUME SessionInv, [Next]_vars PROVE SessionInv'
  OBVIOUS
<1> USE DEF SessionInv, TypeOK
<1>n. None \notin Binding /\ None \notin RequestId /\ None \notin Mode /\ None # "readonly" BY NoneAssumption DEF Mode
<1>1. CASE UNCHANGED vars
  BY <1>1 DEF vars, SessionShape, OnlyAskedIsPending
<1>2. ASSUME NEW event \in Event, Deliver(event) PROVE SessionInv'
  <2>1. state' \in State BY <1>2, DeliveryCases
  <2>2. SameSession \/ Closes \/ Announces \/ Launches \/ StartsSave \/ EndsSave
    BY <1>2, DeliveryCases
  <2>3. CASE SameSession
    BY <2>1, <2>3 DEF SameSession, SessionShape, OnlyAskedIsPending
  <2>4. CASE Closes
    BY <2>1, <2>4, <1>n DEF Closes, SessionShape, OnlyAskedIsPending
  <2>5. CASE Announces
    BY <2>1, <2>5 DEF Announces, SessionShape, OnlyAskedIsPending
  <2>6. CASE Launches
    BY <2>1, <2>6, <1>n DEF Launches, SessionShape, OnlyAskedIsPending, Mode
  <2>7. CASE StartsSave
    <3>1. state.binding \in Binding /\ asked = {}
      BY <2>7 DEF StartsSave, SessionShape, OnlyAskedIsPending, State
    <3> QED BY <3>1, <2>1, <2>7, <1>n DEF StartsSave, SessionShape, OnlyAskedIsPending
  <2>8. CASE EndsSave
    BY <2>1, <2>8 DEF EndsSave, SessionShape, OnlyAskedIsPending
  <2> QED BY <2>2, <2>3, <2>4, <2>5, <2>6, <2>7, <2>8
<1> QED BY <1>1, <1>2 DEF Next

LEMMA SessionInvAlways == Spec => []SessionInv
<1>1. Init => SessionInv
  BY NoneAssumption DEF Init, SessionInv, TypeOK, SessionShape, OnlyAskedIsPending,
     createHostProtocolState, State, Phase, Condition, Mode
<1> QED BY <1>1, SessionInvStep, PTL DEF Spec

(* Whatever a host page sends: the state has its type, and phase, mode and
   binding tell one story; a read-only session is never saving. *)
THEOREM SessionAlwaysShaped == Spec => [](TypeOK /\ SessionShape)
<1>1. SessionInv => TypeOK /\ SessionShape BY DEF SessionInv
<1> QED BY <1>1, SessionInvAlways, PTL

(* The only save result the machine accepts is the answer to the one save
   request it accepted in this session and that has had no answer. *)
THEOREM OneSaveAtATime == Spec => []OnlyAskedIsPending
<1>1. SessionInv => OnlyAskedIsPending BY DEF SessionInv
<1> QED BY <1>1, SessionInvAlways, PTL

(* No rejection, of whatever message, takes the session away. *)
THEOREM RejectedMessagesKeepSession == Spec => RejectionKeepsSession
<1>1. SessionInv /\ [Next]_vars =>
        [state'.condition \in {"error", "invalid"} =>
           /\ state'.phase = state.phase /\ state'.binding = state.binding
           /\ state'.mode = state.mode /\ state'.pending = state.pending]_vars
  <2> SUFFICES ASSUME SessionInv, NEW event \in Event, Deliver(event),
                      state'.condition \in {"error", "invalid"}
               PROVE  /\ state'.phase = state.phase /\ state'.binding = state.binding
                      /\ state'.mode = state.mode /\ state'.pending = state.pending
    BY DEF Next
  <2>1. SameSession \/ Closes \/ Announces \/ Launches \/ StartsSave \/ EndsSave
    BY DeliveryCases DEF SessionInv
  <2> QED BY <2>1 DEF SameSession, Closes, Announces, Launches, StartsSave, EndsSave
<1> QED BY <1>1, SessionInvAlways, PTL DEF Spec, RejectionKeepsSession

(* A closed machine stays as it is. *)
THEOREM ClosedStaysClosed == Spec => ClosedForEver
<1>1. SessionInv /\ [Next]_vars => [state.phase = "closed" => state' = state]_vars
  BY DeliveryCases DEF SessionInv, Next
<1> QED BY <1>1, SessionInvAlways, PTL DEF Spec, ClosedForEver
=============================================================================
