--------------------------- MODULE LoadPathProofs ---------------------------
(* Proofs about LoadPath, for every size of the units, every limit and every
   request.  What is left to TLC is that the analysis ends. *)
EXTENDS LoadPath, SequenceTheorems, FiniteSetTheorems, TLAPS

(* What normalization makes of any options. *)
SettingsOK ==
  /\ settings.minStep \in Nat /\ settings.initialStep \in Nat /\ settings.maxStep \in Nat
  /\ Smallest <= settings.minStep /\ settings.minStep <= settings.initialStep
  /\ settings.initialStep <= settings.maxStep /\ settings.maxStep <= Unit
  /\ settings.maxIterations \in Nat \ {0} /\ settings.maxCutbacks \in Nat /\ settings.maxAcceptedSteps \in Nat \ {0}

LEMMA CoerceInBounds ==
  ASSUME NEW v \in Int \cup {None}, NEW d \in Int, NEW low \in Int, NEW high \in Int, low <= high
  PROVE  coerce(v, d, low, high) \in Int /\ low <= coerce(v, d, low, high) /\ coerce(v, d, low, high) <= high
BY RequestsAssumption DEF RequestsAssumption, coerce, greater, lesser

LEMMA SettingsBounded ==
  ASSUME NEW raw \in Options
  PROVE  LET s == settingsOf(raw)
         IN /\ s.minStep \in Nat /\ s.initialStep \in Nat /\ s.maxStep \in Nat
            /\ Smallest <= s.minStep /\ s.minStep <= s.initialStep
            /\ s.initialStep <= s.maxStep /\ s.maxStep <= Unit
            /\ s.maxIterations \in Nat \ {0} /\ s.maxCutbacks \in Nat /\ s.maxAcceptedSteps \in Nat \ {0}
<1> DEFINE n == normalized(raw)
           initial == coerce(raw.initialStep, DefaultStep, Least, Unit)
           least == coerce(raw.minStep, lesser(Hundredth, DefaultStep), Smallest, Unit)
           most == coerce(raw.maxStep, greater(Quarter, DefaultStep), Least, Unit)
<1>1. /\ Unit \in Int /\ Quarter \in Int /\ Hundredth \in Int /\ Least \in Int /\ Smallest \in Int /\ DefaultStep \in Int
      /\ 0 < Smallest /\ Smallest <= Least /\ Least <= Unit /\ Smallest <= Unit
  BY StepsAssumption DEF StepsAssumption
<1>2. raw.initialStep \in Int \cup {None} /\ raw.minStep \in Int \cup {None} /\ raw.maxStep \in Int \cup {None}
  BY DEF Options
<1>3. /\ n.initialStep = initial /\ n.minStep = least /\ n.maxStep = most
      /\ n \in [initialStep: {initial}, minStep: {least}, maxStep: {most}, maxIterations: Nat \ {0},
                maxCutbacks: Nat, maxAcceptedSteps: Nat \ {0}]
  BY DEF normalized, Options
<1>4. initial \in Int /\ Least <= initial /\ initial <= Unit
  BY <1>1, <1>2, CoerceInBounds, Zenon
<1>5. lesser(Hundredth, DefaultStep) \in Int /\ greater(Quarter, DefaultStep) \in Int
  BY <1>1 DEF lesser, greater
<1>6. least \in Int \cup {None} /\ most \in Int \cup {None}
  BY <1>1, <1>2, <1>5, CoerceInBounds, Zenon
<1> DEFINE low == coerce(least, Hundredth, Smallest, initial)
           high == coerce(most, Quarter, initial, Unit)
<1> HIDE DEF n, initial, least, most
<1>7. Smallest <= initial
  BY <1>1, <1>4
<1>8. low \in Int /\ Smallest <= low /\ low <= initial
  BY <1>1, <1>4, <1>6, <1>7, CoerceInBounds, Zenon
<1>9. high \in Int /\ initial <= high /\ high <= Unit
  BY <1>1, <1>4, <1>6, CoerceInBounds, Zenon
<1>10. /\ settingsOf(raw).initialStep = initial /\ settingsOf(raw).minStep = low /\ settingsOf(raw).maxStep = high
       /\ settingsOf(raw).maxIterations \in Nat \ {0} /\ settingsOf(raw).maxCutbacks \in Nat
       /\ settingsOf(raw).maxAcceptedSteps \in Nat \ {0}
  BY <1>3 DEF settingsOf, n
<1> HIDE DEF low, high
<1> QED  BY <1>1, <1>4, <1>8, <1>9, <1>10

LEMMA RefinedKeepsRole ==
  ASSUME NEW load, load.type \in {"nodal", "temperature", "member_point", "distributed"},
         NEW piece \in refined(load)
  PROVE  piece.role = load.role
BY DEF refined, split

LEMMA RetainTypes ==
  ASSUME NEW S, NEW frames \in Seq(S), NEW frame \in S
  PROVE  retain(frames, frame) \in Seq(S)
<1>1. \A s \in Seq(S) : \A i : Len(s) > 0 => without(s, i) \in Seq(S)
  <2> SUFFICES ASSUME NEW s \in Seq(S), NEW i, Len(s) > 0 PROVE without(s, i) \in Seq(S)
    OBVIOUS
  <2>1. Len(s) - 1 \in Nat /\ \A k \in 1 .. Len(s) - 1 : s[k] \in S /\ s[k + 1] \in S
    OBVIOUS
  <2>2. without(s, i) \in [1 .. Len(s) - 1 -> S]
    BY <2>1 DEF without
  <2> QED  BY <2>1, <2>2, SeqDef
<1>2. Append(frames, frame) \in Seq(S) /\ Len(Append(frames, frame)) > 0
  OBVIOUS
<1> QED  BY <1>1, <1>2 DEF retain

----------------------------------------------------------------------------
InPath == pc \in {"start", "ready", "newton", "accepted", "failed"}

(* What holds of the attempt under way. *)
AttemptInv ==
  /\ accepted <= settings.maxAcceptedSteps /\ cutbacks <= settings.maxCutbacks + 1
  /\ failures <= accepted * settings.maxCutbacks + cutbacks
  /\ InPath => cutbacks <= settings.maxCutbacks
  /\ pc \in {"newton", "accepted", "failed"} =>
       accepted < settings.maxAcceptedSteps /\ factor < pathEnd /\ factor < target
  /\ pc \in {"start", "ready"} => accepted < settings.maxAcceptedSteps \/ factor = pathEnd
  /\ pc = "newton" => records < settings.maxIterations

(* What holds of the result of a path. *)
EndInv ==
  /\ InPath => result.status = None /\ result.comparable = FALSE /\ reason = None
  /\ request.algorithm = "corotational_newton_v1" =>
       /\ result.status = "converged" => factor = pathEnd /\ reason = None
       /\ result.status = "not_converged" => factor < pathEnd /\ reason # None
       /\ result.comparable => legacy.outcome = "converged" /\ factor = pathEnd /\ ~request.imperfect

Numbers ==
  /\ factor \in 0 .. pathEnd /\ target \in 0 .. pathEnd /\ step \in Nat
  /\ records \in 0 .. settings.maxIterations
  /\ accepted \in Nat /\ cutbacks \in Nat /\ failures \in Nat

Shapes ==
  /\ request \in Requests /\ settings = settingsOf(request.options)
  /\ mode = modeOf(request.loads) /\ pc \in PC
  /\ keyframes \in Seq([step: Nat, at: Nat]) /\ reason \in Reason \cup {None}
  /\ legacy \in [outcome: {"not_evaluated", "converged", "not_converged"}, step: 1 .. LoadSteps, iteration: Nat]
  /\ result \in [status: Status \cup {None}, comparable: BOOLEAN]

IInv == Shapes /\ Numbers /\ StepInBounds /\ AttemptInv /\ EndInv

LEMMA Bounds ==
  ASSUME Shapes
  PROVE  /\ SettingsOK
         /\ Unit \in Nat /\ Smallest \in Nat /\ 0 < Smallest /\ Smallest <= Unit
         /\ pathEnd \in Nat /\ Unit <= pathEnd /\ (mode # "fixed_then_variable" => pathEnd = Unit)
         /\ (mode = "fixed_then_variable" => pathEnd = 2 * Unit)
         /\ \A s \in 1 .. Unit : /\ Cut[s] \in Nat /\ Grow[s] \in Nat /\ Slow[s] \in Nat
                                 /\ Cut[s] <= s /\ Slow[s] <= s /\ s <= Grow[s]
<1>1. request.options \in Options
  BY RequestsAssumption DEF RequestsAssumption, Shapes
<1>2. SettingsOK
  BY <1>1, SettingsBounded DEF SettingsOK, Shapes
<1>3. Unit \in Nat /\ Smallest \in Nat /\ 0 < Smallest /\ Smallest <= Unit
  BY StepsAssumption DEF StepsAssumption
<1>4. \A s \in 1 .. Unit : /\ Cut[s] \in Nat /\ Grow[s] \in Nat /\ Slow[s] \in Nat
                           /\ Cut[s] <= s /\ Slow[s] <= s /\ s <= Grow[s]
  BY StepsAssumption DEF StepsAssumption
<1> QED  BY <1>2, <1>3, <1>4 DEF pathEnd

LEMMA InitIInv == Init => IInv
<1> SUFFICES ASSUME Init PROVE IInv
  OBVIOUS
<1>1. Shapes
  BY RequestsAssumption DEF RequestsAssumption, Init, Shapes, PC
<1> USE <1>1, Bounds DEF SettingsOK
<1>2. Numbers /\ StepInBounds
  BY DEF Init, Numbers, StepInBounds
<1>3. AttemptInv
  BY DEF Init, AttemptInv, InPath
<1>4. EndInv
  BY RequestsAssumption DEF RequestsAssumption, Status, Init, EndInv, InPath
<1> QED  BY <1>1, <1>2, <1>3, <1>4 DEF IInv

----------------------------------------------------------------------------
(* What every step leaves alone, and the bounds in the new state too. *)
LEMMA GivenStays ==
  ASSUME Next
  PROVE  request' = request /\ settings' = settings /\ mode' = mode /\ pathEnd' = pathEnd
BY DEF Next, Begin, Attempt, Iterate, BreakOff, Accept, CutBack, Finish, PDeltaIterate, Buckle, given, pathEnd

(* The next target lies between the converged coordinate and the end. *)
LEMMA TargetAhead ==
  ASSUME IInv, Attempt
  PROVE  target' \in Nat /\ factor < target' /\ target' <= pathEnd
<1>1. /\ factor \in Nat /\ factor < pathEnd /\ step \in Nat /\ 0 < step
      /\ pathEnd \in Nat /\ Unit \in Nat /\ Unit <= pathEnd
  BY Bounds DEF IInv, Numbers, StepInBounds, Attempt, SettingsOK
<1>2. target' = LET next == lesser(pathEnd, factor + step)
                IN IF mode = "fixed_then_variable" /\ factor < Unit THEN lesser(Unit, next) ELSE next
  BY DEF Attempt
<1> QED  BY <1>1, <1>2 DEF lesser

(* A new step, smaller or larger, is again within the bounds. *)
LEMMA StepsStayInBounds ==
  ASSUME IInv
  PROVE  /\ lesser(settings.maxStep, Grow[step]) \in settings.minStep .. settings.maxStep
         /\ greater(settings.minStep, Slow[step]) \in settings.minStep .. settings.maxStep
         /\ greater(settings.minStep, Cut[step]) \in settings.minStep .. settings.maxStep
<1>1. /\ settings.minStep \in Nat /\ settings.maxStep \in Nat /\ step \in Nat
      /\ settings.minStep <= step /\ step <= settings.maxStep
      /\ settings.maxStep <= Unit /\ 0 < settings.minStep /\ Unit \in Nat
  BY Bounds DEF IInv, Numbers, StepInBounds, SettingsOK
<1>2. step \in 1 .. Unit
  BY <1>1
<1>3. /\ Cut[step] \in Nat /\ Grow[step] \in Nat /\ Slow[step] \in Nat
      /\ Cut[step] <= step /\ Slow[step] <= step /\ step <= Grow[step]
  BY <1>2, Bounds DEF IInv
<1> QED  BY <1>1, <1>3 DEF lesser, greater

LEMMA NextIInv == IInv /\ [Next]_vars => IInv'
<1> SUFFICES ASSUME IInv, [Next]_vars PROVE IInv'
  OBVIOUS
<1> USE Bounds DEF IInv
<1>0. CASE UNCHANGED vars
  BY <1>0 DEF vars, given, path, attempt, Shapes, Numbers, StepInBounds, AttemptInv, EndInv, InPath, pathEnd
<1>1. CASE Begin
  <2>0. request' = request /\ settings' = settings /\ mode' = mode /\ pathEnd' = pathEnd
    BY <1>1, GivenStays DEF Next
  <2>1. Shapes'
    BY <1>1, <2>0, RequestsAssumption DEF RequestsAssumption, Shapes, Begin, path, attempt, PC, Status, Reason
  <2>2. Numbers'
    BY <1>1, <2>0 DEF Numbers, StepInBounds, AttemptInv, SettingsOK, Begin, path, attempt
  <2>3. StepInBounds'
    BY <1>1, <2>0 DEF Numbers, StepInBounds, SettingsOK, Begin, path, attempt
  <2>4. AttemptInv'
    BY <1>1, <2>0 DEF Numbers, AttemptInv, InPath, SettingsOK, Begin, path, attempt
  <2>5. EndInv'
    BY <1>1, <2>0, RequestsAssumption DEF RequestsAssumption, Shapes, Numbers, AttemptInv, EndInv, InPath, Begin, path, attempt, Status, Reason
  <2> QED  BY <2>1, <2>2, <2>3, <2>4, <2>5
<1>2. CASE Attempt
  <2>0. request' = request /\ settings' = settings /\ mode' = mode /\ pathEnd' = pathEnd
    BY <1>2, GivenStays DEF Next
  <2>1. Shapes'
    BY <1>2, <2>0, TargetAhead, RequestsAssumption DEF RequestsAssumption, Shapes, Attempt, path, attempt, PC, Status, Reason
  <2>2. Numbers'
    BY <1>2, <2>0, TargetAhead DEF Numbers, StepInBounds, AttemptInv, SettingsOK, Attempt, path, attempt
  <2>3. StepInBounds'
    BY <1>2, <2>0, TargetAhead DEF Numbers, StepInBounds, SettingsOK, Attempt, path, attempt
  <2>4. AttemptInv'
    BY <1>2, <2>0, TargetAhead DEF Numbers, AttemptInv, InPath, SettingsOK, Attempt, path, attempt
  <2>5. EndInv'
    BY <1>2, <2>0, TargetAhead, RequestsAssumption DEF RequestsAssumption, Shapes, Numbers, AttemptInv, EndInv, InPath, Attempt, path, attempt, Status, Reason
  <2> QED  BY <2>1, <2>2, <2>3, <2>4, <2>5
<1>3. CASE Iterate
  <2>0. request' = request /\ settings' = settings /\ mode' = mode /\ pathEnd' = pathEnd
    BY <1>3, GivenStays DEF Next
  <2>1. Shapes'
    BY <1>3, <2>0, RequestsAssumption DEF RequestsAssumption, Shapes, Iterate, path, attempt, PC, Status, Reason
  <2>2. Numbers'
    BY <1>3, <2>0 DEF Numbers, StepInBounds, AttemptInv, SettingsOK, Iterate, path, attempt
  <2>3. StepInBounds'
    BY <1>3, <2>0 DEF Numbers, StepInBounds, SettingsOK, Iterate, path, attempt
  <2>4. AttemptInv'
    BY <1>3, <2>0 DEF Numbers, AttemptInv, InPath, SettingsOK, Iterate, path, attempt
  <2>5. EndInv'
    BY <1>3, <2>0, RequestsAssumption DEF RequestsAssumption, Shapes, Numbers, AttemptInv, EndInv, InPath, Iterate, path, attempt, Status, Reason
  <2> QED  BY <2>1, <2>2, <2>3, <2>4, <2>5
<1>4. CASE BreakOff
  <2>0. request' = request /\ settings' = settings /\ mode' = mode /\ pathEnd' = pathEnd
    BY <1>4, GivenStays DEF Next
  <2>1. Shapes'
    BY <1>4, <2>0, RequestsAssumption DEF RequestsAssumption, Shapes, BreakOff, path, attempt, PC, Status, Reason
  <2>2. Numbers'
    BY <1>4, <2>0 DEF Numbers, StepInBounds, AttemptInv, SettingsOK, BreakOff, path, attempt
  <2>3. StepInBounds'
    BY <1>4, <2>0 DEF Numbers, StepInBounds, SettingsOK, BreakOff, path, attempt
  <2>4. AttemptInv'
    BY <1>4, <2>0 DEF Numbers, AttemptInv, InPath, SettingsOK, BreakOff, path, attempt
  <2>5. EndInv'
    BY <1>4, <2>0, RequestsAssumption DEF RequestsAssumption, Shapes, Numbers, AttemptInv, EndInv, InPath, BreakOff, path, attempt, Status, Reason
  <2> QED  BY <2>1, <2>2, <2>3, <2>4, <2>5
<1>5. CASE Accept
  <2>0. request' = request /\ settings' = settings /\ mode' = mode /\ pathEnd' = pathEnd
    BY <1>5, GivenStays DEF Next
  <2>1. Shapes'
    <3>1. keyframes' \in Seq([step: Nat, at: Nat])
      <4>1. [step |-> accepted', at |-> target] \in [step: Nat, at: Nat]
        BY <1>5 DEF Accept, Numbers
      <4>2. keyframes \in Seq([step: Nat, at: Nat])
        BY DEF Shapes
      <4>3. retain(keyframes, [step |-> accepted', at |-> target]) \in Seq([step: Nat, at: Nat])
        BY <4>1, <4>2, RetainTypes, Zenon
      <4> QED  BY <1>5, <4>3 DEF Accept
    <3>2. pc' \in PC /\ reason' \in Reason \cup {None} /\ legacy' = legacy
      BY <1>5 DEF Shapes, Accept, end, PC, Reason
    <3>3. result' \in [status: Status \cup {None}, comparable: BOOLEAN]
      BY <1>5 DEF Shapes, Accept, end, Status
    <3> QED  BY <2>0, <3>1, <3>2, <3>3 DEF Shapes
  <2>2. Numbers'
    BY <1>5, <2>0, StepsStayInBounds DEF Numbers, StepInBounds, AttemptInv, SettingsOK, Accept, end, path, attempt
  <2>3. StepInBounds'
    <3>1. step \in settings.minStep .. settings.maxStep /\ settings.minStep \in Nat /\ settings.maxStep \in Nat
      BY DEF Numbers, StepInBounds, SettingsOK
    <3>2. \/ step' = step
          \/ step' = lesser(settings.maxStep, Grow[step])
          \/ step' = greater(settings.minStep, Slow[step])
      BY <1>5 DEF Accept
    <3>3. step' \in settings.minStep .. settings.maxStep
      BY <3>1, <3>2, StepsStayInBounds
    <3> QED  BY <2>0, <3>1, <3>3 DEF StepInBounds
  <2>4. AttemptInv'
    <3> DEFINE most == settings.maxCutbacks
    <3>1. /\ accepted \in Nat /\ failures \in Nat /\ cutbacks \in Nat /\ most \in Nat
          /\ failures <= accepted * most + cutbacks /\ cutbacks <= most
      BY <1>5 DEF Accept, AttemptInv, InPath, Numbers, SettingsOK
    <3>2. accepted' = accepted + 1 /\ failures' = failures /\ cutbacks' = 0 /\ settings' = settings
      BY <1>5, <2>0 DEF Accept
    <3> HIDE DEF most
    <3>3. accepted * most \in Nat /\ (accepted + 1) * most = accepted * most + most
      BY <3>1
    <3>4. failures' <= accepted' * most + cutbacks'
      BY <3>1, <3>2, <3>3
    <3>5. failures' <= accepted' * settings'.maxCutbacks + cutbacks'
      BY <3>4, <3>2 DEF most
    <3>6. /\ target \in Nat /\ target <= pathEnd /\ pathEnd \in Nat
          /\ accepted < settings.maxAcceptedSteps /\ settings.maxAcceptedSteps \in Nat
      BY <1>5 DEF Accept, AttemptInv, Numbers, SettingsOK
    <3>7. /\ accepted' <= settings'.maxAcceptedSteps
          /\ cutbacks' <= settings'.maxCutbacks + 1
          /\ InPath' => cutbacks' <= settings'.maxCutbacks
      BY <3>1, <3>2, <3>6 DEF most
    <3>8. /\ pc' \in {"ready", "pdelta", "buckling"}
          /\ pc' = "ready" => accepted' < settings'.maxAcceptedSteps \/ factor' = pathEnd'
      <4>1. CASE accepted' >= settings.maxAcceptedSteps /\ target < pathEnd
        BY <1>5, <4>1 DEF Accept, end
      <4>2. CASE ~(accepted' >= settings.maxAcceptedSteps /\ target < pathEnd)
        <5>1. pc' = "ready" /\ factor' = target
          BY <1>5, <4>2 DEF Accept
        <5>2. accepted' < settings.maxAcceptedSteps \/ target = pathEnd
          BY <4>2, <3>1, <3>2, <3>6
        <5> QED  BY <5>1, <5>2, <2>0
      <4> QED  BY <4>1, <4>2
    <3> QED  BY <3>5, <3>7, <3>8 DEF AttemptInv
  <2>5. EndInv'
    BY <1>5, <2>0, StepsStayInBounds, RequestsAssumption DEF RequestsAssumption, Shapes, Numbers, AttemptInv, EndInv, InPath, Accept, end, path, attempt, Status, Reason
  <2> QED  BY <2>1, <2>2, <2>3, <2>4, <2>5
<1>6. CASE CutBack
  <2>0. request' = request /\ settings' = settings /\ mode' = mode /\ pathEnd' = pathEnd
    BY <1>6, GivenStays DEF Next
  <2>1. Shapes'
    BY <1>6, <2>0, StepsStayInBounds, RequestsAssumption DEF RequestsAssumption, Shapes, CutBack, end, path, attempt, PC, Status, Reason
  <2>2. Numbers'
    BY <1>6, <2>0, StepsStayInBounds DEF Numbers, StepInBounds, AttemptInv, SettingsOK, CutBack, end, path, attempt
  <2>3. StepInBounds'
    BY <1>6, <2>0, StepsStayInBounds DEF Numbers, StepInBounds, SettingsOK, CutBack, end, path, attempt
  <2>4. AttemptInv'
    BY <1>6, <2>0, StepsStayInBounds DEF Numbers, AttemptInv, InPath, SettingsOK, CutBack, end, path, attempt
  <2>5. EndInv'
    BY <1>6, <2>0, StepsStayInBounds, RequestsAssumption DEF RequestsAssumption, Shapes, Numbers, AttemptInv, EndInv, InPath, CutBack, end, path, attempt, Status, Reason
  <2> QED  BY <2>1, <2>2, <2>3, <2>4, <2>5
<1>7. CASE Finish
  <2>0. request' = request /\ settings' = settings /\ mode' = mode /\ pathEnd' = pathEnd
    BY <1>7, GivenStays DEF Next
  <2>1. Shapes'
    BY <1>7, <2>0, RequestsAssumption DEF RequestsAssumption, Shapes, Finish, end, path, attempt, PC, Status, Reason
  <2>2. Numbers'
    BY <1>7, <2>0 DEF Numbers, StepInBounds, AttemptInv, SettingsOK, Finish, end, path, attempt
  <2>3. StepInBounds'
    BY <1>7, <2>0 DEF Numbers, StepInBounds, SettingsOK, Finish, end, path, attempt
  <2>4. AttemptInv'
    BY <1>7, <2>0 DEF Numbers, AttemptInv, InPath, SettingsOK, Finish, end, path, attempt
  <2>5. EndInv'
    BY <1>7, <2>0, RequestsAssumption DEF RequestsAssumption, Shapes, Numbers, AttemptInv, EndInv, InPath, Finish, end, path, attempt, Status, Reason
  <2> QED  BY <2>1, <2>2, <2>3, <2>4, <2>5
<1>8. CASE PDeltaIterate
  <2>0. request' = request /\ settings' = settings /\ mode' = mode /\ pathEnd' = pathEnd
    BY <1>8, GivenStays DEF Next
  <2>1. Shapes'
    <3>1. pc' \in PC /\ reason' = reason /\ keyframes' = keyframes
      BY <1>8 DEF Shapes, PDeltaIterate, legacyEnds, path, PC
    <3>2. legacy' \in [outcome: {"not_evaluated", "converged", "not_converged"}, step: 1 .. LoadSteps, iteration: Nat]
      <4> DEFINE Outcome == {"not_evaluated", "converged", "not_converged"}
      <4>1. legacy \in [outcome: Outcome, step: 1 .. LoadSteps, iteration: Nat] /\ LoadSteps \in Nat
        BY RequestsAssumption DEF RequestsAssumption, Shapes
      <4>2. \/ \E o \in Outcome : legacy' = [legacy EXCEPT !.outcome = o]
            \/ legacy.step # LoadSteps /\ legacy' = [legacy EXCEPT !.step = @ + 1, !.iteration = 0]
            \/ legacy' = [legacy EXCEPT !.iteration = @ + 1]
        BY <1>8 DEF PDeltaIterate
      <4>3. CASE \E o \in Outcome : legacy' = [legacy EXCEPT !.outcome = o]
        BY <4>1, <4>3
      <4>4. CASE legacy.step # LoadSteps /\ legacy' = [legacy EXCEPT !.step = @ + 1, !.iteration = 0]
        <5>1. legacy.step + 1 \in 1 .. LoadSteps /\ 0 \in Nat
          BY <4>1, <4>4
        <5>2. \A n \in 1 .. LoadSteps, i \in Nat :
                [legacy EXCEPT !.step = n, !.iteration = i] \in [outcome: Outcome, step: 1 .. LoadSteps, iteration: Nat]
          BY <4>1
        <5> QED  BY <4>4, <5>1, <5>2, Zenon
      <4>5. CASE legacy' = [legacy EXCEPT !.iteration = @ + 1]
        BY <4>1, <4>5
      <4> QED  BY <4>2, <4>3, <4>4, <4>5
    <3>3. result' \in [status: Status \cup {None}, comparable: BOOLEAN]
      <4>1. \A outcome : comparable(outcome) \in BOOLEAN
        BY DEF comparable
      <4>2. result \in [status: Status \cup {None}, comparable: BOOLEAN]
        BY DEF Shapes
      <4>3. \A b \in BOOLEAN : [result EXCEPT !.comparable = b] \in [status: Status \cup {None}, comparable: BOOLEAN]
        BY <4>2
      <4>4. \A s \in Status : [result EXCEPT !.status = s] \in [status: Status \cup {None}, comparable: BOOLEAN]
        BY <4>2
      <4>5. \A outcome : legacyEnds(outcome) => result' \in [status: Status \cup {None}, comparable: BOOLEAN]
        <5> TAKE outcome
        <5>1. [result EXCEPT !.comparable = comparable(outcome)] \in [status: Status \cup {None}, comparable: BOOLEAN]
          BY <4>1, <4>3, Zenon
        <5> QED  BY <4>4, <5>1 DEF legacyEnds, Status
      <4> QED  BY <1>8, <4>2, <4>5 DEF PDeltaIterate
    <3> QED  BY <2>0, <3>1, <3>2, <3>3 DEF Shapes
  <2>2. Numbers'
    BY <1>8, <2>0 DEF Numbers, StepInBounds, AttemptInv, SettingsOK, PDeltaIterate, legacyEnds, comparable, path, attempt
  <2>3. StepInBounds'
    BY <1>8, <2>0 DEF Numbers, StepInBounds, SettingsOK, PDeltaIterate, legacyEnds, comparable, path, attempt
  <2>4. AttemptInv'
    BY <1>8, <2>0 DEF Numbers, AttemptInv, InPath, SettingsOK, PDeltaIterate, legacyEnds, comparable, path, attempt
  <2>5. EndInv'
    BY <1>8, <2>0, RequestsAssumption DEF RequestsAssumption, Shapes, Numbers, AttemptInv, EndInv, InPath, PDeltaIterate, legacyEnds, comparable, path, attempt, Status, Reason
  <2> QED  BY <2>1, <2>2, <2>3, <2>4, <2>5
<1>9. CASE Buckle
  <2>0. request' = request /\ settings' = settings /\ mode' = mode /\ pathEnd' = pathEnd
    BY <1>9, GivenStays DEF Next
  <2>1. Shapes'
    BY <1>9, <2>0, RequestsAssumption DEF RequestsAssumption, Shapes, Buckle, path, attempt, PC, Status, Reason
  <2>2. Numbers'
    BY <1>9, <2>0 DEF Numbers, StepInBounds, AttemptInv, SettingsOK, Buckle, path, attempt
  <2>3. StepInBounds'
    BY <1>9, <2>0 DEF Numbers, StepInBounds, SettingsOK, Buckle, path, attempt
  <2>4. AttemptInv'
    BY <1>9, <2>0 DEF Numbers, AttemptInv, InPath, SettingsOK, Buckle, path, attempt
  <2>5. EndInv'
    BY <1>9, <2>0, RequestsAssumption DEF RequestsAssumption, Shapes, Numbers, AttemptInv, EndInv, InPath, Buckle, path, attempt, Status, Reason
  <2> QED  BY <2>1, <2>2, <2>3, <2>4, <2>5
<1> QED  BY <1>0, <1>1, <1>2, <1>3, <1>4, <1>5, <1>6, <1>7, <1>8, <1>9 DEF Next

LEMMA AlwaysIInv == Spec => []IInv
BY InitIInv, NextIInv, PTL DEF Spec

----------------------------------------------------------------------------
(* What the converged state has of the support displacements belongs to its
   coordinate, and what the trial state has to the target: a cutback adds
   nothing twice. *)
ImposedInv ==
  /\ imposed \in [held: Int, particular: Int, trial: Int]
  /\ imposed.held = particularOf(factor) /\ imposed.particular = particularOf(factor)
  /\ pc \in {"newton", "accepted", "failed"} => imposed.trial = particularOf(target)

LEMMA ParticularIsNumber ==
  ASSUME NEW c \in Nat PROVE particularOf(c) \in Int
BY StepsAssumption DEF StepsAssumption, particularOf, loadFactors, lesser

LEMMA InitImposedInv == Init => ImposedInv
<1> SUFFICES ASSUME Init PROVE ImposedInv
  OBVIOUS
<1>1. particularOf(0) = 0
  BY StepsAssumption DEF StepsAssumption, particularOf, loadFactors, lesser
<1> QED  BY <1>1 DEF Init, ImposedInv

LEMMA NextImposedInv == IInv /\ ImposedInv /\ [Next]_vars => ImposedInv'
<1> SUFFICES ASSUME IInv, ImposedInv, [Next]_vars PROVE ImposedInv'
  OBVIOUS
<1>1. factor \in Nat /\ target \in Nat
  BY Bounds DEF IInv, Numbers
<1>2. ASSUME UNCHANGED <<mode, factor, target, imposed>>, pc' \notin {"newton", "accepted", "failed"} \/ pc \in {"newton", "accepted"}
      PROVE  ImposedInv'
  BY <1>2 DEF ImposedInv, particularOf, loadFactors
<1>3. CASE UNCHANGED vars
  BY <1>3 DEF vars, given, path, attempt, ImposedInv, particularOf, loadFactors
<1>4. CASE Attempt
  <2>1. mode' = mode /\ factor' = factor /\ target' \in Nat
    BY <1>4, GivenStays, TargetAhead DEF Next, Attempt
  <2> DEFINE added == particularOf(target')
  <2>2. imposed' = [imposed EXCEPT !.trial = imposed.held + (added - imposed.particular)]
    BY <1>4 DEF Attempt
  <2>3. added \in Int
    BY <2>1, ParticularIsNumber
  <2>4. particularOf(factor') = particularOf(factor) /\ particularOf(factor)' = particularOf(factor)
        /\ particularOf(target)' = added
    BY <2>1 DEF particularOf, loadFactors
  <2> HIDE DEF added
  <2>5. imposed' \in [held: Int, particular: Int, trial: Int] /\ imposed'.trial = added
        /\ imposed'.held = imposed.held /\ imposed'.particular = imposed.particular
    BY <2>2, <2>3 DEF ImposedInv
  <2> QED  BY <2>4, <2>5 DEF ImposedInv
<1>5. CASE Accept
  <2>1. mode' = mode /\ factor' = target /\ target' = target /\ pc = "accepted"
        /\ pc' \notin {"newton", "accepted", "failed"}
    BY <1>5, GivenStays DEF Next, Accept, end
  <2> DEFINE reached == particularOf(target)
  <2>2. imposed' = [imposed EXCEPT !.held = imposed.trial, !.particular = reached]
    BY <1>5 DEF Accept
  <2>3. reached \in Int /\ imposed.trial = reached
    BY <1>1, <2>1, ParticularIsNumber DEF ImposedInv
  <2>4. particularOf(factor)' = reached
    BY <2>1 DEF particularOf, loadFactors
  <2> HIDE DEF reached
  <2>5. imposed' \in [held: Int, particular: Int, trial: Int]
        /\ imposed'.held = reached /\ imposed'.particular = reached
    BY <2>2, <2>3 DEF ImposedInv
  <2> QED  BY <2>1, <2>4, <2>5 DEF ImposedInv
<1>6. CASE Begin \/ Iterate \/ BreakOff \/ CutBack \/ Finish \/ PDeltaIterate \/ Buckle
  <2>1. UNCHANGED <<mode, factor, target, imposed>>
    BY <1>6 DEF Begin, Iterate, BreakOff, CutBack, Finish, PDeltaIterate, Buckle, given, path, attempt
  <2>2. pc' \notin {"newton", "accepted", "failed"} \/ pc \in {"newton", "accepted"}
    BY <1>6 DEF Begin, Iterate, BreakOff, CutBack, Finish, PDeltaIterate, legacyEnds, Buckle, end
  <2> QED  BY <1>2, <2>1, <2>2
<1> QED  BY <1>3, <1>4, <1>5, <1>6 DEF Next

LEMMA AlwaysImposed == Spec => []ImposedInv
BY InitImposedInv, NextImposedInv, AlwaysIInv, PTL DEF Spec

----------------------------------------------------------------------------
(* Every variable has its shape, and no coordinate of the path is past its
   end, whatever was asked for (frame_stability.py, nonlinear_path.py). *)
THEOREM TypeCorrect == Spec => []TypeOK
<1>1. IInv /\ ImposedInv => TypeOK
  BY DEF IInv, Shapes, Numbers, ImposedInv, TypeOK
<1> QED  BY <1>1, AlwaysIInv, AlwaysImposed, PTL

(* Whatever bounds a request asks for, the steps of the load path stay within
   the ones made of them, and the loop of solve_corotational_path() is over
   after so many attempts. *)
THEOREM LoopIsBounded == Spec => []LoopBounds
<1>1. IInv => LoopBounds
  BY DEF IInv, AttemptInv, LoopBounds, AttemptsBounded
<1> QED  BY <1>1, AlwaysIInv, PTL

(* The end of a path is the full value of every load of the divided frame. *)
LEMMA EndIsFullyLoaded ==
  ASSUME IInv, factor = pathEnd
  PROVE  FullyLoaded
<1> SUFFICES ASSUME NEW load \in request.loads, NEW piece \in refined(load)
             PROVE  IF piece.role = "fixed" THEN loadFactors(factor).fixed = Unit
                    ELSE loadFactors(factor).variable = Unit
  BY DEF FullyLoaded
<1>1. /\ load.type \in {"nodal", "temperature", "member_point", "distributed"}
      /\ load.role \in {"fixed", "variable"}
  BY RequestsAssumption DEF RequestsAssumption, IInv, Shapes
<1>2. piece.role \in {"fixed", "variable"}
  <2>1. piece.role = load.role
    BY <1>1, RefinedKeepsRole
  <2> QED  BY <1>1, <2>1
<1>3. hasRole(request.loads, piece.role)
  BY DEF hasRole
<1>4. mode = modeOf(request.loads)
  BY DEF IInv, Shapes
<1>5. Unit \in Nat /\ 0 < Unit /\ pathEnd = IF mode = "fixed_then_variable" THEN 2 * Unit ELSE Unit
  BY Bounds DEF IInv, pathEnd
<1>6. CASE piece.role = "fixed"
  <2>1. mode \in {"fixed_then_variable", "fixed_only"}
    BY <1>3, <1>4, <1>6 DEF modeOf
  <2> QED  BY <2>1, <1>5, <1>6 DEF loadFactors, lesser
<1>7. CASE piece.role = "variable"
  <2>1. mode \in {"fixed_then_variable", "variable_only"}
    BY <1>3, <1>4, <1>7 DEF modeOf
  <2> QED  BY <2>1, <1>5, <1>7 DEF loadFactors, lesser
<1> QED  BY <1>2, <1>6, <1>7

(* It has the support displacements in full too, unless all loads are fixed. *)
LEMMA EndIsDisplaced ==
  ASSUME IInv, ImposedInv, factor = pathEnd
  PROVE  Displaced
<1>1. Unit \in Nat /\ 0 < Unit /\ pathEnd = IF mode = "fixed_then_variable" THEN 2 * Unit ELSE Unit
  BY Bounds DEF IInv, pathEnd
<1>2. mode \in {"variable_only", "fixed_only", "fixed_then_variable"}
  BY DEF IInv, Shapes, modeOf
<1>3. imposed.held = loadFactors(pathEnd).variable
  BY DEF ImposedInv, particularOf
<1> QED  BY <1>1, <1>2, <1>3 DEF Displaced, loadFactors, lesser

(* "converged" is said of a path only with every load of the divided frame at
   its full value, "not_converged" only short of it and with a reason, and the
   methods are compared only there; with variable loads the prescribed support
   displacements are imposed in full, once, and without any not at all (frame_stability.py, nonlinear_path.py). *)
THEOREM ConvergedIsFullyLoaded == Spec => []ConvergedMeansAllLoads
<1>1. IInv /\ ImposedInv => ConvergedMeansAllLoads
  BY EndIsFullyLoaded, EndIsDisplaced DEF IInv, EndInv, ConvergedMeansAllLoads
<1> QED  BY <1>1, AlwaysIInv, AlwaysImposed, PTL

(* The converged coordinate never falls back, cutbacks or not. *)
THEOREM CoordinateRises == Spec => FactorRises
<1>1. IInv /\ IInv' /\ [Next]_vars => [factor' # factor => factor < factor' /\ factor' <= pathEnd]_vars
  <2> SUFFICES ASSUME IInv, Next, factor' # factor PROVE factor < factor' /\ factor' <= pathEnd
    OBVIOUS
  <2>1. Accept
    BY DEF Next, Begin, Attempt, Iterate, BreakOff, CutBack, Finish, PDeltaIterate, Buckle, path
  <2> QED  BY <2>1 DEF Accept, IInv, AttemptInv, Numbers
<1> QED  BY <1>1, AlwaysIInv, PTL DEF Spec, FactorRises
----------------------------------------------------------------------------
(* Every set of numbers has a smallest one: the induction the proofs on
   sequences rest on. *)
LEMMA LeastNumber ==
  ASSUME NEW T \in SUBSET Nat, T # {}
  PROVE  \E m \in T : \A n \in T : m <= n
<1> DEFINE R == OpToRel(<, Nat)
<1>1. IsWellFoundedOn(R, Nat)
  BY NatLessThanWellFounded
<1>2. \A a, b \in Nat : a < b => <<a, b>> \in R
  BY DEF OpToRel
<1> HIDE DEF R
<1>3. PICK m \in T : \A n \in T : ~(<<n, m>> \in R)
  BY <1>1, WFMin
<1>4. \A n \in T : n \in Nat /\ m \in Nat /\ ~(n < m)
  BY <1>2, <1>3, Zenon
<1> QED  BY <1>4

(* Of finitely many numbered things, the first among the smallest. *)
LEMMA FirstOfLeast ==
  ASSUME NEW K \in SUBSET Nat, K # {}, NEW size, \A k \in K : size[k] \in Nat
  PROVE  \E k \in K : \A o \in K : size[k] < size[o] \/ (size[k] = size[o] /\ k <= o)
<1> DEFINE Sizes == {size[k] : k \in K}
<1>1. PICK s \in Sizes : \A t \in Sizes : s <= t
  BY LeastNumber
<1> DEFINE OfSize == {k \in K : size[k] = s}
<1>2. OfSize \in SUBSET Nat /\ OfSize # {}
  OBVIOUS
<1>3. PICK k \in OfSize : \A o \in OfSize : k <= o
  BY <1>2, LeastNumber, Zenon
<1>4. ASSUME NEW o \in K PROVE size[k] < size[o] \/ (size[k] = size[o] /\ k <= o)
  <2>1. size[k] = s /\ k \in K /\ s <= size[o] /\ s \in Nat /\ size[o] \in Nat
    BY <1>1
  <2>2. size[o] = s => k <= o
    BY <1>3
  <2> QED  BY <2>1, <2>2
<1> QED  BY <1>4

(* If all but one of the spans from the neighbour before to the one behind are
   at least d, the last two of n + 1 numbers are far up. *)
LEMMA Spread ==
  ASSUME NEW n \in Nat \ {0}, NEW at, \A k \in 1 .. n + 1 : at[k] \in Nat,
         \A k \in 2 .. n : at[k - 1] <= at[k + 1],
         NEW d \in Nat, NEW p \in Int,
         \A k \in 2 .. n : k # p => d <= at[k + 1] - at[k - 1]
  PROVE  d * (n - 2) <= at[n] + at[n + 1]
<1> DEFINE Pair(j) == at[j] + at[j + 1]
           Claim(j) == (j < p => d * (j - 1) <= Pair(j)) /\ d * (j - 2) <= Pair(j)
           Fails == {j \in 1 .. n : ~Claim(j)}
<1>1. \A j \in 1 .. n : Pair(j) \in Nat
  OBVIOUS
<1>2. \A j \in Int : d * j \in Int /\ d * (j + 1) = d * j + d
  OBVIOUS
<1>3. Claim(1)
  BY <1>1
<1>4. ASSUME NEW j \in 1 .. n - 1, Claim(j) PROVE Claim(j + 1)
  <2>1. /\ j + 1 \in 2 .. n /\ at[j] \in Nat /\ at[j + 1] \in Nat /\ at[j + 2] \in Nat
        /\ (j + 1) - 1 = j /\ (j + 1) + 1 = j + 2
    OBVIOUS
  <2>2. at[j] <= at[j + 2] /\ (j + 1 # p => d <= at[j + 2] - at[j])
    BY <2>1
  <2>3. d * j = d * (j - 1) + d /\ d * (j - 1) = d * (j - 2) + d
    BY <1>2
  <2>4. d * (j - 2) \in Int /\ d * (j - 1) \in Int /\ d * j \in Int
    OBVIOUS
  <2> DEFINE A == d * (j - 2)  B == d * (j - 1)  C == d * j
  <2>5. A \in Int /\ B \in Int /\ C \in Int /\ C = B + d /\ B = A + d
    BY <2>3, <2>4
  <2>6. (j < p => B <= at[j] + at[j + 1]) /\ A <= at[j] + at[j + 1]
    BY <1>4
  <2> HIDE DEF A, B, C
  <2>7. (j + 1 < p => C <= at[j + 1] + at[j + 2]) /\ B <= at[j + 1] + at[j + 2]
    BY <2>1, <2>2, <2>5, <2>6
  <2> QED BY <2>7, <2>1 DEF B, C
<1> HIDE DEF Claim
<1>5. Fails = {}
  <2> SUFFICES ASSUME Fails # {} PROVE FALSE
    OBVIOUS
  <2>0. Fails \in SUBSET Nat /\ Fails # {}
    OBVIOUS
  <2>1. PICK m \in Fails : \A j \in Fails : m <= j
    BY <2>0, LeastNumber, Zenon
  <2>2. m # 1 /\ m \in 1 .. n
    BY <1>3
  <2>3. m - 1 \in 1 .. n - 1 /\ m - 1 \notin Fails
    BY <2>1, <2>2
  <2>4. Claim(m - 1) => Claim((m - 1) + 1)
    BY <1>4, <2>3
  <2> QED  BY <2>2, <2>3, <2>4
<1>6. Claim(n)
  BY <1>5
<1> QED  BY <1>6 DEF Claim
----------------------------------------------------------------------------
(* The frames that are kept for playback: in order from the unloaded state,
   and no two neighbours too far apart. *)
Frame == [step: Nat, at: Nat]
InOrder(frames) ==
  \A i, j \in 1 .. Len(frames) :
    i < j => frames[i].step < frames[j].step /\ frames[i].at < frames[j].at
Near(a, b) == (b - a) * (MaxKeyframes - 2) <= greater(2 * pathEnd, settings.maxStep * (MaxKeyframes - 2))
Spaced(frames) == \A k \in 2 .. Len(frames) : Near(frames[k - 1].at, frames[k].at)
ShowsPreload(frames, at) ==
  mode = "fixed_then_variable" /\ at >= Unit => \E k \in 1 .. Len(frames) : frames[k].at = Unit

Tells(frames, count, at) ==
  /\ frames \in Seq(Frame) /\ Len(frames) > 0
  /\ frames[1] = [step |-> 0, at |-> 0] /\ frames[Len(frames)] = [step |-> count, at |-> at]
  /\ InOrder(frames) /\ Spaced(frames) /\ ShowsPreload(frames, at)

(* The state an attempt aims at is a step away at most, and not beyond the
   end of the fixed phase. *)
Ahead ==
  pc \in {"newton", "accepted", "failed"} =>
    /\ target - factor <= settings.maxStep
    /\ mode = "fixed_then_variable" /\ factor < Unit => target <= Unit

KeyInv == Len(keyframes) <= MaxKeyframes /\ Tells(keyframes, accepted, factor) /\ Ahead

merged(frames, k) == frames[k + 1].at - frames[k - 1].at
removable(frames) == (2 .. Len(frames) - 1) \ preloadEnd(frames)

(* Scaling by a natural number keeps the order. *)
LEMMA ScaledOrder ==
  ASSUME NEW low \in Nat, NEW high \in Nat, NEW scale \in Nat, low <= high
  PROVE  low * scale <= high * scale
<1> DEFINE over == high - low
<1>1. over \in Nat /\ high = low + over
  OBVIOUS
<1> HIDE DEF over
<1>2. (low + over) * scale = low * scale + over * scale
  BY <1>1
<1>3. over * scale \in Nat /\ low * scale \in Nat
  BY <1>1
<1> QED  BY <1>1, <1>2, <1>3

(* The accepted state is added. *)
LEMMA Extended ==
  ASSUME IInv, KeyInv, pc = "accepted",
         NEW all, all = Append(keyframes, [step |-> accepted + 1, at |-> target])
  PROVE  /\ Tells(all, accepted + 1, target) /\ Len(all) = Len(keyframes) + 1
<1> DEFINE n == Len(keyframes)
           new == [step |-> accepted + 1, at |-> target]
<1>1. /\ keyframes \in Seq(Frame) /\ n \in Nat /\ n > 0 /\ new \in Frame /\ accepted \in Nat
      /\ factor \in Nat /\ target \in Nat /\ factor < target /\ target - factor <= settings.maxStep
  BY Bounds DEF KeyInv, Tells, IInv, Numbers, AttemptInv, Ahead, Frame
<1>2. /\ all \in Seq(Frame) /\ Len(all) = n + 1 /\ all[n + 1] = new
      /\ \A k \in 1 .. n : all[k] = keyframes[k] /\ keyframes[k].step \in Nat /\ keyframes[k].at \in Nat
  <2> HIDE DEF new
  <2>1. all \in Seq(Frame) /\ Len(all) = n + 1 /\ all[n + 1] = new
    BY <1>1, AppendProperties DEF new
  <2>2. \A k \in 1 .. n : all[k] = keyframes[k]
    BY <1>1, AppendProperties DEF new
  <2>3. \A k \in 1 .. n : keyframes[k] \in Frame
    BY <1>1, ElementOfSeq
  <2> QED  BY <2>1, <2>2, <2>3 DEF Frame
<1>3. keyframes[n] = [step |-> accepted, at |-> factor] /\ keyframes[1] = [step |-> 0, at |-> 0]
  BY DEF KeyInv, Tells
<1> HIDE DEF n, new
<1>4. \A k \in 1 .. n : all[k].step <= accepted /\ all[k].at <= factor
  <2> SUFFICES ASSUME NEW k \in 1 .. n PROVE all[k].step <= accepted /\ all[k].at <= factor
    OBVIOUS
  <2>1. n \in 1 .. n /\ (k = n \/ k < n)
    BY <1>1
  <2>2. k < n => keyframes[k].step < keyframes[n].step /\ keyframes[k].at < keyframes[n].at
    BY <2>1 DEF KeyInv, Tells, InOrder, n
  <2> QED  BY <1>1, <1>2, <1>3, <2>1, <2>2
<1>5. InOrder(all)
  <2> SUFFICES ASSUME NEW i \in 1 .. n + 1, NEW j \in 1 .. n + 1, i < j
               PROVE  all[i].step < all[j].step /\ all[i].at < all[j].at
    BY <1>2 DEF InOrder
  <2>1. CASE j = n + 1
    BY <2>1, <1>1, <1>2, <1>4 DEF new
  <2>2. CASE j # n + 1
    <3>1. i \in 1 .. n /\ j \in 1 .. n
      BY <2>2, <1>1
    <3> QED  BY <3>1, <1>2 DEF KeyInv, Tells, InOrder, n
  <2> QED  BY <2>1, <2>2
<1>6. Spaced(all)
  <2> SUFFICES ASSUME NEW k \in 2 .. n + 1 PROVE Near(all[k - 1].at, all[k].at)
    BY <1>2 DEF Spaced
  <2>1. CASE k = n + 1
    <3>1. all[k - 1].at = factor /\ all[k].at = target
      BY <2>1, <1>1, <1>2, <1>3 DEF new
    <3> DEFINE share == MaxKeyframes - 2  gap == target - factor
    <3>2. share \in Nat /\ gap \in Nat /\ settings.maxStep \in Nat /\ gap <= settings.maxStep /\ pathEnd \in Nat
      BY <1>1, KeyframesAssumption, Bounds DEF KeyframesAssumption, IInv, SettingsOK
    <3> HIDE DEF share, gap
    <3>3. gap * share <= settings.maxStep * share
      BY <3>2, ScaledOrder
    <3>4. gap * share \in Int /\ settings.maxStep * share \in Int
      BY <3>2
    <3>5. gap * share <= greater(2 * pathEnd, settings.maxStep * share)
      BY <3>2, <3>3, <3>4 DEF greater
    <3> QED  BY <3>1, <3>5 DEF Near, share, gap
  <2>2. CASE k # n + 1
    <3>1. k \in 2 .. n /\ k - 1 \in 1 .. n /\ k \in 1 .. n
      BY <2>2, <1>1
    <3>2. Near(keyframes[k - 1].at, keyframes[k].at)
      BY <3>1 DEF KeyInv, Tells, Spaced, n
    <3> QED  BY <3>1, <3>2, <1>2
  <2> QED  BY <2>1, <2>2
<1>7. ShowsPreload(all, target)
  <2> SUFFICES ASSUME mode = "fixed_then_variable", target >= Unit
               PROVE  \E k \in 1 .. n + 1 : all[k].at = Unit
    BY <1>2 DEF ShowsPreload
  <2>1. Unit \in Nat
    BY Bounds DEF IInv
  <2>2. CASE factor < Unit
    <3>1. target = Unit /\ n + 1 \in 1 .. n + 1
      BY <2>1, <2>2, <1>1 DEF KeyInv, Ahead
    <3> QED  BY <3>1, <1>2 DEF new
  <2>3. CASE factor >= Unit
    <3>1. PICK k \in 1 .. n : keyframes[k].at = Unit
      BY <2>3 DEF KeyInv, Tells, ShowsPreload, n
    <3>2. k \in 1 .. n + 1
      BY <1>1
    <3> QED  BY <3>1, <3>2, <1>2
  <2>4. factor < Unit \/ factor >= Unit
    BY <2>1, <1>1
  <2> QED  BY <2>2, <2>3, <2>4
<1>8. all[1] = [step |-> 0, at |-> 0] /\ Len(all) > 0
  BY <1>1, <1>2, <1>3
<1> QED  BY <1>2, <1>5, <1>6, <1>7, <1>8 DEF Tells, new, n

(* A frame that may go and whose neighbours are closest to each other can be
   found, and goes. *)
LEMMA Retained ==
  ASSUME NEW frames \in Seq(Frame), NEW frame \in Frame, Len(frames) >= MaxKeyframes,
         NEW all, all = Append(frames, frame), InOrder(all)
  PROVE  \E i \in removable(all) :
           /\ retain(frames, frame) = without(all, i)
           /\ \A o \in removable(all) : merged(all, i) <= merged(all, o)
<1> DEFINE K == removable(all)
           size == [k \in K |-> merged(all, k)]
           First(k) == \A o \in K : merged(all, k) < merged(all, o) \/ (merged(all, k) = merged(all, o) /\ k <= o)
<1>1. /\ all \in Seq(Frame) /\ Len(all) \in Nat /\ Len(all) > 3 /\ Len(all) = Len(frames) + 1
      /\ Len(frames) \in Nat /\ MaxKeyframes \in Nat
  BY AppendProperties, KeyframesAssumption DEF KeyframesAssumption
<1>2. \A k \in 1 .. Len(all) : all[k].at \in Nat
  <2>1. \A k \in 1 .. Len(all) : all[k] \in Frame
    BY <1>1, ElementOfSeq
  <2> QED  BY <2>1 DEF Frame
<1>3. K \in SUBSET Nat /\ K \subseteq 2 .. Len(all) - 1
  BY <1>1 DEF removable
<1>4. K # {}
  <2>1. 2 \in 1 .. Len(all) /\ 3 \in 1 .. Len(all) /\ 2 \in 2 .. Len(all) - 1 /\ 3 \in 2 .. Len(all) - 1
    BY <1>1
  <2>2. all[2].at < all[3].at
    BY <2>1 DEF InOrder
  <2>3. ~(2 \in preloadEnd(all) /\ 3 \in preloadEnd(all))
    BY <2>1, <2>2, <1>2 DEF preloadEnd
  <2> QED  BY <2>1, <2>3 DEF removable
<1>5. \A k \in K : merged(all, k) \in Nat
  <2> SUFFICES ASSUME NEW k \in K PROVE merged(all, k) \in Nat
    OBVIOUS
  <2>1. k \in Nat /\ k - 1 \in 1 .. Len(all) /\ k + 1 \in 1 .. Len(all) /\ k - 1 < k + 1
    BY <1>1, <1>3
  <2>2. all[k - 1].at < all[k + 1].at
    BY <2>1 DEF InOrder
  <2> QED  BY <2>1, <2>2, <1>2 DEF merged
<1> HIDE DEF K
<1>6. \E k \in K : First(k)
  <2>1. \A k \in K : size[k] \in Nat
    BY <1>5
  <2> HIDE DEF size
  <2>2. PICK k \in K : \A o \in K : size[k] < size[o] \/ (size[k] = size[o] /\ k <= o)
    BY <1>3, <1>4, <2>1, FirstOfLeast
  <2>3. First(k)
    BY <2>2 DEF size
  <2> QED  BY <2>3
<1> DEFINE least == CHOOSE k \in K : First(k)
<1>7. least \in K /\ First(least)
  BY <1>6
<1>8. retain(frames, frame) = without(all, least)
  <2>1. ~(Len(frames) < MaxKeyframes)
    BY <1>1
  <2> QED  BY <2>1 DEF retain, K, removable, merged
<1> HIDE DEF least
<1>9. \A o \in K : merged(all, least) <= merged(all, o)
  BY <1>5, <1>7
<1> QED  BY <1>7, <1>8, <1>9 DEF K

(* The frames that are left still tell the path.  The span that remains where
   the frame was is the smallest of at least MaxKeyframes - 2 spans, and all of
   them together cover the path at most twice. *)
LEMMA Removed ==
  ASSUME IInv, NEW count, NEW at \in 0 .. pathEnd, NEW all, Tells(all, count, at), Len(all) = MaxKeyframes + 1,
         NEW i \in removable(all), \A o \in removable(all) : merged(all, i) <= merged(all, o)
  PROVE  Tells(without(all, i), count, at) /\ Len(without(all, i)) = MaxKeyframes
<1> DEFINE n == MaxKeyframes
           rest == without(all, i)
<1>1. n \in Nat /\ n >= 3 /\ Len(all) = n + 1 /\ all \in Seq(Frame) /\ pathEnd \in Nat
  BY Bounds, KeyframesAssumption DEF KeyframesAssumption, Tells, IInv
<1>2. \A k \in 1 .. n + 1 : all[k] \in Frame /\ all[k].at \in Nat
  <2>1. \A k \in 1 .. n + 1 : all[k] \in Frame
    BY <1>1, ElementOfSeq
  <2> QED  BY <2>1 DEF Frame
<1>3. i \in 2 .. n /\ i \notin preloadEnd(all)
  BY <1>1 DEF removable
<1>4. rest \in Seq(Frame) /\ Len(rest) = n /\ \A k \in 1 .. n : rest[k] = IF k < i THEN all[k] ELSE all[k + 1]
  <2>1. rest = [k \in 1 .. n |-> IF k < i THEN all[k] ELSE all[k + 1]]
    BY <1>1 DEF without
  <2>2. \A k \in 1 .. n : k \in 1 .. n + 1 /\ k + 1 \in 1 .. n + 1
    BY <1>1
  <2> HIDE DEF rest, n
  <2>3. rest \in [1 .. n -> Frame]
    BY <2>1, <2>2, <1>2
  <2> QED  BY <1>1, <2>1, <2>3, SeqDef
<1> HIDE DEF rest, n
<1>5. rest[1] = [step |-> 0, at |-> 0] /\ rest[n] = [step |-> count, at |-> at]
  BY <1>1, <1>3, <1>4 DEF Tells
<1>6. InOrder(rest)
  <2> SUFFICES ASSUME NEW a \in 1 .. n, NEW b \in 1 .. n, a < b
               PROVE  rest[a].step < rest[b].step /\ rest[a].at < rest[b].at
    BY <1>4 DEF InOrder
  <2>1. PICK c \in 1 .. n + 1, d \in 1 .. n + 1 : c < d /\ rest[a] = all[c] /\ rest[b] = all[d]
    <3>1. CASE a < i /\ b < i
      <4>1. a \in 1 .. n + 1 /\ b \in 1 .. n + 1 BY <1>1
      <4> QED  BY <3>1, <4>1, <1>4
    <3>2. CASE a < i /\ ~(b < i)
      <4>1. a \in 1 .. n + 1 /\ b + 1 \in 1 .. n + 1 /\ a < b + 1 BY <1>1
      <4> QED  BY <3>2, <4>1, <1>4
    <3>3. CASE ~(a < i) /\ ~(b < i)
      <4>1. a + 1 \in 1 .. n + 1 /\ b + 1 \in 1 .. n + 1 /\ a + 1 < b + 1 BY <1>1
      <4> QED  BY <3>3, <4>1, <1>4
    <3> QED  BY <3>1, <3>2, <3>3, <1>3
  <2> QED  BY <2>1, <1>1 DEF Tells, InOrder
<1>7. ShowsPreload(rest, at)
  <2> SUFFICES ASSUME mode = "fixed_then_variable", at >= Unit PROVE \E k \in 1 .. n : rest[k].at = Unit
    BY <1>4 DEF ShowsPreload
  <2>1. PICK k \in 1 .. n + 1 : all[k].at = Unit
    BY <1>1 DEF Tells, ShowsPreload
  <2>2. k # i
    BY <2>1, <1>1, <1>3 DEF preloadEnd
  <2>3. CASE k < i
    <3>1. k \in 1 .. n
      BY <2>3, <1>1, <1>3
    <3> QED  BY <2>1, <2>3, <3>1, <1>4
  <2>4. CASE k > i
    <3>1. k - 1 \in 1 .. n /\ ~(k - 1 < i) /\ (k - 1) + 1 = k
      BY <2>4, <1>1, <1>3
    <3> QED  BY <2>1, <3>1, <1>4
  <2> QED  BY <2>2, <2>3, <2>4, <1>3
<1>8. Near(all[i - 1].at, all[i + 1].at)
  <2> DEFINE d == merged(all, i)
             place == [k \in 1 .. n + 1 |-> all[k].at]
  <2>1. \A k \in 1 .. n + 1 : place[k] \in Nat /\ place[k] = all[k].at
    BY <1>2
  <2>2. \A k \in 2 .. n : /\ k - 1 \in 1 .. n + 1 /\ k + 1 \in 1 .. n + 1
                          /\ place[k - 1] < place[k + 1] /\ merged(all, k) = place[k + 1] - place[k - 1]
    <3> SUFFICES ASSUME NEW k \in 2 .. n
                 PROVE  /\ k - 1 \in 1 .. n + 1 /\ k + 1 \in 1 .. n + 1
                        /\ place[k - 1] < place[k + 1] /\ merged(all, k) = place[k + 1] - place[k - 1]
      OBVIOUS
    <3>1. k - 1 \in 1 .. n + 1 /\ k + 1 \in 1 .. n + 1 /\ k - 1 < k + 1
      BY <1>1
    <3>2. all[k - 1].at < all[k + 1].at
      BY <3>1, <1>1 DEF Tells, InOrder
    <3> QED  BY <3>1, <3>2, <2>1 DEF merged
  <2>3. PICK p \in Int : \A k \in 2 .. n : k # p => k \in removable(all)
    <3>1. CASE \E p \in 2 .. n : p \in preloadEnd(all)
      <4>1. PICK p \in 2 .. n : p \in preloadEnd(all)
        BY <3>1
      <4>2. \A k \in 2 .. n : k # p => k \notin preloadEnd(all)
        <5> SUFFICES ASSUME NEW k \in 2 .. n, k # p PROVE all[k].at # all[p].at
          BY <4>1 DEF preloadEnd
        <5>1. k \in 1 .. n + 1 /\ p \in 1 .. n + 1 /\ (k < p \/ p < k)
          BY <1>1, <4>1
        <5>2. all[k].at < all[p].at \/ all[p].at < all[k].at
          BY <5>1, <1>1 DEF Tells, InOrder
        <5> QED  BY <5>1, <5>2, <1>2
      <4>3. \A k \in 2 .. n : k # p => k \in removable(all)
        BY <4>2, <1>1 DEF removable
      <4>4. p \in Int
        OBVIOUS
      <4> QED  BY <4>3, <4>4
    <3>2. CASE ~\E p \in 2 .. n : p \in preloadEnd(all)
      BY <3>2, <1>1 DEF removable
    <3> QED  BY <3>1, <3>2
  <2>4. d \in Nat /\ \A k \in 2 .. n : k # p => d <= place[k + 1] - place[k - 1]
    <3>1. i - 1 \in 1 .. n + 1 /\ i + 1 \in 1 .. n + 1 /\ place[i - 1] < place[i + 1] /\ d = place[i + 1] - place[i - 1]
      BY <1>3, <2>2
    <3>2. d \in Nat
      BY <3>1, <2>1
    <3>3. \A k \in 2 .. n : k # p => d <= merged(all, k)
      BY <2>3
    <3> QED  BY <3>2, <3>3, <2>2
  <2>5. place[n] <= pathEnd /\ place[n + 1] <= pathEnd /\ place[n] \in Nat /\ place[n + 1] \in Nat
    <3>1. n \in 1 .. n + 1 /\ n + 1 \in 1 .. n + 1 /\ n < n + 1
      BY <1>1
    <3>2. all[n].at < all[n + 1].at /\ all[n + 1].at = at
      BY <3>1, <1>1 DEF Tells, InOrder
    <3> QED  BY <3>1, <3>2, <2>1, <1>1
  <2> HIDE DEF d, place
  <2>6. d * (n - 2) <= place[n] + place[n + 1]
    <3>1. \A k \in 2 .. n : place[k - 1] <= place[k + 1]
      BY <2>1, <2>2
    <3>2. \A k \in 1 .. n + 1 : place[k] \in Nat
      BY <2>1
    <3>3. n \in Nat \ {0}
      BY <1>1
    <3> QED  BY <2>4, <3>1, <3>2, <3>3, Spread, Zenon
  <2>7. d * (n - 2) <= 2 * pathEnd /\ d * (n - 2) \in Int
    BY <2>4, <2>5, <2>6, <1>1
  <2>8. settings.maxStep * (n - 2) \in Int
    BY <1>1, Bounds DEF IInv, SettingsOK
  <2>9. d * (n - 2) <= greater(2 * pathEnd, settings.maxStep * (n - 2))
    BY <2>7, <2>8, <1>1 DEF greater
  <2> QED  BY <2>9 DEF Near, d, merged, n
<1>9. Spaced(rest)
  <2> SUFFICES ASSUME NEW k \in 2 .. n PROVE Near(rest[k - 1].at, rest[k].at)
    BY <1>4 DEF Spaced
  <2>0. /\ k - 1 \in 1 .. n /\ k \in 1 .. n /\ k \in 2 .. n + 1 /\ k + 1 \in 2 .. n + 1
        /\ (k - 1) + 1 = k /\ (k + 1) - 1 = k
    BY <1>1
  <2>1. CASE k < i
    <3>1. rest[k - 1] = all[k - 1] /\ rest[k] = all[k]
      BY <2>0, <2>1, <1>3, <1>4
    <3> QED  BY <3>1, <2>0, <1>1 DEF Tells, Spaced
  <2>2. CASE k = i
    <3>1. rest[k - 1] = all[i - 1] /\ rest[k] = all[i + 1]
      BY <2>0, <2>2, <1>3, <1>4
    <3> QED  BY <3>1, <1>8
  <2>3. CASE k > i
    <3>1. rest[k - 1] = all[k] /\ rest[k] = all[k + 1]
      BY <2>0, <2>3, <1>3, <1>4
    <3>2. Near(all[(k + 1) - 1].at, all[k + 1].at)
      BY <2>0, <1>1 DEF Tells, Spaced
    <3> QED  BY <3>1, <3>2, <2>0
  <2> QED  BY <2>1, <2>2, <2>3, <1>3
<1> QED  BY <1>1, <1>4, <1>5, <1>6, <1>7, <1>9 DEF Tells, rest, n

LEMMA InitKeyInv == Init => KeyInv
<1> SUFFICES ASSUME Init PROVE KeyInv
  OBVIOUS
<1>1. Unit \in Nat /\ 0 < Unit /\ MaxKeyframes \in Nat /\ 1 <= MaxKeyframes
  BY StepsAssumption, KeyframesAssumption DEF StepsAssumption, KeyframesAssumption
<1>2. keyframes = <<[step |-> 0, at |-> 0]>> /\ accepted = 0 /\ factor = 0 /\ pc = "start"
  BY DEF Init
<1>3. keyframes \in Seq(Frame) /\ Len(keyframes) = 1 /\ keyframes[1] = [step |-> 0, at |-> 0]
  BY <1>2 DEF Frame
<1> QED  BY <1>1, <1>2, <1>3 DEF KeyInv, Tells, InOrder, Spaced, ShowsPreload, Ahead

LEMMA NextKeyInv == IInv /\ KeyInv /\ [Next]_vars => KeyInv'
<1> SUFFICES ASSUME IInv, KeyInv, [Next]_vars PROVE KeyInv'
  OBVIOUS
<1>1. mode' = mode /\ settings' = settings /\ pathEnd' = pathEnd
  BY GivenStays DEF vars, given, pathEnd
<1>2. ASSUME NEW frames, NEW count, NEW at, keyframes' = frames, accepted' = count, factor' = at, Tells(frames, count, at)
      PROVE  Tells(keyframes, accepted, factor)'
  BY <1>1, <1>2 DEF Tells, InOrder, Spaced, Near, ShowsPreload
<1>3. CASE Accept
  <2> DEFINE new == [step |-> accepted + 1, at |-> target]
             all == Append(keyframes, new)
  <2>1. /\ pc = "accepted" /\ factor' = target /\ accepted' = accepted + 1
        /\ keyframes' = retain(keyframes, new) /\ pc' \notin {"newton", "accepted", "failed"}
    BY <1>3 DEF Accept, end
  <2>2. /\ keyframes \in Seq(Frame) /\ new \in Frame /\ target \in 0 .. pathEnd
        /\ Len(keyframes) \in Nat /\ MaxKeyframes \in Nat /\ Len(keyframes) <= MaxKeyframes
    BY KeyframesAssumption DEF KeyframesAssumption, KeyInv, Tells, IInv, Numbers, Frame
  <2>3. Tells(all, accepted + 1, target) /\ Len(all) = Len(keyframes) + 1
    BY <2>1, Extended
  <2>4. Ahead'
    BY <2>1 DEF Ahead
  <2>5. CASE Len(keyframes) < MaxKeyframes
    <3>1. retain(keyframes, new) = all
      BY <2>5 DEF retain
    <3>2. Tells(keyframes, accepted, factor)'
      BY <2>1, <2>3, <3>1, <1>2
    <3>3. Len(keyframes') <= MaxKeyframes
      BY <2>1, <2>2, <2>3, <2>5, <3>1
    <3> QED  BY <2>4, <3>2, <3>3 DEF KeyInv
  <2>6. CASE ~(Len(keyframes) < MaxKeyframes)
    <3>1. Len(keyframes) >= MaxKeyframes /\ Len(all) = MaxKeyframes + 1
      BY <2>2, <2>3, <2>6
    <3>2. InOrder(all)
      BY <2>3 DEF Tells
    <3> HIDE DEF all, new
    <3>3. PICK i \in removable(all) : /\ retain(keyframes, new) = without(all, i)
                                      /\ \A o \in removable(all) : merged(all, i) <= merged(all, o)
      BY <2>2, <3>1, <3>2, Retained DEF all
    <3>4. Tells(without(all, i), accepted + 1, target) /\ Len(without(all, i)) = MaxKeyframes
      BY <2>2, <2>3, <3>1, <3>3, Removed
    <3>5. Tells(keyframes, accepted, factor)'
      BY <2>1, <3>3, <3>4, <1>2
    <3>6. Len(keyframes') <= MaxKeyframes
      BY <2>1, <2>2, <3>3, <3>4
    <3> QED  BY <2>4, <3>5, <3>6 DEF KeyInv
  <2> QED  BY <2>5, <2>6
<1>4. CASE Attempt
  <2>1. keyframes' = keyframes /\ accepted' = accepted /\ factor' = factor
    BY <1>4 DEF Attempt
  <2>2. Tells(keyframes, accepted, factor)'
    BY <2>1, <1>2 DEF KeyInv
  <2>3. target' = LET next == lesser(pathEnd, factor + step)
                  IN IF mode = "fixed_then_variable" /\ factor < Unit THEN lesser(Unit, next) ELSE next
    BY <1>4 DEF Attempt
  <2>4. /\ pathEnd \in Nat /\ factor \in Nat /\ step \in Nat /\ step <= settings.maxStep
        /\ settings.maxStep \in Nat /\ Unit \in Nat
    BY Bounds DEF IInv, Numbers, StepInBounds, SettingsOK
  <2>5. target' - factor <= settings.maxStep /\ (mode = "fixed_then_variable" /\ factor < Unit => target' <= Unit)
    BY <2>3, <2>4 DEF lesser
  <2>6. Ahead'
    BY <2>1, <2>5, <1>1 DEF Ahead
  <2> QED  BY <2>1, <2>2, <2>6 DEF KeyInv
<1>5. CASE UNCHANGED vars \/ Begin \/ Iterate \/ BreakOff \/ CutBack \/ Finish \/ PDeltaIterate \/ Buckle
  <2>1. /\ keyframes' = keyframes /\ accepted' = accepted /\ factor' = factor
        /\ pc' \in {"newton", "accepted", "failed"} => target' = target /\ pc \in {"newton", "accepted", "failed"}
    <3>1. CASE UNCHANGED vars
      BY <3>1 DEF vars, path, attempt
    <3>2. CASE Begin \/ Buckle
      BY <3>2 DEF Begin, Buckle, path, attempt
    <3>3. CASE Iterate
      BY <3>3 DEF Iterate
    <3>4. CASE BreakOff
      BY <3>4 DEF BreakOff, path, attempt
    <3>5. CASE CutBack
      BY <3>5 DEF CutBack, end
    <3>6. CASE Finish
      BY <3>6 DEF Finish, end, path, attempt
    <3>7. CASE PDeltaIterate
      BY <3>7 DEF PDeltaIterate, legacyEnds, path, attempt
    <3> QED  BY <1>5, <3>1, <3>2, <3>3, <3>4, <3>5, <3>6, <3>7
  <2>2. Tells(keyframes, accepted, factor)'
    BY <2>1, <1>2 DEF KeyInv
  <2>3. Ahead'
    BY <2>1, <1>1 DEF KeyInv, Ahead
  <2> QED  BY <2>1, <2>2, <2>3 DEF KeyInv
<1> QED  BY <1>3, <1>4, <1>5 DEF Next

(* However many steps a path takes, the frames kept for playback run from the
   unloaded state to the last converged one, in order, within their limit,
   with the end of the fixed phase, and none too far from the next
   (_retain_keyframe in nonlinear_path.py). *)
THEOREM KeyframesSpreadOverPath == Spec => []KeyframesTellPath
<1>1. ASSUME KeyInv PROVE KeyframesTellPath
  <2> DEFINE n == Len(keyframes)
  <2>1. n \in Nat /\ n > 0 /\ n <= MaxKeyframes /\ DOMAIN keyframes = 1 .. n
    BY <1>1, LenProperties DEF KeyInv, Tells
  <2>2. \A k \in 2 .. n : k - 1 \in 1 .. n /\ k \in 1 .. n /\ k - 1 < k
    BY <2>1
  <2>3. \A k \in 2 .. n : keyframes[k - 1].step < keyframes[k].step /\ keyframes[k - 1].at < keyframes[k].at
    BY <1>1, <2>2 DEF KeyInv, Tells, InOrder
  <2> QED  BY <1>1, <2>1, <2>3 DEF KeyInv, Tells, Spaced, Near, ShowsPreload, KeyframesTellPath
<1>2. Spec => [](IInv /\ KeyInv)
  <2>1. IInv /\ KeyInv /\ [Next]_vars => (IInv /\ KeyInv)'
    BY NextIInv, NextKeyInv
  <2> QED  BY <2>1, InitIInv, InitKeyInv, PTL DEF Spec
<1> QED  BY <1>1, <1>2, PTL
----------------------------------------------------------------------------
(* Sums over finite sets, as MapThenSumSet takes them: one member at a time,
   the chosen one first.  They exist, they are Adds, and it does not matter
   which member comes first. *)
chosen(s) == CHOOSE x \in s : TRUE
Recurs(f, g, S) ==
  \A s \in SUBSET S : g[s] = IF s = {} THEN 0 ELSE f[chosen(s)] + g[s \ {chosen(s)}]
Adds(f, g, S) == g \in [SUBSET S -> Int] /\ Recurs(f, g, S)

LEMMA LeastSubset ==
  ASSUME NEW S, IsFiniteSet(S), NEW F \in SUBSET SUBSET S, F # {}
  PROVE  \E T \in F : \A U \in F : U \subseteq T => U = T
<1> DEFINE R == StrictSubsetOrdering(S)
<1>1. IsWellFoundedOn(R, SUBSET S)
  BY FS_StrictSubsetOrderingWellFounded, FS_FiniteSubsetsOfFinite
<1>2. \A U, T \in SUBSET S : U \subseteq T /\ U # T => <<U, T>> \in R
  BY DEF StrictSubsetOrdering
<1> HIDE DEF R
<1>3. PICK T \in F : \A U \in F : ~(<<U, T>> \in R)
  BY <1>1, WFMin
<1> QED  BY <1>2, <1>3

LEMMA OneSum ==
  ASSUME NEW S, IsFiniteSet(S), NEW f, NEW g, Recurs(f, g, S), NEW T \in SUBSET S, NEW h, Recurs(f, h, T)
  PROVE  \A s \in SUBSET T : g[s] = h[s]
<1> DEFINE Differ == {s \in SUBSET T : g[s] # h[s]}
<1>1. Differ \in SUBSET SUBSET S
  OBVIOUS
<1>2. CASE Differ = {}
  BY <1>2
<1>3. CASE Differ # {}
  <2>1. PICK s \in Differ : \A U \in Differ : U \subseteq s => U = s
    <3> HIDE DEF Differ
    <3> QED  BY <1>1, <1>3, LeastSubset
  <2>2. s \in SUBSET T /\ s \in SUBSET S
    OBVIOUS
  <2>3. s # {}
    BY <2>2 DEF Adds, Recurs
  <2>4. chosen(s) \in s
    BY <2>3 DEF chosen
  <2>5. s \ {chosen(s)} \notin Differ
    BY <2>1, <2>4
  <2>6. g[s \ {chosen(s)}] = h[s \ {chosen(s)}]
    BY <2>2, <2>5
  <2>7. g[s] = f[chosen(s)] + g[s \ {chosen(s)}] /\ h[s] = f[chosen(s)] + h[s \ {chosen(s)}]
    BY <2>2, <2>3 DEF Adds, Recurs
  <2> QED  BY <2>6, <2>7
<1> QED  BY <1>2, <1>3

LEMMA SumExists ==
  ASSUME NEW S, IsFiniteSet(S), NEW f, \A x \in S : f[x] \in Int
  PROVE  \E g : Adds(f, g, S)
<1> DEFINE Without == {T \in SUBSET S : ~\E g : Adds(f, g, T)}
<1> SUFFICES ASSUME Without # {} PROVE FALSE
  OBVIOUS
<1>1. PICK T \in Without : \A U \in Without : U \subseteq T => U = T
  <2>1. Without \in SUBSET SUBSET S
    OBVIOUS
  <2> HIDE DEF Without
  <2> QED  BY <2>1, LeastSubset
<1> DEFINE of(s) == CHOOSE g : Adds(f, g, s)
           sum(s) == of(s)[s]
           whole == IF T = {} THEN 0 ELSE f[chosen(T)] + sum(T \ {chosen(T)})
           g == [s \in SUBSET T |-> IF s = T THEN whole ELSE sum(s)]
<1>2. \A s \in SUBSET T : s # T => Adds(f, of(s), s)
  BY <1>1
<1> HIDE DEF of
<1>3. \A s \in SUBSET T : s # T => sum(s) \in Int
  BY <1>2 DEF Adds, Recurs
<1>4. \A s \in SUBSET T : s # {} => chosen(s) \in s /\ s \ {chosen(s)} \in SUBSET T /\ s \ {chosen(s)} # T
  BY DEF chosen
<1>5. ASSUME NEW s \in SUBSET T, s # T, s # {}
      PROVE  sum(s) = f[chosen(s)] + sum(s \ {chosen(s)})
  <2> DEFINE r == s \ {chosen(s)}
  <2>1. chosen(s) \in s /\ r \in SUBSET T /\ r # T /\ r \in SUBSET s
    BY <1>4, <1>5
  <2>2. IsFiniteSet(s)
    BY FS_Subset
  <2>3. Adds(f, of(s), s) /\ Adds(f, of(r), r)
    BY <1>2, <1>5, <2>1
  <2>4. of(s)[r] = of(r)[r]
    <3> HIDE DEF r
    <3>1. \A u \in SUBSET r : of(s)[u] = of(r)[u]
      BY <2>1, <2>2, <2>3, OneSum DEF Adds
    <3> QED  BY <3>1
  <2>5. of(s)[s] = f[chosen(s)] + of(s)[r]
    BY <2>3, <1>5 DEF Adds, Recurs
  <2> QED  BY <2>4, <2>5
<1>6. whole \in Int
  <2>1. CASE T = {}
    BY <2>1
  <2>2. CASE T # {}
    <3>1. chosen(T) \in S /\ sum(T \ {chosen(T)}) \in Int
      BY <2>2, <1>3, <1>4
    <3> HIDE DEF sum
    <3> QED  BY <3>1, <2>2
  <2> QED  BY <2>1, <2>2
<1> HIDE DEF sum, whole
<1>7. g \in [SUBSET T -> Int]
  BY <1>3, <1>6
<1>8. ASSUME NEW s \in SUBSET T
      PROVE  g[s] = IF s = {} THEN 0 ELSE f[chosen(s)] + g[s \ {chosen(s)}]
  <2>1. CASE s = T
    BY <2>1, <1>4 DEF whole
  <2>2. CASE s # T /\ s = {}
    <3>1. Adds(f, of(s), s)
      BY <1>2, <2>2
    <3>2. of(s)[s] = 0
      BY <3>1, <2>2 DEF Adds, Recurs
    <3> QED  BY <3>2, <2>2 DEF sum
  <2>3. CASE s # T /\ s # {}
    <3>1. g[s] = sum(s) /\ g[s \ {chosen(s)}] = sum(s \ {chosen(s)})
      BY <2>3, <1>4
    <3> QED  BY <3>1, <2>3, <1>5
  <2> QED  BY <2>1, <2>2, <2>3
<1>9. Adds(f, g, T)
  BY <1>7, <1>8 DEF Adds, Recurs
<1> QED  BY <1>9

LEMMA AnyFirst ==
  ASSUME NEW S, IsFiniteSet(S), NEW f, \A x \in S : f[x] \in Int, NEW g, Adds(f, g, S)
  PROVE  \A T \in SUBSET S : \A x \in T : g[T] = f[x] + g[T \ {x}]
<1> DEFINE Fails == {T \in SUBSET S : \E x \in T : g[T] # f[x] + g[T \ {x}]}
<1> SUFFICES ASSUME Fails # {} PROVE FALSE
  OBVIOUS
<1>1. PICK T \in Fails : \A U \in Fails : U \subseteq T => U = T
  <2>1. Fails \in SUBSET SUBSET S
    OBVIOUS
  <2> HIDE DEF Fails
  <2> QED  BY <2>1, LeastSubset
<1>2. PICK x \in T : g[T] # f[x] + g[T \ {x}]
  OBVIOUS
<1> DEFINE c == chosen(T)
<1>3. T # {} /\ c \in T /\ g[T] = f[c] + g[T \ {c}]
  <2>1. T # {} /\ T \in SUBSET S
    OBVIOUS
  <2> QED  BY <2>1 DEF chosen, Adds, Recurs
<1> HIDE DEF c
<1>4. x # c
  BY <1>2, <1>3
<1>5. T \ {c} \notin Fails /\ T \ {x} \notin Fails
  BY <1>1, <1>3
<1>6. g[T \ {c}] = f[x] + g[(T \ {c}) \ {x}] /\ g[T \ {x}] = f[c] + g[(T \ {x}) \ {c}]
  BY <1>3, <1>4, <1>5
<1>7. (T \ {c}) \ {x} = (T \ {x}) \ {c} /\ (T \ {x}) \ {c} \in SUBSET S /\ c \in S /\ x \in S
  BY <1>3
<1>8. f[c] \in Int /\ f[x] \in Int /\ g[(T \ {x}) \ {c}] \in Int
  BY <1>7 DEF Adds, Recurs
<1> DEFINE v == g[(T \ {x}) \ {c}]
<1>9. g[T \ {c}] = f[x] + v /\ g[T \ {x}] = f[c] + v
  BY <1>6, <1>7
<1> HIDE DEF v
<1>10. f[c] + (f[x] + v) = f[x] + (f[c] + v)
  BY <1>8 DEF v
<1> QED  BY <1>2, <1>3, <1>9, <1>10

----------------------------------------------------------------------------
(* What split() makes of a distributed load: on each segment that the load
   covers one piece, of the line between its two intensities. *)
lineAt(load, x) ==
  LET d == ordered(load) IN d.qLo * (d.hi - d.lo) + (d.qHi - d.qLo) * (x - d.lo)
begins(load, i) == greater(ordered(load).lo, i * Grid)
stops(load, i) == lesser(ordered(load).hi, (i + 1) * Grid)
covered(load, i) == begins(load, i) < stops(load, i)
piece(load, i) ==
  [member |-> i, role |-> load.role, from |-> begins(load, i) - i * Grid, to |-> stops(load, i) - i * Grid,
   qFrom |-> lineAt(load, begins(load, i)), qTo |-> lineAt(load, stops(load, i))]
(* Where the part of the load on the first i segments ends. *)
edge(load, i) == greater(ordered(load).lo, lesser(ordered(load).hi, i * Grid))

IsLine(load) ==
  load.from \in Int /\ load.to \in Int /\ load.qFrom \in Int /\ load.qTo \in Int

LEMMA OrderedLine ==
  ASSUME NEW load, IsLine(load)
  PROVE  LET d == ordered(load)
         IN /\ d.lo \in Int /\ d.hi \in Int /\ d.qLo \in Int /\ d.qHi \in Int
            /\ 0 <= d.lo /\ d.lo <= d.hi /\ d.hi <= MemberLength
            /\ MemberLength \in Nat
<1> DEFINE a == clamp(load.from)  b == clamp(load.to)
<1>1. MemberLength \in Nat
  BY RefinementAssumption DEF RefinementAssumption, MemberLength
<1>2. a \in 0 .. MemberLength /\ b \in 0 .. MemberLength
  BY <1>1 DEF IsLine, clamp, lesser, greater
<1> HIDE DEF a, b
<1>3. ordered(load) = IF b < a THEN [lo |-> b, hi |-> a, qLo |-> load.qTo, qHi |-> load.qFrom]
                      ELSE [lo |-> a, hi |-> b, qLo |-> load.qFrom, qHi |-> load.qTo]
  BY DEF ordered, a, b
<1> QED  BY <1>1, <1>2, <1>3 DEF IsLine

LEMMA Edges ==
  ASSUME NEW load, IsLine(load), NEW i \in Segment
  PROVE  /\ edge(load, i) \in Int /\ edge(load, i + 1) \in Int
         /\ covered(load, i) => edge(load, i) = begins(load, i) /\ edge(load, i + 1) = stops(load, i)
         /\ ~covered(load, i) => edge(load, i + 1) = edge(load, i)
<1> DEFINE d == ordered(load)  x == i * Grid
<1>1. i \in Nat /\ Grid \in Nat
  BY RefinementAssumption DEF RefinementAssumption, Segment
<1>2. x \in Int /\ (i + 1) * Grid = x + Grid
  BY <1>1
<1>3. d.lo \in Int /\ d.hi \in Int /\ d.lo <= d.hi
  BY OrderedLine
<1> HIDE DEF d, x
<1>4. /\ begins(load, i) = greater(d.lo, x) /\ stops(load, i) = lesser(d.hi, x + Grid)
      /\ edge(load, i) = greater(d.lo, lesser(d.hi, x)) /\ edge(load, i + 1) = greater(d.lo, lesser(d.hi, x + Grid))
  BY <1>2 DEF begins, stops, edge, d, x
<1> QED  BY <1>1, <1>2, <1>3, <1>4 DEF covered, greater, lesser

LEMMA FirstAndLastEdge ==
  ASSUME NEW load, IsLine(load)
  PROVE  edge(load, 0) = ordered(load).lo /\ edge(load, Subdivisions) = ordered(load).hi
<1>1. 0 * Grid = 0 /\ Subdivisions * Grid = MemberLength
  BY RefinementAssumption DEF RefinementAssumption, MemberLength
<1> QED  BY <1>1, OrderedLine DEF edge, greater, lesser

LEMMA Pieces ==
  ASSUME NEW load
  PROVE  split(load) = {piece(load, i) : i \in {j \in Segment : covered(load, j)}}
BY DEF split, piece, covered, begins, stops, lineAt

LEMMA FinitelyManyPieces ==
  ASSUME NEW load
  PROVE  IsFiniteSet(split(load))
<1> DEFINE C == {j \in Segment : covered(load, j)}
<1>1. IsFiniteSet(Segment)
  BY FS_Interval, RefinementAssumption DEF RefinementAssumption, Segment
<1>2. IsFiniteSet(C)
  BY <1>1, FS_Subset
<1> DEFINE m == [i \in C |-> piece(load, i)]
<1>3. m \in Surjection(C, split(load))
  BY Pieces DEF Surjection
<1> HIDE DEF C, m
<1> QED  BY <1>2, <1>3, FS_Surjection

(* What sums up along the segments sums up over the pieces. *)
LEMMA SumAlong ==
  ASSUME NEW load, NEW f, \A p \in split(load) : f[p] \in Int, NEW g, Adds(f, g, split(load)),
         NEW F, F[0] = 0, \A i \in 0 .. Subdivisions : F[i] \in Int,
         \A i \in Segment : F[i + 1] = IF covered(load, i) THEN F[i] + f[piece(load, i)] ELSE F[i]
  PROVE  g[split(load)] = F[Subdivisions]
<1> DEFINE S == split(load)
           Before(i) == {p \in S : p.member < i}
           Fails == {i \in 0 .. Subdivisions : g[Before(i)] # F[i]}
<1>0. Subdivisions \in Nat \ {0}
  BY RefinementAssumption DEF RefinementAssumption
<1>1. \A p \in S : p.member \in Segment /\ p = piece(load, p.member) /\ covered(load, p.member)
  BY Pieces DEF piece
<1>2. \A i \in Segment : covered(load, i) => piece(load, i) \in S /\ piece(load, i).member = i
  BY Pieces DEF piece
<1> HIDE DEF S
<1>3. Before(0) = {} /\ Before(Subdivisions) = S
  BY <1>0, <1>1 DEF Segment
<1>4. g[{}] = 0
  BY DEF Adds, Recurs
<1>5. ASSUME NEW i \in Segment, g[Before(i)] = F[i] PROVE g[Before(i + 1)] = F[i + 1]
  <2>1. i \in Int /\ \A p \in S : p.member \in Int
    BY <1>1 DEF Segment
  <2>2. CASE covered(load, i)
    <3> DEFINE p == piece(load, i)
    <3>1. p \in Before(i + 1) /\ Before(i + 1) \ {p} = Before(i)
      <4>1. p \in S /\ p.member = i
        BY <2>2, <1>2
      <4>2. \A q \in S : q.member = i => q = p
        BY <1>1
      <4> HIDE DEF p
      <4>3. \A q \in S : q.member < i + 1 <=> q.member < i \/ q.member = i
        BY <2>1
      <4>4. ~(i < i)
        BY <2>1
      <4> QED  BY <2>1, <4>1, <4>2, <4>3, <4>4
    <3> HIDE DEF p
    <3>2. g[Before(i + 1)] = f[p] + g[Before(i + 1) \ {p}]
      <4>1. Before(i + 1) \in SUBSET S /\ IsFiniteSet(S)
        BY FinitelyManyPieces DEF S
      <4> HIDE DEF Before
      <4> QED  BY <3>1, <4>1, AnyFirst DEF S
    <3>3. f[p] \in Int /\ F[i] \in Int
      BY <1>0, <2>2, <1>2 DEF S, Segment, p
    <3>4. F[i + 1] = F[i] + f[p]
      BY <2>2 DEF p
    <3> HIDE DEF Before
    <3>5. g[Before(i + 1)] = f[p] + F[i]
      BY <1>5, <3>1, <3>2
    <3> QED  BY <3>3, <3>4, <3>5
  <2>3. CASE ~covered(load, i)
    <3>1. \A p \in S : p.member # i
      BY <1>1, <2>3
    <3>2. \A p \in S : p.member < i + 1 <=> p.member < i
      BY <2>1, <3>1
    <3>3. Before(i + 1) = Before(i)
      BY <3>2
    <3>4. F[i + 1] = F[i]
      BY <2>3
    <3> HIDE DEF Before
    <3> QED  BY <1>5, <3>3, <3>4
  <2> QED  BY <2>2, <2>3
<1>6. Fails = {}
  <2> SUFFICES ASSUME Fails # {} PROVE FALSE
    OBVIOUS
  <2>1. PICK m \in Fails : \A i \in Fails : m <= i
    <3>1. Fails \in SUBSET Nat
      BY <1>0
    <3> HIDE DEF Fails
    <3> QED  BY <3>1, LeastNumber
  <2>2. m \in 0 .. Subdivisions /\ m # 0
    <3>1. m \in 0 .. Subdivisions /\ g[Before(m)] # F[m]
      OBVIOUS
    <3>2. Before(0) = {}
      BY <1>3
    <3> HIDE DEF Before
    <3>3. g[Before(0)] = F[0]
      BY <3>2, <1>4
    <3> QED  BY <3>1, <3>3
  <2>3. m - 1 \in Segment /\ m - 1 \in 0 .. Subdivisions /\ m - 1 < m /\ (m - 1) + 1 = m
    BY <1>0, <2>2 DEF Segment
  <2>4. m - 1 \notin Fails
    BY <2>1, <2>2, <2>3
  <2>5. g[Before(m - 1)] = F[m - 1]
    BY <2>3, <2>4
  <2>6. g[Before(m)] = F[m]
    <3> HIDE DEF Before
    <3>1. g[Before((m - 1) + 1)] = F[(m - 1) + 1]
      BY <1>5, <2>3, <2>5
    <3> QED  BY <3>1, <2>3
  <2> QED  BY <2>1, <2>6
<1>7. Subdivisions \in 0 .. Subdivisions
  BY <1>0
<1>8. Before(Subdivisions) = S
  BY <1>3
<1>9. g[Before(Subdivisions)] = F[Subdivisions]
  <2> HIDE DEF Before
  <2> QED  BY <1>6, <1>7
<1> HIDE DEF Before
<1> QED  BY <1>8, <1>9 DEF S

(* Force and moment of a line are those of its two parts. *)
onLine(lo, q, m, z, v) == v = q + m * (z - lo)

LEMMA LineSplits ==
  ASSUME NEW lo \in Int, NEW x \in Int, NEW y \in Int, NEW q \in Int, NEW m \in Int,
         NEW qLo, NEW qX, NEW qY,
         onLine(lo, q, m, lo, qLo), onLine(lo, q, m, x, qX), onLine(lo, q, m, y, qY)
  PROVE  /\ force(lo, y, qLo, qY) = force(lo, x, qLo, qX) + force(x, y, qX, qY)
         /\ moment(lo, y, qLo, qY) = moment(lo, x, qLo, qX) + moment(x, y, qX, qY)
BY DEF force, moment, onLine

LEMMA SumsOfPieces ==
  ASSUME NEW load, IsLine(load), NEW f, NEW h, NEW g, NEW k,
         Adds(f, g, split(load)), Adds(h, k, split(load)),
         \A p \in split(load) :
           /\ f[p] = force(p.from, p.to, p.qFrom, p.qTo)
           /\ h[p] = moment(p.member * Grid + p.from, p.member * Grid + p.to, p.qFrom, p.qTo)
  PROVE  LET d == ordered(load)
         IN /\ g[split(load)] = force(d.lo, d.hi, lineAt(load, d.lo), lineAt(load, d.hi))
            /\ k[split(load)] = moment(d.lo, d.hi, lineAt(load, d.lo), lineAt(load, d.hi))
<1> DEFINE d == ordered(load)
           q == d.qLo * (d.hi - d.lo)
           m == d.qHi - d.qLo
           at(x) == q + m * (x - d.lo)
           F == [i \in 0 .. Subdivisions |-> force(d.lo, edge(load, i), at(d.lo), at(edge(load, i)))]
           M == [i \in 0 .. Subdivisions |-> moment(d.lo, edge(load, i), at(d.lo), at(edge(load, i)))]
<1>0. Subdivisions \in Nat \ {0} /\ Grid \in Nat
  BY RefinementAssumption DEF RefinementAssumption
<1>1. d.lo \in Int /\ d.hi \in Int /\ d.qLo \in Int /\ d.qHi \in Int
  BY OrderedLine
<1>2. q \in Int /\ m \in Int
  BY <1>1
<1>3. \A x : lineAt(load, x) = at(x)
  BY DEF lineAt
<1>4. \A i \in 0 .. Subdivisions : edge(load, i) \in Int
  BY <1>0, <1>1 DEF edge, greater, lesser
<1>5. edge(load, 0) = d.lo /\ edge(load, Subdivisions) = d.hi
  BY FirstAndLastEdge
<1>6. ASSUME NEW i \in Segment, covered(load, i)
      PROVE  LET b == edge(load, i)  c == edge(load, i + 1)
             IN /\ piece(load, i) \in split(load)
                /\ f[piece(load, i)] = force(b, c, at(b), at(c)) /\ h[piece(load, i)] = moment(b, c, at(b), at(c))
  <2> DEFINE b == edge(load, i)  c == edge(load, i + 1)  o == i * Grid
  <2>1. b \in Int /\ c \in Int /\ b = begins(load, i) /\ c = stops(load, i) /\ o \in Int
    BY <1>0, <1>6, Edges DEF Segment
  <2>2. piece(load, i) \in split(load)
    BY <1>6, Pieces
  <2>3. piece(load, i) = [member |-> i, role |-> load.role, from |-> b - o, to |-> c - o, qFrom |-> at(b), qTo |-> at(c)]
    BY <2>1, <1>3 DEF piece
  <2> HIDE DEF b, c, at
  <2>4. /\ f[piece(load, i)] = force(b - o, c - o, at(b), at(c))
        /\ h[piece(load, i)] = moment(o + (b - o), o + (c - o), at(b), at(c))
    BY <2>2, <2>3
  <2>5. (c - o) - (b - o) = c - b /\ o + (b - o) = b /\ o + (c - o) = c
    BY <2>1
  <2> QED  BY <2>2, <2>4, <2>5 DEF force, b, c
<1> HIDE DEF d, q, m
<1>7. ASSUME NEW i \in Segment
      PROVE  /\ F[i + 1] = IF covered(load, i) THEN F[i] + f[piece(load, i)] ELSE F[i]
             /\ M[i + 1] = IF covered(load, i) THEN M[i] + h[piece(load, i)] ELSE M[i]
  <2> DEFINE b == edge(load, i)  c == edge(load, i + 1)
  <2>1. i \in 0 .. Subdivisions /\ i + 1 \in 0 .. Subdivisions
    BY <1>0 DEF Segment
  <2>2. b \in Int /\ c \in Int
    BY <2>1, <1>4
  <2>3. CASE covered(load, i)
    <3>1. /\ force(d.lo, c, at(d.lo), at(c)) = force(d.lo, b, at(d.lo), at(b)) + force(b, c, at(b), at(c))
          /\ moment(d.lo, c, at(d.lo), at(c)) = moment(d.lo, b, at(d.lo), at(b)) + moment(b, c, at(b), at(c))
      <4>1. /\ at(d.lo) = q + m * (d.lo - d.lo) /\ at(b) = q + m * (b - d.lo) /\ at(c) = q + m * (c - d.lo)
        OBVIOUS
      <4> HIDE DEF at, b, c
      <4> DEFINE lo == d.lo  qLo == at(lo)  qX == at(b)  qY == at(c)
      <4>2. lo \in Int /\ onLine(lo, q, m, lo, qLo) /\ onLine(lo, q, m, b, qX) /\ onLine(lo, q, m, c, qY)
        BY <1>1, <4>1 DEF onLine
      <4> HIDE DEF lo, qLo, qX, qY
      <4>3. /\ force(lo, c, qLo, qY) = force(lo, b, qLo, qX) + force(b, c, qX, qY)
            /\ moment(lo, c, qLo, qY) = moment(lo, b, qLo, qX) + moment(b, c, qX, qY)
        BY <1>2, <2>2, <4>2, LineSplits
      <4> QED  BY <4>3 DEF lo, qLo, qX, qY
    <3> QED  BY <2>1, <2>3, <3>1, <1>6
  <2>4. CASE ~covered(load, i)
    BY <2>1, <2>4, Edges
  <2> QED  BY <2>3, <2>4
<1>8. \A x, y \in Int : at(x) \in Int /\ force(d.lo, x, at(d.lo), at(x)) \in Int /\ moment(d.lo, x, at(d.lo), at(x)) \in Int
                         /\ force(x, y, at(x), at(y)) \in Int /\ moment(x, y, at(x), at(y)) \in Int
  BY <1>1, <1>2 DEF force, moment
<1>9. (\A p \in split(load) : f[p] \in Int /\ h[p] \in Int)
  <2> SUFFICES ASSUME NEW p \in split(load) PROVE f[p] \in Int /\ h[p] \in Int
    OBVIOUS
  <2>1. PICK i \in Segment : covered(load, i) /\ p = piece(load, i)
    BY Pieces
  <2>2. edge(load, i) \in Int /\ edge(load, i + 1) \in Int
    BY Edges
  <2> QED  BY <2>1, <2>2, <1>6, <1>8
<1>10. F[0] = 0 /\ M[0] = 0
  BY <1>0, <1>1, <1>2, <1>5 DEF force, moment
<1>11. \A i \in 0 .. Subdivisions : F[i] \in Int /\ M[i] \in Int
  BY <1>4, <1>8
<1>12. /\ F[Subdivisions] = force(d.lo, d.hi, at(d.lo), at(d.hi))
       /\ M[Subdivisions] = moment(d.lo, d.hi, at(d.lo), at(d.hi))
  BY <1>0, <1>5
<1> HIDE DEF F, M, at
<1>13. g[split(load)] = F[Subdivisions]
  BY <1>7, <1>9, <1>10, <1>11, SumAlong
<1>14. k[split(load)] = M[Subdivisions]
  <2>1. /\ \A p \in split(load) : h[p] \in Int
        /\ M[0] = 0 /\ \A i \in 0 .. Subdivisions : M[i] \in Int
        /\ \A i \in Segment : M[i + 1] = IF covered(load, i) THEN M[i] + h[piece(load, i)] ELSE M[i]
    BY <1>7, <1>9, <1>10, <1>11
  <2> QED  BY <2>1, SumAlong
<1> QED  BY <1>3, <1>12, <1>13, <1>14 DEF d

LEMMA PiecesAreNumbers ==
  ASSUME NEW load, IsLine(load), NEW p \in split(load)
  PROVE  /\ p.member \in Int /\ p.from \in Int /\ p.to \in Int /\ p.qFrom \in Int /\ p.qTo \in Int
         /\ force(p.from, p.to, p.qFrom, p.qTo) \in Int
         /\ moment(p.member * Grid + p.from, p.member * Grid + p.to, p.qFrom, p.qTo) \in Int
<1>1. PICK i \in Segment : p = piece(load, i)
  BY Pieces
<1>2. i \in Int /\ Grid \in Int
  BY RefinementAssumption DEF RefinementAssumption, Segment
<1>3. begins(load, i) \in Int /\ stops(load, i) \in Int
  BY <1>2, OrderedLine DEF begins, stops, greater, lesser
<1>4. \A x \in Int : lineAt(load, x) \in Int
  BY OrderedLine DEF lineAt
<1>5. p.member \in Int /\ p.from \in Int /\ p.to \in Int /\ p.qFrom \in Int /\ p.qTo \in Int
  BY <1>1, <1>2, <1>3, <1>4 DEF piece
<1> QED  BY <1>2, <1>5 DEF force, moment

(* _split_distributed_load(): the segments carry the force and the moment of
   the member. *)
LEMMA ResultantKept ==
  ASSUME NEW load, IsLine(load)
  PROVE  SameResultant(load)
<1> DEFINE S == split(load)
           pieceForce(p) == force(p.from, p.to, p.qFrom, p.qTo)
           pieceMoment(p) == moment(p.member * Grid + p.from, p.member * Grid + p.to, p.qFrom, p.qTo)
           f == [p \in S |-> pieceForce(p)]
           h == [p \in S |-> pieceMoment(p)]
           byForce[s \in SUBSET S] == IF s = {} THEN 0 ELSE pieceForce(chosen(s)) + byForce[s \ {chosen(s)}]
           byMoment[s \in SUBSET S] == IF s = {} THEN 0 ELSE pieceMoment(chosen(s)) + byMoment[s \ {chosen(s)}]
<1>1. IsFiniteSet(S)
  BY FinitelyManyPieces
<1>2. (\A p \in S : f[p] \in Int) /\ (\A p \in S : h[p] \in Int)
  BY PiecesAreNumbers
<1>3. /\ MapThenSumSet(pieceForce, S) = byForce[S]
      /\ MapThenSumSet(pieceMoment, S) = byMoment[S]
  BY DEF MapThenSumSet, MapThenFoldSet, chosen
<1> HIDE DEF f, h, S
<1>4. PICK g : Adds(f, g, S)
  BY <1>1, <1>2, SumExists
<1>5. PICK k : Adds(h, k, S)
  BY <1>1, <1>2, SumExists
<1>6. \A s \in SUBSET S : s # {} => chosen(s) \in S /\ f[chosen(s)] = pieceForce(chosen(s)) /\ h[chosen(s)] = pieceMoment(chosen(s))
  BY DEF chosen, f, h
<1> HIDE DEF pieceForce, pieceMoment
<1>7. byForce[S] = g[S]
  <2>1. g = [s \in SUBSET S |-> IF s = {} THEN 0 ELSE pieceForce(chosen(s)) + g[s \ {chosen(s)}]]
    BY <1>4, <1>6 DEF Adds, Recurs
  <2>2. byForce = [s \in SUBSET S |-> IF s = {} THEN 0 ELSE pieceForce(chosen(s)) + byForce[s \ {chosen(s)}]]
    BY <2>1
  <2> HIDE DEF byForce
  <2>3. Recurs(f, byForce, S)
    BY <2>2, <1>6 DEF Recurs
  <2> QED  BY <1>1, <1>4, <2>3, OneSum DEF Adds
<1>8. byMoment[S] = k[S]
  <2>1. k = [s \in SUBSET S |-> IF s = {} THEN 0 ELSE pieceMoment(chosen(s)) + k[s \ {chosen(s)}]]
    BY <1>5, <1>6 DEF Adds, Recurs
  <2>2. byMoment = [s \in SUBSET S |-> IF s = {} THEN 0 ELSE pieceMoment(chosen(s)) + byMoment[s \ {chosen(s)}]]
    BY <2>1
  <2> HIDE DEF byMoment
  <2>3. Recurs(h, byMoment, S)
    BY <2>2, <1>6 DEF Recurs
  <2> QED  BY <1>1, <1>5, <2>3, OneSum DEF Adds
<1> HIDE DEF byForce, byMoment
<1> DEFINE d == ordered(load)  a == clamp(load.from)  b == clamp(load.to)  span == greater(a, b) - lesser(a, b)
<1>9. /\ g[S] = force(d.lo, d.hi, lineAt(load, d.lo), lineAt(load, d.hi))
      /\ k[S] = moment(d.lo, d.hi, lineAt(load, d.lo), lineAt(load, d.hi))
  <2>1. \A p \in split(load) :
          /\ f[p] = force(p.from, p.to, p.qFrom, p.qTo)
          /\ h[p] = moment(p.member * Grid + p.from, p.member * Grid + p.to, p.qFrom, p.qTo)
    BY DEF f, h, S, pieceForce, pieceMoment
  <2> QED  BY <1>4, <1>5, <2>1, SumsOfPieces DEF S
<1>10. a \in Int /\ b \in Int
  BY RefinementAssumption DEF RefinementAssumption, IsLine, clamp, lesser, greater, MemberLength
<1>11. d = IF b < a THEN [lo |-> b, hi |-> a, qLo |-> load.qTo, qHi |-> load.qFrom]
           ELSE [lo |-> a, hi |-> b, qLo |-> load.qFrom, qHi |-> load.qTo]
  BY DEF ordered
<1>12. lineAt(load, d.lo) = d.qLo * (d.hi - d.lo) /\ lineAt(load, d.hi) = d.qHi * (d.hi - d.lo)
  <2> HIDE DEF d
  <2>1. /\ lineAt(load, d.lo) = d.qLo * (d.hi - d.lo) + (d.qHi - d.qLo) * (d.lo - d.lo)
        /\ lineAt(load, d.hi) = d.qLo * (d.hi - d.lo) + (d.qHi - d.qLo) * (d.hi - d.lo)
    BY DEF lineAt, d
  <2>2. d.lo \in Int /\ d.hi \in Int /\ d.qLo \in Int /\ d.qHi \in Int
    BY OrderedLine DEF d
  <2> QED  BY <2>1, <2>2
<1> HIDE DEF d, a, b
<1>13. /\ g[S] = span * span * (load.qFrom + load.qTo)
       /\ k[S] = span * span * (load.qFrom * (2 * a + b) + load.qTo * (a + 2 * b))
  <2>1. CASE b < a
    <3>1. span = a - b /\ d.lo = b /\ d.hi = a /\ d.qLo = load.qTo /\ d.qHi = load.qFrom
      BY <2>1, <1>10, <1>11 DEF greater, lesser
    <3> QED  BY <3>1, <1>9, <1>10, <1>12 DEF IsLine, force, moment
  <2>2. CASE ~(b < a)
    <3>1. span = b - a /\ d.lo = a /\ d.hi = b /\ d.qLo = load.qFrom /\ d.qHi = load.qTo
      BY <2>2, <1>10, <1>11 DEF greater, lesser
    <3> QED  BY <3>1, <1>9, <1>10, <1>12 DEF IsLine, force, moment
  <2> QED  BY <2>1, <2>2
<1>14. /\ MapThenSumSet(pieceForce, S) = span * span * (load.qFrom + load.qTo)
       /\ MapThenSumSet(pieceMoment, S) = span * span * (load.qFrom * (2 * a + b) + load.qTo * (a + 2 * b))
  BY <1>3, <1>7, <1>8, <1>13
<1> QED  BY <1>14 DEF SameResultant, S, pieceForce, pieceMoment, a, b

(* A point load stays where it is; at the end of the member it is on the last
   segment. *)
LEMMA PointKept ==
  ASSUME NEW load, load.type = "member_point", load.at \in Int
  PROVE  SamePoint(load)
<1> DEFINE at == clamp(load.at)  q == at \div Grid  i == segmentOf(at)
<1>1. Subdivisions \in Nat \ {0} /\ Grid \in Nat \ {0} /\ MemberLength = Subdivisions * Grid /\ MemberLength \in Nat
  BY RefinementAssumption DEF RefinementAssumption, MemberLength
<1>2. at \in 0 .. MemberLength
  BY <1>1 DEF clamp, lesser, greater
<1>3. refined(load) = {[role |-> load.role, member |-> i, at |-> at - i * Grid]}
  BY DEF refined
<1>4. i = lesser(Subdivisions - 1, q)
  BY DEF segmentOf
<1> HIDE DEF at, i
<1>5. q \in Nat /\ q * Grid <= at /\ at < q * Grid + Grid
  BY <1>1, <1>2
<1> HIDE DEF q
<1>6. i \in Segment /\ i * Grid <= at /\ at <= i * Grid + Grid
  <2>1. CASE q <= Subdivisions - 1
    <3>1. i = q /\ i \in Segment
      BY <2>1, <1>1, <1>4, <1>5 DEF Segment, lesser
    <3>2. i * Grid = q * Grid /\ q * Grid \in Int
      BY <3>1, <1>1, <1>5
    <3> QED  BY <3>1, <3>2, <1>1, <1>2, <1>5
  <2>2. CASE q > Subdivisions - 1
    <3>1. i = Subdivisions - 1 /\ i \in Segment /\ i + 1 <= q
      BY <2>2, <1>1, <1>4, <1>5 DEF Segment, lesser
    <3>2. i * Grid + Grid = MemberLength /\ i \in Int
      BY <3>1, <1>1
    <3> QED  BY <3>1, <3>2, <1>1, <1>2, <1>5
  <2> QED  BY <2>1, <2>2, <1>1, <1>5
<1>7. i * Grid \in Int
  BY <1>1, <1>6 DEF Segment
<1>8. at - i * Grid \in 0 .. Grid /\ i * Grid + (at - i * Grid) = at
  BY <1>1, <1>2, <1>6, <1>7
<1> QED  BY <1>3, <1>6, <1>8 DEF SamePoint, at

(* Dividing the members for the nonlinear path neither adds nor loses load:
   force and moment of a distributed load, and the place of a point load, for
   any number of segments (_refine_structure and _split_distributed_load in
   nonlinear_path.py). *)
THEOREM DivisionKeepsEveryLoad == Spec => []DivisionKeepsLoads
<1>1. ASSUME IInv PROVE DivisionKeepsLoads
  <2> SUFFICES ASSUME NEW load \in request.loads
               PROVE  /\ load.type = "distributed" => SameResultant(load)
                      /\ load.type = "member_point" => SamePoint(load)
    BY DEF DivisionKeepsLoads
  <2>1. /\ load.type = "distributed" => IsLine(load)
        /\ load.type = "member_point" => load.at \in Int
    BY <1>1, RequestsAssumption DEF RequestsAssumption, IInv, Shapes, IsLine
  <2> QED  BY <2>1, ResultantKept, PointKept
<1> QED  BY <1>1, AlwaysIInv, PTL
=============================================================================
