------------------------------ MODULE LoadPath ------------------------------
(***************************************************************************)
(* The nonlinear load path of a frame and the second-order result made of  *)
(* it: backend/solver/frame/nonlinear_path.py,                             *)
(* application/frame_stability.py, normalizers/frame/request_normalizer.py.*)
(*                                                                         *)
(* Load factors are whole numbers, Unit for 1.0.  What the Newton          *)
(* iteration computes is a nondeterministic choice of its outcomes; Cut,   *)
(* Grow and Slow are what the three factors of the options make of a step, *)
(* rounded as floating point rounds.                                       *)
(***************************************************************************)
EXTENDS Integers, Sequences, MemberRefinement

CONSTANTS
  Unit, Quarter, Hundredth, Least, Smallest,  \* 1.0, 0.25, 0.01, 1e-4, 1e-6
  DefaultStep,                \* 1 / loadSteps
  Cut, Grow, Slow,
  TargetIterations, SlowIterations,
  LoadSteps,                  \* of the initial-stress method
  MaxKeyframes,
  Requests, None

Algorithm == {"off", "initial_stress_v1", "corotational_newton_v1"}
Reason == {"maximum_accepted_steps_exhausted", "maximum_cutbacks_exhausted", "minimum_step_exhausted"}
Status == {"not_enabled", "converged", "not_converged", "error"}
Options ==
  [initialStep: Int \cup {None}, minStep: Int \cup {None}, maxStep: Int \cup {None},
   maxIterations: Nat \ {0}, maxCutbacks: Nat, maxAcceptedSteps: Nat \ {0}]

ASSUME StepsAssumption ==
  /\ {Unit, Quarter, Hundredth, Least, Smallest, DefaultStep} \subseteq Nat
  /\ 0 < Smallest /\ Smallest <= Least /\ Least <= Unit
  /\ {Cut, Grow, Slow} \subseteq [1 .. Unit -> Nat]
  /\ \A s \in 1 .. Unit : Cut[s] <= s /\ Slow[s] <= s /\ s <= Grow[s]

ASSUME KeyframesAssumption == MaxKeyframes \in Nat /\ MaxKeyframes >= 3

ASSUME RequestsAssumption ==
  /\ LoadSteps \in Nat \ {0}
  /\ None \notin Int /\ None \notin Reason /\ None \notin Status
  /\ \A r \in Requests :
       /\ r.algorithm \in Algorithm /\ r.options \in Options
       /\ {r.comparison, r.imperfect, r.buckling} \subseteq BOOLEAN
       /\ \A load \in r.loads :
            /\ load.type \in {"nodal", "temperature", "member_point", "distributed"}
            /\ load.role \in {"fixed", "variable"}
            /\ load.type = "distributed" => {load.from, load.to, load.qFrom, load.qTo} \subseteq Int
            /\ load.type = "member_point" => load.at \in Int

VARIABLES
  request,    \* what was asked for
  settings,   \* its options, normalized
  mode,       \* path_mode
  pc,
  factor,     \* the path coordinate that has converged
  step,       \* step_size
  target, records,    \* of the attempt under way: its coordinate, its iterations
  imposed,    \* of the prescribed support displacements: what the converged state and the trial
              \* state have, and converged_particular
  accepted, cutbacks,
  failures,   \* attempts that failed, all together
  keyframes,
  reason,     \* termination_reason
  legacy,     \* the initial-stress method: outcome, load step, iteration
  result      \* status, final solution and comparability

attempt == <<step, target, records, accepted, cutbacks, failures>>
path == <<factor, attempt, imposed, keyframes, reason>>
given == <<request, settings, mode>>
vars == <<given, pc, path, legacy, result>>

----------------------------------------------------------------------------
(* normalize_frame_analysis_options(), then _normalize_options(): the second
   looks at the bounds of the steps among each other. *)

coerce(value, default, low, high) ==
  LET v == IF value = None THEN default ELSE value
  IN greater(low, lesser(high, v))

normalized(raw) ==
  [raw EXCEPT
     !.initialStep = coerce(@, DefaultStep, Least, Unit),
     !.minStep = coerce(@, lesser(Hundredth, DefaultStep), Smallest, Unit),
     !.maxStep = coerce(@, greater(Quarter, DefaultStep), Least, Unit)]

(* Mutant: the bounds of the steps are not looked at among each other. *)
settingsOneByOne(raw) == normalized(raw)

settingsOf(raw) ==
  LET n == normalized(raw)
  IN [n EXCEPT !.minStep = coerce(@, Hundredth, Smallest, n.initialStep),
               !.maxStep = coerce(@, Quarter, n.initialStep, Unit)]

(* path_mode, path_end and _path_load_factors() *)
(* Mutant: fixed loads decide alone. *)
modeOfFixed(loads) == IF hasRole(loads, "fixed") THEN "fixed_only" ELSE "variable_only"

modeOf(loads) ==
  IF ~hasRole(loads, "fixed") THEN "variable_only"
  ELSE IF hasRole(loads, "variable") THEN "fixed_then_variable" ELSE "fixed_only"

pathEnd == IF mode = "fixed_then_variable" THEN 2 * Unit ELSE Unit

loadFactors(c) ==
  CASE mode = "variable_only" -> [fixed |-> 0, variable |-> lesser(Unit, c)]
    [] mode = "fixed_only" -> [fixed |-> lesser(Unit, c), variable |-> 0]
    [] OTHER -> IF c <= Unit THEN [fixed |-> c, variable |-> 0]
                ELSE [fixed |-> Unit, variable |-> lesser(Unit, c - Unit)]

(* _scale_support_displacements() *)
particularOf(c) == loadFactors(c).variable

----------------------------------------------------------------------------
(* _retain_keyframe(): at the limit the frame goes whose neighbours are
   closest to each other, but never the first, the last or the one at the end
   of the fixed phase. *)
without(s, i) == [k \in 1 .. Len(s) - 1 |-> IF k < i THEN s[k] ELSE s[k + 1]]
preloadEnd(frames) == {k \in 1 .. Len(frames) : mode # "variable_only" /\ frames[k].at = Unit}

(* Mutant: the frame with the closest neighbour goes. *)
retainNearest(frames, frame) ==
  IF Len(frames) < MaxKeyframes THEN Append(frames, frame)
  ELSE LET all == Append(frames, frame)
           removable == (2 .. Len(all) - 1) \ preloadEnd(all)
           gap(k) == lesser(all[k].at - all[k - 1].at, all[k + 1].at - all[k].at)
           least == CHOOSE k \in removable :
                      \A o \in removable : gap(k) < gap(o) \/ (gap(k) = gap(o) /\ k <= o)
       IN without(all, least)

retain(frames, frame) ==
  IF Len(frames) < MaxKeyframes THEN Append(frames, frame)
  ELSE LET all == Append(frames, frame)
           removable == (2 .. Len(all) - 1) \ preloadEnd(all)
           merged(k) == all[k + 1].at - all[k - 1].at
           least == CHOOSE k \in removable :
                      \A o \in removable : merged(k) < merged(o) \/ (merged(k) = merged(o) /\ k <= o)
       IN without(all, least)

----------------------------------------------------------------------------
(* The path *)

(* _second_order_result(): nothing, one of two methods, or an error: a
   buckling mode for the imperfection that does not exist, too many degrees of
   freedom, constraints that change along the path. *)
Begin ==
  /\ pc = "start"
  /\ \/ /\ request.algorithm = "off" /\ pc' = "buckling"
        /\ result' = [result EXCEPT !.status = "not_enabled"]
     \/ request.algorithm = "initial_stress_v1" /\ pc' = "pdelta" /\ UNCHANGED result
     \/ /\ request.algorithm = "corotational_newton_v1"
        /\ \/ pc' = "ready" /\ UNCHANGED result
           \/ pc' = "done" /\ result' = [result EXCEPT !.status = "error"]
  /\ UNCHANGED <<given, path, legacy>>

(* The next target; a step from the fixed phase stops at its end.  The trial
   state starts from the converged one, with what the target adds to the
   support displacements; that of a member that collapses is an error. *)
Attempt ==
  /\ pc = "ready" /\ factor < pathEnd
  /\ target' = LET next == lesser(pathEnd, factor + step)
               IN IF mode = "fixed_then_variable" /\ factor < Unit THEN lesser(Unit, next) ELSE next
  /\ records' = 0
  /\ imposed' = [imposed EXCEPT !.trial = imposed.held + (particularOf(target') - imposed.particular)]
  /\ \/ pc' = "newton" /\ UNCHANGED result
     \/ pc' = "done" /\ result' = [result EXCEPT !.status = "error"]
  /\ UNCHANGED <<given, factor, step, accepted, cutbacks, failures, keyframes, reason, legacy>>

(* An iteration leaves a record, converged or not; the last one allowed that
   has not converged ends the attempt. *)
Iterate ==
  /\ pc = "newton" /\ records' = records + 1
  /\ pc' \in IF records' = settings.maxIterations THEN {"accepted", "failed"} ELSE {"accepted", "newton"}
  /\ UNCHANGED <<given, factor, step, target, imposed, accepted, cutbacks, failures, keyframes, reason, legacy, result>>

(* A singular tangent, an increment that is not finite, a line search without
   success: no record of the iteration is left. *)
BreakOff ==
  /\ pc = "newton" /\ pc' = "failed"
  /\ UNCHANGED <<given, path, legacy, result>>

end(status) ==
  /\ pc' = IF request.comparison THEN "pdelta" ELSE "buckling"
  /\ result' = [result EXCEPT !.status = status]

(* The attempt becomes the converged state.  A path that is not at its end
   stops at the limit of accepted steps, or goes on with a new step. *)
Accept ==
  /\ pc = "accepted"
  /\ factor' = target /\ accepted' = accepted + 1 /\ cutbacks' = 0
  /\ imposed' = [imposed EXCEPT !.held = imposed.trial, !.particular = particularOf(target)]
  /\ keyframes' = retain(keyframes, [step |-> accepted', at |-> target])
  /\ IF accepted' >= settings.maxAcceptedSteps /\ target < pathEnd
     THEN /\ reason' = "maximum_accepted_steps_exhausted"
          /\ end("not_converged") /\ UNCHANGED step
     ELSE /\ pc' = "ready" /\ UNCHANGED <<reason, result>>
          /\ step' = IF records <= TargetIterations THEN lesser(settings.maxStep, Grow[step])
                     ELSE IF records >= SlowIterations THEN greater(settings.minStep, Slow[step])
                     ELSE step
  /\ UNCHANGED <<given, target, records, failures, legacy>>

(* The attempt is cut back, unless there were too many or the step is too
   small. *)
(* Mutant: neither count nor size of the cutbacks ends them. *)
CutBackForEver ==
  /\ pc = "failed"
  /\ step' = greater(settings.minStep, Cut[step]) /\ pc' = "ready"
  /\ UNCHANGED <<given, factor, target, records, imposed, accepted, cutbacks, failures, keyframes, reason, legacy,
                 result>>

CutBack ==
  /\ pc = "failed"
  /\ failures' = failures + 1 /\ cutbacks' = cutbacks + 1
  /\ IF cutbacks' > settings.maxCutbacks \/ Cut[step] < settings.minStep
     THEN /\ reason' = IF cutbacks' > settings.maxCutbacks THEN "maximum_cutbacks_exhausted"
                       ELSE "minimum_step_exhausted"
          /\ end("not_converged") /\ UNCHANGED step
     ELSE /\ step' = greater(settings.minStep, Cut[step])
          /\ pc' = "ready" /\ UNCHANGED <<reason, result>>
  /\ UNCHANGED <<given, factor, target, records, imposed, accepted, keyframes, legacy>>

Finish ==
  /\ pc = "ready" /\ factor >= pathEnd
  /\ end("converged")
  /\ UNCHANGED <<given, path, legacy>>

----------------------------------------------------------------------------
(* The initial-stress method: all loads in LoadSteps equal steps, every one of
   them iterated to convergence.  On its own an error ends the analysis; in
   the comparison of methods it is an outcome. *)

(* _corotational_method_comparison() *)
comparable(outcome) ==
  outcome = "converged" /\ result.status = "converged" /\ ~request.imperfect

legacyEnds(outcome) ==
  IF request.algorithm = "initial_stress_v1"
  THEN /\ pc' = IF outcome = "converged" THEN "buckling" ELSE "done"
       /\ result' = [result EXCEPT !.status = IF outcome = "converged" THEN "converged" ELSE "error"]
  ELSE pc' = "buckling" /\ result' = [result EXCEPT !.comparable = comparable(outcome)]

PDeltaIterate ==
  /\ pc = "pdelta"
  /\ \/ \* converged, in this load step or in the last one
        IF legacy.step = LoadSteps
        THEN legacy' = [legacy EXCEPT !.outcome = "converged"] /\ legacyEnds("converged")
        ELSE legacy' = [legacy EXCEPT !.step = @ + 1, !.iteration = 0] /\ UNCHANGED <<pc, result>>
     \/ \* another iteration, or none left
        IF legacy.iteration + 1 = settings.maxIterations
        THEN legacy' = [legacy EXCEPT !.outcome = "not_converged"] /\ legacyEnds("not_converged")
        ELSE legacy' = [legacy EXCEPT !.iteration = @ + 1] /\ UNCHANGED <<pc, result>>
     \/ \* the tangent is singular
        legacy' = [legacy EXCEPT !.outcome = "not_converged"] /\ legacyEnds("not_converged")
  /\ UNCHANGED <<given, path>>

(* _buckling_result(): not asked for, no compression, its modes, or an error
   that takes the second-order result with it. *)
Buckle ==
  /\ pc = "buckling" /\ pc' = "done"
  /\ \/ UNCHANGED result
     \/ request.buckling /\ result' = [result EXCEPT !.status = "error"]
  /\ UNCHANGED <<given, path, legacy>>

----------------------------------------------------------------------------
Init ==
  /\ request \in Requests
  /\ settings = settingsOf(request.options) /\ mode = modeOf(request.loads)
  /\ pc = "start" /\ factor = 0 /\ step = settings.initialStep
  /\ imposed = [held |-> 0, particular |-> 0, trial |-> 0]
  /\ target = 0 /\ records = 0 /\ accepted = 0 /\ cutbacks = 0 /\ failures = 0
  /\ keyframes = <<[step |-> 0, at |-> 0]>> /\ reason = None
  /\ legacy = [outcome |-> "not_evaluated", step |-> 1, iteration |-> 0]
  /\ result = [status |-> None, comparable |-> FALSE]

Next ==
  \/ Begin \/ Attempt \/ Iterate \/ BreakOff \/ Accept \/ CutBack \/ Finish
  \/ PDeltaIterate \/ Buckle

Spec == Init /\ [][Next]_vars
FairSpec == Spec /\ WF_vars(Next)

----------------------------------------------------------------------------
PC == {"start", "ready", "newton", "accepted", "failed", "pdelta", "buckling", "done"}

(* Every variable has its shape, and no coordinate is past the end. *)
TypeOK ==
  /\ request \in Requests /\ settings = settingsOf(request.options)
  /\ mode = modeOf(request.loads) /\ pc \in PC
  /\ factor \in 0 .. pathEnd /\ target \in 0 .. pathEnd /\ step \in Nat
  /\ records \in 0 .. settings.maxIterations /\ imposed \in [held: Int, particular: Int, trial: Int]
  /\ accepted \in Nat /\ cutbacks \in Nat /\ failures \in Nat
  /\ keyframes \in Seq([step: Nat, at: Nat]) /\ reason \in Reason \cup {None}
  /\ legacy \in [outcome: {"not_evaluated", "converged", "not_converged"}, step: 1 .. LoadSteps, iteration: Nat]
  /\ result \in [status: Status \cup {None}, comparable: BOOLEAN]

(* LoopBounds has two parts.  Whatever bounds are asked for, a step stays within those that were made of
   them, and these within 1e-6 and 1.0. *)
StepInBounds ==
  /\ Smallest <= settings.minStep /\ settings.maxStep <= Unit
  /\ settings.minStep <= step /\ step <= settings.maxStep

(* The loop is over after so many attempts: accepted steps up to their limit,
   and for each of them no more failures than cutbacks are allowed. *)
AttemptsBounded ==
  /\ accepted <= settings.maxAcceptedSteps
  /\ cutbacks <= settings.maxCutbacks + 1
  /\ failures <= accepted * settings.maxCutbacks + cutbacks

LoopBounds == StepInBounds /\ AttemptsBounded

(* A path that converged has every load of the divided frame at its full
   value, the fixed ones and the variable ones; one that stopped has not; and
   methods are compared only at that load, on one geometry.  The support
   displacements that are prescribed come with the variable loads, once and in
   full whatever was cut back; but a path whose loads are all fixed has none of
   them, and is compared with methods that have them. *)
FullyLoaded ==
  \A load \in request.loads : \A piece \in refined(load) :
    IF piece.role = "fixed" THEN loadFactors(factor).fixed = Unit ELSE loadFactors(factor).variable = Unit
Displaced == imposed.held = IF mode = "fixed_only" THEN 0 ELSE Unit
ConvergedMeansAllLoads ==
  request.algorithm = "corotational_newton_v1" =>
    /\ result.status = "converged" => FullyLoaded /\ Displaced /\ reason = None
    /\ result.status = "not_converged" => factor < pathEnd /\ reason # None
    /\ result.comparable => legacy.outcome = "converged" /\ FullyLoaded /\ Displaced /\ ~request.imperfect

(* The frames kept for playback run from the unloaded state to the last
   converged one, in order, with the end of the fixed phase once it is passed,
   and no more than the limit; and however many steps there are, no two
   neighbours are further apart than a step or the share of the path that a
   frame has to stand for. *)
KeyframesTellPath ==
  /\ keyframes[1] = [step |-> 0, at |-> 0]
  /\ keyframes[Len(keyframes)] = [step |-> accepted, at |-> factor]
  /\ Len(keyframes) <= MaxKeyframes
  /\ \A k \in 2 .. Len(keyframes) :
       keyframes[k - 1].step < keyframes[k].step /\ keyframes[k - 1].at < keyframes[k].at
  /\ mode = "fixed_then_variable" /\ factor >= Unit => \E k \in DOMAIN keyframes : keyframes[k].at = Unit
  /\ \A k \in 2 .. Len(keyframes) :
       (keyframes[k].at - keyframes[k - 1].at) * (MaxKeyframes - 2)
         <= greater(2 * pathEnd, settings.maxStep * (MaxKeyframes - 2))

(* Dividing a member neither adds nor loses load. *)
DivisionKeepsLoads ==
  \A load \in request.loads :
    /\ load.type = "distributed" => SameResultant(load)
    /\ load.type = "member_point" => SamePoint(load)

(* The converged coordinate only rises, and never past the end. *)
FactorRises ==
  [][factor' # factor => factor < factor' /\ factor' <= pathEnd]_vars

(* Whatever the iterations do, an analysis ends. *)
AnalysisEnds == <>(pc = "done")
=============================================================================
