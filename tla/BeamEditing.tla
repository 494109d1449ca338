------------------------------ MODULE BeamEditing ------------------------------
(* Editing a beam: BeamForm.tsx with its editors of supports, loads and load
   cases, and model-workflow-actions-beam.ts.  Adding, removing, renaming or
   changing a span lays the supports out anew; supports are edited one by one
   but neither added nor removed.  As with frames and trusses, whatever is
   committed goes through the workspace normalizer first. *)
EXTENDS TrussEditing, BeamService

CONSTANTS
  BeamStarts,        \* as Starts
  BeamTemplates,     \* BEAM_MODEL_TEMPLATES
  BeamNewNames,      \* what the user may type for an identifier
  SpanCounts,        \* spans the user may ask a generated beam for
  Lengths,           \* what the user may type for a length
  Positions,         \* where the user may put a joint, a support or a load of a load case
  PositionRatios     \* what the user may type for a ratio of the beam

ASSUME BeamStartsAssumption ==
  \A start \in BeamStarts : IsBeam(start.model) /\ normalizeBeamWorkspaceState(start.model) = start.model
ASSUME BeamTemplatesAssumption ==
  \A template \in BeamTemplates :
    /\ IsBeam(template)
    /\ \A support \in Elements(template.supports) : support.x \in 0..totalLength(template.spans)
ASSUME BeamInputsAssumption ==
  /\ BeamNewNames \subseteq Identifier
  /\ SpanCounts \subseteq Int /\ Lengths \subseteq Int /\ Positions \subseteq Int /\ PositionRatios \subseteq Int

BeamInit ==
  /\ \E start \in BeamStarts : model = start.model /\ edits = start.edits
  /\ redirected = FALSE
  /\ renamed = FALSE

(* What the normalizer is asked to give another place or target: a support
   that stands off the beam or is one too many, and a factor of a load case
   that is not there.  A length below zero can be typed, and is what is left of
   two spans that are shorter than 10 cm together when their joint is moved:
   such a beam has no places that could be kept. *)
Displaced(m) ==
  \/ \E k \in DOMAIN m.supports :
       \/ k > MaxBeamSupports
       \/ /\ \A span \in Elements(m.spans) : span.length >= 0
          /\ m.supports[k].x \notin 0..totalLength(m.spans)
  \/ ~FactorsResolve([m EXCEPT !.cases = FirstOf(@, MaxCases)])

updateBeamWorkspace(next) ==
  /\ edits > 0
  /\ model' = normalizeBeamWorkspaceState(next)
  /\ edits' = edits - 1
  /\ redirected' = Displaced(next)

beamCommit(next) == updateBeamWorkspace(next) /\ renamed' = FALSE
beamRename(next, new, used) == updateBeamWorkspace(next) /\ renamed' = (new \notin used)

applyBeamModelTemplate(template) == [template EXCEPT !.cases = <<>>, !.combinations = <<>>]
BeamTemplate == \E template \in BeamTemplates : beamCommit(applyBeamModelTemplate(template))
BeamReset == beamCommit(createDefaultBeamWorkspaceState)

(* buildContinuousBeamQuickModel: equal spans, with or without a uniform load. *)
ContinuousBeam(count, length, loaded, m) ==
  LET type == IF count = 1 THEN "simply_supported" ELSE "continuous"
      spans == [k \in 1..count |-> [id |-> Draft("(", k), length |-> Clamped(length, 500, 60000)]]
  IN [m EXCEPT !.beamType = type, !.spans = spans,
        !.supports = mergeDefaultBeamSupportLayout(type, spans, <<>>),
        !.uniform = [on |-> loaded, from |-> 0, to |-> 100],
        !.linear = [on |-> FALSE, loads |-> <<>>], !.points = <<>>,
        !.cases = <<>>, !.combinations = <<>>]
BeamQuickModel ==
  \E count \in SpanCounts, length \in Lengths, loaded \in BOOLEAN :
    beamCommit(ContinuousBeam(Clamped(count, 1, MaxBeamSpans), length, loaded, model))

(* The text of the beam, applied as it was written. *)
BeamImportText ==
  LET text == serializeBeamTextModel(model)
  IN ~beamTextDiagnosed(text) /\ beamCommit(parseBeamTextModel(text, model))

----------------------------------------------------------------------------
(* Spans. *)

withSpans(m, spans, beamType, prior) ==
  [m EXCEPT !.spans = spans, !.beamType = beamType,
            !.supports = mergeDefaultBeamSupportLayout(beamType, spans, prior)]

(* The number after the number of spans, or the next that is not in use. *)
nextSpanId(spans) ==
  LET free == {k \in Len(spans) + 1..2 * Len(spans) + 1 : Draft("(", k) \notin Ids(spans)}
  IN Draft("(", CHOOSE k \in free : \A l \in free : k <= l)

(* The form adds a span of the default length, the canvas one like the last. *)
WithSpan(m, length) ==
  withSpans(m, Append(m.spans, [id |-> nextSpanId(m.spans), length |-> length]),
            IF m.beamType = "simply_supported" THEN "continuous" ELSE m.beamType, m.supports)
addSpan == Len(model.spans) < MaxBeamSpans /\ beamCommit(WithSpan(model, DefaultLength))
applyBeamGeometryAction ==
  Len(model.spans) < MaxBeamSpans /\ beamCommit(WithSpan(model, model.spans[Len(model.spans)].length))

(* With the k-th span the k-th support goes. *)
Without(s, gone) == Picked(s, DOMAIN s \ gone)
WithoutSpans(m, gone) ==
  LET spans == renumberDefaultBeamSpanIds(Without(m.spans, gone))
  IN withSpans(m, spans, IF m.beamType = "continuous" /\ Len(spans) = 1 THEN "simply_supported" ELSE m.beamType,
               Without(m.supports, gone))
removeSpan == \E i \in DOMAIN model.spans : Len(model.spans) > 1 /\ beamCommit(WithoutSpans(model, {i}))
deleteBeamSelections ==
  \E gone \in Selections(DOMAIN model.spans) :
    gone # {} /\ Cardinality(gone) < Len(model.spans) /\ beamCommit(WithoutSpans(model, gone))

updateSpanPatch(m, i, span) == withSpans(m, [m.spans EXCEPT ![i] = span], m.beamType, m.supports)
updateSpanId ==
  \E i \in DOMAIN model.spans, new \in BeamNewNames :
    beamRename(updateSpanPatch(model, i, [model.spans[i] EXCEPT !.id = new]), new, Ids(model.spans))
updateSpan ==
  \E i \in DOMAIN model.spans, length \in Lengths :
    beamCommit(updateSpanPatch(model, i, [model.spans[i] EXCEPT !.length = length]))

(* Stiffness or a material: of what is modelled only the supports change. *)
updateSpanMaterial == \E i \in DOMAIN model.spans : beamCommit(updateSpanPatch(model, i, model.spans[i]))

(* A joint is dragged: ten centimetres are left of each of its spans. *)
moveJoint(m, i, x) ==
  LET both == m.spans[i].length + m.spans[i + 1].length
      left == larger(100, smaller(both - 100, x - beamSpanBoundaries(m.spans)[i]))
  IN withSpans(m, [m.spans EXCEPT ![i].length = left, ![i + 1].length = both - left], m.beamType, m.supports)
moveBeamCanvasNode ==
  \E x \in Positions :
    \/ \E i \in 1..Len(model.spans) - 1 : beamCommit(moveJoint(model, i, x))
    \/ \E i \in DOMAIN model.supports :
         beamCommit([model EXCEPT !.supports[i].x = Clamped(x, 0, larger(100, totalLength(model.spans)))])

----------------------------------------------------------------------------
(* Supports. *)

updateSupport(m, i, support) == [m EXCEPT !.supports[i] = support]
updateSupportId ==
  \E i \in DOMAIN model.supports, new \in BeamNewNames :
    beamRename(updateSupport(model, i, [model.supports[i] EXCEPT !.id = new]), new, Ids(model.supports))

updateSupportType ==
  \E i \in DOMAIN model.supports, type \in {"fixed", "pinned", "roller", "free"} :
    beamCommit(updateSupport(model, i,
      [model.supports[i] EXCEPT !.type = type, !.held = beamSupportConstraints(type), !.springs = {}]))

deriveSupportType(held, prior) ==
  CASE held = {"v", "rz"} -> "fixed"
    [] held = {"v"} /\ prior = "roller" -> "roller"
    [] held = {"v"} /\ prior # "roller" -> "pinned"
    [] OTHER -> "free"

withDof(support, dof, mode) ==
  LET held == (supportConstraints(support) \ {dof}) \cup IF mode = "fixed" THEN {dof} ELSE {}
  IN [support EXCEPT !.held = held, !.type = deriveSupportType(held, @),
                     !.springs = (@ \ {dof}) \cup IF mode = "spring" THEN {dof} ELSE {}]
updateSupportDofMode ==
  \E i \in DOMAIN model.supports, dof \in {"v", "rz"}, mode \in {"fixed", "spring", "free"} :
    beamCommit(updateSupport(model, i, withDof(model.supports[i], dof, mode)))

(* A spring without stiffness is dropped, and nothing takes its place. *)
updateSupportSpring ==
  \E i \in DOMAIN model.supports : \E dof \in model.supports[i].springs :
    beamCommit([model EXCEPT !.supports[i].springs = @ \ {dof}])

----------------------------------------------------------------------------
(* Loads of the beam. *)

updateUniformLoadRange ==
  \E ratio \in PositionRatios :
    \/ beamCommit([model EXCEPT !.uniform = normalizeBeamRange([@ EXCEPT !.from = ratio])])
    \/ beamCommit([model EXCEPT !.uniform = normalizeBeamRange([@ EXCEPT !.to = ratio])])
toggleUniformLoad == beamCommit([model EXCEPT !.uniform.on = ~@])

(* The range of the first linear load, or the whole beam. *)
primaryLinearLoad(m) ==
  IF m.linear.loads = <<>> THEN [id |-> Draft("L", 1), from |-> 0, to |-> 100]
  ELSE [m.linear.loads[1] EXCEPT !.id = IF m.linear.on THEN @ ELSE Draft("L", 1)]

(* patchLoadState: switched on again, only the first linear load is back. *)
toggleLinearLoad ==
  beamCommit([model EXCEPT !.linear = IF @.on THEN [@ EXCEPT !.on = FALSE]
                                      ELSE [on |-> TRUE, loads |-> <<primaryLinearLoad(model)>>]])
updatePrimaryLinearLoad ==
  LET rest == IF model.linear.on THEN Tail(model.linear.loads) ELSE <<>>
      first(load) == beamCommit([model EXCEPT !.linear = [on |-> TRUE, loads |-> <<load>> \o rest]])
  IN \E ratio \in PositionRatios :
       \/ first([primaryLinearLoad(model) EXCEPT !.from = ratio])
       \/ first([primaryLinearLoad(model) EXCEPT !.to = ratio])

withPoints(m, points, none) ==
  [m EXCEPT !.points = points, !.pointAt = IF points = <<>> THEN none ELSE points[1].at]

(* The first point load stands where the last one did, the n-th behind n parts
   of n + 1. *)
addPointLoad ==
  LET n == Len(model.points) + 1
  IN beamCommit(withPoints(model, Append(model.points,
       [id |-> Draft("P", n), at |-> IF n = 1 THEN model.pointAt ELSE (100 * n) \div (n + 1)]), model.pointAt))
updatePointLoad ==
  \E i \in DOMAIN model.points, ratio \in PositionRatios :
    beamCommit(withPoints(model, [model.points EXCEPT ![i].at = ratio], model.pointAt))
removePointLoad ==
  \E i \in DOMAIN model.points : beamCommit(withPoints(model, RemoveAt(model.points, i), 50))

----------------------------------------------------------------------------
(* Load cases and combinations. *)

createBeamCaseLoadForType(type, total) ==
  IF type = "point" THEN [type |-> type, from |-> total \div 2, to |-> total \div 2]
  ELSE [type |-> type, from |-> 0, to |-> total]

addLoadCase ==
  beamCommit([model EXCEPT !.cases = Append(@,
    [id |-> nextFrameDraftId("LC", Ids(@)),
     loads |-> <<createBeamCaseLoadForType("uniform", totalLength(model.spans))>>])])
updateLoadCase ==
  \E i \in DOMAIN model.cases, new \in BeamNewNames :
    beamRename(renameCase(model, i, new), new, Ids(model.cases))
removeLoadCase == \E i \in DOMAIN model.cases : beamCommit(removeCase(model, i))

addLoadToCase ==
  \E i \in DOMAIN model.cases :
    beamCommit([model EXCEPT !.cases[i].loads =
      Append(@, createBeamCaseLoadForType("uniform", totalLength(model.spans)))])
removeLoadFromCase ==
  \E i \in DOMAIN model.cases : \E k \in DOMAIN model.cases[i].loads :
    beamCommit([model EXCEPT !.cases[i].loads = RemoveAt(@, k)])

(* Another type, with its default place, or another place on the beam. *)
editedCaseLoad(load, total) ==
  {createBeamCaseLoadForType(type, total) : type \in {"uniform", "linear", "point"}}
  \cup (IF load.type = "point"
        THEN {[load EXCEPT !.from = Clamped(x, 0, total), !.to = Clamped(x, 0, total)] : x \in Positions}
        ELSE {[load EXCEPT !.from = Clamped(x, 0, total)] : x \in Positions}
             \cup {[load EXCEPT !.to = Clamped(x, 0, total)] : x \in Positions})
updateLoadInCase ==
  \E i \in DOMAIN model.cases : \E k \in DOMAIN model.cases[i].loads :
    \E load \in editedCaseLoad(model.cases[i].loads[k], totalLength(model.spans)) :
      beamCommit([model EXCEPT !.cases[i].loads[k] = load])

addLoadCombination ==
  /\ model.cases # <<>>
  /\ beamCommit([model EXCEPT !.combinations =
       Append(@, [id |-> nextFrameDraftId("COMB", Ids(@)), factors |-> [id \in Ids(model.cases) |-> 1]])])
updateLoadCombination ==
  \E i \in DOMAIN model.combinations :
    \/ \E new \in BeamNewNames : beamCommit([model EXCEPT !.combinations[i].id = new])
    \/ \E id \in Ids(model.cases), factor \in {0, 1} :
         beamCommit([model EXCEPT !.combinations[i].factors = withFactor(@, id, factor)])
removeLoadCombination ==
  \E i \in DOMAIN model.combinations : beamCommit([model EXCEPT !.combinations = RemoveAt(@, i)])

BeamNext ==
  \/ BeamTemplate \/ BeamQuickModel \/ BeamImportText
  \/ addSpan \/ applyBeamGeometryAction \/ removeSpan \/ deleteBeamSelections
  \/ updateSpanId \/ updateSpan \/ updateSpanMaterial \/ moveBeamCanvasNode
  \/ updateSupportId \/ updateSupportType \/ updateSupportDofMode \/ updateSupportSpring
  \/ updateUniformLoadRange \/ toggleUniformLoad \/ toggleLinearLoad \/ updatePrimaryLinearLoad
  \/ addPointLoad \/ updatePointLoad \/ removePointLoad
  \/ addLoadCase \/ updateLoadCase \/ removeLoadCase
  \/ addLoadToCase \/ removeLoadFromCase \/ updateLoadInCase
  \/ addLoadCombination \/ updateLoadCombination \/ removeLoadCombination

----------------------------------------------------------------------------
(* What a beam's properties are made of. *)

BeamFull(m) == Len(m.cases) = MaxCases \/ Len(m.spans) >= MaxBeamSupports

BeamReopens(m) == normalizeBeamWorkspaceState(m) = m

(* What of a beam does not depend on names. *)
Nameless(s) == Each(s, LAMBDA thing : [thing EXCEPT !.id = NoId])
BeamShape(m) ==
  [m EXCEPT !.spans = Nameless(@), !.supports = Nameless(@), !.points = Nameless(@),
     !.linear.loads = Nameless(@), !.cases = Nameless(@),
     !.combinations = Each(@, LAMBDA c :
       [i \in {k \in DOMAIN m.cases : m.cases[k].id \in DOMAIN c.factors} |-> c.factors[m.cases[i].id]])]

(* A name changes nothing else, no other name either.  When a span is named
   its supports, if they are as many as the spans ask for, go back to where the
   spans put them, numbered unless one of them was given a name; the last one of
   a continuous beam does not stay pinned. *)
OtherNames(old, new) == Cardinality({k \in DOMAIN old : new[k].id # old[k].id}) <= 1
AsManyAsAsked(m) == Len(m.supports) = Len(defaultBeamSupports(m.beamType, m.spans))
Numbered(m) == \A support \in Elements(m.supports) : isDefaultBeamSupportId(support.id)
BeamRenamed ==
  LET last == Len(model.supports)
      placed(support, k) == [support EXCEPT !.x = 0, !.type = IF k = last /\ @ = "pinned" THEN "roller" ELSE @]
      LaidOut(m) == [m EXCEPT !.supports = [k \in DOMAIN @ |-> placed(@[k], k)]]
      spanNamed == model'.spans # model.spans
      Named(m) == IF spanNamed /\ Numbered(model) THEN <<>> ELSE m.supports
  IN \/ spanNamed /\ ~AsManyAsAsked(model)
     \/ /\ BeamShape(LaidOut(model')) = BeamShape(LaidOut(model))
        /\ ~spanNamed => BeamShape(model') = BeamShape(model)
        /\ OtherNames(model.spans \o Named(model) \o model.cases \o model.points,
                      model'.spans \o Named(model') \o model'.cases \o model'.points)

(* The text of a beam that can be sent gives back all but the names of loads,
   the linear loads that are switched off, and where the next point load would
   stand, if the names of spans and supports are words and those of spans no
   numbers. *)
BeamSpelt(m) ==
  /\ \A named \in Elements(m.spans) \cup Elements(m.supports) : IsWord(named.id)
  /\ \A span \in Elements(m.spans) : ~IsNumber(span.id)
BeamTextApplied == model' = normalizeBeamWorkspaceState(parseBeamTextModel(serializeBeamTextModel(model), model))
Written(m) ==
  [m EXCEPT !.points = Nameless(@), !.pointAt = IF m.points = <<>> THEN @ ELSE 0,
            !.linear.loads = IF m.linear.on THEN Nameless(@) ELSE <<>>]
BeamTextKeeps(m) ==
  LET text == serializeBeamTextModel(m)
  IN ~beamBlocked(m) /\ BeamSpelt(m) =>
       /\ ~beamTextDiagnosed(text)
       /\ Written(normalizeBeamWorkspaceState(parseBeamTextModel(text, m))) = Written(m)

(* Nobody asks before a calculation whether each load case has one load, nor
   whether a uniform one has a length left. *)
OneLoadPerCase(m) ==
  \A case \in Elements(m.cases) :
    Len(case.loads) = 1 /\ (case.loads[1].type = "uniform" => case.loads[1].from # case.loads[1].to)
BeamSentAccepted(m) == ~beamBlocked(m) /\ OneLoadPerCase(m) => beamAccepted(buildBeamPayload(m))

(* Every load that is switched on is sent and read.  On the mesh of the beam
   and on that of each load case a point load acts on one element, a
   distributed one on whole elements, a support stands on a node, and no
   element reaches over a joint. *)
Meshed(p, loads) ==
  LET total == totalLength(p.spans)
      mesh == build_mesh(p.spans, extraNodePositions(p, loads))
  IN /\ \A support \in Elements(p.supports) : hasNode(mesh, support.x)
     /\ \A x \in Elements(beamSpanBoundaries(p.spans)) : hasNode(mesh, x)
     /\ \A load \in Elements(loads) :
          IF load.type = "point" THEN Cardinality(elementsOf(load.from, mesh, total)) = 1
          ELSE hasNode(mesh, load.from) /\ hasNode(mesh, load.to)
BeamLoadsSurvive(m) ==
  LET sent == buildBeamPayload(m)
      active == (IF m.uniform.on THEN 1 ELSE 0) + Len(m.points)
                + (IF m.linear.on THEN Len(m.linear.loads) ELSE 0)
  IN ~beamBlocked(m) /\ beamAccepted(sent) =>
       /\ Len(normalize_beam_loads(sent.loads)) = active
       /\ \A loads \in beamRequests(sent) : Meshed(sent, loads)
=============================================================================
