------------------------------- MODULE BeamModel -------------------------------
(* A beam of several spans in a row: where its supports stand unless they are
   moved (workspace-defaults.ts), what the workspace normalizer makes of it
   (beam-workspace-normalizer.ts), its text (beam-text-model.ts), what is sent
   (solver-payload.ts), and what the service does with it up to the mesh.

   Positions and lengths are in millimetres; ratios, of the whole beam, in
   hundredths.  A beam has one uniform load, linear loads, which are switched
   on and off together, and point loads, all given by ratios; the loads of its
   load cases are given by positions, a point load from and to the same.  What
   a support holds is "v" or "rz", or left unstated, as in templates and files.
   Magnitudes, stiffness, materials and the measured motion are left out. *)
EXTENDS FrameWorkspace, FrameNormalizer, TextLine

CONSTANTS
  MaxBeamSpans,       \* MAX_BEAM_SPANS
  MaxBeamSupports,    \* supports that are kept (32 in the code)
  MaxBeamLoads,       \* linear loads, and point loads, that are kept (32)
  MaxServiceLoads,    \* loads the service reads (128)
  DefaultLength,      \* of a span (4000)
  MeshStep            \* the longest element (250)

ASSUME BeamLimitsAssumption ==
  {MaxBeamSpans, MaxBeamSupports, MaxBeamLoads, MaxServiceLoads, DefaultLength, MeshStep} \subseteq Nat \ {0}

Unstated == {"unstated"}

Span == [id : Identifier, length : Int]
BeamSupport ==
  [id : Identifier, x : Int, type : {"fixed", "pinned", "roller", "free"},
   held : (SUBSET {"v", "rz"}) \cup {Unstated}, springs : SUBSET {"v", "rz"}]
BeamRange == [id : Identifier, from : Int, to : Int]
BeamPoint == [id : Identifier, at : Int]
BeamCase == [id : Identifier, loads : Seq([type : {"uniform", "linear", "point"}, from : Int, to : Int])]
IsBeam(m) ==
  /\ m \in [beamType : {"continuous", "cantilever", "simply_supported"}, spans : Seq(Span),
            supports : Seq(BeamSupport), uniform : [on : BOOLEAN, from : Int, to : Int],
            linear : [on : BOOLEAN, loads : Seq(BeamRange)], points : Seq(BeamPoint), pointAt : Int,
            cases : Seq(BeamCase),
            combinations : Seq([id : Identifier, factors : {c.factors : c \in Elements(m.combinations)}])]
  /\ \A c \in Elements(m.combinations) :
       DOMAIN c.factors \subseteq Identifier /\ c.factors \in [DOMAIN c.factors -> Int]

Clamped(x, low, high) == smaller(larger(x, low), high)

beamSupportConstraints(type) ==
  CASE type = "fixed" -> {"v", "rz"} [] type = "free" -> {} [] OTHER -> {"v"}
supportConstraints(support) ==
  IF support.held = Unstated THEN beamSupportConstraints(support.type) ELSE support.held

(* Where the spans begin, and where the last one ends. *)
beamSpanBoundaries(spans) ==
  LET at[k \in 1..Len(spans) + 1] == IF k = 1 THEN 0 ELSE at[k - 1] + spans[k - 1].length
  IN at
totalLength(spans) == beamSpanBoundaries(spans)[Len(spans) + 1]

defaultBeamSupports(beamType, spans) ==
  LET ends == beamSpanBoundaries(spans)
      last == Len(ends)
      at(k, type, held) ==
        [id |-> Draft("S", k), x |-> ends[k], type |-> type, held |-> held, springs |-> {}]
  IN CASE beamType = "cantilever" -> <<at(1, "fixed", {"v", "rz"})>>
       [] beamType = "simply_supported" ->
            <<at(1, "pinned", {"v"}), [at(last, "roller", {"v"}) EXCEPT !.id = Draft("S", 2)]>>
       [] OTHER -> [k \in 1..last |-> at(k, IF k = last THEN "roller" ELSE "pinned", {"v"})]

isDefaultBeamSpanId(id) == id.stem = "(" /\ id.tail = <<>>
isDefaultBeamSupportId(id) == id.stem = "S" /\ id.n # 0 /\ id.tail = <<>>

(* Numbered from the left, unless one of them was given a name. *)
renumberDefaultBeamSpanIds(spans) ==
  IF \A span \in Elements(spans) : isDefaultBeamSpanId(span.id)
  THEN [k \in DOMAIN spans |-> [spans[k] EXCEPT !.id = Draft("(", k)]] ELSE spans

(* Supports go back to their places by default.  The k-th keeps the name, the
   type, the constraints and the springs of the k-th there was: the name only
   if one of them was given one, the type not if it would end a continuous beam
   with a pinned support. *)
mergeDefaultBeamSupportLayout(beamType, spans, prior) ==
  LET defaults == defaultBeamSupports(beamType, spans)
      named == \E support \in Elements(prior) : ~isDefaultBeamSupportId(support.id)
      ends(k) == beamType = "continuous" /\ k = Len(defaults) /\ prior[k].type = "pinned"
  IN [k \in DOMAIN defaults |->
        IF k \notin DOMAIN prior THEN defaults[k]
        ELSE [defaults[k] EXCEPT
                !.id = IF named THEN prior[k].id ELSE @,
                !.type = IF ends(k) THEN @ ELSE prior[k].type,
                !.held = IF prior[k].held = Unstated THEN @ ELSE prior[k].held,
                !.springs = prior[k].springs]]

createDefaultBeamWorkspaceState ==
  LET spans == [k \in 1..2 |-> [id |-> Draft("(", k), length |-> DefaultLength]]
  IN [beamType |-> "continuous", spans |-> spans, supports |-> defaultBeamSupports("continuous", spans),
      uniform |-> [on |-> TRUE, from |-> 0, to |-> 100], linear |-> [on |-> FALSE, loads |-> <<>>],
      points |-> <<>>, pointAt |-> 50, cases |-> <<>>, combinations |-> <<>>]

----------------------------------------------------------------------------
(* beam-workspace-normalizer.ts. *)

normalizeBeamSpans(spans) ==
  LET kept == FirstOf(IF spans = <<>> THEN createDefaultBeamWorkspaceState.spans ELSE spans, MaxBeamSpans)
  IN Each(DistinctNames(kept), LAMBDA span : [span EXCEPT !.length = IF @ > 0 THEN @ ELSE DefaultLength])

(* A support that goes by the name of a node, as supports once did, gets the
   name of the one that stands there by default. *)
normalizeBeamSupportId(id, fallback) ==
  IF id.stem = "N" /\ id.n # 0 /\ id.tail = <<>> THEN fallback.id ELSE id

(* Constraints that are not stated are those of the support that stands there
   by default, whatever the type is. *)
normalizeBeamSupports(supports, defaults, total) ==
  LET kept == FirstOf(IF supports = <<>> THEN defaults ELSE supports, MaxBeamSupports)
      fallback(k) == defaults[smaller(k, Len(defaults))]
      named == DistinctNames(
        [k \in DOMAIN kept |-> [kept[k] EXCEPT !.id = normalizeBeamSupportId(@, fallback(k))]])
  IN [k \in DOMAIN named |->
        [named[k] EXCEPT !.x = Clamped(@, 0, total),
                         !.held = IF @ = Unstated THEN fallback(k).held ELSE @]]

normalizeBeamPointLoads(points) ==
  Each(DistinctNames(FirstOf(points, MaxBeamLoads)), LAMBDA load : [load EXCEPT !.at = Clamped(@, 0, 100)])

(* A range given from its end is turned round; one of no length gets a
   hundredth of the beam. *)
normalizeBeamRange(range) ==
  LET a == Clamped(range.from, 0, 100)
      b == Clamped(range.to, 0, 100)
  IN [range EXCEPT !.from = IF a = b /\ a = 100 THEN 99 ELSE smaller(a, b),
                   !.to = IF a = b /\ a < 100 THEN a + 1 ELSE larger(a, b)]

normalizeBeamLinearLoads(loads) ==
  Each(DistinctNames(FirstOf(loads, MaxBeamLoads)), normalizeBeamRange)

normalizeBeamLoadPosition(x, total) == Clamped(x, 0, total)

normalizeBeamCaseLoad(load, total) ==
  LET a == normalizeBeamLoadPosition(load.from, total)
      b == normalizeBeamLoadPosition(load.to, total)
  IN [load EXCEPT !.from = smaller(a, b), !.to = larger(a, b)]

normalizeBeamLoadCases(cases, total) ==
  Each(DistinctNames(FirstOf(cases, MaxCases)),
       LAMBDA case : [case EXCEPT !.loads = Each(@, LAMBDA load : normalizeBeamCaseLoad(load, total))])

(* Combinations are treated as those of a frame are. *)
normalizeBeamCombinations(combinations, cases) == normalizeWorkspaceCombinations(combinations, cases)

normalizeBeamWorkspaceState(m) ==
  LET spans == normalizeBeamSpans(m.spans)
      total == totalLength(spans)
      loads == normalizeBeamLinearLoads(m.linear.loads)
      cases == normalizeBeamLoadCases(m.cases, total)
  IN [m EXCEPT !.spans = spans,
        !.supports = normalizeBeamSupports(@, defaultBeamSupports(m.beamType, spans), total),
        !.uniform = normalizeBeamRange(@),
        !.linear = [on |-> m.linear.on /\ loads # <<>>, loads |-> loads],
        !.points = normalizeBeamPointLoads(@),
        !.cases = cases,
        !.combinations = normalizeBeamCombinations(@, cases)]

----------------------------------------------------------------------------
(* beam-text-model.ts.  The text is the lines the serializer writes: names of
   loads have no word, load cases neither, nor loads that are switched off. *)

supportConstraintToken(support) ==
  IF supportConstraints(support) = beamSupportConstraints(support.type) THEN Unstated
  ELSE supportConstraints(support)

serializeBeamTextModel(m) ==
  [beamType |-> m.beamType, spans |-> m.spans,
   supports |-> Each(m.supports, LAMBDA support :
     [id |-> support.id, x |-> support.x, type |-> support.type, held |-> supportConstraintToken(support)]),
   springs |-> UNION {{<<support.id, dof>> : dof \in support.springs} : support \in Elements(m.supports)},
   uniform |-> IF m.uniform.on THEN <<[from |-> m.uniform.from, to |-> m.uniform.to]>> ELSE <<>>,
   linear |-> IF m.linear.on THEN Each(m.linear.loads, LAMBDA load : [from |-> load.from, to |-> load.to]) ELSE <<>>,
   points |-> Each(m.points, LAMBDA load : load.at)]

(* SPAN: a number comes first if the span has no name, so the name of a span
   that is a number is its length, in metres, and where its length stands its
   stiffness is read; so is the second word of a name. *)
lengthAt(span) ==
  LET said == words(span.id) IN IF said # <<>> /\ IsNumber(said[1]) THEN 1 ELSE 2
readSpan(span, k) ==
  LET said == words(span.id)
      at == lengthAt(span)
  IN [id |-> IF at = 1 THEN Draft("(", k) ELSE token(said, 1, NoId),
      length |-> IF at <= Len(said) THEN 1000 * said[at].n ELSE span.length]

(* A length and a stiffness are positive numbers.  Behind a length that was
   read of a name the stiffness is the length, and where the inertia should
   stand there is the stiffness or the name of a material; with a material the
   text is refused, which is not modelled. *)
spanDiagnosed(span) ==
  LET said == words(span.id)
      at == lengthAt(span)
  IN \/ said = <<>> \/ span.length <= 0
     \/ Marked(span.id) /\ Len(said) < at + 2
     \/ \E k \in DOMAIN said \cap at..at + 2 : ~IsNumber(said[k]) \/ said[k].n <= 0

(* A line that is not understood keeps the text from being applied.  The name
   of a support is followed by where it stands and by its type. *)
beamTextDiagnosed(text) ==
  \/ \E span \in Elements(text.spans) : spanDiagnosed(span)
  \/ \E support \in Elements(text.supports) : support.x < 0 \/ ~IsWord(support.id)
  \/ \E range \in Elements(text.uniform \o text.linear) :
       ~(0 <= range.from /\ range.from < range.to /\ range.to <= 100)
  \/ \E at \in Elements(text.points) : at \notin 0..100
  \/ \E spring \in text.springs : spring[1] \notin Ids(text.supports)

(* Defect: a support that nothing else holds loses what its springs hold. *)
readSupportWithoutSprings(line, springs) ==
  [id |-> line.id, x |-> line.x, held |-> supportConstraints(line), springs |-> {}, type |-> line.type]

(* A spring takes the place of a constraint; a support that nothing else holds
   is then free. *)
readSupport(line, springs) ==
  LET own == {spring[2] : spring \in {s \in springs : s[1] = line.id}}
      held == supportConstraints(line) \ own
  IN [id |-> line.id, x |-> line.x, held |-> held, springs |-> own,
      type |-> IF own # {} /\ held = {} THEN "free" ELSE line.type]

(* A text without loads leaves those of the model alone. *)
parseBeamTextModel(text, m) ==
  LET read == [m EXCEPT !.beamType = text.beamType,
                 !.spans = [k \in DOMAIN text.spans |-> readSpan(text.spans[k], k)],
                 !.supports = Each(text.supports, LAMBDA line : readSupport(line, text.springs))]
      linear == [k \in DOMAIN text.linear |->
                   [id |-> Draft("L", k), from |-> text.linear[k].from, to |-> text.linear[k].to]]
  IN IF text.uniform \o text.linear = <<>> /\ text.points = <<>> THEN read
     ELSE [read EXCEPT
             !.uniform = IF text.uniform = <<>> THEN [@ EXCEPT !.on = FALSE]
                         ELSE [on |-> TRUE, from |-> text.uniform[1].from, to |-> text.uniform[1].to],
             !.linear = [on |-> linear # <<>>, loads |-> linear],
             !.points = [k \in DOMAIN text.points |-> [id |-> Draft("P", k), at |-> text.points[k]]],
             !.pointAt = IF text.points = <<>> THEN @ ELSE text.points[1]]
=============================================================================
