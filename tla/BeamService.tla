------------------------------ MODULE BeamService ------------------------------
(* A beam on its way to a result: what keeps it from being calculated
   (model-diagnostics.ts), what is sent (solver-payload.ts), what the service
   accepts (normalizers/beam/request_normalizer.py) and the mesh it solves on
   (solver/beam/solver.py). *)
EXTENDS BeamModel

beamSupportHasVerticalRestraint(support) == "v" \in supportConstraints(support) \cup support.springs

(* buildBeamModelDiagnostics finds an error.  Lengths and stiffness are
   positive once the normalizer was there, and a name that two spans have is
   only a warning. *)
beamBlocked(m) ==
  \/ m.spans = <<>>
  \/ \A support \in Elements(m.supports) : ~beamSupportHasVerticalRestraint(support)
  \/ ~Distinct(m.cases)
  \/ loadCombinationIssues(m)

----------------------------------------------------------------------------
(* What is sent: positions for ratios. *)

positionOf(ratio, total) == (ratio * total) \div 100
loadBetween(type, range, total) ==
  [type |-> type, from |-> positionOf(range.from, total), to |-> positionOf(range.to, total)]

(* As the workspace normalizer has it. *)
normalizedRatioRange(range) == normalizeBeamRange(range)

activeBeamLinearLoads(m) == IF m.linear.on THEN m.linear.loads ELSE <<>>

buildBeamLoads(m) ==
  LET total == totalLength(m.spans)
  IN (IF m.uniform.on THEN <<loadBetween("uniform", normalizedRatioRange(m.uniform), total)>> ELSE <<>>)
     \o Each(activeBeamLinearLoads(m), LAMBDA load : loadBetween("linear", load, total))
     \o Each(m.points, LAMBDA load : loadBetween("point", [from |-> load.at, to |-> load.at], total))

sentCaseLoad(load, total) == normalizeBeamCaseLoad(load, total)
sentCases(cases, total) ==
  Each(cases, LAMBDA case : [case EXCEPT !.loads = Each(@, LAMBDA load : sentCaseLoad(load, total))])
sentCombinations(combinations, cases) ==
  Each(combinations, LAMBDA c : [c EXCEPT !.factors = [id \in DOMAIN @ \cap Ids(cases) |-> @[id]]])

(* Without load cases there are no combinations either. *)
buildBeamPayload(m) ==
  LET cases == sentCases(m.cases, totalLength(m.spans))
  IN [spans |-> m.spans, supports |-> m.supports, loads |-> buildBeamLoads(m), cases |-> cases,
      combinations |-> IF cases = <<>> THEN <<>> ELSE sentCombinations(m.combinations, cases)]

----------------------------------------------------------------------------
(* normalize_beam_request. *)

normalize_beam_supports(supports, total) ==
  supports # <<>> /\ \A support \in Elements(supports) : 0 <= support.x /\ support.x <= total

(* A uniform load has a positive length; a linear one need not. *)
normalize_load_range(load, total) ==
  /\ 0 <= load.from /\ load.to <= total
  /\ load.type = "uniform" => load.from # load.to

normalize_beam_loads(loads) == FirstOf(loads, MaxServiceLoads)

normalize_beam_load_cases(p) ==
  /\ Distinct(p.cases)
  /\ \A case \in Elements(p.cases) :
       Len(case.loads) = 1 /\ normalize_load_range(case.loads[1], totalLength(p.spans))
  /\ Distinct(p.combinations)
  /\ ~loadCombinationIssues(p)

beamAccepted(p) ==
  /\ Len(p.spans) \in 1..MaxBeamSpans
  /\ \A span \in Elements(p.spans) : span.length > 0
  /\ normalize_beam_supports(p.supports, totalLength(p.spans))
  /\ \A load \in Elements(normalize_beam_loads(p.loads)) : normalize_load_range(load, totalLength(p.spans))
  /\ normalize_beam_load_cases(p)

(* Each load case is solved by itself, with its one load in place of those of
   the beam. *)
beamRequests(p) ==
  {normalize_beam_loads(p.loads)} \cup {case.loads : case \in Elements(p.cases)}

----------------------------------------------------------------------------
(* The mesh: each span in equal parts, at least six, and further nodes where a
   support stands and where a load begins, ends or acts. *)

extraNodePositions(p, loads) ==
  {support.x : support \in Elements(p.supports)} \cup UNION {{load.from, load.to} : load \in Elements(loads)}

build_mesh(spans, extra) ==
  LET ends == beamSpanBoundaries(spans)
      parts(k) == larger(6, (spans[k].length + MeshStep - 1) \div MeshStep)
      regular(k) == {ends[k] + (spans[k].length * i) \div parts(k) : i \in 1..parts(k)}
      inside(k) == {x \in extra : ends[k] < x /\ x < ends[k + 1]}
  IN {0} \cup UNION {regular(k) \cup inside(k) : k \in DOMAIN spans}

(* node_index_for_position finds a node there. *)
hasNode(mesh, x) == x \in mesh

(* The elements a point load is put on, by where they begin: the one that
   begins at or before it and ends after it, and the last one if it acts on the
   end of the beam. *)
elementsOf(x, mesh, total) ==
  {left \in mesh \ {total} :
     /\ left <= x
     /\ \/ \A node \in mesh : left < node => x < node
        \/ x = total /\ \A node \in mesh : left < node => node = total}
=============================================================================
