---------------------------- MODULE FrameNormalizer ----------------------------
(* What the service makes of a frame it is sent (backend/normalizers): a
   member with internal hinges becomes a chain of segments, its loads are
   divided over them, and the result is accepted or refused.

   structural_model_members.py and structural_model_loads.py each hold an
   expand_loads_for_split_members.  The first divides the loads of the model
   and forgets their role; the second divides those of load cases, keeps the
   role, and calls a function it never imports for a distributed load. *)
EXTENDS FrameModel, SequencesExt

(* parse_internal_hinge_ratios: sorted, each ratio once. *)
ratios(member) == SetToSortSeq(Elements(member.hinges), <)

HingesInside(member) == \A ratio \in Elements(member.hinges) : 0 < ratio /\ ratio < 100

(* A member whose ends are missing is left as it is. *)
Split(member, m) ==
  member.hinges # <<>> /\ {member.start, member.end} \subseteq Ids(m.nodes)

(* The node at the k-th hinge; an underscore is appended while a node has
   the name.  (A second one never is needed here.) *)
hingeId(member, k, m) ==
  LET id == AddedTo(member.id, "_H", k)
  IN IF id \in Ids(m.nodes) THEN AddedTo(id, "_", 0) ELSE id

(* Nobody looks whether a member has the name of a segment. *)
segmentId(member, k) == AddedTo(member.id, "_", k)

hingeNodes(member, m) ==
  [k \in DOMAIN ratios(member) |-> FreeNode(hingeId(member, k, m))]

(* The segments of a member: where they begin and end, in hundredths. *)
segments(member) ==
  LET bounds == <<0>> \o ratios(member) \o <<100>>
  IN [k \in 1..Len(bounds) - 1 |->
        [id |-> segmentId(member, k), from |-> bounds[k], to |-> bounds[k + 1]]]

segmentMembers(member, m) ==
  LET chain == <<member.start>> \o [k \in DOMAIN ratios(member) |-> hingeId(member, k, m)]
                 \o <<member.end>>
  IN [k \in DOMAIN segments(member) |->
        [id |-> segmentId(member, k), start |-> chain[k], end |-> chain[k + 1], hinges |-> <<>>]]

----------------------------------------------------------------------------
(* A part of a load on a segment, where it lies on the whole member, and the
   segment it lies on. *)
part(load, segment, from, to, role) ==
  [load EXCEPT !.member = segment.id, !.from = from, !.to = to, !.role = role]

larger(a, b) == IF a < b THEN b ELSE a
smaller(a, b) == IF a < b THEN a ELSE b

overlaps(load, all) ==
  SelectSeq(all, LAMBDA s : larger(load.from, s.from) < smaller(load.to, s.to))

(* Defect: the search goes on after the segment was found, so a load at a
   hinge acts twice. *)
segmentAtAll(load, all) ==
  SelectSeq(all, LAMBDA s : s.from <= load.at /\ load.at <= s.to)

(* The first segment that reaches the position. *)
segmentAt(load, all) ==
  SubSeq(SelectSeq(all, LAMBDA s : s.from <= load.at /\ load.at <= s.to), 1, 1)

(* One load on the segments of its member; role is what becomes of its role
   when it is distributed. *)
divided(load, all, role) ==
  CASE load.type = "temperature" ->
         Each(all, LAMBDA s : part(load, s, load.from, load.to, load.role))
    [] load.type = "distributed" ->
         Each(overlaps(load, all),
              LAMBDA s : part(load, s, larger(load.from, s.from), smaller(load.to, s.to), role))
    [] OTHER -> Each(segmentAt(load, all),
                     LAMBDA s : part(load, s, load.from, load.to, load.role))

(* The member a load acts on, when it was split. *)
splitMember(load, m) ==
  IF load.type = "nodal" THEN {}
  ELSE {member \in Elements(m.members) : member.id = load.member /\ Split(member, m)}

expandLoads(loads, m, Role(_)) ==
  FlattenSeq(Each(loads, LAMBDA load :
    IF splitMember(load, m) = {} THEN <<load>>
    ELSE divided(load, segments(CHOOSE member \in splitMember(load, m) : TRUE), Role(load))))

(* Loads of the model: the role of a distributed load is lost, which stands
   for a variable load. *)
expandModelLoads(loads, m) == expandLoads(loads, m, LAMBDA load : "variable")
(* Defect: load cases keep acting on the members that were split. *)
caseLoadsAsSent(loads, m) == loads

expandCaseLoads(loads, m) == expandLoads(loads, m, LAMBDA load : load.role)

(* expand_member_internal_hinges and expand_load_cases_for_split_members. *)
expanded(m) ==
  [nodes |-> m.nodes \o FlattenSeq(Each(m.members, LAMBDA member :
               IF Split(member, m) THEN hingeNodes(member, m) ELSE <<>>)),
   members |-> FlattenSeq(Each(m.members, LAMBDA member :
               IF Split(member, m) THEN segmentMembers(member, m) ELSE <<member>>)),
   loads |-> expandModelLoads(m.loads, m),
   cases |-> [i \in DOMAIN m.cases |->
                [m.cases[i] EXCEPT !.loads = expandCaseLoads(@, m)]],
   combinations |-> m.combinations]

----------------------------------------------------------------------------
(* interpolate is not defined where a load case divides a distributed load. *)
CaseDividesLoad(m) ==
  \E case \in Elements(m.cases) : \E load \in Elements(case.loads) :
    load.type = "distributed" /\ splitMember(load, m) # {}

HingesAllInside(m) == \A member \in Elements(m.members) : HingesInside(member)

(* validate_node_support_displacements. *)
DisplacesWhatIsHeld(node) == Elements(node.displacements) \subseteq Elements(supportDirections(node))

(* parse_nodes, parse_members, parse_loads, parse_load_cases and
   parse_load_combinations on the expanded model. *)
WellFormed(m) ==
  /\ Len(m.nodes) \in 2..MaxNodes
  /\ Len(m.members) \in 1..MaxMembers
  /\ \A node \in Elements(m.nodes) : DisplacesWhatIsHeld(node)
  /\ Distinct(m.nodes) /\ Distinct(m.members)
  /\ Distinct(m.cases) /\ Distinct(m.combinations)
  /\ Resolved(m)
  /\ \A combination \in Elements(m.combinations) :
       \E id \in DOMAIN combination.factors : combination.factors[id] # 0

(* build_structural_model gets through. *)
Accepted(m) == HingesAllInside(m) /\ ~CaseDividesLoad(m) /\ WellFormed(expanded(m))
=============================================================================
