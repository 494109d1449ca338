----------------------------- MODULE FrameWorkspace -----------------------------
(* What frame-workspace-normalizer.ts makes of the plane frame of a workspace.
   It stands between an edit and the project, between a file or draft and the
   project, and between the project and the editor: names are made distinct,
   each collection is cut to its limit, and a reference to nothing is given
   another target. *)
EXTENDS FrameModel

CONSTANTS
  MaxLoads,    \* loads of the model, and of a load case (80 in the code)
  MaxCases,    \* load cases, and combinations (12)
  MaxHinges,   \* hinges of a member (8)
  MaxOnNode    \* springs on a node, and displacements of it (6)

ASSUME CutsAssumption == MaxLoads \in Nat /\ MaxCases \in Nat /\ MaxHinges \in Nat /\ MaxOnNode \in Nat

(* Defect: one number for every name that is in use. *)
secondTextId(id, used) == IF id \in used THEN AddedTo(id, "-", 2) ELSE id

normalizeTextId(id, used) == firstUnused(id, "-", used)

DistinctNames(s) ==
  LET named[k \in 0..Len(s)] ==
        IF k = 0 THEN <<>>
        ELSE LET before == named[k - 1]
             IN Append(before, [s[k] EXCEPT !.id = normalizeTextId(@, Ids(before))])
  IN named[Len(s)]

FirstOf(s, n) == SubSeq(s, 1, IF Len(s) < n THEN Len(s) ELSE n)

(* The target itself, else the fallback, else the first there is.  Without any
   it stays as it is. *)
pickExistingId(id, s, fallback) ==
  CASE id \in Ids(s) \/ s = <<>> -> id
    [] id \notin Ids(s) /\ fallback \in Ids(s) -> fallback
    [] OTHER -> s[1].id

normalizeInternalHinges(hinges) ==
  Where(FirstOf(hinges, MaxHinges), 1..99)

(* normalizeSprings, normalizeSupportDisplacements: displacements the support
   does not hold are kept. *)
normalizeOnNode(directions) == FirstOf(directions, MaxOnNode)

normalizeStructureNodes(nodes) ==
  LET held(node) == [node EXCEPT !.springs = normalizeOnNode(@), !.displacements = normalizeOnNode(@)]
  IN DistinctNames(Each(FirstOf(nodes, MaxNodes), held))

(* The fallback of a member is the member of the default portal frame in its
   place, or its last. *)
portalEnds(k) ==
  CASE k = 1 -> <<Draft("N", 1), Draft("N", 3)>>
    [] k = 2 -> <<Draft("N", 3), Draft("N", 4)>>
    [] OTHER -> <<Draft("N", 2), Draft("N", 4)>>

normalizeStructureMembers(members, nodes) ==
  LET named == DistinctNames(FirstOf(members, MaxMembers))
  IN [k \in DOMAIN named |->
        [named[k] EXCEPT !.start = pickExistingId(@, nodes, portalEnds(k)[1]),
                         !.end = pickExistingId(@, nodes, portalEnds(k)[2]),
                         !.hinges = normalizeInternalHinges(@)]]

(* A load keeps the fields of its type alone. *)
loadOnNode(load, node) ==
  [load EXCEPT !.node = node, !.member = NoId, !.from = 0, !.to = 100, !.at = 50]

loadOnMember(load, member) ==
  LET ranged == normalizeFrameLoad(load)
  IN [load EXCEPT !.node = NoId, !.member = member,
        !.from = IF load.type = "distributed" THEN ranged.from ELSE 0,
        !.to = IF load.type = "distributed" THEN ranged.to ELSE 100,
        !.at = IF load.type = "member_point" THEN @ ELSE 50]

(* fallbacks is what the portal frame offers the k-th load: its own first load
   is distributed over its beam, any further one stands on its fourth node. *)
normalizeWorkspaceLoads(loads, nodes, members, fallbacks) ==
  LET kept == FirstOf(loads, MaxLoads)
      node(k) == IF fallbacks /\ k > 1 THEN Draft("N", 4) ELSE NoId
      member(k) == IF fallbacks /\ k = 1 /\ kept[k].type = "distributed" THEN Draft("B", 1) ELSE NoId
  IN [k \in DOMAIN kept |->
        IF kept[k].type = "nodal" THEN loadOnNode(kept[k], pickExistingId(kept[k].node, nodes, node(k)))
        ELSE loadOnMember(kept[k], pickExistingId(kept[k].member, members, member(k)))]

normalizeWorkspaceCases(cases, nodes, members) ==
  LET named == DistinctNames(FirstOf(cases, MaxCases))
  IN [k \in DOMAIN named |->
        [named[k] EXCEPT !.loads = normalizeWorkspaceLoads(@, nodes, members, FALSE)]]

normalizeWorkspaceCombinations(combinations, cases) ==
  LET named == DistinctNames(FirstOf(combinations, MaxCases))
  IN IF cases = <<>> THEN <<>>
     ELSE [k \in DOMAIN named |->
             [named[k] EXCEPT !.factors = [id \in DOMAIN @ \cap Ids(cases) |-> @[id]]]]

normalizeFrameWorkspaceState(m) ==
  LET nodes == normalizeStructureNodes(m.nodes)
      members == normalizeStructureMembers(m.members, nodes)
      cases == normalizeWorkspaceCases(m.cases, nodes, members)
  IN [nodes |-> nodes, members |-> members,
      loads |-> normalizeWorkspaceLoads(m.loads, nodes, members, TRUE),
      cases |-> cases,
      combinations |-> normalizeWorkspaceCombinations(m.combinations, cases)]

(* The model as far as the limits let it through. *)
withinLimits(m) ==
  [nodes |-> FirstOf(m.nodes, MaxNodes), members |-> FirstOf(m.members, MaxMembers),
   loads |-> FirstOf(m.loads, MaxLoads),
   cases |-> Each(FirstOf(m.cases, MaxCases), LAMBDA case : [case EXCEPT !.loads = FirstOf(@, MaxLoads)]),
   combinations |-> FirstOf(m.combinations, MaxCases)]
=============================================================================
