----------------------------- MODULE FrameEditing -----------------------------
(* Editing a plane frame in the workbench: FrameCustomModelEditor.tsx and
   model-workflow-actions-frame.ts with the pure functions they commit,
   frame-model-edits.ts and frame-editor-model.ts.  Each edit yields the five
   collections at once; undo, drafts and results are in ProjectDocument and
   WorkbenchResults.  Whatever is committed goes through the workspace
   normalizer first (useSolverProjectDocument.ts, solver-project.ts).  Numbers
   other than ratios are left out, and a factor is 0 or 1.  Dragging changes
   coordinates alone and is left out too. *)
EXTENDS FrameNormalizer, FrameText

CONSTANTS
  Starts,           \* the models the user may start from, and a bound on the edits of each
  NewNames,         \* what the user may type for an identifier
  Ratios,           \* what the user may type for a position, in hundredths
  HingeRatios,      \* what the user may type for a hinge
  Angles,           \* what the user may type for the angle of a roller
  MemberStems,      \* "B", "C" or "M", by the direction of a new member
  ArrayCount,       \* copies an array makes (2 in the code)
  Templates,        \* FRAME_MODEL_TEMPLATES
  QuickSizes        \* bays and stories the user may ask a regular frame for

(* The user starts from a frame the normalizer has made, and templates refer to
   nothing that is not there. *)
ASSUME StartsAssumption ==
  \A start \in Starts : IsFrame(start.model) /\ normalizeFrameWorkspaceState(start.model) = start.model
ASSUME TemplatesAssumption == \A template \in Templates : IsFrame(template) /\ Resolved(template)
ASSUME InputsAssumption ==
  /\ NewNames \subseteq Identifier
  /\ Ratios \subseteq Int /\ HingeRatios \subseteq Int /\ Angles \subseteq Int
  /\ MemberStems \subseteq Text
  /\ ArrayCount \in {1, 2}
  /\ QuickSizes \subseteq (Nat \ {0}) \X (Nat \ {0})

VARIABLES
  model,
  edits,       \* edits left
  redirected,  \* history: the normalizer gave a reference of the last edit another target
  renamed      \* history: the last edit gave something a name that was not in use

vars == <<model, edits, redirected, renamed>>

FirstOr(s, id) == IF s = <<>> THEN id ELSE s[1].id

memberExists(m, a, b) == \E member \in Elements(m.members) : {member.start, member.end} = {a, b}

createFrameLoadDraft(index, m) ==
  LET type == IF m.members = <<>> THEN "nodal"
              ELSE <<"nodal", "distributed", "member_point", "temperature">>[(index % 4) + 1]
      load == [type |-> type, node |-> NoId, member |-> NoId,
               from |-> 0, to |-> 100, at |-> 50, role |-> "variable"]
  IN IF type = "nodal" THEN [load EXCEPT !.node = FirstOr(m.nodes, Draft("N", 1))]
     ELSE [load EXCEPT !.member = m.members[(index % Len(m.members)) + 1].id]

DraftLoad(type, node, member) ==
  [type |-> type, node |-> node, member |-> member, from |-> 0, to |-> 100, at |-> 50, role |-> "variable"]

(* buildRegularFrameQuickModel: nodes floor by floor, then the columns and the
   beams; a load on every beam and one on the last node, unless it is zero. *)
RegularFrame(bays, stories, beamLoad, topLoad) ==
  LET perFloor == bays + 1
      column(k) == [id |-> Draft("C", k), start |-> Draft("N", k), end |-> Draft("N", k + perFloor), hinges |-> <<>>]
      beam(k) == LET left == ((k - 1) \div bays + 1) * perFloor + ((k - 1) % bays) + 1
                 IN [id |-> Draft("B", k), start |-> Draft("N", left), end |-> Draft("N", left + 1), hinges |-> <<>>]
  IN [nodes |-> [k \in 1..(stories + 1) * perFloor |-> [FreeNode(Draft("N", k)) EXCEPT
                                              !.support = IF k <= perFloor THEN "fixed" ELSE @]],
      members |-> [k \in 1..stories * perFloor |-> column(k)] \o [k \in 1..stories * bays |-> beam(k)],
      loads |-> (IF beamLoad THEN [k \in 1..stories * bays |-> DraftLoad("distributed", NoId, Draft("B", k))]
                 ELSE <<>>)
                \o (IF topLoad THEN <<DraftLoad("nodal", Draft("N", (stories + 1) * perFloor), NoId)>> ELSE <<>>),
      cases |-> <<>>, combinations |-> <<>>]

----------------------------------------------------------------------------
(* frame-model-edits.ts. *)

(* Every load of the model and of its load cases goes through F. *)
WithLoads(m, F(_)) ==
  [m EXCEPT !.loads = F(m.loads),
            !.cases = [i \in DOMAIN m.cases |-> [m.cases[i] EXCEPT !.loads = F(m.cases[i].loads)]]]

(* Only one end of a member follows: the first that has the name. *)
renameEnd(member, old, new) ==
  IF member.start = old THEN [member EXCEPT !.start = new]
  ELSE IF member.end = old THEN [member EXCEPT !.end = new] ELSE member

renameNode(m, i, new) ==
  LET old == m.nodes[i].id
      follow(load) == IF load.type = "nodal" /\ load.node = old
                      THEN [load EXCEPT !.node = new] ELSE load
  IN WithLoads([m EXCEPT !.nodes[i].id = new,
                         !.members = Each(@, LAMBDA member : renameEnd(member, old, new))],
               LAMBDA loads : Each(loads, follow))

(* Defect: the loads of load cases keep the old name. *)
renameInModelLoads(m, i, new) ==
  LET old == m.members[i].id
  IN [m EXCEPT !.members[i].id = new,
               !.loads = Each(@, LAMBDA load : IF load.type # "nodal" /\ load.member = old
                                               THEN [load EXCEPT !.member = new] ELSE load)]

renameMember(m, i, new) ==
  LET old == m.members[i].id
      follow(load) == IF load.type # "nodal" /\ load.member = old
                      THEN [load EXCEPT !.member = new] ELSE load
  IN WithLoads([m EXCEPT !.members[i].id = new], LAMBDA loads : Each(loads, follow))

(* Loads that act on one of the removed objects; the type decides which of
   its fields counts. *)
removeLoadsForTargets(m, nodeIds, memberIds) ==
  WithLoads(m, LAMBDA loads : Where(loads,
    {load \in Elements(loads) : Target(load) \notin (IF load.type = "nodal" THEN nodeIds ELSE memberIds)}))

removeNode(m, i) ==
  LET id == m.nodes[i].id
      gone == {member.id : member \in {k \in Elements(m.members) : id \in {k.start, k.end}}}
  IN removeLoadsForTargets(
       [m EXCEPT !.nodes = RemoveAt(@, i),
                 !.members = Where(@, {member \in Elements(@) : member.id \notin gone})], {id}, gone)

removeMember(m, i) ==
  removeLoadsForTargets([m EXCEPT !.members = RemoveAt(@, i)], {}, {m.members[i].id})

(* deleteFrameSelections: every chosen node, member and load, the last node
   too.  loads are positions. *)
deleteSelections(m, nodeIds, memberIds, loads) ==
  LET gone == memberIds \cup {member.id : member \in
                {k \in Elements(m.members) : {k.start, k.end} \cap nodeIds # {}}}
  IN removeLoadsForTargets(
       [m EXCEPT !.nodes = Where(@, {node \in Elements(@) : node.id \notin nodeIds}),
                 !.members = Where(@, {member \in Elements(@) : member.id \notin gone}),
                 !.loads = Picked(@, DOMAIN @ \ loads)], nodeIds, gone)

(* Defect: a removed case stays in the combinations. *)
removeCaseOnly(m, i) == [m EXCEPT !.cases = RemoveAt(@, i)]

(* A case that takes the name of another takes its place in the combinations. *)
renameCase(m, i, new) ==
  LET old == m.cases[i].id
      follow(c) == IF old \notin DOMAIN c.factors THEN c
                   ELSE [c EXCEPT !.factors =
                           [id \in (DOMAIN @ \ {old}) \cup {new} |-> IF id = new THEN @[old] ELSE @[id]]]
  IN IF new = old THEN m
     ELSE [m EXCEPT !.cases[i].id = new, !.combinations = Each(@, follow)]

removeCase(m, i) ==
  LET id == m.cases[i].id
      without(c) == [c EXCEPT !.factors = [k \in DOMAIN @ \ {id} |-> @[k]]]
  IN [m EXCEPT !.cases = RemoveAt(@, i),
               !.combinations = LET left == Each(@, without)
                                IN Where(left, {c \in Elements(left) : DOMAIN c.factors # {}})]

(* A load case has one factor in a combination. *)
withFactor(factors, id, factor) ==
  [k \in DOMAIN factors \cup {id} |-> IF k = id THEN factor ELSE factors[k]]

(* The name of a copy: _C and its index, then a serial number while the name
   is used. *)
uniqueId(id, used, index) == firstUnused(AddedTo(id, "_C", index), "_", used)

(* What copies are called: of the chosen nodes and the ends of the chosen
   members, and of these members.  Without a chosen member those between the
   nodes are copied too. *)
copyNames(m, nodeIds, memberIds, index) ==
  LET ends == {id \in Ids(m.nodes) : \E member \in Elements(m.members) :
                 member.id \in memberIds /\ id \in {member.start, member.end}}
      chosen == nodeIds \cup ends
      nodes == IF chosen = {} /\ memberIds = {} THEN Ids(m.nodes) ELSE chosen \cap Ids(m.nodes)
      between == {k \in Elements(m.members) : {k.start, k.end} \subseteq nodes}
      members == {k.id : k \in {k \in between : memberIds = {} \/ k.id \in memberIds}}
  IN [nodes |-> [id \in nodes |-> uniqueId(id, Ids(m.nodes), index)],
      members |-> [id \in members |-> uniqueId(id, Ids(m.members), index)]]

(* What has such a name is copied, and with it the loads on any of these, in
   the model and in its cases. *)
copyNamed(m, nodeName, memberName) ==
  LET nodes == Where(m.nodes, {node \in Elements(m.nodes) : node.id \in DOMAIN nodeName})
      kept == Where(m.members, {k \in Elements(m.members) :
                k.id \in DOMAIN memberName /\ {k.start, k.end} \subseteq DOMAIN nodeName})
      onCopy(loads) == Where(loads, {load \in Elements(loads) :
        Target(load) \in (IF load.type = "nodal" THEN DOMAIN nodeName ELSE DOMAIN memberName)})
      copied(load) == IF load.type = "nodal" THEN [load EXCEPT !.node = nodeName[@]]
                      ELSE [load EXCEPT !.member = memberName[@]]
  IN WithLoads([m EXCEPT
         !.nodes = @ \o Each(nodes, LAMBDA node : [node EXCEPT !.id = nodeName[@]]),
         !.members = @ \o Each(kept, LAMBDA k :
            [k EXCEPT !.id = memberName[@], !.start = nodeName[@], !.end = nodeName[@]])],
       LAMBDA loads : loads \o Each(onCopy(loads), copied))

(* copyFrameOnce. *)
copyOnce(m, nodeIds, memberIds, index) ==
  LET name == copyNames(m, nodeIds, memberIds, index) IN copyNamed(m, name.nodes, name.members)

----------------------------------------------------------------------------
Init ==
  /\ \E start \in Starts : model = start.model /\ edits = start.edits
  /\ redirected = FALSE
  /\ renamed = FALSE

(* What is committed is what the normalizer makes of the edited model. *)
updateWorkspace(next) ==
  /\ edits > 0
  /\ model' = normalizeFrameWorkspaceState(next)
  /\ edits' = edits - 1
  /\ redirected' = ~Resolved(withinLimits(next))

Commit(next) == updateWorkspace(next) /\ renamed' = FALSE
CommitRename(next, new, used) == updateWorkspace(next) /\ renamed' = (new \notin used)

(* inferFrameNodeDraft: the first node is fixed, any other is on a roller when
   it comes to lie on the ground. *)
draftSupports(m) == IF m.nodes = <<>> THEN {"fixed"} ELSE {"roller", "free"}
WithNode(m, support) ==
  [m EXCEPT !.nodes = Append(@, [FreeNode(nextFrameDraftId("N", Ids(m.nodes))) EXCEPT !.support = support])]
WithMember(m, a, b, stem) ==
  [m EXCEPT !.members = Append(@, [id |-> nextFrameDraftId(stem, Ids(m.members)),
                                   start |-> a, end |-> b, hinges |-> <<>>])]

AddNode == \E support \in draftSupports(model) : Commit(WithNode(model, support))

(* applyFrameConnectedNode: a new node tied to the chosen or nearest one. *)
AddConnectedNode ==
  \E stem \in MemberStems, support \in draftSupports(model) :
    LET next == WithNode(model, support)
        new == next.nodes[Len(next.nodes)].id
    IN \/ model.nodes = <<>> /\ Commit(next)
       \/ \E a \in Ids(model.nodes) :
            Commit(IF memberExists(model, a, new) THEN next ELSE WithMember(next, a, new, stem))

(* Between two nodes, by the editor or by selecting both. *)
Connect ==
  \E a, b \in Ids(model.nodes), stem \in MemberStems :
    /\ a # b /\ ~memberExists(model, a, b)
    /\ Commit(WithMember(model, a, b, stem))

(* An empty text leaves the identifier as it is, and any other is taken,
   whether it is in use or not. *)
RenameNode ==
  \E i \in DOMAIN model.nodes, new \in NewNames :
    CommitRename(renameNode(model, i, new), new, Ids(model.nodes))

(* handleSupportTypeChange: another support has no displacements, and an angle
   only if it is a roller. *)
supportedBy(node, support) ==
  [node EXCEPT !.support = support, !.angle = IF support = "roller" THEN @ ELSE NoAngle, !.displacements = <<>>]
SetSupport ==
  \E i \in DOMAIN model.nodes, support \in {"fixed", "pinned", "roller", "free"} :
    Commit([model EXCEPT !.nodes[i] = supportedBy(@, support)])
SetAngle ==
  \E i \in DOMAIN model.nodes, angle \in Angles \cup {NoAngle} :
    model.nodes[i].support = "roller" /\ Commit([model EXCEPT !.nodes[i].angle = angle])

(* A spring without stiffness is left out by the normalizer, as if removed. *)
SetSprings ==
  \E i \in DOMAIN model.nodes :
    \/ Commit([model EXCEPT !.nodes[i].springs = Append(@, "uy")])
    \/ \E k \in DOMAIN model.nodes[i].springs :
         \/ Commit([model EXCEPT !.nodes[i].springs = RemoveAt(@, k)])
         \/ \E dof \in {"ux", "uy", "rz"} : Commit([model EXCEPT !.nodes[i].springs[k] = dof])

(* The field shows the displacements that count, and what is changed takes
   the place of all. *)
SetDisplacements ==
  \E i \in DOMAIN model.nodes :
    LET shown == normalizeFrameSupportDisplacements(model.nodes[i])
        options == supportDirections(model.nodes[i])
        others == Where(options, Elements(options) \ Elements(shown))
        Displace(next) == Commit([model EXCEPT !.nodes[i].displacements = next])
    IN \/ others # <<>> /\ Displace(Append(shown, others[1]))
       \/ \E k \in DOMAIN shown :
            \/ Displace(RemoveAt(shown, k))
            \/ \E dof \in Elements(options) : Displace([shown EXCEPT ![k] = dof])
RemoveNode == \E i \in DOMAIN model.nodes : Len(model.nodes) > 1 /\ Commit(removeNode(model, i))

RenameMember ==
  \E i \in DOMAIN model.members, new \in NewNames :
    CommitRename(renameMember(model, i, new), new, Ids(model.members))
MoveMember ==
  \E i \in DOMAIN model.members, id \in Ids(model.nodes) :
    \/ Commit([model EXCEPT !.members[i].start = id])
    \/ Commit([model EXCEPT !.members[i].end = id])
SetHinges ==
  \E i \in DOMAIN model.members :
    \/ Commit([model EXCEPT !.members[i].hinges = Append(@, 50)])
    \/ \E k \in DOMAIN model.members[i].hinges :
         \/ Commit([model EXCEPT !.members[i].hinges = RemoveAt(@, k)])
         \/ \E ratio \in HingeRatios : Commit([model EXCEPT !.members[i].hinges[k] = ratio])
RemoveMember == \E i \in DOMAIN model.members : Commit(removeMember(model, i))

(* What FrameLoadEditor can make of a load.  Fields of a former type stay in
   it, and a type that acts on a member takes up the member it had. *)
Retyped(load, type) ==
  LET first == FirstOr(model.members, Draft("M", 1))
  IN CASE type = "nodal" -> [load EXCEPT !.type = type, !.node = FirstOr(model.nodes, Draft("N", 1))]
       [] type = "distributed" -> [load EXCEPT !.type = type, !.member = first]
       [] OTHER -> [load EXCEPT !.type = type, !.member = IF @ = NoId THEN first ELSE @]

Edited(load) ==
  {Retyped(load, type) : type \in LoadTypes \ {load.type}}
  \cup {[load EXCEPT !.role = role] : role \in {"fixed", "variable"}}
  \cup (IF load.type = "nodal" THEN {[load EXCEPT !.node = id] : id \in Ids(model.nodes)}
        ELSE {[load EXCEPT !.member = id] : id \in Ids(model.members)})
  \cup (IF load.type # "distributed" THEN {}
        ELSE {[load EXCEPT !.from = r] : r \in Ratios} \cup {[load EXCEPT !.to = r] : r \in Ratios})
  \cup (IF load.type # "member_point" THEN {} ELSE {[load EXCEPT !.at = r] : r \in Ratios})

AddLoad == Commit([model EXCEPT !.loads = Append(@, createFrameLoadDraft(Len(@), model))])
UpdateLoad ==
  \E i \in DOMAIN model.loads : \E load \in Edited(model.loads[i]) : Commit([model EXCEPT !.loads[i] = load])
RemoveLoad == \E i \in DOMAIN model.loads : Commit([model EXCEPT !.loads = RemoveAt(@, i)])

AddCase ==
  Commit([model EXCEPT !.cases = Append(@, [id |-> nextFrameDraftId("LC", Ids(@)),
                                            loads |-> <<createFrameLoadDraft(0, model)>>])])
RenameCase ==
  \E i \in DOMAIN model.cases, new \in NewNames :
    CommitRename(renameCase(model, i, new), new, Ids(model.cases))
RemoveCase == \E i \in DOMAIN model.cases : Commit(removeCase(model, i))
EditCaseLoads ==
  \E i \in DOMAIN model.cases :
    \/ Commit([model EXCEPT !.cases[i].loads = Append(@, createFrameLoadDraft(Len(@), model))])
    \/ \E k \in DOMAIN model.cases[i].loads :
         \/ Commit([model EXCEPT !.cases[i].loads = RemoveAt(@, k)])
         \/ \E load \in Edited(model.cases[i].loads[k]) : Commit([model EXCEPT !.cases[i].loads[k] = load])

AddCombination ==
  /\ model.cases # <<>>
  /\ Commit([model EXCEPT !.combinations =
       Append(@, [id |-> nextFrameDraftId("COMB", Ids(@)), factors |-> [id \in Ids(model.cases) |-> 1]])])
RenameCombination ==
  \E i \in DOMAIN model.combinations, new \in NewNames : Commit([model EXCEPT !.combinations[i].id = new])
SetFactor ==
  \E i \in DOMAIN model.combinations, id \in Ids(model.cases), factor \in {0, 1} :
    Commit([model EXCEPT !.combinations[i].factors = withFactor(@, id, factor)])
RemoveCombination ==
  \E i \in DOMAIN model.combinations : Commit([model EXCEPT !.combinations = RemoveAt(@, i)])

(* Nothing, one, or all of what can be selected. *)
Selections(S) == {{}, S} \cup {{x} : x \in S}
DeleteSelections ==
  \E nodeIds \in Selections(Ids(model.nodes)), memberIds \in Selections(Ids(model.members)),
     loads \in Selections(DOMAIN model.loads) :
    Commit(deleteSelections(model, nodeIds, memberIds, loads))

(* What a geometry action is about: one node, one member, or the model. *)
Targets(m) ==
  {<<{id}, {}>> : id \in Ids(m.nodes)} \cup {<<{}, {id}>> : id \in Ids(m.members)}
  \cup {<<Ids(m.nodes), Ids(m.members)>>}

Copy == \E target \in Targets(model) : Commit(copyOnce(model, target[1], target[2], 1))

(* A mirrored copy differs from a copy in coordinates, in the signs of its
   loads and in the angles of its rollers. *)
mirrorAngleDeg(angle, axis) ==
  IF angle = NoAngle THEN NoAngle ELSE (IF axis = "x" THEN 360 - angle ELSE 540 - angle) % 360
(* What was there before stays as it was. *)
mirrored(m, before, axis) ==
  [m EXCEPT !.nodes = [i \in DOMAIN m.nodes |->
     IF i <= before THEN m.nodes[i] ELSE [m.nodes[i] EXCEPT !.angle = mirrorAngleDeg(@, axis)]]]
Mirror ==
  \E target \in Targets(model), axis \in {"x", "y"} :
    Commit(mirrored(copyOnce(model, target[1], target[2], 1), Len(model.nodes), axis))

(* Both copies of an array are of what was chosen. *)
Array ==
  \E target \in Targets(model) :
    LET once == copyOnce(model, target[1], target[2], 1)
    IN Commit(IF ArrayCount = 1 THEN once ELSE copyOnce(once, target[1], target[2], 2))

(* The text of the model, applied as it was written.  Diagnostics keep it
   from being applied, and a text without members gets a chain of them. *)
ImportText ==
  LET text == serializeFrameTextModel(model)
      next == parseFrameTextModel(text)
  IN /\ ~Misread(text) /\ ~Diagnosed(next)
     /\ \E stems \in [1..Len(next.nodes) - 1 -> MemberStems] :
          Commit(completeFrameTextCollections(next, stems))

(* A template or a generated frame takes the place of the whole model, load
   cases and combinations included. *)
ApplyTemplate == \E template \in Templates : Commit(template)
GenerateQuickModel ==
  \E size \in QuickSizes, beamLoad, topLoad \in BOOLEAN :
    Commit(RegularFrame(size[1], size[2], beamLoad, topLoad))

Next ==
  \/ ApplyTemplate \/ GenerateQuickModel \/ ImportText
  \/ AddNode \/ AddConnectedNode \/ Connect
  \/ RenameNode \/ SetSupport \/ SetAngle \/ SetSprings \/ SetDisplacements \/ RemoveNode
  \/ RenameMember \/ MoveMember \/ SetHinges \/ RemoveMember
  \/ AddLoad \/ UpdateLoad \/ RemoveLoad
  \/ AddCase \/ RenameCase \/ RemoveCase \/ EditCaseLoads
  \/ AddCombination \/ RenameCombination \/ SetFactor \/ RemoveCombination
  \/ DeleteSelections \/ Copy \/ Mirror \/ Array

----------------------------------------------------------------------------
(* What a frame's properties are made of; ModelEditing states them.

   A collection is as long as it may be. *)
Full(m) == Len(m.nodes) = MaxNodes \/ Len(m.members) = MaxMembers \/ Len(m.cases) = MaxCases

FrameReopens(m) == normalizeFrameWorkspaceState(m) = m

(* What of a model does not depend on names. *)
Place(id, s) == IF id \in Ids(s) THEN PlaceOf(id, s) ELSE 0
ShapeOfLoads(loads, m) ==
  Each(loads, LAMBDA load :
    [load EXCEPT !.node = Place(@, m.nodes), !.member = Place(@, m.members), !.role = "variable"])
Shape(m) ==
  [nodes |-> Len(m.nodes),
   members |-> Each(m.members, LAMBDA k :
                 [start |-> Place(k.start, m.nodes), end |-> Place(k.end, m.nodes), hinges |-> k.hinges]),
   loads |-> ShapeOfLoads(m.loads, m),
   cases |-> Each(m.cases, LAMBDA case : ShapeOfLoads(case.loads, m)),
   combinations |-> Each(m.combinations, LAMBDA c :
     [i \in {k \in DOMAIN m.cases : m.cases[k].id \in DOMAIN c.factors} |-> c.factors[m.cases[i].id]])]

(* With what holds each node, as far as it counts. *)
FrameShape(m) ==
  [held |-> Each(m.nodes, LAMBDA node :
      [support |-> node.support, angle |-> IF node.support = "roller" THEN node.angle ELSE NoAngle,
       springs |-> node.springs, displacements |-> normalizeFrameSupportDisplacements(node)]),
   rest |-> Shape(m)]

(* No two nodes go by one number, as a node and its copy do, a roller states
   its angle, nothing is stated twice of a node, there is no hinge, and the
   names of load cases and combinations are words. *)
NoneTwice(s) == \A i, k \in DOMAIN s : s[i] = s[k] => i = k
TextTellsApart(m) ==
  /\ \A i, k \in DOMAIN m.nodes : nodeNumber(m, i) = nodeNumber(m, k) => i = k
  /\ \A node \in Elements(m.nodes) :
       /\ node.support = "roller" => node.angle # NoAngle
       /\ NoneTwice(node.springs) /\ NoneTwice(node.displacements)
  /\ \A member \in Elements(m.members) : member.hinges = <<>>
  /\ \A named \in Elements(m.cases) \cup Elements(m.combinations) : IsWord(named.id)

FrameTextKeeps(m) ==
  LET text == serializeFrameTextModel(m)
      read == parseFrameTextModel(text)
  IN Sendable(m) /\ TextTellsApart(m) =>
       ~Misread(text) /\ ~Diagnosed(read) /\ FrameShape(normalizeFrameWorkspaceState(read)) = FrameShape(m)

(* Nobody asks before a calculation whether a load case has a distributed
   load on a member with hinges; nor what hinges lead to, which may be more
   nodes or members than allowed or a segment with the name of a member. *)
TooManyExpanded(m) == Len(expanded(m).nodes) > MaxNodes \/ Len(expanded(m).members) > MaxMembers
Unforeseen(m) ==
  CaseDividesLoad(m) \/ TooManyExpanded(m) \/ ~Distinct(expanded(m).members)

FrameAccepted(m) ==
  LET sent == buildFramePayload(m)
  IN Sendable(m) /\ ~Unforeseen(sent) => Accepted(sent)

Covers(load, r) == load.from <= r /\ r < load.to

(* The parts of a load are on different members; a distributed load covers
   what it covered, a change of temperature every segment, and any other load
   acts once. *)
FrameLoadsSurvive(m) ==
  LET sent == buildFramePayload(m)
      Survives(load) ==
        LET parts == expandModelLoads(<<load>>, sent)
            count == IF load.type # "temperature" THEN 1
                     ELSE Cardinality(UNION {Elements(segments(k)) : k \in splitMember(load, sent)})
        IN /\ AllResolve(parts, expanded(sent))
           /\ Cardinality({Target(p) : p \in Elements(parts)}) = Len(parts)
           /\ IF load.type = "distributed"
              THEN \A r \in 0..99 : Covers(load, r) <=> \E p \in Elements(parts) : Covers(p, r)
              ELSE Len(parts) = (IF count = 0 THEN 1 ELSE count)
  IN Sendable(m) /\ Accepted(sent) => \A load \in Elements(sent.loads) : Survives(load)

(* A fixed load is so on every segment of its member. *)
FrameRolesKept(m) ==
  LET sent == buildFramePayload(m)
  IN Sendable(m) /\ Accepted(sent) =>
       \A load \in Elements(sent.loads) :
         \A p \in Elements(expandModelLoads(<<load>>, sent)) : p.role = load.role
=============================================================================
