----------------------------- MODULE TrussEditing -----------------------------
(* Editing a plane truss: TrussCustomModelEditor.tsx and
   model-workflow-actions-truss.ts with truss-model-edits.ts and
   truss-editor-model.ts.  truss-model-edits.ts is frame-model-edits.ts over
   again with other types, so what it makes of the collections is what the
   frame's operators make of them; drafts, loads, the text and the normalizer
   are the truss's own. *)
EXTENDS FrameEditing, TrussModel

CONSTANTS
  TrussStarts,       \* as Starts
  TrussTemplates,    \* TRUSS_MODEL_TEMPLATES
  PanelCounts        \* panels the user may ask a generated truss for

ASSUME TrussStartsAssumption ==
  \A start \in TrussStarts : IsTruss(start.model) /\ normalizeTrussWorkspaceState(start.model) = start.model
ASSUME TrussTemplatesAssumption == \A template \in TrussTemplates : IsTruss(template) /\ Resolved(template)
ASSUME PanelsAssumption == PanelCounts \subseteq Nat \ {0}

----------------------------------------------------------------------------
(* truss-editor-model.ts. *)

createTrussNodeDraft(m) ==
  [id |-> nextFrameDraftId("N", Ids(m.nodes)),
   support |-> CASE Len(m.nodes) = 0 -> "pinned" [] Len(m.nodes) = 1 -> "roller" [] OTHER -> "free"]

trussMemberExists(m, a, b) == memberExists(m, a, b)

createConnectedTrussMember(m, a, b) == WithMember(m, a, b, "M")

preferredMember(m, id) == IF id \in Ids(m.members) THEN id ELSE FirstOr(m.members, Draft("M", 1))

createTrussNodalLoadDraft(m) == DraftLoad("nodal", FirstOr(m.nodes, Draft("N", 1)), NoId)
createTrussMemberLoadDraft(m, id) == DraftLoad("distributed", NoId, preferredMember(m, id))
createTrussTemperatureLoadDraft(m, id) == DraftLoad("temperature", NoId, preferredMember(m, id))

(* buildParallelChordTrussQuickModel: the nodes of the lower and the upper
   chord, the chords panel by panel, verticals, and diagonals that rise and
   fall in turn; a load on each inner upper node, unless it is zero. *)
ParallelChordTruss(panels, topLoad) ==
  LET lower(k) == Draft("N", k + 1)
      upper(k) == Draft("N", panels + 2 + k)
      bar(stem, n, a, b) == [id |-> Draft(stem, n), start |-> a, end |-> b, hinges |-> <<>>]
      inner == IF panels < 2 THEN 1 ELSE panels - 1
  IN [nodes |-> [k \in 1..2 * (panels + 1) |->
                   [id |-> Draft("N", k),
                    support |-> CASE k = 1 -> "pinned" [] k = panels + 1 -> "roller" [] OTHER -> "free"]],
      members |->
        [k \in 1..2 * panels |-> IF k % 2 = 1 THEN bar("L", (k + 1) \div 2, lower((k - 1) \div 2), lower((k + 1) \div 2))
                                 ELSE bar("U", k \div 2, upper(k \div 2 - 1), upper(k \div 2))]
        \o [k \in 1..panels + 1 |-> bar("V", k, lower(k - 1), upper(k - 1))]
        \o [k \in 1..panels |-> IF k % 2 = 1 THEN bar("D", k, lower(k - 1), upper(k))
                                ELSE bar("D", k, upper(k - 1), lower(k))],
      loads |-> IF topLoad THEN [k \in 1..inner |-> DraftLoad("nodal", upper(smaller(panels - 1, k)), NoId)] ELSE <<>>,
      cases |-> <<>>, combinations |-> <<>>]

----------------------------------------------------------------------------
(* truss-model-edits.ts, which repeats frame-model-edits.ts. *)

updateTrussNodeCollections(m, i, new) == renameNode(m, i, new)
removeTrussLoadsForTargets(m, nodeIds, memberIds) == removeLoadsForTargets(m, nodeIds, memberIds)
removeTrussNodeCollections(m, i) == removeNode(m, i)
updateTrussMemberCollections(m, i, new) == renameMember(m, i, new)
removeTrussMemberCollections(m, i) == removeMember(m, i)
updateTrussLoadCaseCollections(m, i, new) == renameCase(m, i, new)
removeTrussLoadCaseCollections(m, i) == removeCase(m, i)
copyTrussOnce(m, nodeIds, memberIds, index) == copyOnce(m, nodeIds, memberIds, index)
arrayTrussCollections(m, nodeIds, memberIds) ==
  LET once == copyTrussOnce(m, nodeIds, memberIds, 1)
  IN IF ArrayCount = 1 THEN once ELSE copyTrussOnce(once, nodeIds, memberIds, 2)
deleteTrussSelections(m, nodeIds, memberIds, loads) == deleteSelections(m, nodeIds, memberIds, loads)

(* What TrussLoadEditor can make of a load: a draft of another type takes its
   place, for the same member if it has one, or it is given another target.
   The three words for a distributed load are shown as one type. *)
trussEdited(load, m) ==
  (IF load.type = "nodal" THEN {[load EXCEPT !.node = id] : id \in Ids(m.nodes)}
   ELSE {[load EXCEPT !.member = id] : id \in Ids(m.members)} \cup {createTrussNodalLoadDraft(m)})
  \cup (IF load.type \in SpreadTypes THEN {} ELSE {createTrussMemberLoadDraft(m, load.member)})
  \cup (IF load.type = "temperature" THEN {} ELSE {createTrussTemperatureLoadDraft(m, load.member)})

----------------------------------------------------------------------------
TrussInit ==
  /\ \E start \in TrussStarts : model = start.model /\ edits = start.edits
  /\ redirected = FALSE
  /\ renamed = FALSE

updateTrussWorkspace(next) ==
  /\ edits > 0
  /\ model' = normalizeTrussWorkspaceState(next)
  /\ edits' = edits - 1
  /\ redirected' = ~Resolved(withinTrussLimits(next))

trussCommit(next) == updateTrussWorkspace(next) /\ renamed' = FALSE
trussRename(next, new, used) == updateTrussWorkspace(next) /\ renamed' = (new \notin used)

TrussTemplate == \E template \in TrussTemplates : trussCommit(template)
TrussQuickModel ==
  \E panels \in PanelCounts, topLoad \in BOOLEAN : trussCommit(ParallelChordTruss(panels, topLoad))

(* The text of the truss, applied as it was written. *)
TrussImportText ==
  LET text == serializeTrussTextModel(model)
  IN ~trussTextDiagnosed(text) /\ trussCommit(parseTrussTextModel(text, model))

TrussAddNode == trussCommit([model EXCEPT !.nodes = Append(@, createTrussNodeDraft(model))])

(* applyTrussConnectedNode: a new node tied to the chosen or nearest one. *)
TrussAddConnectedNode ==
  LET new == createTrussNodeDraft(model)
      next == [model EXCEPT !.nodes = Append(@, new)]
  IN \/ model.nodes = <<>> /\ trussCommit(next)
     \/ \E a \in Ids(model.nodes) :
          trussCommit(IF trussMemberExists(model, a, new.id) THEN next
                      ELSE createConnectedTrussMember(next, a, new.id))

(* addMemberBetweenNodes, or both nodes selected. *)
TrussConnect ==
  \E a, b \in Ids(model.nodes) :
    /\ a # b /\ ~trussMemberExists(model, a, b)
    /\ trussCommit(createConnectedTrussMember(model, a, b))

TrussRenameNode ==
  \E i \in DOMAIN model.nodes, new \in NewNames :
    trussRename(updateTrussNodeCollections(model, i, new), new, Ids(model.nodes))
TrussSetSupport ==
  \E i \in DOMAIN model.nodes, support \in {"pinned", "roller", "free"} :
    trussCommit([model EXCEPT !.nodes[i].support = support])
TrussRemoveNode ==
  \E i \in DOMAIN model.nodes : Len(model.nodes) > 1 /\ trussCommit(removeTrussNodeCollections(model, i))

TrussRenameMember ==
  \E i \in DOMAIN model.members, new \in NewNames :
    trussRename(updateTrussMemberCollections(model, i, new), new, Ids(model.members))
TrussMoveMember ==
  \E i \in DOMAIN model.members, id \in Ids(model.nodes) :
    \/ trussCommit([model EXCEPT !.members[i].start = id])
    \/ trussCommit([model EXCEPT !.members[i].end = id])
TrussRemoveMember == \E i \in DOMAIN model.members : trussCommit(removeTrussMemberCollections(model, i))

(* A load on a member is drafted for the chosen member, and only if there is
   one. *)
TrussAddNodalLoad == trussCommit([model EXCEPT !.loads = Append(@, createTrussNodalLoadDraft(model))])
TrussAddMemberLoad ==
  \E id \in Ids(model.members) :
    trussCommit([model EXCEPT !.loads = Append(@, createTrussMemberLoadDraft(model, id))])
TrussUpdateLoad ==
  \E i \in DOMAIN model.loads : \E load \in trussEdited(model.loads[i], model) :
    trussCommit([model EXCEPT !.loads[i] = load])
TrussRemoveLoad == \E i \in DOMAIN model.loads : trussCommit([model EXCEPT !.loads = RemoveAt(@, i)])

TrussAddCase ==
  trussCommit([model EXCEPT !.cases = Append(@, [id |-> nextFrameDraftId("LC", Ids(@)),
                                                 loads |-> <<createTrussNodalLoadDraft(model)>>])])
TrussRenameCase ==
  \E i \in DOMAIN model.cases, new \in NewNames :
    trussRename(updateTrussLoadCaseCollections(model, i, new), new, Ids(model.cases))
TrussRemoveCase == \E i \in DOMAIN model.cases : trussCommit(removeTrussLoadCaseCollections(model, i))
TrussEditCaseLoads ==
  \E i \in DOMAIN model.cases :
    \/ trussCommit([model EXCEPT !.cases[i].loads = Append(@, createTrussNodalLoadDraft(model))])
    \/ \E k \in DOMAIN model.cases[i].loads :
         \/ trussCommit([model EXCEPT !.cases[i].loads = RemoveAt(@, k)])
         \/ \E load \in trussEdited(model.cases[i].loads[k], model) :
              trussCommit([model EXCEPT !.cases[i].loads[k] = load])

TrussAddCombination ==
  /\ model.cases # <<>>
  /\ trussCommit([model EXCEPT !.combinations =
       Append(@, [id |-> nextFrameDraftId("COMB", Ids(@)), factors |-> [id \in Ids(model.cases) |-> 1]])])
TrussUpdateCombination ==
  \E i \in DOMAIN model.combinations :
    \/ \E new \in NewNames : trussCommit([model EXCEPT !.combinations[i].id = new])
    \/ \E id \in Ids(model.cases), factor \in {0, 1} :
         trussCommit([model EXCEPT !.combinations[i].factors = withFactor(@, id, factor)])
TrussRemoveCombination ==
  \E i \in DOMAIN model.combinations : trussCommit([model EXCEPT !.combinations = RemoveAt(@, i)])

TrussDeleteSelections ==
  \E nodeIds \in Selections(Ids(model.nodes)), memberIds \in Selections(Ids(model.members)),
     loads \in Selections(DOMAIN model.loads) :
    trussCommit(deleteTrussSelections(model, nodeIds, memberIds, loads))

TrussTargets(m) == Targets(m)
TrussCopy ==
  \E target \in TrussTargets(model) : trussCommit(copyTrussOnce(model, target[1], target[2], 1))
TrussArray ==
  \E target \in TrussTargets(model) : trussCommit(arrayTrussCollections(model, target[1], target[2]))

TrussNext ==
  \/ TrussTemplate \/ TrussQuickModel \/ TrussImportText
  \/ TrussAddNode \/ TrussAddConnectedNode \/ TrussConnect
  \/ TrussRenameNode \/ TrussSetSupport \/ TrussRemoveNode
  \/ TrussRenameMember \/ TrussMoveMember \/ TrussRemoveMember
  \/ TrussAddNodalLoad \/ TrussAddMemberLoad \/ TrussUpdateLoad \/ TrussRemoveLoad
  \/ TrussAddCase \/ TrussRenameCase \/ TrussRemoveCase \/ TrussEditCaseLoads
  \/ TrussAddCombination \/ TrussUpdateCombination \/ TrussRemoveCombination
  \/ TrussDeleteSelections \/ TrussCopy \/ TrussArray

----------------------------------------------------------------------------
(* What a truss's properties are made of. *)

TrussFull(m) ==
  Len(m.nodes) = MaxTrussNodes \/ Len(m.members) = MaxTrussMembers \/ Len(m.cases) = MaxCases

TrussReopens(m) == normalizeTrussWorkspaceState(m) = m

TrussShape(m) ==
  [supports |-> [i \in DOMAIN m.nodes |-> m.nodes[i].support],
   rest |-> Shape(m)]

(* Names that the text gives as one word. *)
TrussSpelt(m) == \A named \in Elements(m.nodes) \cup Elements(m.members) : IsWord(named.id)

(* A step to what the text of the truss says. *)
TrussTextApplied == model' = normalizeTrussWorkspaceState(parseTrussTextModel(serializeTrussTextModel(model), model))

(* All but the loads on members comes back, with the names it had. *)
TrussTextKeeps(m) ==
  LET text == serializeTrussTextModel(m)
  IN trussSendable(m) /\ TrussSpelt(m) =>
       /\ ~trussTextDiagnosed(text)
       /\ normalizeTrussWorkspaceState(parseTrussTextModel(text, m)) =
            [m EXCEPT !.loads = Where(@, {load \in Elements(@) : load.type = "nodal"})]

TrussSentAccepted(m) == trussSendable(m) => trussAccepted(buildTrussPayload(m))

(* A node carries the loads on it and a share of each load on a member that
   begins or ends there; changes of temperature stay with their members. *)
Carried(loads, m) ==
  LET request == preprocess_truss_member_loads(loads, m.members)
      At(id, end) == {member.id : member \in {k \in Elements(m.members) : k[end] = id}}
      Spread(id, end) ==
        Cardinality({k \in DOMAIN loads : loads[k].type \in SpreadTypes /\ loads[k].member \in At(id, end)})
      On(s, id) == Cardinality({k \in DOMAIN s : s[k].type = "nodal" /\ s[k].node = id})
      Heated(s) == Where(s, {load \in Elements(s) : load.type = "temperature"})
  IN /\ \A id \in Ids(m.nodes) : On(request, id) = On(loads, id) + Spread(id, "start") + Spread(id, "end")
     /\ Heated(request) = Heated(loads)

TrussLoadsSurvive(m) ==
  LET sent == buildTrussPayload(m)
  IN trussSendable(m) =>
       Carried(sent.loads, sent) /\ \A case \in Elements(sent.cases) : Carried(case.loads, sent)
=============================================================================
