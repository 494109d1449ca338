------------------------------ MODULE TrussModel ------------------------------
(* The explicit plane truss: what is checked before it is sent, what the
   workspace normalizer makes of it (truss-workspace-normalizer.ts), its text
   (truss-text-model.ts), and what the service makes of the loads on its
   members.

   A truss is the five sequences of a frame.  A node is pinned, on a roller or
   free; a member has no hinges; a load is nodal, a change of temperature or
   distributed, for which files have three words.  Forces and stiffness are
   left out as they are for frames. *)
EXTENDS FrameWorkspace, TextLine

CONSTANTS MaxTrussNodes, MaxTrussMembers    \* MAX_TRUSS_NODES, MAX_TRUSS_MEMBERS

ASSUME TrussLimitsAssumption == MaxTrussNodes \in Nat /\ MaxTrussMembers \in Nat

SpreadTypes == {"distributed", "member_load", "member"}

Held(m, support) == Cardinality({i \in DOMAIN m.nodes : m.nodes[i].support = support})

TrussNode == [id : Identifier, support : {"pinned", "roller", "free"}]
IsTruss(m) == IsModel(m, TrussNode, {"nodal", "temperature"} \cup SpreadTypes)

(* Three constraints, one of them along x. *)
trussSupportStability(m) == Held(m, "pinned") > 0 /\ 2 * Held(m, "pinned") + Held(m, "roller") >= 3

(* buildTrussModelDiagnostics finds an error. *)
trussBlocked(m) ==
  \/ Len(m.nodes) < 2 \/ Len(m.members) < 1
  \/ baseFrameTrussIssues(m)
  \/ ~trussSupportStability(m)
  \/ ~Distinct(m.cases)
  \/ \E case \in Elements(m.cases) : ~AllResolve(case.loads, m)
  \/ loadCombinationIssues(m)

validateCustomTrussWorkspace(m) ==
  /\ Len(m.nodes) \in 2..MaxTrussNodes
  /\ Len(m.members) \in 1..MaxTrussMembers
  /\ Distinct(m.nodes) /\ Distinct(m.members) /\ Distinct(m.cases)
  /\ Resolved(m)
  /\ ~loadCombinationIssues(m)
  /\ trussSupportStability(m)

trussSendable(m) == ~trussBlocked(m) /\ validateCustomTrussWorkspace(m)

(* Combinations go with load cases, and with the factors of these alone. *)
normalizeTrussLoadCombinations(combinations, cases) ==
  IF cases = <<>> THEN <<>>
  ELSE Each(combinations, LAMBDA c : [c EXCEPT !.factors = [id \in DOMAIN @ \cap Ids(cases) |-> @[id]]])

buildTrussPayload(m) == [m EXCEPT !.combinations = normalizeTrussLoadCombinations(@, m.cases)]

----------------------------------------------------------------------------
(* truss-workspace-normalizer.ts. *)

normalizeTrussNodes(nodes) == DistinctNames(FirstOf(nodes, MaxTrussNodes))

(* The member of the default truss in the same place, or its last. *)
defaultTrussEnds(k) ==
  LET ends == <<<<1, 3>>, <<3, 4>>, <<4, 2>>, <<3, 2>>, <<1, 4>>>>
      pair == IF k <= Len(ends) THEN ends[k] ELSE ends[Len(ends)]
  IN [end \in 1..2 |-> Draft("N", pair[end])]

normalizeTrussMembers(members, nodes) ==
  LET named == DistinctNames(FirstOf(members, MaxTrussMembers))
  IN [k \in DOMAIN named |->
        [named[k] EXCEPT !.start = pickExistingId(@, nodes, defaultTrussEnds(k)[1]),
                         !.end = pickExistingId(@, nodes, defaultTrussEnds(k)[2])]]

(* A member without a name of its own is the first one; a node is the one the
   default truss has its k-th load on, or the last of these. *)
normalizeTrussLoads(loads, nodes, members, fallbacks) ==
  LET kept == FirstOf(loads, MaxLoads)
      node(k) == IF ~fallbacks THEN NoId ELSE Draft("N", IF k = 1 THEN 3 ELSE 4)
  IN [k \in DOMAIN kept |->
        IF kept[k].type = "nodal"
        THEN [kept[k] EXCEPT !.node = pickExistingId(@, nodes, node(k)), !.member = NoId]
        ELSE [kept[k] EXCEPT !.member = pickExistingId(@, members, NoId), !.node = NoId]]

normalizeTrussLoadCases(cases, nodes, members) ==
  LET named == DistinctNames(FirstOf(cases, MaxCases))
  IN [k \in DOMAIN named |->
        [named[k] EXCEPT !.loads = normalizeTrussLoads(@, nodes, members, FALSE)]]

(* Combinations are treated as those of a frame are, word for word. *)
normalizeTrussCombinations(combinations, cases) == normalizeWorkspaceCombinations(combinations, cases)

normalizeTrussWorkspaceState(m) ==
  LET nodes == normalizeTrussNodes(m.nodes)
      members == normalizeTrussMembers(m.members, nodes)
      cases == normalizeTrussLoadCases(m.cases, nodes, members)
  IN [nodes |-> nodes, members |-> members,
      loads |-> normalizeTrussLoads(m.loads, nodes, members, TRUE),
      cases |-> cases,
      combinations |-> normalizeTrussCombinations(m.combinations, cases)]

(* The truss as far as the limits let it through. *)
withinTrussLimits(m) ==
  [withinLimits(m) EXCEPT !.nodes = FirstOf(m.nodes, MaxTrussNodes),
                          !.members = FirstOf(m.members, MaxTrussMembers)]

----------------------------------------------------------------------------
(* truss-text-model.ts: NODE, MEMBER and LOAD lines, which give names as they
   are; only nodal loads have a line, and load cases none. *)

serializeTrussTextModel(m) ==
  [nodes |-> m.nodes, members |-> m.members,
   loads |-> Where(m.loads, {load \in Elements(m.loads) : load.type = "nodal"})]

(* Of each line the words are taken in turn.  A node whose name is more than
   one has a coordinate where its support should stand, which makes it free; a
   member has an end, or the number of an end's line, where its own name goes
   on; a line that ends early is filled up with N1 and N2. *)
readTrussNode(node, k) ==
  LET said == words(node.id)
  IN [id |-> token(said, 1, Draft("N", k)), support |-> IF Len(said) > 1 THEN "free" ELSE node.support]

readTrussMember(member, k) ==
  LET said == splitTextModelTokens(<<member.id, member.start, member.end>>)
  IN [member EXCEPT !.id = token(said, 1, Draft("M", k)),
                    !.start = token(said, 2, Draft("N", 1)), !.end = token(said, 3, Draft("N", 2))]

readTrussLoad(load) == [load EXCEPT !.node = token(words(load.node), 1, Draft("N", 1))]

readTrussLines(text) ==
  [nodes |-> [k \in DOMAIN text.nodes |-> readTrussNode(text.nodes[k], k)],
   members |-> [k \in DOMAIN text.members |-> readTrussMember(text.members[k], k)],
   loads |-> Each(text.loads, readTrussLoad)]

(* Where a coordinate should stand there is none. *)
notPlaced(node) ==
  LET said == words(node.id)
  IN \/ Marked(node.id) /\ Len(said) < 3
     \/ \E k \in {2, 3} \cap DOMAIN said : ~IsNumber(said[k])

(* A text with too few nodes, with a node that has no place, or with a member
   or load it would have to leave out, is not applied. *)
trussTextDiagnosed(text) ==
  LET read == readTrussLines(text)
  IN \/ Len(text.nodes) < 2
     \/ \E node \in Elements(text.nodes) : notPlaced(node)
     \/ \E member \in Elements(read.members) :
          ZeroLength(member) \/ ~({member.start, member.end} \subseteq Ids(read.nodes))
     \/ \E load \in Elements(read.loads) : load.node \notin Ids(read.nodes)

(* Load cases and combinations stay as they are in the model. *)
parseTrussTextModel(text, m) ==
  LET read == readTrussLines(text)
  IN [m EXCEPT !.nodes = read.nodes, !.members = read.members, !.loads = read.loads]

----------------------------------------------------------------------------
(* The service. *)

nodalShare(load, node) == [load EXCEPT !.type = "nodal", !.node = node, !.member = NoId]

(* A distributed load becomes a force on each end of its member. *)
equivalentLoads(load, members) ==
  LET member == members[CHOOSE k \in DOMAIN members : members[k].id = load.member]
  IN IF load.type \in SpreadTypes
     THEN <<nodalShare(load, member.start), nodalShare(load, member.end)>> ELSE <<load>>

preprocess_truss_member_loads(loads, members) ==
  FlattenSeq(Each(loads, LAMBDA load : equivalentLoads(load, members)))

preprocess_truss_load_cases(cases, members) ==
  Each(cases, LAMBDA case : [case EXCEPT !.loads = preprocess_truss_member_loads(@, members)])

(* A load on a member that is not there, or has no length, is refused. *)
carriesLoads(loads, members) ==
  \A load \in Elements(loads) :
    load.type # "nodal" => \E member \in Elements(members) : member.id = load.member /\ ~ZeroLength(member)

trussRequest(m) ==
  [m EXCEPT !.loads = preprocess_truss_member_loads(@, m.members),
            !.cases = preprocess_truss_load_cases(@, m.members)]

(* build_structural_model gets through for a truss. *)
trussAccepted(m) ==
  /\ Len(m.nodes) \in 2..MaxTrussNodes /\ Len(m.members) \in 1..MaxTrussMembers
  /\ Distinct(m.nodes) /\ Distinct(m.members) /\ Distinct(m.cases) /\ Distinct(m.combinations)
  /\ MembersResolve(m)
  /\ carriesLoads(m.loads, m.members)
  /\ \A case \in Elements(m.cases) : carriesLoads(case.loads, m.members)
  /\ Resolved(trussRequest(m))
  /\ \A load \in Elements(trussRequest(m).loads) : load.type \in {"nodal", "temperature"}
  /\ \A c \in Elements(m.combinations) : \E id \in DOMAIN c.factors : c.factors[id] # 0
=============================================================================
