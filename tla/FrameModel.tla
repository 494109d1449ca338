------------------------------ MODULE FrameModel ------------------------------
(* The explicit plane frame the editor works on, and what it must satisfy
   before it is sent: model-diagnostics.ts decides whether a calculation is
   blocked, solver-payload.ts validates the model once more and normalizes
   what it sends.

   A model is five sequences: nodes, members, loads, load cases and load
   combinations, which refer to each other by identifier.  An identifier is a
   text; all the code does with it is compare it, count drafts up and append
   to it, so it is a stem, the number of a draft and what was appended: texts
   that end in a number (0 without one).  Ratios along a member are in
   hundredths.  Coordinates and stiffness are left out: distinct nodes stand
   apart and stiffness is positive.  Of the springs on a node and of the
   displacements it is given the directions count, in order. *)
EXTENDS Integers, Sequences, FiniteSets

CONSTANTS MaxNodes, MaxMembers    \* MAX_FRAME_NODES, MAX_FRAME_MEMBERS

ASSUME LimitsAssumption == MaxNodes \in Nat /\ MaxMembers \in Nat

NoId == [stem |-> "", n |-> 0, tail |-> <<>>]
Draft(stem, n) == [stem |-> stem, n |-> n, tail |-> <<>>]
AddedTo(id, text, n) == [id EXCEPT !.tail = Append(@, [text |-> text, n |-> n])]

(* A name that is in use gets the text and a number, the first from two on that
   makes it one that is not: it comes after no more than there are names. *)
firstUnused(id, text, used) ==
  LET free == {k \in 2..Cardinality(used) + 2 : AddedTo(id, text, k) \notin used}
  IN IF id \notin used THEN id ELSE AddedTo(id, text, CHOOSE k \in free : \A l \in free : k <= l)

Highest(S) == CHOOSE n \in S : \A k \in S : k <= n

(* The number after the highest draft of that stem.  Names with something
   appended do not count. *)
nextFrameDraftId(stem, used) ==
  Draft(stem, Highest({0} \cup {id.n : id \in {u \in used : u.stem = stem /\ u.tail = <<>>}}) + 1)

Each(s, Op(_)) == [i \in DOMAIN s |-> Op(s[i])]
Elements(s) == {s[i] : i \in DOMAIN s}
Ids(s) == {s[i].id : i \in DOMAIN s}
Distinct(s) == Cardinality(Ids(s)) = Len(s)

(* What stands at some of the positions, and what belongs to a set. *)
Picked(s, positions) ==
  [n \in 1..Cardinality(positions) |->
     s[CHOOSE k \in positions : Cardinality({l \in positions : l <= k}) = n]]
Where(s, S) == Picked(s, {k \in DOMAIN s : s[k] \in S})

(* What a model is made of: nodes of some kind, and loads of some types. *)
Text ==    \* any; those the editor makes up are spelt out for the provers
  STRING \cup {"", "N", "M", "B", "C", "L", "U", "V", "D", "S", "P", "(", "LC", "COMB", "-", "_", "_C", "_H",
               " ", " N", "#"}
Identifier == [stem : Text, n : Int, tail : Seq([text : Text, n : Int])]
Member == [id : Identifier, start : Identifier, end : Identifier, hinges : Seq(Int)]
LoadOf(types) ==
  [type : types, node : Identifier, member : Identifier, from : Int, to : Int, at : Int,
   role : {"fixed", "variable"}]
CaseOf(types) == [id : Identifier, loads : Seq(LoadOf(types))]
IsModel(m, Node, types) ==
  /\ m \in [nodes : Seq(Node), members : Seq(Member), loads : Seq(LoadOf(types)), cases : Seq(CaseOf(types)),
            combinations : Seq([id : Identifier, factors : {c.factors : c \in Elements(m.combinations)}])]
  /\ \A c \in Elements(m.combinations) :
       DOMAIN c.factors \subseteq Identifier /\ c.factors \in [DOMAIN c.factors -> Int]

MemberLoadTypes == {"distributed", "member_point", "temperature"}
LoadTypes == {"nodal"} \cup MemberLoadTypes

(* The node or the member a load acts on.  A load keeps the fields of the
   types it had before, so both may be set. *)
Target(load) == IF load.type = "nodal" THEN load.node ELSE load.member

Resolves(load, m) ==
  Target(load) \in (IF load.type = "nodal" THEN Ids(m.nodes) ELSE Ids(m.members))
AllResolve(loads, m) == \A load \in Elements(loads) : Resolves(load, m)

MembersResolve(m) ==
  \A member \in Elements(m.members) : {member.start, member.end} \subseteq Ids(m.nodes)

FactorsResolve(m) ==
  \A combination \in Elements(m.combinations) : DOMAIN combination.factors \subseteq Ids(m.cases)

(* Every reference of the model names something that is there. *)
Resolved(m) ==
  /\ MembersResolve(m)
  /\ AllResolve(m.loads, m)
  /\ \A case \in Elements(m.cases) : AllResolve(case.loads, m)
  /\ FactorsResolve(m)

----------------------------------------------------------------------------
(* What holds a node. *)

NoAngle == -1    \* no angle was given: a roller stands on level ground, at 90 degrees

FreeNode(id) == [id |-> id, support |-> "free", angle |-> NoAngle, springs |-> <<>>, displacements |-> <<>>]

FrameNode ==
  [id : Identifier, support : {"fixed", "pinned", "roller", "free"}, angle : Int,
   springs : Seq({"ux", "uy", "rz"}), displacements : Seq({"ux", "uy", "rz", "n"})]
IsFrame(m) == IsModel(m, FrameNode, LoadTypes)

(* frameSupportDisplacementOptions: the directions a support holds, which are
   those it can be displaced in; n is along the angle of a roller. *)
supportDirections(node) ==
  CASE node.support = "fixed" -> <<"ux", "uy", "rz">>
    [] node.support = "pinned" -> <<"ux", "uy">>
    [] node.support = "roller" -> <<IF node.angle = NoAngle THEN "uy" ELSE "n">>
    [] OTHER -> <<>>

constraints(node) ==
  ({"support"} \X Elements(supportDirections(node))) \cup ({"spring"} \X Elements(node.springs))

(* rollerNormalComponents: the angle is that of the direction it holds. *)
holdsX(node) ==
  \/ {"ux"} \cap (Elements(supportDirections(node)) \cup Elements(node.springs)) # {}
  \/ node.support = "roller" /\ node.angle # NoAngle /\ node.angle % 180 # 90
holdsY(node) ==
  \/ {"uy"} \cap (Elements(supportDirections(node)) \cup Elements(node.springs)) # {}
  \/ node.support = "roller" /\ node.angle # NoAngle /\ node.angle % 180 # 0

(* The first displacement in each direction the support holds. *)
normalizeFrameSupportDisplacements(node) ==
  LET given == node.displacements
  IN Picked(given, {k \in DOMAIN given : given[k] \in Elements(supportDirections(node))
                                         /\ \A l \in 1..k - 1 : given[l] # given[k]})

----------------------------------------------------------------------------
(* What is checked before a calculation. *)

ZeroLength(member) == member.start = member.end

baseFrameTrussIssues(m) ==
  \/ ~Distinct(m.nodes) \/ ~Distinct(m.members)
  \/ ~MembersResolve(m)
  \/ \E member \in Elements(m.members) : ZeroLength(member)
  \/ ~AllResolve(m.loads, m)

loadCombinationIssues(m) ==
  \/ ~FactorsResolve(m)
  \/ \E combination \in Elements(m.combinations) :
       \A id \in DOMAIN combination.factors : combination.factors[id] = 0

(* frameSupportStabilityWarning: a direction nothing holds, or fewer than
   three constraints.  Where these are is not looked at. *)
Unstable(m) ==
  \/ \A node \in Elements(m.nodes) : ~holdsX(node)
  \/ \A node \in Elements(m.nodes) : ~holdsY(node)
  \/ Cardinality(UNION {{i} \X constraints(m.nodes[i]) : i \in DOMAIN m.nodes}) < 3

(* buildFrameModelDiagnostics: some issue is an error, and Run refuses. *)
Blocked(m) ==
  \/ Len(m.nodes) < 2 \/ Len(m.members) < 1
  \/ baseFrameTrussIssues(m)
  \/ Unstable(m)
  \/ ~Distinct(m.cases)
  \/ \E case \in Elements(m.cases) : ~AllResolve(case.loads, m)
  \/ loadCombinationIssues(m)

(* validateCustomFrameWorkspace, which adds the limits. *)
Valid(m) ==
  /\ Len(m.nodes) \in 2..MaxNodes
  /\ Len(m.members) \in 1..MaxMembers
  /\ Distinct(m.nodes) /\ Distinct(m.members) /\ Distinct(m.cases)
  /\ Resolved(m)
  /\ ~loadCombinationIssues(m)
  /\ ~Unstable(m)

(* A calculation is started. *)
Sendable(m) == ~Blocked(m) /\ Valid(m)

----------------------------------------------------------------------------
(* What is sent. *)

(* A range given from its end is turned round; one of no length gets a
   hundredth of the member. *)
normalizeFrameLoad(load) ==
  LET from == IF load.to < load.from THEN load.to ELSE load.from
      to == IF load.to < load.from THEN load.from ELSE load.to
  IN CASE load.type # "distributed" \/ from < to -> [load EXCEPT !.from = from, !.to = to]
       [] from = to /\ from < 100 -> [load EXCEPT !.from = from, !.to = to + 1]
       [] OTHER -> [load EXCEPT !.from = from - 1, !.to = to]

normalizeFrameLoads(loads) == Each(loads, normalizeFrameLoad)

buildFramePayload(m) ==
  [m EXCEPT !.nodes = Each(@, LAMBDA node : [node EXCEPT !.displacements = normalizeFrameSupportDisplacements(node)]),
            !.loads = normalizeFrameLoads(@),
            !.cases = [i \in DOMAIN @ |-> [@[i] EXCEPT !.loads = normalizeFrameLoads(@)]]]
=============================================================================
