---------------------------- MODULE MCModelEditing ----------------------------
(* Instances of ModelEditing for TLC. *)
EXTENDS ModelTemplates

LoadOn(type, role) ==
  [type |-> type, node |-> NoId, member |-> Draft("M", 1), from |-> 0, to |-> 100, at |-> 50, role |-> role]
OnNode(n) == [LoadOn("nodal", "variable") EXCEPT !.node = Draft("N", n), !.member = NoId]
Node(n) == [FreeNode(Draft("N", n)) EXCEPT !.support = IF n = 1 THEN "fixed" ELSE @]
Piece(n) == [id |-> Draft("M", n), start |-> Draft("N", n), end |-> Draft("N", n + 1), hinges |-> <<>>]

(* One member with a distributed load; a load case with a point load, an
   empty one and a combination of both. *)
OneMember ==
  [nodes |-> <<Node(1), Node(2)>>, members |-> <<Piece(1)>>, loads |-> <<LoadOn("distributed", "fixed")>>,
   cases |-> <<[id |-> Draft("LC", 1), loads |-> <<LoadOn("member_point", "variable")>>],
               [id |-> Draft("LC", 2), loads |-> <<>>]>>,
   combinations |-> <<[id |-> Draft("COMB", 1),
                       factors |-> [id \in {Draft("LC", 1), Draft("LC", 2)} |-> 1]]>>]

(* Two members in a row, with a change of temperature, and no load case. *)
TwoMembers ==
  [nodes |-> <<Node(1), Node(2), Node(3)>>, members |-> <<Piece(1), Piece(2)>>,
   loads |-> <<LoadOn("temperature", "variable")>>, cases |-> <<>>, combinations |-> <<>>]

(* A member with a hinge, turned the other way, under a load that counts from
   its end; loads of each kind in a load case. *)
Hinged ==
  [nodes |-> <<Node(1), Node(2), Node(3)>>,
   members |-> <<[Piece(1) EXCEPT !.start = Draft("N", 2), !.end = Draft("N", 1), !.hinges = <<50>>],
                 Piece(2)>>,
   loads |-> <<[LoadOn("distributed", "fixed") EXCEPT !.from = 25, !.to = 75],
               [LoadOn("member_point", "variable") EXCEPT !.at = 50]>>,
   cases |-> <<[id |-> Draft("LC", 1),
                loads |-> <<OnNode(2), [LoadOn("distributed", "variable") EXCEPT !.member = Draft("M", 2)]>>]>>,
   combinations |-> <<[id |-> Draft("COMB", 1), factors |-> [id \in {Draft("LC", 1)} |-> 1]]>>]

(* Names that were copied and made distinct: two nodes and two members whose
   names differ in what was appended. *)
Copied ==
  [nodes |-> <<Node(1), Node(2), [Node(1) EXCEPT !.id = AddedTo(@, "-", 2)]>>,
   members |-> <<Piece(1), [Piece(1) EXCEPT !.id = AddedTo(@, "_C", 1), !.start = AddedTo(Draft("N", 1), "-", 2)]>>,
   loads |-> <<OnNode(1), [LoadOn("temperature", "fixed") EXCEPT !.member = AddedTo(@, "_C", 1)]>>,
   cases |-> <<[id |-> Draft("LC", 1), loads |-> <<>>]>>, combinations |-> <<>>]

(* A member on a pin that was displaced and an inclined roller with a spring. *)
Inclined ==
  [TwoMembers EXCEPT
     !.nodes = <<[Node(1) EXCEPT !.support = "pinned", !.displacements = <<"uy">>],
                 [Node(2) EXCEPT !.support = "roller", !.angle = 45, !.springs = <<"ux">>]>>,
     !.members = <<Piece(1)>>]

Models == {OneMember, TwoMembers, Hinged, Copied, Inclined}

(* Three edits of the smallest model, two of each other. *)
All == {[model |-> m, edits |-> IF m = OneMember THEN 3 ELSE 2] : m \in Models}
One == {[model |-> OneMember, edits |-> 2]}

(* A project may hold these models, and they can be calculated. *)
ASSUME \A m \in Models : Sendable(m) /\ normalizeFrameWorkspaceState(m) = m

(* On a pin and a level roller: in its own text the roller gets an angle, and
   holds the other direction. *)
Level == [Inclined EXCEPT !.nodes[2].angle = NoAngle]
ASSUME LET read == normalizeFrameWorkspaceState(parseFrameTextModel(serializeFrameTextModel(Level)))
       IN /\ Sendable(Level) /\ Sendable(read)
          /\ holdsY(Level.nodes[2]) /\ supportDirections(Level.nodes[2]) = <<"uy">>
          /\ ~holdsY(read.nodes[2]) /\ supportDirections(read.nodes[2]) = <<"n">>

Portals == {portal_single_bay, portal_rotational_spring, gable_frame}
OneBay == {<<1, 1>>}

(* Every frame the panel can ask for (1 to 5 bays, 1 to 4 stories) is whole
   and held. *)
ASSUME \A bays \in 1..5, stories \in 1..4, beam, top \in BOOLEAN :
         ~Blocked(RegularFrame(bays, stories, beam, top))

----------------------------------------------------------------------------
Bar(n, a, b) == [id |-> Draft("M", n), start |-> Draft("N", a), end |-> Draft("N", b), hinges |-> <<>>]
Held3 == <<[id |-> Draft("N", 1), support |-> "pinned"], [id |-> Draft("N", 2), support |-> "roller"],
           [id |-> Draft("N", 3), support |-> "free"]>>

(* A triangle with a load on its top. *)
Triangle ==
  [nodes |-> Held3, members |-> <<Bar(1, 1, 3), Bar(2, 3, 2), Bar(3, 1, 2)>>, loads |-> <<OnNode(3)>>,
   cases |-> <<>>, combinations |-> <<>>]

(* Two members that meet, under a load that a file calls member_load and a
   change of temperature; load cases with one of each kind and a combination. *)
Loaded ==
  [nodes |-> Held3, members |-> <<Bar(1, 1, 3), [Bar(1, 3, 2) EXCEPT !.id = AddedTo(@, "-", 2)]>>,
   loads |-> <<DraftLoad("member_load", NoId, AddedTo(Draft("M", 1), "-", 2)),
               DraftLoad("temperature", NoId, Draft("M", 1))>>,
   cases |-> <<[id |-> Draft("LC", 1), loads |-> <<DraftLoad("distributed", NoId, Draft("M", 1)), OnNode(2)>>]>>,
   combinations |-> <<[id |-> Draft("COMB", 1), factors |-> [id \in {Draft("LC", 1)} |-> 1]]>>]

Roofs == {simple_roof_truss}

Trusses == {[model |-> m, edits |-> 2] : m \in {Triangle, Loaded, simple_roof_truss}}
NoTruss == {}

ASSUME \A m \in {Triangle, Loaded, simple_roof_truss} : trussSendable(m) /\ normalizeTrussWorkspaceState(m) = m

(* Every truss the panel can ask for (2 to 8 panels) is whole and held. *)
ASSUME \A panels \in 2..8, top \in BOOLEAN : ~trussBlocked(ParallelChordTruss(panels, top))

----------------------------------------------------------------------------
(* A beam of one span that is held at one end and rests on the other, under
   loads of each kind; two load cases and a combination. *)
Propped ==
  [createDefaultBeamWorkspaceState EXCEPT
     !.spans = <<[id |-> Draft("(", 1), length |-> DefaultLength]>>,
     !.supports = <<[id |-> Draft("S", 1), x |-> 0, type |-> "fixed", held |-> {"v", "rz"}, springs |-> {}],
                    [id |-> Draft("S", 2), x |-> DefaultLength, type |-> "roller", held |-> {"v"}, springs |-> {}]>>,
     !.uniform.on = FALSE,
     !.linear = [on |-> TRUE, loads |-> <<[id |-> Draft("L", 1), from |-> 0, to |-> 50],
                                          [id |-> Draft("L", 2), from |-> 50, to |-> 100]>>],
     !.points = <<[id |-> Draft("P", 1), at |-> 25]>>,
     !.cases = <<[id |-> Draft("LC", 1), loads |-> <<createBeamCaseLoadForType("uniform", DefaultLength)>>],
                 [id |-> Draft("LC", 2), loads |-> <<createBeamCaseLoadForType("point", DefaultLength)>>]>>,
     !.combinations = <<[id |-> Draft("COMB", 1),
                         factors |-> [id \in {Draft("LC", 1), Draft("LC", 2)} |-> 1]]>>]

(* The supports of a beam of two spans were edited: one has a spring for what
   held it, one a name, one is not where the spans end. *)
Moved ==
  [createDefaultBeamWorkspaceState EXCEPT
     !.supports = [@ EXCEPT ![1].springs = {"v"}, ![1].held = {}, ![1].type = "free",
                            ![2].id = Draft("X", 1), ![3].x = DefaultLength + 1500]]

(* A beam of a file has one support more than its span asks for. *)
Extra ==
  [Propped EXCEPT !.supports = Append(@, [id |-> Draft("S", 3), x |-> 2000, type |-> "roller",
                                          held |-> {"v"}, springs |-> {}])]

SomeBeams == {fixed_fixed_uniform, cantilever_uniform, three_span_linear}

Beams == {[model |-> m, edits |-> 2] : m \in {createDefaultBeamWorkspaceState, Propped, Moved, Extra}}
NoBeam == {}

ASSUME \A m \in {createDefaultBeamWorkspaceState, Propped, Moved, Extra} :
         ~beamBlocked(m) /\ normalizeBeamWorkspaceState(m) = m

(* What the panel can ask for is whole and held. *)
ASSUME \A count \in 1..MaxBeamSpans, loaded \in BOOLEAN :
         ~beamBlocked(ContinuousBeam(count, DefaultLength, loaded, createDefaultBeamWorkspaceState))

----------------------------------------------------------------------------
(* A review point of a member is found, but not when the member has got another
   name or a hinge; one of a position, but not when the beam ends before it. *)
OfMember == reviewPoint("member", Draft("M", 1), NoStation)
ASSUME /\ OfMember \in frameReviewDrafts(OneMember) /\ frameReviewFound(OfMember, OneMember)
       /\ ~frameReviewFound(OfMember, [OneMember EXCEPT !.members[1].id = Draft("X", 0)])
       /\ ~frameReviewFound(OfMember, [OneMember EXCEPT !.members[1].hinges = <<50>>])
       /\ LET end == reviewPoint("station", NoId, 4500)
          IN /\ beamReviewFound(end, Propped)
             /\ ~beamReviewFound(end, [Propped EXCEPT !.spans[1].length = 3000])

----------------------------------------------------------------------------
(* The templates, within the limits of the code.  Each is taken into the
   project as it is, can be sent, is accepted, and keeps its loads, whatever it
   is made of; and it survives its own text. *)
Code ==
  INSTANCE ModelTemplates WITH
    MaxNodes <- 300, MaxMembers <- 900, MaxTrussNodes <- 300, MaxTrussMembers <- 900, MaxLoads <- 80,
    MaxReviews <- 32, MaxCases <- 12, MaxHinges <- 8, MaxOnNode <- 6, MaxBeamSpans <- 300, MaxBeamSupports <- 32,
    MaxBeamLoads <- 32, MaxServiceLoads <- 128, DefaultLength <- 4000, MeshStep <- 250

ASSUME \A m \in FRAME_MODEL_TEMPLATES :
         /\ Code!Sendable(m) /\ Code!FrameReopens(m) /\ Code!Accepted(Code!buildFramePayload(m))
         /\ Code!FrameLoadsSurvive(m) /\ Code!FrameTextKeeps(m)
ASSUME \A m \in TRUSS_MODEL_TEMPLATES :
         /\ Code!trussSendable(m) /\ Code!TrussReopens(m) /\ Code!TrussSentAccepted(m)
         /\ Code!TrussLoadsSurvive(m) /\ Code!TrussTextKeeps(m)
ASSUME \A m \in BEAM_MODEL_TEMPLATES :
         LET kept == Code!normalizeBeamWorkspaceState(m)
         IN /\ ~Code!beamBlocked(kept) /\ Code!BeamReopens(kept)
            /\ Code!beamAccepted(Code!buildBeamPayload(kept))
            /\ Code!BeamLoadsSurvive(kept) /\ Code!BeamTextKeeps(kept)

(* A truss template has as many bars as it takes to be rigid. *)
ASSUME \A m \in TRUSS_MODEL_TEMPLATES :
         Len(m.members) + 2 * Held(m, "pinned") + Held(m, "roller") >= 2 * Len(m.nodes)

(* In the project two templates are no longer what they are called: a support
   of theirs that is fixed takes over what is held by default, which is not
   the rotation. *)
ASSUME {m \in BEAM_MODEL_TEMPLATES :
          \E support \in Elements(Code!normalizeBeamWorkspaceState(m).supports) :
            supportConstraints(support) # beamSupportConstraints(support.type)}
       = {fixed_fixed_uniform, propped_cantilever_point}

(* One frame template has a roller that turns over in its own text. *)
ASSUME {m \in FRAME_MODEL_TEMPLATES : ~TextTellsApart(m)} = {inclined_member_local_load}

(* A new name, one of each kind that is in use, two that are taken for the
   number of a support or node, a number, two words, and one with a mark. *)
BeamNames ==
  {Draft("X", 0), Draft("(", 1), Draft("S", 1), Draft("S", 9), Draft("N", 2), Draft("LC", 1),
   Draft("", 3), AddedTo(Draft("X", 0), " ", 3), AddedTo(Draft("X", 0), "#", 1)}

(* A length can be typed that is none, and one that is shorter than what a
   joint leaves of a span. *)
TypedLengths == {-3000, 0, 50, 3000}

(* One of each kind that is in use, which may be new to another, and three new
   ones: of two words, the second a number or the name of a node, and with a
   mark. *)
Names ==
  {Draft("N", 1), Draft("M", 1), Draft("LC", 1),
   AddedTo(Draft("LC", 1), " ", 2), AddedTo(Draft("M", 1), " N", 2), AddedTo(Draft("X", 0), "#", 1)}
=============================================================================
