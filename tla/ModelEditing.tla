----------------------------- MODULE ModelEditing -----------------------------
(* An analysis object of the project is a frame, a truss or a beam and stays
   what it is; each has an editor, a workspace normalizer, a text and a
   normalizer of the service.  The properties are stated here for all three. *)
EXTENDS ReviewPoints

VARIABLES kind, reviews

editVars == <<vars, kind, reviews>>

EditInit ==
  /\ \/ kind = "frame" /\ Init
     \/ kind = "truss" /\ TrussInit
     \/ kind = "beam" /\ BeamInit
  /\ reviews = <<>>

ByKind(frame, truss, beam) == CASE kind = "frame" -> frame [] kind = "truss" -> truss [] OTHER -> beam

(* An edit of the review points is one of the workspace too. *)
updateReviewPoints(next) ==
  /\ edits > 0
  /\ edits' = edits - 1
  /\ reviews' = normalizeReviewPointEntries(next)
  /\ redirected' = FALSE
  /\ renamed' = FALSE
  /\ UNCHANGED <<model, kind>>

(* The panel is there as long as there are results, of this model or of an
   earlier one. *)
AddReviewPoint ==
  \E point \in ByKind(frameReviewDrafts(model), trussReviewDrafts(model), beamReviewDrafts(model)) :
    updateReviewPoints(addReviewPoint(reviews, point))
DeleteReviewPoint == \E i \in DOMAIN reviews : updateReviewPoints(deleteReviewPoint(reviews, i))

(* Only a beam that is reset loses its review points. *)
EditNext ==
  \/ kind = "frame" /\ Next /\ UNCHANGED <<kind, reviews>>
  \/ kind = "truss" /\ TrussNext /\ UNCHANGED <<kind, reviews>>
  \/ kind = "beam" /\ BeamNext /\ UNCHANGED <<kind, reviews>>
  \/ kind = "beam" /\ BeamReset /\ reviews' = <<>> /\ UNCHANGED kind
  \/ AddReviewPoint
  \/ DeleteReviewPoint

EditSpec == EditInit /\ [][EditNext]_editVars

----------------------------------------------------------------------------

ReviewFound(review) ==
  ByKind(frameReviewFound(review, model), trussReviewFound(review, model), beamReviewFound(review, model))
ReviewLost(review) ==
  ByKind(frameReviewLost(review, model), trussReviewLost(review, model), beamReviewLost(review, model))
ModelIsAccepted ==
  ByKind(Sendable(model) /\ Accepted(buildFramePayload(model)),
         trussSendable(model) /\ trussAccepted(buildTrussPayload(model)),
         ~beamBlocked(model) /\ beamAccepted(buildBeamPayload(model)))

HasZeroLength(m) == \E member \in Elements(m.members) : ZeroLength(member)
ZeroLengthOrEmpty(m) == HasZeroLength(m) \/ m.nodes = <<>> \/ m.members = <<>>

(* The normalizer never has to give a reference another target: whatever is
   removed, renamed, copied or moved takes the members, loads, cases and
   factors that name it along (frame-model-edits.ts, truss-model-edits.ts,
   BeamForm.tsx), and the supports of a beam stay on it when its spans change
   (mergeDefaultBeamSupportLayout).  There are five exceptions: of a member
   that begins and ends at one node only one end follows a renamed node;
   without nodes or members a load is drafted for N1 or M1; what a limit cuts
   off is still referred to, or was the support of a beam's end; a support
   can be moved off a beam that is shorter than 10 cm (moveBeamCanvasNode); and
   the text of a truss or beam gives names that it does not read back
   (splitTextModelTokens): the load cases of the truss still go by them, and a
   span's name taken for its length leaves supports beyond the end. *)
NothingRedirected ==
  [][redirected' =>
       ByKind(ZeroLengthOrEmpty(model) \/ Full(model'),
              ZeroLengthOrEmpty(model) \/ TrussFull(model') \/ (~TrussSpelt(model) /\ TrussTextApplied),
              BeamFull(model') \/ totalLength(model.spans) < 100 \/ (~BeamSpelt(model) /\ BeamTextApplied))]_editVars

(* A new name that is not in use changes nothing but the name: members, loads
   and combinations stay attached to what was renamed
   (updateFrameNodeCollections, updateFrameMemberCollections,
   updateFrameLoadCaseCollections and their twins, updateLoadCase in
   BeamForm.tsx).  The ends of a member of no length are an exception: one
   stays behind.  A beam's supports go back to their places, and get their
   numbers if all have one, when a span is named (updateSpanPatch). *)
RenameKeepsShape ==
  [][renamed' =>
       ByKind(HasZeroLength(model) \/ FrameShape(model') = FrameShape(model),
              HasZeroLength(model) \/ TrussShape(model') = TrussShape(model),
              BeamRenamed)]_editVars

(* A model that was saved and is opened again is the one that was saved: what
   the normalizer made once it leaves alone (a project file, the draft of the
   browser and every edit go through normalizeFrameWorkspaceState,
   normalizeTrussWorkspaceState or normalizeBeamWorkspaceState). *)
ReopenKeepsModel == ByKind(FrameReopens(model), TrussReopens(model), BeamReopens(model))

(* A model that can be sent survives its own text.  A frame does up to names
   and roles (frame-text-model.ts), unless it has a hinge, two of its nodes go
   by one number, as a node and its copy do, a roller has no angle of its own
   (the text gives it the angle 0), or a node has two springs or displacements
   in one direction.  A truss does with its names, its load cases and all but
   the loads on members (truss-text-model.ts).  A beam does but for the names of
   loads and the linear loads that are switched off (beam-text-model.ts).
   A name that the text gives (of a truss's node or member, a beam's span or
   support, a frame's load case or combination) has to be one word: a blank, a
   comma or a comment mark in it shifts or ends what is read of its line
   (splitTextModelTokens); and the name of a span must not be a number, which is
   read as its length (beam-text-model.ts:181).  Such names can be typed
   (canonicalEditorId), and the text may be accepted although it says something
   else. *)
TextKeepsModel == ByKind(FrameTextKeeps(model), TrussTextKeeps(model), BeamTextKeeps(model))

(* What a calculation is started with the service accepts (model-diagnostics.ts
   and solver-payload.ts against build_structural_model and
   normalize_beam_request), except for what nobody asks before: of a frame,
   whether a load case has a distributed load on a member with hinges, and what
   hinges lead to, which is more nodes or members than allowed or a segment
   with the name of a member; of a beam, whether each load case has exactly one
   load, and whether a uniform one still has a length.  Nor is it asked whether
   the review points are still there: the calculation is refused with a model
   that is accepted only because one of them names something that was renamed
   or removed since, or a member that hinges divide, or lies behind the end of
   the beam (_resolve_requested_point). *)
SentIsAccepted ==
  /\ ByKind(FrameAccepted(model), TrussSentAccepted(model), BeamSentAccepted(model))
  /\ ModelIsAccepted => \A review \in Elements(reviews) : ReviewFound(review) \/ ReviewLost(review)

(* What the service makes of loads neither loses nor doubles one.  Dividing a
   frame member by hinges, its parts are on different segments: a distributed
   load covers what it covered, a change of temperature every segment, and any
   other load acts once.  A load on a truss member becomes one force on each
   of its ends, in the model and in every load case.  Every load of a beam is
   sent and meets the mesh, a point load on one element. *)
LoadsSurvive == ByKind(FrameLoadsSurvive(model), TrussLoadsSurvive(model), BeamLoadsSurvive(model))

(* A load that is fixed along the load path is so on every segment of its
   member (the documented independent path of fixed preloads and variable
   loads). *)
RolesKept == kind = "frame" => FrameRolesKept(model)
=============================================================================
