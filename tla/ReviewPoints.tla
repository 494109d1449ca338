------------------------------ MODULE ReviewPoints ------------------------------
(* Review points: where a result is asked for besides the extremes.  They are
   kept in the workspace beside the model and name a node or a member of it,
   or a position; the panel of the results adds and deletes them
   (WorkbenchCalculationArtifactPanels.tsx), every request carries them
   (solver-payload.ts), and the service looks them up in what it computed
   (calculation_evidence.py) and refuses the whole calculation if one is not
   there.  No edit of the model changes them.

   Which quantity is asked for, and on which side, is left out: the side
   matters where a series jumps, which those of the solvers do not.  A
   position on a frame member is its start. *)
EXTENDS BeamEditing

CONSTANT MaxReviews    \* review points that are kept (32 in the code)

ASSUME ReviewsAssumption == MaxReviews \in Nat

NoStation == -1
reviewPoint(targetType, target, station) == [type |-> targetType, target |-> target, at |-> station]

(* What the results of a frame speak of: a member with hinges goes by the
   names of its segments. *)
frameSolution(m) == expanded(buildFramePayload(m))

(* The nodes of a beam are numbered from the left: the ends of its spans. *)
previewNodes(m) ==
  LET ends == beamSpanBoundaries(m.spans)
  IN IF m.beamType = "cantilever" THEN <<0, ends[Len(ends)]>> ELSE ends

----------------------------------------------------------------------------
(* What the panel offers, the names from the results; anything else may be
   typed.  A position that was typed stays when another type is chosen. *)
frameReviewDrafts(m) ==
  LET shown == frameSolution(m)
  IN {reviewPoint("node", id, NoStation) : id \in Ids(shown.nodes)}
     \cup {reviewPoint("member", id, NoStation) : id \in Ids(shown.members)}
     \cup {reviewPoint("station", id, 0) : id \in Ids(shown.members)}
trussReviewDrafts(m) ==
  {reviewPoint("node", id, NoStation) : id \in Ids(m.nodes)}
  \cup {reviewPoint("member", id, NoStation) : id \in Ids(m.members)}
beamReviewDrafts(m) ==
  LET nodes == {Draft("", n) : n \in DOMAIN previewNodes(m)}
  IN {reviewPoint("node", id, x) : id \in nodes, x \in {NoStation} \cup Positions}
     \cup {reviewPoint("station", NoId, x) : x \in Positions}

normalizeReviewPointEntries(reviews) == FirstOf(reviews, MaxReviews)

(* reviewDraftError refuses one too many. *)
addReviewPoint(reviews, point) ==
  IF Len(reviews) >= MaxReviews THEN reviews ELSE Append(reviews, point)
deleteReviewPoint(reviews, i) == RemoveAt(reviews, i)

----------------------------------------------------------------------------
(* The service: a node or a member is looked up by name. *)
namedPointFound(review, m) ==
  review.target \in (IF review.type = "node" THEN Ids(m.nodes) ELSE Ids(m.members))
frameReviewFound(review, m) == namedPointFound(review, frameSolution(m))
trussReviewFound(review, m) == namedPointFound(review, m)

(* On a beam a position counts before a node, and lies on the beam. *)
beamReviewStation(review, m) ==
  IF review.at = NoStation /\ review.type = "node" /\ review.target.n \in DOMAIN previewNodes(m)
  THEN previewNodes(m)[review.target.n] ELSE review.at
beamReviewFound(review, m) == beamReviewStation(review, m) \in 0..totalLength(m.spans)

----------------------------------------------------------------------------
(* Why a review point may be refused although the model is not: it names what
   was renamed or removed since, or a member that hinges divide; of a beam, a
   node behind its last one, or a position behind its end. *)
frameReviewLost(review, m) ==
  IF review.type = "node" THEN review.target \notin Ids(m.nodes)
  ELSE \A member \in Elements(m.members) : member.id = review.target => member.hinges # <<>>
trussReviewLost(review, m) == ~namedPointFound(review, m)
beamReviewLost(review, m) ==
  IF review.at # NoStation THEN review.at > totalLength(m.spans)
  ELSE review.type # "node" \/ review.target.n > (IF m.beamType = "cantilever" THEN 2 ELSE Len(m.spans) + 1)
=============================================================================
