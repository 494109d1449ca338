-------------------------- MODULE MCWorkbenchResults --------------------------
(* Two objects, two payloads, one of them blocked. *)
EXTENDS WorkbenchResults

CONSTANTS o1, o2, m1, bad, MaxAsked, MaxEvents, MaxCrossing

MCObject == {o1, o2}
MCModel == {m1, bad}
MCBlocked == {bad}

(* At most MaxAsked calculations and scans in all, MaxEvents with the changes
   of the revision and the projects opened; of calculations, scans, a save and
   an export at most MaxCrossing at a time. *)
crossing == Cardinality(solves) + Cardinality(scans)
            + (IF saving = None THEN 0 ELSE 1) + (IF export = None THEN 0 ELSE 1)
FewEvents ==
  /\ solveSeq + scanSeq <= MaxAsked /\ crossing <= MaxCrossing
  /\ solveSeq + scanSeq + revision + opens <= MaxEvents
=============================================================================
