-------------------------- MODULE MCProjectDocument --------------------------
(* ProjectDocument for TLC. *)
EXTENDS ProjectDocument

CONSTANTS f1, f2, o1, o2, Budget

OneObject == <<o1>>
Symmetry == Permutations({f1, f2})

(* Either more revisions, or more files under way. *)
InBudget == lifecycle.revision + Cardinality(saves) + Cardinality(opens) <= Budget
=============================================================================
