----------------------------- MODULE MCAsyncJobs -----------------------------
(* Instances of AsyncJobs for TLC. *)
EXTENDS AsyncJobs, TLC

CONSTANTS k1, p1, p2, h1, h2, j1, j2

(* Every job asks for the same client key. *)
OneKey == [j \in Job |-> k1]

(* No job has a client key, as with /api/calculate. *)
NoKeys == [j \in Job |-> NoKey]

Symmetry == Permutations(Process) \cup Permutations(Handler) \cup Permutations(Job)
=============================================================================
