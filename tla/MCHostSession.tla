---------------------------- MODULE MCHostSession ----------------------------
(* HostSession for TLC: launches and saves are model values. *)
EXTENDS HostSession, TLC

CONSTANTS b1, b2, r1, r2

circumstance(deferredRender, solverSaves, saveTimeouts, maxEdits) ==
  [deferredRender |-> deferredRender, solverSaves |-> solverSaves,
   saveTimeouts |-> saveTimeouts, maxEdits |-> maxEdits]

Calm == circumstance(FALSE, FALSE, FALSE, 2)
Rough == circumstance(TRUE, TRUE, TRUE, 1)
CalmAndRough == {Calm, Rough}
LateRenders == {circumstance(TRUE, FALSE, FALSE, 2)}

(* Names are used in one order: which comes first makes no difference, and a
   symmetry would not be sound for the liveness properties. *)
NamesInOrder == (requested # {} => r1 \in requested) /\ (launched # {} => b1 \in launched)

Symmetry == Permutations({b1, b2}) \cup Permutations({r1, r2})
=============================================================================
