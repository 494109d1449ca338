--------------------------- MODULE MCBrowserStorage ---------------------------
(* BrowserStorage for TLC: two tabs of either kind, and what an older version may
   have left: nothing, garbage, or a library with a baseline that is gone. *)
EXTENDS BrowserStorage, TLC

CONSTANTS t1, t2

OldLibrary == [templates |-> {[id |-> 0, project |-> blank]}, baseline |-> MaxMade + 1]
OldStorages == {None, Corrupt, OldLibrary}

Symmetry == Permutations({t1, t2})
=============================================================================
