----------------------------- MODULE MCLoadPath -----------------------------
(* A path of 16 units, or of 32 in two phases, with 5 frames. *)
EXTENDS LoadPath

MCCut == [s \in 1 .. Unit |-> s \div 2]
MCGrow == [s \in 1 .. Unit |-> s + s \div 2]
MCSlow == [s \in 1 .. Unit |-> (3 * s) \div 4]

Role == {"fixed", "variable"}
nodal(role) == [type |-> "nodal", role |-> role]
distributed(role, from, to) ==
  [type |-> "distributed", role |-> role, from |-> from, to |-> to, qFrom |-> 1, qTo |-> 3]
Phases == {{}, {nodal("fixed")}, {nodal("variable")}, {nodal("fixed"), nodal("variable")}}

options(initial, min, max, iterations, cuts, steps) ==
  [initialStep |-> initial, minStep |-> min, maxStep |-> max,
   maxIterations |-> iterations, maxCutbacks |-> cuts, maxAcceptedSteps |-> steps]
plain(loads, raw) ==
  [algorithm |-> "corotational_newton_v1", loads |-> loads, options |-> raw,
   comparison |-> FALSE, imperfect |-> FALSE, buckling |-> FALSE]

(* Every way to ask for steps, with few of them. *)
Steps == {options(i, l, h, 2, 1, 3) : i \in {None, 0, 20}, l \in {None, 5}, h \in {None, 2, 20}}
(* Many small steps, in one phase and in two. *)
Long == {options(1, 1, 1, 1, 0, 40), options(3, 1, 4, 1, 1, 40)}
Few == options(4, 2, 8, 3, 2, 4)

MCRequests ==
  {plain(loads, raw) : loads \in Phases \ {{}}, raw \in Steps}
  \cup {plain({nodal("fixed"), nodal("variable")}, raw) : raw \in Long}
  \cup {plain({nodal("variable")}, raw) : raw \in Long}
  \cup {plain({distributed(role, from, to), [type |-> "temperature", role |-> "variable"]}, options(4, 4, 4, 1, 0, 1)) :
           role \in Role, from \in -1 .. MemberLength + 1, to \in -1 .. MemberLength + 1}
  \cup {plain({[type |-> "member_point", role |-> "fixed", at |-> at]}, options(4, 4, 4, 1, 0, 1)) :
           at \in -1 .. MemberLength + 1}
  \cup [algorithm: Algorithm, loads: Phases \ {{}}, options: {Few},
        comparison: BOOLEAN, imperfect: BOOLEAN, buckling: BOOLEAN]
=============================================================================
