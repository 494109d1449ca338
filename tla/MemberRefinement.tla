-------------------------- MODULE MemberRefinement --------------------------
(***************************************************************************)
(* The loads of a member on the segments it is divided into for the        *)
(* nonlinear path: _refine_structure() and _split_distributed_load() of    *)
(* backend/solver/frame/nonlinear_path.py.                                 *)
(*                                                                         *)
(* Positions are on a grid of whole numbers, Grid of them to a segment.    *)
(* The code has them as ratios, of the member before the division and of   *)
(* the segment after it.                                                   *)
(***************************************************************************)
EXTENDS Integers, FiniteSets, FiniteSetsExt

CONSTANTS Subdivisions, Grid

ASSUME RefinementAssumption == Subdivisions \in Nat \ {0} /\ Grid \in Nat \ {0}

MemberLength == Subdivisions * Grid
Segment == 0 .. Subdivisions - 1

lesser(a, b) == IF a < b THEN a ELSE b
greater(a, b) == IF a < b THEN b ELSE a
clamp(x) == lesser(MemberLength, greater(0, x))

(* A point at the end of the member belongs to its last segment. *)
segmentOf(at) == lesser(Subdivisions - 1, at \div Grid)

(* A distributed load from lo to hi; at(x) is its intensity, times hi - lo. *)
(* Mutant: a load given from its end is turned round without its intensities. *)
orderedPositions(load) ==
  LET from == clamp(load.from)  to == clamp(load.to)
  IN IF to < from THEN [lo |-> to, hi |-> from, qLo |-> load.qFrom, qHi |-> load.qTo]
     ELSE [lo |-> from, hi |-> to, qLo |-> load.qFrom, qHi |-> load.qTo]

ordered(load) ==
  LET from == clamp(load.from)  to == clamp(load.to)
  IN IF to < from THEN [lo |-> to, hi |-> from, qLo |-> load.qTo, qHi |-> load.qFrom]
     ELSE [lo |-> from, hi |-> to, qLo |-> load.qFrom, qHi |-> load.qTo]

split(load) ==
  LET d == ordered(load)
      at(x) == d.qLo * (d.hi - d.lo) + (d.qHi - d.qLo) * (x - d.lo)
      from(i) == greater(d.lo, i * Grid)
      to(i) == lesser(d.hi, (i + 1) * Grid)
  IN {[member |-> i, role |-> load.role, from |-> from(i) - i * Grid, to |-> to(i) - i * Grid,
       qFrom |-> at(from(i)), qTo |-> at(to(i))] : i \in {i \in Segment : from(i) < to(i)}}

refined(load) ==
  CASE load.type = "nodal" -> {[role |-> load.role]}
    [] load.type = "temperature" -> {[role |-> load.role, member |-> i] : i \in Segment}
    [] load.type = "member_point" ->
         LET at == clamp(load.at)
         IN {[role |-> load.role, member |-> segmentOf(at), at |-> at - segmentOf(at) * Grid]}
    [] load.type = "distributed" -> split(load)

(* solve_corotational_path() takes its phases from the loads that are left. *)
hasRole(loads, role) == \E load \in loads : \E piece \in refined(load) : piece.role = role

----------------------------------------------------------------------------
(* Twice the force of a trapezoid, and six times its moment about the start. *)
force(a, b, qa, qb) == (qa + qb) * (b - a)
moment(a, b, qa, qb) == (b - a) * (qa * (2 * a + b) + qb * (a + 2 * b))

(* What the segments carry is what the member carried, force and moment: the
   load between two positions on the member, given from either end. *)
SameResultant(load) ==
  LET a == clamp(load.from)  b == clamp(load.to)
      span == greater(a, b) - lesser(a, b)
      pieceForce(p) == force(p.from, p.to, p.qFrom, p.qTo)
      pieceMoment(p) == moment(p.member * Grid + p.from, p.member * Grid + p.to, p.qFrom, p.qTo)
  IN /\ MapThenSumSet(pieceForce, split(load)) = span * span * (load.qFrom + load.qTo)
     /\ MapThenSumSet(pieceMoment, split(load)) =
          span * span * (load.qFrom * (2 * a + b) + load.qTo * (a + 2 * b))

(* A point stays where it is, on one segment. *)
SamePoint(load) ==
  \E i \in Segment : \E x \in 0 .. Grid :
    /\ refined(load) = {[role |-> load.role, member |-> i, at |-> x]}
    /\ i * Grid + x = clamp(load.at)
=============================================================================
