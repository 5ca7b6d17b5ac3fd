----------------------------- MODULE SegmentGrid -----------------------------
(***************************************************************************)
(* The grid the walls of a region are found in: a wall is filed in the     *)
(* cells it touches, and a chord is compared with the walls of the cells   *)
(* it touches itself.  Cells are numbered, the code names them by their    *)
(* lower left corner.                                                      *)
(***************************************************************************)
EXTENDS Mesh

CONSTANTS
  CellExtend,     \* cell_extend
  SortThreshold   \* up to here std::sort is an insertion sort

MakeCell(x, y, scale) == <<x \div (scale * CellExtend), y \div (scale * CellExtend)>>

Abs(n) == IF n < 0 THEN -n ELSE n

BugDiagonalAdjacent(a, b) == Abs(a[1] - b[1]) <= 1 /\ Abs(a[2] - b[2]) <= 1

IsN4Adjacent(a, b) == Abs(a[1] - b[1]) + Abs(a[2] - b[2]) = 1

\* Where the segment from p to q meets the grid lines across one axis, as a
\* share of its length in units of 1/Scale(p, q).
Scale(p, q) ==
  LET Extent(i) == IF p[i] = q[i] THEN 1 ELSE Abs(q[i] - p[i])
  IN  Extent(1) * Extent(2)
LinesMet(p, q, i) ==
  {c \in (IF p[i] < q[i] THEN p[i]..q[i] ELSE q[i]..p[i]) : c % CellExtend = 0}
Crossings(p, q, i) ==
  IF p[i] = q[i] THEN {}
  ELSE {Abs(c - p[i]) * (Scale(p, q) \div Abs(q[i] - p[i])) : c \in LinesMet(p, q, i)}

\* A segment that runs along a grid line divides zero by zero where it meets it.
NotANumber(p, q) == \E i \in 1..2 : p[i] = q[i] /\ p[i] % CellExtend = 0

\* Neighbors in the sorted list of crossings; where two coincide, both.
Steps(p, q) ==
  LET all == Crossings(p, q, 1) \cup Crossings(p, q, 2)
  IN  {<<t, u>> \in all \X all : t < u /\ \A v \in all : v <= t \/ v >= u}
        \cup {<<t, t>> : t \in Crossings(p, q, 1) \cap Crossings(p, q, 2)}

Midway(p, q, step) ==
  LET At(i) == 2 * Scale(p, q) * p[i] + (step[1] + step[2]) * (q[i] - p[i])
  IN  MakeCell(At(1), At(2), 2 * Scale(p, q))

\* cells_from_line_segment.  A short list is sorted by insertion, which leaves
\* a crossing that is not a number at an end; in a longer one it may come to
\* stand between any two, which are no neighbors then.
PossibleCells(p, q) ==
  LET first == MakeCell(p[1], p[2], 1)
      last == MakeCell(q[1], q[2], 1)
      Separated ==
        IF NotANumber(p, q) /\ Cardinality(Steps(p, q)) + 2 > SortThreshold
        THEN {{step} : step \in Steps(p, q)} \cup {{}} ELSE {{}}
  IN  CASE first = last -> {{first}}
        [] IsN4Adjacent(first, last) -> {{first, last}}
        [] OTHER -> {{first, last} \cup {Midway(p, q, step) : step \in Steps(p, q) \ lost} :
                       lost \in Separated}

\* intersects_any, with the cells every wall has been filed in.
IntersectsAny(m, filed, p, q) ==
  \E cells \in {CHOOSE cells \in PossibleCells(p, q) : TRUE} :
    \E wall \in DOMAIN filed :
      /\ filed[wall] \cap cells # {}
      /\ SegmentsIntersect(p, q, m.points[From(m, wall)], m.points[To(m, wall)])
=============================================================================
