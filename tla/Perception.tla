----------------------------- MODULE Perception -----------------------------
(***************************************************************************)
(* What an agent perceives of its surroundings, in single file: agents     *)
(* stand on one line, at whole numbers, between two walls at Lo and Hi.    *)
(* The range query of NeighborhoodSearch, which hashes agents into cells,  *)
(* and the views EnvironmentQuery, AgentView and AgentStep make of it.     *)
(* Every agent sees every other (one level, nothing stands between them),  *)
(* and the corridor test of the models (|lateral| <= l) holds on a line.   *)
(*                                                                         *)
(* A crowd is a function from agents to records with a position x.         *)
(***************************************************************************)
EXTENDS Integers

CONSTANTS
  CellSize,   \* the width of a cell of the neighborhood grid
  Lo, Hi      \* the two walls

ASSUME SpaceAssumption ==
  /\ CellSize \in Nat \ {0}
  /\ Lo \in Int /\ Hi \in Int /\ Lo < Hi

Sgn(x) == IF x > 0 THEN 1 ELSE IF x < 0 THEN -1 ELSE 0
AbsOf(x) == IF x < 0 THEN -x ELSE x
Least(x, y) == IF x < y THEN x ELSE y
Largest(x, y) == IF x > y THEN x ELSE y

\* The cell of a position: the cast to int32_t truncates towards zero, so the
\* cell around the origin is twice as wide as the others.
CellOf(x) == IF x >= 0 THEN x \div CellSize ELSE -((-x) \div CellSize)

BugCellOffset(r) == r \div CellSize

\* The number of cells a query visits on either side: ceil(radius / size).
CellOffset(r) == (r + CellSize - 1) \div CellSize

InRange(crowd, x, r) ==
  {b \in DOMAIN crowd : /\ AbsOf(CellOf(crowd[b].x) - CellOf(x)) <= CellOffset(r)
                        /\ AbsOf(crowd[b].x - x) <= r}

OthersInRange(crowd, a, r) == InRange(crowd, crowd[a].x, r) \ {a}

RelativePosition(crowd, a, b) == crowd[b].x - crowd[a].x

WallsInRange(crowd, a, r) == {w \in {Lo, Hi} : AbsOf(crowd[a].x - w) <= r}

\* Points from the wall to the agent; zero on the wall itself.
Normal(crowd, a, w) == Sgn(crowd[a].x - w)

\* A straight walk succeeds iff it does not leave the walkable area.
OnSurface(x) == Lo <= x /\ x <= Hi
=============================================================================
