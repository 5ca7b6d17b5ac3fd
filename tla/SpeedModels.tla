---------------------------- MODULE SpeedModels ----------------------------
(***************************************************************************)
(* The speed-based operational models in single file: the collision free   *)
(* speed model V1, V2 and V3 and the anticipation velocity model.  Each    *)
(* first chooses a direction (1, -1, or 0 for Point{}) and then a speed    *)
(* from the free space in that direction.                                  *)
(*                                                                         *)
(* Lengths are whole units and speeds are lengths per step: a speed of     *)
(* spacing / time_gap moves an agent spacing / TimeGap units in one step   *)
(* of dt, TimeGap being time_gap / dt.  The exponential decay of the       *)
(* repulsions is a halving per unit; only its monotony matters.  In single *)
(* file the lateral terms vanish: V3's heading angle stays zero and the    *)
(* influence of neighbors, orthogonal to the route, is left out of the     *)
(* anticipation velocity model (a strength of zero, which it accepts).     *)
(***************************************************************************)
EXTENDS Perception, FiniteSetsExt, Functions

CONSTANTS
  TimeGap,        \* time_gap / dt
  V0,             \* the desired speed, in units per step
  CutOff,         \* how far an agent looks for neighbors (3 m)
  WallRange,      \* how far it looks for walls (4 m)
  Far,            \* numeric_limits<double>::max(): nobody in the way
  Unit,           \* the length of the route orientation in units of force
  ModelStrength,  \* V1: repulsion of the model, from neighbors and walls
  AgentStrength,  \* V2 and V3: repulsion of each agent
  V3Buffer,       \* V3: agent_buffer
  Reverse,        \* V3: the reverse floor is -Reverse
  AVMBuffer,      \* AVM: the buffer added to the contact distance (2 cm)
  Creep,          \* AVM: creep_speed
  WallBuffer,     \* AVM: wall_buffer_distance
  PushOut         \* AVM: pushout_strength

Power2(k) == LET p[n \in 0 .. k] == IF n = 0 THEN 1 ELSE 2 * p[n - 1] IN p[k]

Decay(strength, gap) ==
  IF gap >= 0 THEN strength \div Power2(gap) ELSE strength * Power2(-gap)

BugGapToCentre(crowd, a, b) == AbsOf(RelativePosition(crowd, a, b)) - crowd[a].radius

Gap(crowd, a, b) ==
  AbsOf(RelativePosition(crowd, a, b)) - (crowd[a].radius + crowd[b].radius)

Neighborhood(crowd, a) == OthersInRange(crowd, a, CutOff)

NeighborRepulsion(crowd, a, strength) ==
  SumFunction([b \in Neighborhood(crowd, a) |->
                 -Sgn(RelativePosition(crowd, a, b)) * Decay(strength, Gap(crowd, a, b))])

BoundaryRepulsion(crowd, a, strength) ==
  SumFunction([w \in WallsInRange(crowd, a, WallRange) |->
                 Normal(crowd, a, w) * Decay(strength, AbsOf(crowd[a].x - w) - crowd[a].radius)])

\* normalized(), or the orientation kept when nothing is left of the sum.
DirectionOf(sum, orientation) == IF sum # 0 THEN Sgn(sum) ELSE orientation

\* The least free space before a neighbor that is not behind.
Spacing(crowd, a, direction, buffer) ==
  LET inFront == {b \in Neighborhood(crowd, a) : direction * RelativePosition(crowd, a, b) >= 0}
  IN  IF inFront = {} THEN Far ELSE Min({Gap(crowd, a, b) - buffer : b \in inFront})

Clamp(least, x, most) == Least(Largest(x, least), most)

\* A move: the new orientation and how far the agent goes.
Moved(direction, speed) == [o |-> direction, dx |-> direction * speed]

-----------------------------------------------------------------------------
(* V1 and V2 differ in whose strength of repulsion counts.                 *)

OptimalStep(crowd, a, direction) == Clamp(0, Spacing(crowd, a, direction, 0) \div TimeGap, V0)

Stepping(crowd, a, repulsion) ==
  LET direction == DirectionOf(Unit * crowd[a].route + repulsion, crowd[a].o)
  IN  Moved(direction, OptimalStep(crowd, a, direction))

Repulsion(crowd, a, strength) ==
  NeighborRepulsion(crowd, a, strength) + BoundaryRepulsion(crowd, a, strength)

CollisionFree(crowd, a) == Stepping(crowd, a, Repulsion(crowd, a, ModelStrength))

RepulsionV2(crowd, a) == Repulsion(crowd, a, AgentStrength)

CollisionFreeV2(crowd, a) == Stepping(crowd, a, RepulsionV2(crowd, a))

-----------------------------------------------------------------------------
(* V3 turns away from walls only, blends the space in the direction it     *)
(* moves in with the space towards its goal, and may step back a little.   *)

V3Reference(crowd, a) ==
  DirectionOf(Unit * crowd[a].route + BoundaryRepulsion(crowd, a, AgentStrength), crowd[a].o)

V3Goal(crowd, a) == IF crowd[a].route = 0 THEN V3Reference(crowd, a) ELSE crowd[a].route

\* 85% of one and 15% of the other; with doubles, nothing is left of a
\* distance next to the largest of them.
Blend(move, goal) == IF move = Far \/ goal = Far THEN Far ELSE (17 * move + 3 * goal) \div 20

SpacingV3(crowd, a, direction) == Spacing(crowd, a, direction, 0)

OptimalStepV3(spacing) == Clamp(-Reverse, (spacing - V3Buffer) \div TimeGap, V0)

CollisionFreeV3(crowd, a) ==
  LET direction == V3Reference(crowd, a)
      spacing == Blend(SpacingV3(crowd, a, direction), SpacingV3(crowd, a, V3Goal(crowd, a)))
  IN  Moved(direction, OptimalStepV3(spacing))

-----------------------------------------------------------------------------
(* The anticipation velocity model turns to its route at once when it is   *)
(* opposed to it; where it would only creep it draws a step forward, back  *)
(* or none.  Walls close by turn the direction after the speed was chosen. *)

UpdateDirection(orientation, desired, calculated) ==
  IF (desired * calculated) * (desired * orientation) < 0 THEN calculated
  ELSE Sgn(3 * orientation + (calculated - orientation))   \* dt / reaction_time = 1 / 3

WallAvoidance(crowd, a, direction) ==
  LET critical == WallBuffer + crowd[a].radius
      Past(d, w) == IF w \in WallsInRange(crowd, a, critical) /\ d * Normal(crowd, a, w) < 0
                    THEN Sgn(Normal(crowd, a, w) * PushOut) ELSE d
  IN  Past(Past(direction, Lo), Hi)

BugWithoutBuffer(crowd, a, direction) == Spacing(crowd, a, direction, 0)

SpacingAVM(crowd, a, direction) == Spacing(crowd, a, direction, AVMBuffer)

\* Would the agent be slower than creep_speed?
Creeps(spacing) == AbsOf(spacing) < Creep * TimeGap

OptimalStepAVM(spacing, draw) ==
  Clamp(-Creep, IF Creeps(spacing) THEN draw * Creep ELSE spacing \div TimeGap, V0)

DirectionAVM(crowd, a) ==
  UpdateDirection(crowd[a].o, crowd[a].route, DirectionOf(crowd[a].route, crowd[a].o))

AheadAVM(crowd, a) == SpacingAVM(crowd, a, DirectionAVM(crowd, a))

Anticipating(crowd, a, draw) ==
  Moved(WallAvoidance(crowd, a, DirectionAVM(crowd, a)), OptimalStepAVM(AheadAVM(crowd, a), draw))
=============================================================================
