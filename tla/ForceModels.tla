---------------------------- MODULE ForceModels ----------------------------
(***************************************************************************)
(* The force-based operational models in single file: the social force     *)
(* model and the generalized centrifugal force model.  Both add forces to  *)
(* a signed velocity v; masses are one.  Tangential forces vanish on a     *)
(* line, and the ellipse of an agent shows its axis along the movement.    *)
(***************************************************************************)
EXTENDS SpeedModels

CONSTANTS
  Tau,          \* reaction_time or tau, in steps
  SFMCutOff,    \* how far the social force model looks for neighbors (2.5 m)
  AgentScale, ObstacleScale,  \* SFM: the strength of the pushing forces
  BodyForce,    \* SFM: the force per unit of overlap
  GCFMCutOff,   \* how far the centrifugal force model looks (4 m)
  AMin, AV,     \* GCFM: a_min and av of the ellipses
  MinDist,      \* GCFM: the 50 cm the force is capped around
  Ped, Geo,     \* GCFM: [strength, reach, blend, cap] for neighbors and walls
  Settle,       \* GCFM: the steps after which mollify_e0 has forgotten e0
  NaN           \* a double that is not a number: no comparison with it holds

\* Parameters of the force of GCFM: its strength and cap, how far it reaches, and
\* the width it is interpolated over at either end.  The constructor checks none
\* of them; with other widths the interpolation divides by zero or runs backwards.
ForceRange == {par \in [strength : Nat, reach : Nat, blend : Nat \ {0}, cap : Nat] :
                par.blend < par.reach}

ASSUME ForceAssumption ==
  /\ {Tau, Settle} \subseteq Nat \ {0}
  /\ {SFMCutOff, AgentScale, ObstacleScale, BodyForce, GCFMCutOff, AMin, AV, MinDist} \subseteq Nat
  /\ {Ped, Geo} \subseteq ForceRange
  /\ NaN \notin Int

-----------------------------------------------------------------------------
(* Social force model *)

DrivingForce(v, e0) == (e0 * V0 - v) \div Tau

\* Along the line: away from the other, and more so when bodies overlap.
ForceFromSeparation(separation, scale, radius) ==
  LET dist == AbsOf(separation)
      body == IF dist < radius THEN BodyForce * (radius - dist) ELSE 0
  IN  Sgn(separation) * (Decay(scale, dist - radius) + body)

SocialForce(crowd, a) ==
  LET AgentForce(b) == ForceFromSeparation(-RelativePosition(crowd, a, b), AgentScale,
                                           crowd[a].radius + crowd[b].radius)
      ObstacleForce(w) == ForceFromSeparation(crowd[a].x - w, ObstacleScale, crowd[a].radius)
  IN  crowd[a].v + DrivingForce(crowd[a].v, crowd[a].route)
        + SumFunction([b \in OthersInRange(crowd, a, SFMCutOff) |-> AgentForce(b)])
        + SumFunction([w \in WallsInRange(crowd, a, WallRange) |-> ObstacleForce(w)])

-----------------------------------------------------------------------------
(* Generalized centrifugal force model *)

\* How far the point of the ellipse is that faces another point of the line.  The
\* axis along the movement grows with the speed; the one across it, which grows
\* with the scale (speed / v0), is multiplied by the sine of the angle to the
\* line: nothing for any finite scale.  An agent that came to a halt has no
\* orientation left and with it no extent.
Extent(agent) == IF agent.o = 0 THEN 0 ELSE AMin + AV * AbsOf(agent.v)

\* Does the scale divide by zero?  Infinity times a sine of 0 is not a number.
Unscaled(agent) == agent.v0 = 0

\* The distance between the two points of the ellipses that face each other:
\* a norm, so that bodies that overlap look as far apart as they overlap.  The
\* scale is set to 1 where the desired speed is 0.
AgentToAgentSpacing(crowd, a, b) ==
  AbsOf(AbsOf(RelativePosition(crowd, a, b)) - Extent(crowd[a]) - Extent(crowd[b]))

HermiteInterp(t, x1, x2, y1, y2, dy1, dy2) ==
  LET s == x2 - x1
      u == t - x1
      h1 == 2 * u * u * u - 3 * s * u * u + s * s * s
      h2 == 3 * s * u * u - 2 * u * u * u
      h3 == s * u * u * u - 2 * s * s * u * u + s * s * s * u
      h4 == s * u * u * u - s * s * u * u
  IN  (y1 * h1 + y2 * h2 + dy1 * h3 + dy2 * h4) \div (s * s * s)

Left(par) == MinDist + par.blend
Right(par) == par.reach - par.blend
SMax(par) == MinDist - par.blend

\* The zones of the drawing in the code, 1 being the farthest.  A wall caps
\* the force up to the radius of the ellipse beyond smax and keeps the border
\* at dist_intpol_right in zone 3.
PedZone(d, par) ==
  IF d >= par.reach THEN 1
  ELSE IF d <= SMax(par) THEN 5
  ELSE IF d >= Right(par) THEN 2
  ELSE IF d >= Left(par) THEN 3 ELSE 4

BugCappedInside(d, r, par) ==
  IF d = NaN THEN 4
  ELSE IF d >= par.reach THEN 1
  ELSE IF d <= 0 THEN 5
  ELSE IF d > Right(par) THEN 2
  ELSE IF d >= Left(par) THEN 3 ELSE 4

WallZone(d, r, par) ==
  IF d = NaN THEN 4   \* what is left when every test fails
  ELSE IF d >= par.reach THEN 1
  ELSE IF d <= SMax(par) + r THEN 5
  ELSE IF d > Right(par) THEN 2
  ELSE IF d >= Left(par) THEN 3 ELSE 4

\* The force in zones 2 to 4 for a nominator; it points away, thus negative.
ZoneForce(zone, d, nominator, par) ==
  LET At(s) == -(nominator \div s)
  IN  CASE zone = 2 -> HermiteInterp(d, Right(par), par.reach, At(Right(par)), 0,
                                     -(At(Right(par)) \div Right(par)), 0)
        [] zone = 3 -> At(AbsOf(d))
        [] zone = 4 -> HermiteInterp(d, SMax(par), Left(par), par.cap * At(Left(par)),
                                     At(Left(par)), 0, -(At(Left(par)) \div Left(par)))

Squared(n) == n * n

\* Only neighbors in the direction of the movement count.
ForceRepPed(crowd, a, b) ==
  LET e == Sgn(RelativePosition(crowd, a, b))
      d == AgentToAgentSpacing(crowd, a, b)
      approach == Largest(0, (crowd[a].v - crowd[b].v) * e)
      nominator == Squared(Ped.strength * crowd[a].v0 + approach)
      zone == PedZone(d, Ped)
  IN  IF zone = 1 \/ crowd[a].v * e <= 0 THEN 0
      ELSE e * (IF zone = 5 THEN -(Ped.cap * (nominator \div Left(Ped)))
                ELSE ZoneForce(zone, d, nominator, Ped))

\* From the ellipse to a wall.  Here the scale is not guarded.
WallDistance(crowd, a, w) ==
  IF Unscaled(crowd[a]) THEN NaN ELSE AbsOf(crowd[a].x - w) - Extent(crowd[a])

\* Only a wall in the direction of the movement counts: for any other one the
\* force is zero before the ellipse is asked.
MovesTowards(crowd, a, w) == crowd[a].v * Normal(crowd, a, w) < 0

ForceRepWall(crowd, a, w) ==
  LET e == -Normal(crowd, a, w)
      d == WallDistance(crowd, a, w)
      nominator == Squared(Geo.strength * crowd[a].v0 + AbsOf(crowd[a].v))
      zone == WallZone(d, Extent(crowd[a]), Geo)
      strength == IF zone = 5 THEN -Geo.cap ELSE ZoneForce(zone, d, nominator, Geo)
  IN  IF zone = 1 \/ ~MovesTowards(crowd, a, w) THEN 0
      ELSE IF d = NaN THEN NaN ELSE e * strength

\* e0 follows the route the faster the longer the agent is on its way: the
\* delay is never reset.
MollifyE0(agent) == agent.e0 + ((agent.route - agent.e0) * Least(agent.delay, Settle)) \div Settle

CentrifugalForce(crowd, a) ==
  LET e0 == IF crowd[a].route # 0 THEN MollifyE0(crowd[a]) ELSE crowd[a].e0
      driving == (e0 * crowd[a].v0 - crowd[a].v) \div Tau
      neighbors == [b \in OthersInRange(crowd, a, GCFMCutOff) |-> ForceRepPed(crowd, a, b)]
      walls == [w \in WallsInRange(crowd, a, WallRange) |-> ForceRepWall(crowd, a, w)]
  IN  IF \E w \in DOMAIN walls : walls[w] = NaN THEN NaN
      ELSE crowd[a].v + driving + SumFunction(neighbors) + SumFunction(walls)
=============================================================================
