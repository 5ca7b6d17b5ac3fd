------------------------------- MODULE Motion -------------------------------
(***************************************************************************)
(* OperationalDecisionSystem: agents are validated when they are added and *)
(* moved together in every iteration by one operational model, each from   *)
(* what the current generation shows it.  Single file between two walls.   *)
(***************************************************************************)
EXTENDS ForceModels

CONSTANTS
  Agents,       \* the agents the host may add
  Models,       \* the operational models a simulation may run
  Most,         \* for each model: bound on the agents of a behaviour
  Places,       \* the positions agents may be added at
  Radii,        \* the radii they may be added with
  DesiredSpeeds,\* GCFM: the desired speeds the host gives them
  RadiusMax,    \* the largest radius the speed models accept (2 m)
  ContactRange, \* how far the validation looks for neighbors (2 m)
  Waist         \* GCFM: max(a_min, b_max) / 2

Directions == {-1, 0, 1}

ASSUME ModelAssumption ==
  /\ {TimeGap, Unit, RadiusMax, ContactRange} \subseteq Nat \ {0}
  /\ {V0, CutOff, WallRange, Far, V3Buffer, Reverse, AVMBuffer, Creep, WallBuffer} \subseteq Nat
  /\ Models \subseteq {"cfsm", "cfsm_v2", "cfsm_v3", "avm", "sfm", "gcfm"}
  /\ Radii \subseteq Nat /\ DesiredSpeeds \subseteq Nat   \* 0 is accepted
  /\ Places \subseteq Lo .. Hi   \* others are refused before

VARIABLES
  model,  \* the operational model of the simulation
  crowd   \* the agents: [x, radius, v0, o, v, route, e0, delay]

vars == <<model, crowd>>

\* v0 is the desired speed of GCFM; with the other models everybody has V0.  GCFM
\* has ellipses instead of a radius.
Agent == [x : Int, radius : Nat, v0 : Nat, o : Directions, v : Int,
          route : Directions, e0 : Int, delay : Nat]

-----------------------------------------------------------------------------
(* check_model_constraint *)

FarEnough(c, a, distance) ==
  \A b \in OthersInRange(c, a, ContactRange) : distance[b] < AbsOf(RelativePosition(c, a, b))

SpeedModelConstraint(c, a) ==
  /\ 0 < c[a].radius /\ c[a].radius <= RadiusMax
  /\ FarEnough(c, a, [b \in DOMAIN c |-> c[a].radius + c[b].radius])
  /\ WallsInRange(c, a, c[a].radius) = {}

\* V2, V3 and the anticipation velocity model look at the same distances.
ConstraintV2(c, a) == SpeedModelConstraint(c, a)
ConstraintV3(c, a) == SpeedModelConstraint(c, a)
ConstraintAVM(c, a) == SpeedModelConstraint(c, a)

\* Only the radius of the new agent counts.
SFMConstraint(c, a) ==
  /\ FarEnough(c, a, [b \in DOMAIN c |-> c[a].radius])
  /\ WallsInRange(c, a, c[a].radius \div 2) = {}

\* Compares the space between the ellipses with the distance of the centres.
GCFMConstraint(c, a) ==
  /\ c[a].o # 0
  /\ FarEnough(c, a, [b \in DOMAIN c |-> AgentToAgentSpacing(c, a, b)])
  /\ WallsInRange(c, a, Waist) = {}

CheckModelConstraint(m, c, a) ==
  CASE m = "sfm" -> SFMConstraint(c, a)
    [] m = "gcfm" -> GCFMConstraint(c, a)
    [] m = "cfsm" -> SpeedModelConstraint(c, a)
    [] m = "cfsm_v2" -> ConstraintV2(c, a)
    [] m = "cfsm_v3" -> ConstraintV3(c, a)
    [] m = "avm" -> ConstraintAVM(c, a)

-----------------------------------------------------------------------------
(* compute_next_state of each model, and the movement it asks for *)

NextState(m, c, a, draw) ==
  LET Speed(moved) == [c[a] EXCEPT !.o = moved.o, !.x = @ + moved.dx]
  IN  CASE m = "cfsm" -> Speed(CollisionFree(c, a))
        [] m = "cfsm_v2" -> Speed(CollisionFreeV2(c, a))
        [] m = "cfsm_v3" -> Speed(CollisionFreeV3(c, a))
        [] m = "avm" -> Speed(Anticipating(c, a, draw))
        [] m = "sfm" -> LET v == SocialForce(c, a) IN [c[a] EXCEPT !.v = v, !.x = @ + v]
        [] m = "gcfm" ->
             LET v == CentrifugalForce(c, a)
             IN  IF v = NaN THEN [c[a] EXCEPT !.x = NaN]   \* and everything else is lost
                 ELSE [c[a] EXCEPT !.v = v, !.x = @ + v, !.o = Sgn(v),
                                   !.delay = Least(@ + 1, Settle),
                                   !.e0 = IF c[a].route # 0 THEN MollifyE0(c[a]) ELSE 0]

\* What the anticipation velocity model draws for the agents that creep.
Draws(m, c) == [{a \in DOMAIN c : m = "avm" /\ Creeps(AheadAVM(c, a))} -> Directions]

\* The next generation, computed from the current one alone.
NextGeneration(m, c, draw) ==
  [a \in DOMAIN c |-> NextState(m, c, a, IF a \in DOMAIN draw THEN draw[a] ELSE 0)]

-----------------------------------------------------------------------------
Init ==
  /\ model \in Models
  /\ crowd = [a \in {} |-> 0]

\* add_agent: an agent whose constraint check throws is removed again.
Add(a) ==
  /\ a \notin DOMAIN crowd /\ Cardinality(DOMAIN crowd) < Most[model]
  /\ \E x \in Places, r \in IF model = "gcfm" THEN {0} ELSE Radii,
        o \in IF model = "gcfm" THEN Directions ELSE {0},
        v0 \in IF model = "gcfm" THEN DesiredSpeeds ELSE {V0} :
       LET agent == [x |-> x, radius |-> r, v0 |-> v0, o |-> o, v |-> 0,
                     route |-> 0, e0 |-> 0, delay |-> 0]
           added == [b \in DOMAIN crowd \cup {a} |-> IF b = a THEN agent ELSE crowd[b]]
       IN  CheckModelConstraint(model, added, a) /\ crowd' = added
  /\ UNCHANGED model

\* The host sets a desired speed through the handle of an agent, which checks
\* nothing, whether the agent moves or not.
SetDesiredSpeed(a, speed) ==
  /\ model = "gcfm" /\ a \in DOMAIN crowd /\ crowd[a].v0 # speed
  /\ crowd' = [crowd EXCEPT ![a].v0 = speed]
  /\ UNCHANGED model

\* The straight walk to a point that is not a number throws, as one that leaves
\* the walkable area does: the exact arithmetic does not take it.
Arrives(x) == x # NaN /\ OnSurface(x)

\* An iteration: the routes are known, then everybody moves; a movement that
\* fails throws and leaves the current generation in place.
Iterate ==
  /\ \E route \in [DOMAIN crowd -> Directions] :
       LET routed == [a \in DOMAIN crowd |-> [crowd[a] EXCEPT !.route = route[a]]]
       IN  \E draw \in Draws(model, routed) :
             \E next \in {NextGeneration(model, routed, draw)} :
               crowd' = IF \A a \in DOMAIN next : Arrives(next[a].x) THEN next ELSE routed
  /\ UNCHANGED model

Next ==
  \/ \E a \in Agents : Add(a) \/ \E speed \in DesiredSpeeds : SetDesiredSpeed(a, speed)
  \/ Iterate

Spec == Init /\ [][Next]_vars

-----------------------------------------------------------------------------
TypeOK ==
  /\ model \in Models
  /\ DOMAIN crowd \subseteq Agents
  /\ \A a \in DOMAIN crowd : crowd[a] \in Agent /\ crowd[a].x \in Lo..Hi

\* The range query, which visits cells of truncated positions, misses nobody.
NobodyMissed ==
  \A a \in DOMAIN crowd : \A r \in {CutOff, SFMCutOff, GCFMCutOff, ContactRange} :
    InRange(crowd, crowd[a].x, r)
      = {b \in DOMAIN crowd : AbsOf(RelativePosition(crowd, a, b)) <= r}

\* Everybody is on the surface and perceives everybody.
CrowdSound == TypeOK /\ NobodyMissed

Apart(c, a, b) == AbsOf(RelativePosition(c, a, b)) >= c[a].radius + c[b].radius

\* The collision free speed model (V1 and V2) lets no two agents overlap, in
\* whatever direction routes, neighbors and walls turn them: both sides of a
\* gap are moved from the same generation, and each may take half of it.
NoOverlap ==
  model \in {"cfsm", "cfsm_v2"} =>
    \A a, b \in DOMAIN crowd : a # b => Apart(crowd, a, b)

\* The anticipation velocity model moves some agents without looking: one a
\* wall has turned, whose speed was chosen for the direction before, and one
\* that steps back from somebody else.
TurnedByWall(a) == WallsInRange(crowd, a, WallBuffer + crowd[a].radius) # {}
SteppedBack(a) == crowd'[a].o * (crowd'[a].x - crowd[a].x) < 0
Blind(a) == model = "avm" /\ (TurnedByWall(a) \/ SteppedBack(a))

\* Nobody passes through somebody else, and two agents only ever come as close
\* as their contact distance, or not closer when they overlap already, unless
\* one of them moves blindly.
KeepsDistance ==
  model \in {"cfsm", "cfsm_v2", "avm"} =>
    \A a, b \in DOMAIN crowd :
      crowd[a].x < crowd[b].x /\ ~Blind(a) /\ ~Blind(b) =>
        crowd'[b].x - crowd'[a].x
          >= Least(crowd[b].x - crowd[a].x, crowd[a].radius + crowd[b].radius)

StepsSound == [][KeepsDistance]_vars

\* The force of the generalized centrifugal force model is interpolated inside
\* of the interval it is interpolated over, as hermite_interp asserts: between
\* agents always, at a wall somebody moves towards exactly if that agent has a
\* desired speed.  A host that stops a moving agent by a desired speed of 0,
\* which it may, makes the interpolation fail, and then nobody moves.
InZone(zone, d, par) ==
  /\ zone = 2 => Right(par) <= d /\ d <= par.reach /\ Right(par) < par.reach
  /\ zone = 4 => d # NaN /\ SMax(par) <= d /\ d <= Left(par) /\ SMax(par) < Left(par)
InterpolationInRange ==
  model = "gcfm" =>
    \A a \in DOMAIN crowd :
      /\ \A b \in DOMAIN crowd \ {a} :
           LET d == AgentToAgentSpacing(crowd, a, b) IN InZone(PedZone(d, Ped), d, Ped)
      /\ \A w \in WallsInRange(crowd, a, WallRange) : MovesTowards(crowd, a, w) =>
           LET d == WallDistance(crowd, a, w)
           IN  InZone(WallZone(d, Extent(crowd[a]), Geo), d, Geo) <=> crowd[a].v0 > 0
=============================================================================
