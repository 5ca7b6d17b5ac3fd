----------------------------- MODULE WarpDriver -----------------------------
(***************************************************************************)
(* WarpDriverModel::compute_next_state for one agent among others: it      *)
(* perceives its neighbors one after the other, solves for a velocity,     *)
(* which neighbors and walls push aside, and gets out of a deadlock by a   *)
(* detour.  Positions are whole units of an area of the plane.             *)
(***************************************************************************)
EXTENDS WarpField

CONSTANTS
  Ways,        \* the directions (of Axes) a destination may lie in
  Area,        \* the walkable positions; nothing is thinner than a step
  Radius,      \* the radius of everybody
  Encounters,  \* what neighbors the agent may meet
  Most,        \* bound on the neighbors met in one step
  Lateral,     \* the perturbations of the samples
  Uncertainty, \* the parameters [lambda, ux, uy] a model may have
  Dt, Threshold, Duration,  \* time step; stuck_threshold; detour_duration
  Progress,    \* progress_radius
  Creep,       \* a tenth of a step
  Detour       \* a detour step: Vec(forward, sideways)

Whole == [x : Int, y : Int]

ASSUME DriverAssumption ==
  /\ Ways \subseteq Axes
  /\ \A p \in Area : p \in Whole
  /\ \A e \in Encounters :
       /\ e.rel \in Whole /\ e.a \in Axes /\ e.b \in Axes
       /\ e.speed \in Nat /\ e.radius \in Nat \ {0}
  /\ \A l \in Lateral : l \in Int
  /\ \A q \in Uncertainty : {q.lambda, q.ux, q.uy} \subseteq Int
  /\ {Radius, Dt, Threshold, Duration} \subseteq Nat \ {0}
  /\ {Most, Progress, Creep} \subseteq Nat
  /\ Detour \in Whole

VARIABLES
  agent,   \* [orientation, stuck, displacement, detour, side] of the state
  pos,     \* where it is
  seen,    \* pc of the step: neighbors perceived and left, samples so far
  quest,   \* parameters of the model and direction towards the destination
  anchor   \* history: where the window began that displacement is measured in

vars == <<agent, pos, seen, quest, anchor>>

Idle == [around |-> {}, left |-> {}, samples |-> << >>, velocity |-> << >>]
Desired == quest.desired
Zero == Vec(0, 0)
Sides == {-1, 1}
Free(p, move) == Plus(p, move) \in Area

\* check_model_constraint lets the uncertainties be anything but negative.
Accepted(q) == q.lambda >= 0 /\ q.ux >= 0 /\ q.uy >= 0

Init ==
  /\ agent = [orientation |-> Zero, stuck |-> 0, displacement |-> Zero, detour |-> 0, side |-> 1]
  /\ pos \in Area /\ anchor = pos
  /\ seen = Idle
  /\ quest \in [q : {q \in Uncertainty : Accepted(q)}, desired : Ways, routed : BOOLEAN]

-----------------------------------------------------------------------------
(* Perceive                                                                *)

\* One percept for each sample that can be taken of each neighbor.
Trajectory == {TrajectoryPoint(i, l) : i \in 1..NumSamples, l \in Lateral}
Percepts ==
  [q \in Uncertainty |-> [e \in Encounters |-> [r \in Trajectory |-> Perceived(r, e, q)]]]

\* The orientation the agent is compared in is the desired one.
MayMeet == {e \in Encounters : e.a = Desired}

StartStep ==
  /\ seen = Idle /\ quest.routed
  /\ \E around \in SUBSET MayMeet, lateral \in [1..NumSamples -> Lateral] :
       /\ IsFiniteSet(around) /\ Cardinality(around) <= Most
       /\ seen' = [around |-> around, left |-> around,
                   samples |-> [i \in 1..NumSamples |->
                                  [r |-> TrajectoryPoint(i, lateral[i]), u |-> Unperceived]],
                   velocity |-> << >>]
  /\ UNCHANGED <<agent, pos, quest, anchor>>

Perceive(e) ==
  /\ e \in seen.left
  /\ seen' = [seen EXCEPT !.left = @ \ {e},
                          !.samples = [i \in DOMAIN @ |->
                            [r |-> @[i].r, u |-> Union(@[i].u, Percepts[quest.q][e][@[i].r])]]]
  /\ UNCHANGED <<agent, pos, quest, anchor>>

-----------------------------------------------------------------------------
(* Push: neighbors closer than three times both radii and walls closer     *)
(* than three radii                                                        *)

Repulsion(e) ==
  LET dist == Norm(e.rel)
  IN  IF dist = 0 THEN Times(V0, Vec(-Desired.y, Desired.x))
      ELSE ScaledTo(Times(-1, e.rel), (V0 * Largest(0, 3 * e.radius - dist)) \div dist)

Reach == 3 * Radius
\* How far the wall is that faces the agent along the axis n.
WallDistance(n) == Min({k \in 1..Reach : ~Free(pos, Times(-k, n))} \cup {Reach})
Steering(n) == Times((V0 * (Reach - WallDistance(n))) \div WallDistance(n), n)

Clamped(v) == IF Norm(v) > V0 THEN ScaledTo(v, V0) ELSE v

\* A velocity of zero becomes a push too small to show on whole units.
Solved(local) == Turned(Desired, ScaledTo(local, Least(Norm(local), V0)))
Pushed(v) == Plus(Plus(v, VectorSum([e \in seen.around |-> Repulsion(e)])),
                  VectorSum([n \in Axes |-> Steering(n)]))

Steer ==
  /\ seen # Idle /\ seen.left = {} /\ seen.velocity = << >>
  /\ \E local \in {Solve(seen.samples)} : \E pushed \in {Pushed(Solved(local))} :
       seen' = [seen EXCEPT !.velocity = Clamped(pushed)]
  /\ UNCHANGED <<agent, pos, quest, anchor>>

Orientation == IF agent.orientation = Zero THEN Vec(1, 0) ELSE agent.orientation

\* Half of the new velocity, half of the way the agent faced before.
Smoothed(v) == Clamped(LET w == Plus(v, Times(Norm(v), Orientation))
                       IN  Vec(Quot(w.x, 2), Quot(w.y, 2)))

-----------------------------------------------------------------------------
(* What the agent does with it: keep on a detour, or go on and look        *)
(* whether it is stuck.                                                    *)

\* The movement and state of one step; a movement out of the area throws in
\* move_on_surface, which leaves the generation as it was.
Advance(next, movement, from) ==
  /\ IF Free(pos, movement)
     THEN agent' = next /\ pos' = Plus(pos, movement) /\ anchor' = from
     ELSE UNCHANGED <<agent, pos, anchor>>
  /\ seen' = Idle
  /\ UNCHANGED quest

DetourTo(side) == Plus(Times(Detour.x, Desired), Times(side * Detour.y, Vec(-Desired.y, Desired.x)))

DetourMovement(side) ==
  IF Free(pos, DetourTo(side)) THEN DetourTo(side)
  ELSE IF Free(pos, DetourTo(-side)) THEN DetourTo(-side)
  ELSE Times(Creep, Desired)

DetourSide == IF Free(pos, DetourTo(agent.side)) THEN agent.side ELSE -agent.side

DetourOver(time) == time <= 0

BugCoveredOnFoot(over, movement) == IF over THEN Zero ELSE agent.displacement

\* A detour counts as movement; its end forgets even the last step of it.
Covered(over, movement) == IF over THEN Zero ELSE Plus(agent.displacement, movement)

TimeLeft == agent.detour - Dt

OnDetour ==
  /\ seen.velocity # << >> /\ agent.detour > 0
  /\ LET time == TimeLeft
         movement == DetourMovement(agent.side)
         next == [orientation |-> Vec(Sgn(movement.x), Sgn(movement.y)),
                  stuck |-> IF DetourOver(time) THEN 0 ELSE agent.stuck,
                  displacement |-> Covered(DetourOver(time), movement),
                  detour |-> IF DetourOver(time) THEN 0 ELSE time,
                  side |-> DetourSide]
     IN  Advance(next, movement, IF DetourOver(time) THEN Plus(pos, movement) ELSE anchor)

\* The window of displacement goes on after a failed step and across steps.
BugProgressed == Norm(seen.velocity) > Progress

Progressed == Norm(agent.displacement) > Progress

Drive ==
  /\ seen.velocity # << >> /\ agent.detour <= 0
  /\ LET time == agent.stuck + Dt
         stuck == ~Progressed /\ time >= Threshold
         movement == Smoothed(seen.velocity)
         next(side) ==
           [orientation |-> IF movement = Zero THEN Orientation
                            ELSE Vec(Sgn(movement.x), Sgn(movement.y)),
            stuck |-> IF Progressed \/ stuck THEN 0 ELSE time,
            displacement |-> Plus(IF Progressed THEN Zero ELSE agent.displacement, movement),
            detour |-> IF stuck THEN Duration ELSE agent.detour,
            side |-> side]
     IN  \E side \in IF stuck THEN Sides ELSE {agent.side} :
           Advance(next(side), movement, IF Progressed THEN pos ELSE anchor)

\* Without a direction to go to the agent stays and forgets that it was stuck.
NoRoute ==
  /\ seen = Idle /\ ~quest.routed
  /\ agent' = [orientation |-> Orientation, stuck |-> 0, displacement |-> Zero,
               detour |-> 0, side |-> 1]
  /\ anchor' = pos
  /\ UNCHANGED <<pos, seen, quest>>

\* The host changes the route between two iterations.
Reroute ==
  /\ seen = Idle
  /\ \E d \in Ways, r \in BOOLEAN : quest' = [quest EXCEPT !.desired = d, !.routed = r]
  /\ UNCHANGED <<agent, pos, seen, anchor>>

Begin == StartStep \/ NoRoute
Act == OnDetour \/ Drive
Next == Begin \/ (\E e \in Encounters : Perceive(e)) \/ Steer \/ Act \/ Reroute

Spec == Init /\ [][Next]_vars

\* The host keeps iterating, whatever routes it sets, and an iteration comes
\* to its end.
Fairness ==
  /\ WF_vars(Begin)
  /\ WF_vars(\E e \in Encounters : Perceive(e))
  /\ WF_vars(Steer)
  /\ WF_vars(Act)

FairSpec == Spec /\ Fairness

-----------------------------------------------------------------------------
TypeOK ==
  /\ agent \in [orientation : [x : -1..1, y : -1..1], stuck : 0..Threshold - 1,
                displacement : [x : Int, y : Int], detour : 0..Duration, side : Sides]
  /\ pos \in Area /\ anchor \in Area
  /\ quest \in [q : Uncertainty, desired : Ways, routed : BOOLEAN]
  /\ seen.left \subseteq seen.around /\ seen.around \subseteq Encounters

\* In whatever order the grid hands out the neighbors, the samples hold the
\* probability that not all of them are missed, and its gradient.
UnionExact ==
  \A i \in DOMAIN seen.samples :
    LET u == seen.samples[i].u
        met == seen.around \ seen.left
        By(e) == Percepts[quest.q][e][seen.samples[i].r]
        Missed(S) == Product([e \in S |-> One - By(e).p])
    IN  /\ u.over = Product([e \in met |-> One])
        /\ u.p = u.over - Missed(met)
        /\ \A k \in Coordinates :
             u.g[k] = SumFunction([e \in met |-> By(e).g[k] * Missed(met \ {e})])

\* It stays a probability as long as the uncertainty across the direction of
\* the movement is not larger than the one along it.
ProbabilityInRange ==
  quest.q.uy <= quest.q.ux =>
    \A i \in DOMAIN seen.samples : seen.samples[i].u.p \in 0..seen.samples[i].u.over

\* What neighbors add up to is the probability of a collision.
ProbabilitySound == UnionExact /\ ProbabilityInRange

\* The gradient handed back is that of the warped field: for a field that is
\* a plane the chain of inverse Jacobians gives its change along each axis of
\* the agent, exact where no factor is rounded.
Shifted(s, k) ==
  [x |-> s.x + (IF k = "x" THEN 1 ELSE 0), y |-> s.y + (IF k = "y" THEN 1 ELSE 0),
   t |-> s.t + (IF k = "t" THEN 1 ELSE 0)]
HasExactGradient ==
  [q \in Uncertainty |-> [e \in Encounters |->
     q.lambda = 0 /\ q.ux = 0 /\ e.radius = Sub =>
       \A s \in Trajectory, grad \in Axes, k \in Coordinates :
         LET Plane(r) == LET v == ComposeForward(r, e, q) IN grad.x * v.x + grad.y * v.y
         IN  ComposeGradientInverse(grad, s, e, q)[k] = Plane(Shifted(s, k)) - Plane(s)]]
GradientExact == \A e \in seen.around : HasExactGradient[quest.q][e]

\* An encounter and its mirror image, on the other side of the direction the
\* agent goes in, are perceived alike: neither side attracts it.
OtherSide(o, v) == LET w == TurnedBack(o, v) IN Turned(o, Vec(w.x, -w.y))
Mirrored(e) ==
  [rel |-> OtherSide(e.a, e.rel), a |-> e.a, b |-> OtherSide(e.a, e.b),
   speed |-> e.speed, radius |-> e.radius]
HasNoSide ==
  [q \in Uncertainty |-> [e \in Encounters |->
     \A s \in Trajectory :
       LET one == Perceived(s, e, q)
           other == Perceived([s EXCEPT !.y = -@], Mirrored(e), q)
       IN  other.p = one.p /\ other.g = [one.g EXCEPT !.y = -@]]]
NoSideAttracts == \A e \in seen.around : HasNoSide[quest.q][e]

\* What an agent steers by is the gradient, and takes no side.
GradientSound == GradientExact /\ NoSideAttracts

\* What is measured as the progress of an agent is how far it has come since
\* the window began, on foot or on a detour, over steps that failed as well.
ProgressMeasured == agent.displacement = Plus(pos, Times(-1, anchor))

\* What an agent remembers of its way is true.
MemorySound == TypeOK /\ ProgressMeasured

Failed == seen.velocity # << >> /\ seen' = Idle /\ agent' = agent /\ pos' = pos
Undisturbed == <>[][~Failed]_vars

\* "Stuck detection with lateral detour to break narrow-passage deadlocks":
\* an agent that keeps a route makes progress again and again or goes on a
\* detour again and again, however it oscillates.
DeadlockBroken ==
  Undisturbed /\ <>[]quest.routed => []<>(agent.detour > 0 \/ Norm(agent.displacement) > Progress)

\* No detour lasts for ever.
DetourEnds == Undisturbed => []<>(agent.detour = 0)

\* Nobody is stuck for ever, walking or on a detour.
NobodyStuck == DeadlockBroken /\ DetourEnds
=============================================================================
