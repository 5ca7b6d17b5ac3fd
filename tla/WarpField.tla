----------------------------- MODULE WarpField -----------------------------
(***************************************************************************)
(* The calculations of WarpDriverModel: the intrinsic field of collision   *)
(* probability, the warps that carry a point of the trajectory of an agent *)
(* into the field of a neighbor and the gradient back, the union of the    *)
(* neighbors and the velocity solved for.                                  *)
(*                                                                         *)
(* Points are [x, y, t] in whole units, Sub of which separate two nodes of *)
(* the grid; orientations are the four axes, so that rotations are exact.  *)
(* Probabilities and gradients are numerators over One.                    *)
(***************************************************************************)
EXTENDS Integers, Sequences, FiniteSetsExt, Functions

CONSTANTS
  Half,        \* nodes on either side of the centre (30)
  Sub,         \* units between two nodes
  Scale,       \* the value of the field at its peak
  V0,          \* the desired speed of everybody, in units per step
  NumSamples,  \* num_samples
  StepSize     \* step_size is 1 / StepSize

ASSUME FieldAssumption == {Half, Sub, Scale, V0, NumSamples, StepSize} \subseteq Nat \ {0}

Vec(x, y) == [x |-> x, y |-> y]
Plus(v, w) == Vec(v.x + w.x, v.y + w.y)
Times(n, v) == Vec(n * v.x, n * v.y)
Sgn(n) == IF n > 0 THEN 1 ELSE IF n < 0 THEN -1 ELSE 0
AbsOf(n) == IF n < 0 THEN -n ELSE n
Least(m, n) == IF m < n THEN m ELSE n
Largest(m, n) == IF m > n THEN m ELSE n
Quot(m, n) == IF m >= 0 THEN m \div n ELSE -((-m) \div n)   \* towards zero
Norm(v) == Largest(AbsOf(v.x), AbsOf(v.y))
\* The vector in the direction of v with norm n.
ScaledTo(v, n) == IF Norm(v) = 0 THEN v ELSE Vec(Quot(v.x * n, Norm(v)), Quot(v.y * n, Norm(v)))
Axes == {Vec(1, 0), Vec(0, 1), Vec(-1, 0), Vec(0, -1)}
Turned(o, v) == Vec(o.x * v.x - o.y * v.y, o.y * v.x + o.x * v.y)
TurnedBack(o, v) == Vec(o.x * v.x + o.y * v.y, o.x * v.y - o.y * v.x)
Product(f) == FoldFunction(LAMBDA m, n : m * n, 1, f)
PowerOf2(k) == Product([i \in 1..k |-> 2])
VectorSum(f) ==
  Vec(SumFunction([e \in DOMAIN f |-> f[e].x]), SumFunction([e \in DOMAIN f |-> f[e].y]))

-----------------------------------------------------------------------------
(* IntrinsicField: the unit disk blurred, its peak one; on the border of   *)
(* the grid the gradient has no component across the border.               *)

Node == 0..2 * Half
Square(n) == n * n
Disk == {w \in [x : -1..1, y : -1..1] : Square(w.x) + Square(w.y) <= 1}
Blurred(x, y) ==
  SumFunction([w \in Disk |-> PowerOf2(12 - Least(12, Square(x - w.x) + Square(y - w.y)))])
Raw == [i \in Node |-> [j \in Node |-> Blurred(i - Half, j - Half)]]
Peak == Max(UNION {Range(Raw[i]) : i \in Node})
Values == [i \in Node |-> [j \in Node |-> (Scale * Raw[i][j]) \div Peak]]

\* The differences along the two axes.
Inner(k) == 0 < k /\ k < 2 * Half
AlongX ==
  [i \in Node |-> [j \in Node |-> IF Inner(i) THEN Values[i + 1][j] - Values[i - 1][j] ELSE 0]]
AlongY ==
  [i \in Node |-> [j \in Node |-> IF Inner(j) THEN Values[i][j + 1] - Values[i][j - 1] ELSE 0]]

One == Scale * Sub * Sub
Outside == [p |-> 0, g |-> Vec(0, 0)]

CellIndex(f) == Largest(0, Least(f \div Sub, 2 * Half - 1))

\* Bilinear interpolation between the four nodes around a point.
Between(lo, hi, s) == lo * (Sub - s) + hi * s
Interpolated(f, fx, fy) ==
  LET i == CellIndex(fx)
      j == CellIndex(fy)
      Along(k) == Between(f[i][k], f[i + 1][k], fx - i * Sub)
  IN  Between(Along(j), Along(j + 1), fy - j * Sub)

Sampled(x, y) ==
  LET At(f) == Interpolated(f, x + Half * Sub, y + Half * Sub)
  IN  [p |-> At(Values), g |-> Vec(At(AlongX), At(AlongY))]

Sample(x, y) ==
  IF AbsOf(x) > Half * Sub \/ AbsOf(y) > Half * Sub THEN Outside ELSE Sampled(x, y)

-----------------------------------------------------------------------------
(* The warps.  e is an encounter: where the neighbor is (rel), the         *)
(* orientation a of the agent and b of the neighbor, the neighbor's speed  *)
(* and the radius of both; q are the uncertainties [lambda, ux, uy].       *)

Spread(s, q) == 1 + q.lambda * Largest(s.t, 0)

BugLocalTurned(s, e) == Turned(e.b, Plus(Turned(e.a, s), Times(-1, e.rel)))

WarpLocal(s, e) == TurnedBack(e.b, Plus(Turned(e.a, s), Times(-1, e.rel)))
WarpVelocity(v, s, e) == Vec(v.x - e.speed * s.t, v.y)
\* The unit disk stands for the bodies of both, a node wide.
WarpRadius(v, e) == Vec(Quot(Sub * v.x, e.radius), Quot(Sub * v.y, e.radius))
BeforeUncertainty(s, e) == WarpRadius(WarpVelocity(WarpLocal(s, e), s, e), e)

ComposeForward(s, e, q) ==
  LET v == BeforeUncertainty(s, e)
  IN  Vec(Quot(v.x, Spread(s, q) * (1 + q.ux)), Quot(v.y * (1 + q.uy), Spread(s, q)))

\* The gradient has a component in time: the field spreads and moves with the
\* neighbor.  The radius does not scale it (B.9).
ComposeGradientInverse(grad, s, e, q) ==
  LET x == Quot(grad.x, 1 + q.ux)
      y == grad.y * (1 + q.uy)
      at == BeforeUncertainty(s, e)
      spreading == Quot(-q.lambda * (at.x * x + at.y * y), Square(Spread(s, q)))
      g == Vec(Quot(x, Spread(s, q)), Quot(y, Spread(s, q)))
      turned == TurnedBack(e.a, Turned(e.b, g))
  IN  [x |-> turned.x, y |-> turned.y, t |-> spreading - e.speed * g.x]

\* p * beta_tu^2 * beta_1 * beta_2
ProbabilityScaled(p, s, q) == (p * (1 + q.uy)) \div (Square(Spread(s, q)) * (1 + q.ux))

\* What one neighbor adds to one sample of the trajectory.
Perceived(s, e, q) ==
  LET at == ComposeForward(s, e, q)
      field == Sample(at.x, at.y)
      p == ProbabilityScaled(field.p, s, q)
  IN  IF p = 0 THEN [p |-> 0, g |-> [x |-> 0, y |-> 0, t |-> 0]]
      ELSE [p |-> p, g |-> ComposeGradientInverse(field.g, s, e, q)]

Coordinates == {"x", "y", "t"}
Unperceived == [p |-> 0, g |-> [x |-> 0, y |-> 0, t |-> 0], over |-> 1]

BugUnionOnce(old, b) ==
  [p |-> old.p * One + b.p * old.over - old.p * b.p,
   g |-> [k \in Coordinates |-> old.g[k] * One + b.g[k] * old.over - old.p * b.g[k]],
   over |-> old.over * One]

\* p + p_b - p p_b and its gradient, over a denominator that grows by One.
Union(old, b) ==
  [p |-> old.p * One + b.p * old.over - old.p * b.p,
   g |-> [k \in Coordinates |->
            old.g[k] * One + b.g[k] * old.over - old.p * b.g[k] - b.p * old.g[k]],
   over |-> old.over * One]

-----------------------------------------------------------------------------
(* Gradient descent: from the samples, each a point r with its probability *)
(* and gradient, to a velocity in the frame of the agent.                  *)

TrajectoryPoint(i, lateral) == [x |-> V0 * (i - 1), y |-> lateral, t |-> i - 1]

Solve(samples) ==
  LET I == DOMAIN samples
      over == samples[1].u.over
      Weighted(f) == SumFunction([i \in I |-> samples[i].u.p * f[i]])
      n == SumFunction([i \in I |-> samples[i].u.p])
      P == Quot(Weighted([i \in I |-> samples[i].u.p]), n)
      G(k) == Quot(Weighted([i \in I |-> samples[i].u.g[k]]), n)
      S(k) == Quot(Weighted([i \in I |-> samples[i].r[k]]), n)
      Q(k) == S(k) - Quot(Quot(P * G(k), over), over * StepSize)
  IN  IF n <= 0 \/ Q("t") <= 0 THEN Vec(V0, 0)
      ELSE Vec(Quot(Q("x"), Q("t")), Quot(Q("y"), Q("t")))
=============================================================================
