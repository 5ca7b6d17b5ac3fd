-------------------------------- MODULE Mesh --------------------------------
(***************************************************************************)
(* The triangle mesh of a walkable surface and its projection to the       *)
(* plane, with exact predicates on whole numbers as CGAL's are exact.      *)
(*                                                                         *)
(* A mesh is [points, faces, opposite, normal]: points are <<x, y, z>>, a  *)
(* face is the triple of its vertices, counterclockwise seen from above,   *)
(* a halfedge <<face, i>> leads from the i-th vertex of the face to the    *)
(* next.                                                                   *)
(***************************************************************************)
EXTENDS Integers, Sequences, FiniteSets, FiniteSetsExt

Border == <<0, 0>>

Sign(n) == IF n > 0 THEN 1 ELSE IF n < 0 THEN -1 ELSE 0

FacesOf(m) == DOMAIN m.faces
HalfedgesOf(m, f) == {f} \X (1..3)
From(m, h) == m.faces[h[1]][h[2]]
To(m, h) == m.faces[h[1]][(h[2] % 3) + 1]
FaceOf(h) == h[1]

Minus(p, q) == <<p[1] - q[1], p[2] - q[2], p[3] - q[3]>>
Dot(v, w) == v[1] * w[1] + v[2] * w[2] + v[3] * w[3]
Product(v, w) ==
  <<v[2] * w[3] - v[3] * w[2], v[3] * w[1] - v[1] * w[3], v[1] * w[2] - v[2] * w[1]>>

\* Only the direction of a normal matters: it is kept as short as it can be.
Shortened(v) ==
  LET Length(n) == IF n < 0 THEN -n ELSE n
      divisor == Max({d \in 1..(Length(v[1]) + Length(v[2]) + Length(v[3])) :
                        \A i \in 1..3 : v[i] % d = 0})
  IN  [i \in 1..3 |-> v[i] \div divisor]

\* The mesh of points and faces; a halfedge without an opposite is a wall.
MeshOf(points, faces) ==
  LET m == [points |-> points, faces |-> faces]
      all == (DOMAIN faces) \X (1..3)
      Reverse(h) == {g \in all : From(m, g) = To(m, h) /\ To(m, g) = From(m, h)}
  IN  [points |-> points, faces |-> faces,
       opposite |-> [h \in all |-> IF Reverse(h) = {} THEN Border ELSE CHOOSE g \in Reverse(h) : TRUE],
       normal |-> [f \in DOMAIN faces |->
                     Shortened(Product(Minus(points[faces[f][2]], points[faces[f][1]]),
                                       Minus(points[faces[f][3]], points[faces[f][1]])))]]

Neighbors(m, f) == {FaceOf(m.opposite[h]) : h \in HalfedgesOf(m, f)} \ {0}

Cross(p, q, r) == (q[1] - p[1]) * (r[2] - p[2]) - (q[2] - p[2]) * (r[1] - p[1])

\* 1 if r lies to the left of the line from p to q, -1 to the right, 0 on it.
Side(p, q, r) == Sign(Cross(p, q, r))

SameXY(p, q) == p[1] = q[1] /\ p[2] = q[2]

\* r is known to lie on the line through p and q: is it between them?
Between(p, q, r) ==
  (r[1] - p[1]) * (r[1] - q[1]) + (r[2] - p[2]) * (r[2] - q[2]) <= 0

BugOnlyCrossings(p, q, r, s) ==
  Side(p, q, r) * Side(p, q, s) < 0 /\ Side(r, s, p) * Side(r, s, q) < 0

SegmentsIntersect(p, q, r, s) ==
  \/ Side(p, q, r) * Side(p, q, s) < 0 /\ Side(r, s, p) * Side(r, s, q) < 0
  \/ Side(p, q, r) = 0 /\ Between(p, q, r)
  \/ Side(p, q, s) = 0 /\ Between(p, q, s)
  \/ Side(r, s, p) = 0 /\ Between(r, s, p)
  \/ Side(r, s, q) = 0 /\ Between(r, s, q)

-----------------------------------------------------------------------------
(* projected_boundary: the certificate that a region is single-valued      *)

\* The halfedges of a set of faces that lead out of it or to a wall.
RegionBoundary(m, region) ==
  {h \in region \X (1..3) : FaceOf(m.opposite[h]) \notin region}

\* Two segments out of one vertex overlap beyond it only if they leave it in
\* the same direction; others may not meet at all.
PairViolates(m, g, h) ==
  LET shared == {From(m, g), To(m, g)} \cap {From(m, h), To(m, h)}
      Other(e, v) == IF From(m, e) = v THEN m.points[To(m, e)] ELSE m.points[From(m, e)]
  IN  IF shared = {}
      THEN SegmentsIntersect(m.points[From(m, g)], m.points[To(m, g)],
                             m.points[From(m, h)], m.points[To(m, h)])
      ELSE LET v == CHOOSE v \in shared : TRUE
               p == m.points[v]
               q == Other(g, v)
               r == Other(h, v)
           IN  Side(p, q, r) = 0 /\ ~Between(q, r, p)

IsProjectionStrictlySimple(m, boundary) ==
  \E edges \in {boundary} :
    /\ \A h \in edges : ~SameXY(m.points[From(m, h)], m.points[To(m, h)])
    /\ \A v \in {From(m, h) : h \in edges} :
         Cardinality({h \in edges : From(m, h) = v}) + Cardinality({h \in edges : To(m, h) = v}) <= 2
    /\ \A g, h \in edges : g # h => ~PairViolates(m, g, h)

-----------------------------------------------------------------------------
(* What the projection of the faces should be like                         *)

Corner(m, f, i) == m.points[m.faces[f][i]]

\* Two triangles have no inner point in common iff an edge of one of them has
\* the other on its right.
Beside(m, f, g) ==
  \E i \in 1..3 : \A j \in 1..3 :
    Side(Corner(m, f, i), Corner(m, f, (i % 3) + 1), Corner(m, g, j)) <= 0
InnerDisjoint(m, f, g) == Beside(m, f, g) \/ Beside(m, g, f)
=============================================================================
