------------------------------ MODULE Building ------------------------------
(***************************************************************************)
(* WalkableSurface: level rooms, connectors between their edges, and the   *)
(* geometry made of them.  The triangles of a region do not matter here:   *)
(* they fill its outline, and what fits together, passes through or hangs  *)
(* together is settled by outlines.  A call that throws changes nothing.   *)
(***************************************************************************)
EXTENDS Mesh, SequencesExt

CONSTANTS
  Rooms,            \* <<[rings, height], ...>>, added in this order if at all
  Doors,            \* the segments connect_regions is called with
  MaxConnectors,    \* bound on accepted calls of connect_regions
  MinZSquared,      \* cos(50 degrees), squared, in hundredths
  Areas             \* polygons of stages

VARIABLES
  vertices,   \* _global_vertices
  regions,    \* <<[rings, height], ...>>, rings of vertex ids
  links,      \* the edges of _region_graph: [from, to, seam]
  geometry,   \* [vertices, regions, graph] of the last create_geometry
  offered     \* how many rooms the host has added or left out

vars == <<vertices, regions, links, geometry, offered>>

Inclined == -1    \* nullopt: the region is a connector
NoGeometry == [vertices |-> << >>, regions |-> << >>, graph |-> {}]

Succ(ring, i) == (i % Len(ring)) + 1
RingEdges(ring) == {<<ring[i], ring[Succ(ring, i)]>> : i \in DOMAIN ring}
Reversed(e) == <<e[2], e[1]>>
RingsOf(region) == Range(region.rings)
EdgesOf(region) == UNION {RingEdges(ring) : ring \in RingsOf(region)}
CornersOf(region) == UNION {Range(ring) : ring \in RingsOf(region)}

-----------------------------------------------------------------------------
(* Polygons of the plane, given as rings of points                         *)

IsSimple(ring) ==
  \A i, j \in DOMAIN ring : i < j =>
    LET p == ring[i]
        q == ring[Succ(ring, i)]
        r == ring[j]
        s == ring[Succ(ring, j)]
    IN  CASE SameXY(p, r) -> FALSE
          [] Succ(ring, i) = j -> Side(p, q, s) # 0 \/ Between(p, s, q)
          [] Succ(ring, j) = i -> Side(r, p, q) # 0 \/ Between(r, q, p)
          [] OTHER -> ~SegmentsIntersect(p, q, r, s)

\* Seen from its lowest leftmost corner a simple ring turns one way.
IsCounterclockwise(ring) ==
  LET i == CHOOSE i \in DOMAIN ring : \A j \in DOMAIN ring :
             ring[i][1] < ring[j][1] \/ (ring[i][1] = ring[j][1] /\ ring[i][2] <= ring[j][2])
      before == CHOOSE j \in DOMAIN ring : Succ(ring, j) = i
  IN  Side(ring[before], ring[i], ring[Succ(ring, i)]) > 0

\* Does a point, given times a factor, lie in an area or on its border?  Of
\* nested rings every other bounds it from inside.
Covers(edges, factor, p) ==
  LET Scaled(e) == <<[i \in 1..2 |-> factor * e[1][i]], [i \in 1..2 |-> factor * e[2][i]]>>
      all == {Scaled(e) : e \in edges}
  IN  \/ \E e \in all : Side(e[1], e[2], p) = 0 /\ Between(e[1], e[2], p)
      \/ Cardinality({e \in all :
           \/ e[1][2] <= p[2] /\ p[2] < e[2][2] /\ Side(e[1], e[2], p) > 0
           \/ e[2][2] <= p[2] /\ p[2] < e[1][2] /\ Side(e[1], e[2], p) < 0}) % 2 = 1

AnyMeet(edges, others) ==
  \E e \in edges, f \in others : SegmentsIntersect(e[1], e[2], f[1], f[2])

Disjoint(edges, others) ==
  /\ ~AnyMeet(edges, others)
  /\ \A e \in edges : ~Covers(others, 1, e[1])
  /\ \A f \in others : ~Covers(edges, 1, f[1])

-----------------------------------------------------------------------------
(* Regions in space                                                        *)

PointsOf(points, ring) == [i \in DOMAIN ring |-> points[ring[i]]]
Footprint(points, region) == {<<points[e[1]], points[e[2]]>> : e \in EdgesOf(region)}

Upward(n) == IF n[3] < 0 THEN [i \in 1..3 |-> -n[i]] ELSE n

\* Three corners of a connector may lie on a line.
ConnectorNormal(p) ==
  LET Spanned(i) == Product(Minus(p[2], p[1]), Minus(p[i], p[1]))
  IN  Upward(Shortened(IF Spanned(3) = <<0, 0, 0>> THEN Spanned(4) ELSE Spanned(3)))

NormalOf(points, region) ==
  IF region.height = Inclined THEN ConnectorNormal(PointsOf(points, region.rings[1]))
  ELSE <<0, 0, 1>>

IsWalkableNormal(n) == 100 * n[3] * n[3] >= MinZSquared * Dot(n, n)

\* Positive above the plane of a region, in units of its own.
Above(points, region, p) ==
  Dot(NormalOf(points, region), Minus(p, points[region.rings[1][1]]))

\* The edges around a region with the region on their left, whatever way round
\* its rings were given; a ring within a ring is a hole.
Outline(points, region) ==
  LET Within(ring) == {other \in RingsOf(region) \ {ring} :
                         Covers({<<points[e[1]], points[e[2]]>> : e \in RingEdges(other)}, 1,
                                points[ring[1]])}
      Turned(ring) ==
        IF IsCounterclockwise(PointsOf(points, ring)) = (Cardinality(Within(ring)) % 2 = 0)
        THEN RingEdges(ring) ELSE {Reversed(e) : e \in RingEdges(ring)}
  IN  UNION {Turned(ring) : ring \in RingsOf(region)}

Glued(points, region, other) ==
  \E e \in Outline(points, region) : Reversed(e) \in Outline(points, other)

\* Does an edge of one region meet another one anywhere but in a common corner?
Pierces(points, e, region) ==
  LET at == [i \in 1..2 |-> Above(points, region, points[e[i]])]
      Length(n) == IF n < 0 THEN -n ELSE n
      factor == Length(at[1]) + Length(at[2])
      met == [k \in 1..2 |-> points[e[1]][k] * Length(at[2]) + points[e[2]][k] * Length(at[1])]
  IN  \/ at[1] * at[2] < 0 /\ Covers(Footprint(points, region), factor, met)
      \/ \E i \in 1..2 : /\ at[i] = 0 /\ e[i] \notin CornersOf(region)
                         /\ Covers(Footprint(points, region), 1, points[e[i]])
      \/ /\ at[1] = 0 /\ at[2] = 0
         /\ \E f \in EdgesOf(region) :
              /\ {e[1], e[2]} \cap {f[1], f[2]} = {}
              /\ SegmentsIntersect(points[e[1]], points[e[2]], points[f[1]], points[f[2]])

BugOneWay(points, region, other) == \E e \in EdgesOf(region) : Pierces(points, e, other)

PassThrough(points, region, other) ==
  \/ \E e \in EdgesOf(region) : Pierces(points, e, other)
  \/ \E e \in EdgesOf(other) : Pierces(points, e, region)

-----------------------------------------------------------------------------
(* add_region                                                              *)

\* A ring may name its first point again at the end.
Opened(ring) == IF Len(ring) > 1 /\ ring[1] = Last(ring) THEN Front(ring) ELSE ring

Accepted(room) ==
  LET edges == UNION {RingEdges(Opened(ring)) : ring \in RingsOf(room)}
  IN  /\ \A ring \in RingsOf(room) : Len(Opened(ring)) >= 3 /\ IsSimple(Opened(ring))
      /\ \A r \in DOMAIN regions :
           regions[r].height = room.height => Disjoint(edges, Footprint(vertices, regions[r]))

\* The corners of a room, ring after ring, are new vertices.
AddRegion ==
  /\ offered < Len(Rooms)
  /\ \E room \in {Rooms[offered + 1]} :
       /\ Accepted(room)
       /\ LET rings == [k \in DOMAIN room.rings |-> Opened(room.rings[k])]
              all == FlattenSeq(rings)
              before == [k \in DOMAIN rings |->
                           Len(vertices) + Len(FlattenSeq(SubSeq(rings, 1, k - 1)))]
          IN  /\ vertices' = vertices \o [i \in DOMAIN all |-> all[i] \o <<room.height>>]
              /\ regions' = Append(regions,
                   [rings |-> [k \in DOMAIN rings |-> [i \in DOMAIN rings[k] |-> before[k] + i]],
                    height |-> room.height])
  /\ offered' = offered + 1
  /\ UNCHANGED <<links, geometry>>

LeaveOut ==
  /\ offered < Len(Rooms) /\ offered' = offered + 1
  /\ UNCHANGED <<vertices, regions, links, geometry>>

-----------------------------------------------------------------------------
(* connect_regions                                                         *)

At(v) == <<vertices[v][1], vertices[v][2]>>

\* The corners of the edge of a region a segment names, in the order of the
\* segment; none if it names no edge.
FindEdge(region, segment) ==
  {e \in EdgesOf(regions[region]) \cup {Reversed(e) : e \in EdgesOf(regions[region])} :
     At(e[1]) = segment[1] /\ At(e[2]) = segment[2]}

\* The segments that name an edge of a region: every other call throws.
DoorsOf(r) == {door \in Doors : FindEdge(r, door) # {}}

BugAsGiven(from, to) == from

\* The sides of a connector must not cross.
Facing(from, to) ==
  IF SegmentsIntersect(from[2], to[1], to[2], from[1]) THEN Reversed(from) ELSE from

\* The seams of the connector that a call makes; none if it throws.
Connecting(r, from, s, to) ==
  IF regions[r].height = Inclined \/ regions[s].height = Inclined \/ r = s THEN {}
  ELSE {seams \in FindEdge(r, Facing(from, to)) \X FindEdge(s, to) :
          LET ring == seams[1] \o seams[2]
              corners == PointsOf(vertices, ring)
          IN  /\ IsSimple(corners)
              /\ Dot(ConnectorNormal(corners), Minus(corners[3], corners[1])) = 0
              /\ Dot(ConnectorNormal(corners), Minus(corners[4], corners[1])) = 0
              /\ IsWalkableNormal(ConnectorNormal(corners))}

Connectors == {r \in DOMAIN regions : regions[r].height = Inclined}

ConnectRegions(r, from, s, to) ==
  /\ Cardinality(Connectors) < MaxConnectors
  /\ \E seams \in Connecting(r, from, s, to) :
       /\ regions' = Append(regions, [rings |-> <<seams[1] \o seams[2]>>, height |-> Inclined])
       /\ links' = links \o <<[from |-> r, to |-> Len(regions) + 1, seam |-> seams[1]],
                              [from |-> Len(regions) + 1, to |-> s, seam |-> seams[2]]>>
  /\ UNCHANGED <<vertices, geometry, offered>>

-----------------------------------------------------------------------------
(* create_geometry                                                         *)

OutlineOf(r) == Outline(vertices, regions[r])

\* Rings of a region that meet each other cannot be triangulated.
RingsApart(region) ==
  \A i, j \in DOMAIN region.rings : i < j =>
    ~AnyMeet({<<vertices[e[1]], vertices[e[2]]>> : e \in RingEdges(region.rings[i])},
             {<<vertices[e[1]], vertices[e[2]]>> : e \in RingEdges(region.rings[j])})

\* add_face: a halfedge has one face.
Fits == \A r, s \in DOMAIN regions : r < s => OutlineOf(r) \cap OutlineOf(s) = {}

SelfIntersects ==
  \E r, s \in DOMAIN regions : r < s /\ PassThrough(vertices, regions[r], regions[s])

\* One connected component.
Connected ==
  LET reached[n \in Nat] ==
        IF n = 0 THEN {1}
        ELSE UNION {known \cup {s \in DOMAIN regions :
                       \E r \in known : Glued(vertices, regions[r], regions[s])} :
                      known \in {reached[n - 1]}}
  IN  reached[Len(regions)] = DOMAIN regions

NormaliseAndValidate ==
  /\ regions # << >>
  /\ \A r \in DOMAIN regions : IsWalkableNormal(NormalOf(vertices, regions[r]))
  /\ ~SelfIntersects
  /\ Connected

\* The footprints as stored for a region graph: the boundary counterclockwise,
\* holes clockwise.
Oriented(points, region) ==
  [k \in DOMAIN region.rings |->
     IF IsCounterclockwise(PointsOf(points, region.rings[k])) = (k = 1)
     THEN region.rings[k] ELSE Reverse(region.rings[k])]

\* Where a seam is found again in a footprint, by its points.
FindSeamEdge(r, seam) ==
  LET rings == Oriented(vertices, regions[r])
  IN  {<<k, i>> \in (DOMAIN rings) \X (1..Len(vertices)) :
         /\ i \in DOMAIN rings[k]
         /\ {At(rings[k][i]), At(rings[k][Succ(rings[k], i)])} = {At(seam[1]), At(seam[2])}}

BugOneDirection(link) ==
  {[from |-> link.from, to |-> link.to, edge |-> edge] : edge \in FindSeamEdge(link.from, link.seam)}

\* A seam leads both ways.
SeamEdges(link) ==
  {[from |-> link.from, to |-> link.to, edge |-> edge] : edge \in FindSeamEdge(link.from, link.seam)}
    \cup {[from |-> link.to, to |-> link.from, edge |-> edge] : edge \in FindSeamEdge(link.to, link.seam)}

CreateGeometry ==
  /\ \A r \in DOMAIN regions : RingsApart(regions[r])
  /\ Fits
  /\ NormaliseAndValidate
  /\ geometry' = [vertices |-> vertices, regions |-> regions,
                  graph |-> UNION {SeamEdges(link) : link \in Range(links)}]
  /\ UNCHANGED <<vertices, regions, links, offered>>

-----------------------------------------------------------------------------
(* split_into_region_pieces, for the area of a stage                       *)

Built == geometry # NoGeometry
Place(v) == geometry.vertices[v]
GeometryOutline(r) == Outline(geometry.vertices, geometry.regions[r])
GeometryFootprint(r) == Footprint(geometry.vertices, geometry.regions[r])

SeamSegment(edge) ==
  LET ring == Oriented(geometry.vertices, geometry.regions[edge.from])[edge.edge[1]]
  IN  <<ring[edge.edge[2]], ring[Succ(ring, edge.edge[2])]>>

BugMeetsInside(area, p, q) == Covers(RingEdges(area), 1, p) \/ Covers(RingEdges(area), 1, q)

Meets(area, p, q) == Covers(RingEdges(area), 1, p) \/ AnyMeet(RingEdges(area), {<<p, q>>})

DoIntersect(area, r) == ~Disjoint(RingEdges(area), GeometryFootprint(r))

\* The regions whose pieces are added, out from the seed.
Pieces(area, seed) ==
  LET found[n \in Nat] ==
        IF n = 0 THEN {seed}
        ELSE UNION {seen \cup {edge.to : edge \in {edge \in geometry.graph :
                       /\ edge.from \in seen
                       /\ Meets(area, Place(SeamSegment(edge)[1]), Place(SeamSegment(edge)[2]))}} :
                      seen \in {found[n - 1]}}
  IN  IF DoIntersect(area, seed) THEN found[Len(geometry.regions)] ELSE {}

-----------------------------------------------------------------------------
Init ==
  /\ vertices = << >> /\ regions = << >> /\ links = << >>
  /\ geometry = NoGeometry
  /\ offered = 0

\* Bounds: the host adds its rooms before it connects them, and creates one
\* geometry; later calls do not reach it.
Next ==
  /\ ~Built
  /\ \/ AddRegion
     \/ LeaveOut
     \/ /\ offered = Len(Rooms)
        /\ \E r, s \in DOMAIN regions : \E from \in DoorsOf(r), to \in DoorsOf(s) : ConnectRegions(r, from, s, to)
     \/ CreateGeometry

Spec == Init /\ [][Next]_vars

-----------------------------------------------------------------------------
TypeOK ==
  /\ vertices \in Seq(Int \X Int \X Int)
  /\ \A r \in DOMAIN regions :
       /\ CornersOf(regions[r]) \subseteq DOMAIN vertices
       /\ \A v \in CornersOf(regions[r]) : regions[r].height \in {vertices[v][3], Inclined}
  /\ \A link \in Range(links) : {link.from, link.to} \subseteq DOMAIN regions
  /\ offered \in 0..Len(Rooms)

RegionsOfGeometry == DOMAIN geometry.regions

\* "The exact 2D footprint of every region and the seams between them": the
\* seams a floor field is propagated across are the edges where the triangles
\* of two regions meet, both ways, each with its region on the left.
GraphMatchesMesh ==
  Built =>
    {<<edge.from, edge.to, SeamSegment(edge)>> : edge \in geometry.graph} =
      UNION {{<<r, s, e>> : e \in {e \in GeometryOutline(r) : Reversed(e) \in GeometryOutline(s)}} :
               r, s \in RegionsOfGeometry}

\* What rooms and connectors are kept as is one surface.
SeamsSound == TypeOK /\ GraphMatchesMesh

\* A connector joins two edges whichever way round the caller names them.
DirectionsDoNotMatter ==
  \A r, s \in DOMAIN regions : r # s =>
    \A from \in DoorsOf(r), to \in DoorsOf(s) :
      \E made \in {{Range(seams[1] \o seams[2]) : seams \in Connecting(r, from, s, to)}} :
        /\ made = {Range(seams[1] \o seams[2]) : seams \in Connecting(r, Reversed(from), s, to)}
        /\ made = {Range(seams[1] \o seams[2]) : seams \in Connecting(s, to, r, from)}

\* Of two regions of a geometry one is above the other, and stays above it from
\* each square of the plane to the next.
Squares == {<<x, y>> \in (-1..15) \X (-3..9) : TRUE}
CoversSquare(r, square) ==
  Covers(GeometryFootprint(r), 2, <<2 * square[1] + 1, 2 * square[2] + 1>>)
HeightAbove(r, s, square) ==
  LET n == NormalOf(geometry.vertices, geometry.regions[r])
      k == NormalOf(geometry.vertices, geometry.regions[s])
      Height(region, normal) ==   \* doubled, times the normal's share of the vertical
        LET base == Place(region.rings[1][1])
        IN  2 * base[3] * normal[3] - normal[1] * (2 * square[1] + 1 - 2 * base[1])
              - normal[2] * (2 * square[2] + 1 - 2 * base[2])
  IN  Sign(Height(geometry.regions[r], n) * k[3] - Height(geometry.regions[s], k) * n[3])

StoreysApart ==
  Built =>
    \A r, s \in RegionsOfGeometry : r < s =>
      \E common \in {{square \in Squares : CoversSquare(r, square) /\ CoversSquare(s, square)}} :
        \A square \in common :
          /\ HeightAbove(r, s, square) # 0
          /\ \A next \in {<<square[1] + 1, square[2]>>, <<square[1], square[2] + 1>>} \cap common :
               HeightAbove(r, s, next) = HeightAbove(r, s, square)

\* "The region seeds the search; regions joined to it by seams inside p follow",
\* a seam being an edge where the triangles of two regions meet.
HasPointIn(e, area) ==
  \/ AnyMeet(RingEdges(area), {<<Place(e[1]), Place(e[2])>>})
  \/ \E i \in 1..2 : Covers(RingEdges(area), 1, Place(e[i]))

PiecesFollow ==
  Built =>
    \A area \in Areas, seed \in RegionsOfGeometry :
      \E pieces \in {Pieces(area, seed)} :
        /\ (pieces # {}) <=> DoIntersect(area, seed)
        /\ \A r \in pieces, s \in RegionsOfGeometry \ pieces :
             \A e \in GeometryOutline(r) : Reversed(e) \in GeometryOutline(s) => ~HasPointIn(e, area)
=============================================================================
