------------------------------- MODULE Surface -------------------------------
(***************************************************************************)
(* Agents on a surface that has been split into regions: where a point of  *)
(* the plane lies on it, where a straight step over its faces ends, whether *)
(* there is a wall in between, and which walls are seen through the seams  *)
(* between regions.                                                        *)
(***************************************************************************)
EXTENDS RegionSplit, SegmentGrid, SequencesExt

CONSTANTS
  Explored,        \* the meshes somebody walks on
  Places(_),       \* the points of the plane of a mesh that are tried
  Rays,            \* directions of sight
  Radius,          \* maximum_distance
  MaxWindowDepth,  \* max_window_depth
  NearZTolerance   \* a tolerance of get_location_near_z

VARIABLES
  filed,   \* the cells of a wall, of all walls of the surface
  who,     \* a Location: a point of the plane and the face it is on
  sight    \* [at, pending, parts] of PortalBoundaryIndex::query

surfaceVars == <<filed, who, sight>>
allVars == <<vars, surfaceVars>>

XY(m, v) == <<m.points[v][1], m.points[v][2]>>
Plus(p, d) == <<p[1] + d[1], p[2] + d[2]>>
Toward(p, q) == <<q[1] - p[1], q[2] - p[2]>>

\* Region ids are given out in the order of their first faces.
RegionOf(f) == patches[root[patchOf[f]]].seed
RegionIds == {patches[p].seed : p \in Alive}

-----------------------------------------------------------------------------
(* straight_walk                                                           *)

Covers(m, f, q) == \A h \in HalfedgesOf(m, f) : Side(m.points[From(m, h)], m.points[To(m, h)], q) >= 0

\* The height of a face above a point of the plane, as a fraction.
PointOnFace(m, f, q) ==
  LET v(i) == Corner(m, f, i)
      denom == Cross(v(1), v(2), v(3))
      b1 == Cross(v(1), q, v(3))
      b2 == Cross(v(1), v(2), q)
  IN  <<(denom - b1 - b2) * v(1)[3] + b1 * v(2)[3] + b2 * v(3)[3], denom>>
SameHeight(one, other) == one[1] * other[2] = other[1] * one[2]

\* The faces around a vertex a direction leads into: CGAL takes the first it
\* meets, which may be any.
BugStrictSector(m, v, direction) ==
  {f \in FacesOf(m) : \E i \in 1..3 :
     /\ m.faces[f][i] = v
     /\ Side(XY(m, v), XY(m, m.faces[f][(i % 3) + 1]), Plus(XY(m, v), direction)) > 0
     /\ Side(XY(m, m.faces[f][((i + 1) % 3) + 1]), XY(m, v), Plus(XY(m, v), direction)) > 0}

FanFaces(m, v, direction) ==
  {f \in FacesOf(m) : \E i \in 1..3 :
     /\ m.faces[f][i] = v
     /\ Side(XY(m, v), XY(m, m.faces[f][(i % 3) + 1]), Plus(XY(m, v), direction)) >= 0
     /\ Side(XY(m, m.faces[f][((i + 1) % 3) + 1]), XY(m, v), Plus(XY(m, v), direction)) >= 0}

\* The vertices of a face that lie ahead, or where the walk starts.
VerticesAhead(m, w) ==
  {v \in {m.faces[w.face][i] : i \in 1..3} \ {w.last} :
     /\ Side(w.from, w.to, XY(m, v)) = 0
     /\ LET d == Toward(w.from, w.to)
            e == Toward(w.from, XY(m, v))
        IN  d[1] * e[1] + d[2] * e[2] >= 0}

ForwardExits(m, w) ==
  {h \in HalfedgesOf(m, w.face) :
     Side(w.from, w.to, XY(m, From(m, h))) = -1 /\ Side(w.from, w.to, XY(m, To(m, h))) = 1}

ThroughEdge(m, w, h) ==
  IF m.opposite[h] = Border THEN [w EXCEPT !.at = "left", !.wall = h]
  ELSE [w EXCEPT !.face = FaceOf(m.opposite[h])]

\* One iteration of the loop.
Advance(m, w) ==
  CASE w.at # "walking" -> {w}
    [] w.at = "walking" /\ Covers(m, w.face, w.to) -> {[w EXCEPT !.at = "arrived"]}
    [] OTHER ->
       IF VerticesAhead(m, w) # {}
       THEN UNION {IF FanFaces(m, v, Toward(w.from, w.to)) = {} THEN {[w EXCEPT !.at = "left"]}
                   ELSE {[w EXCEPT !.face = f, !.last = v] : f \in FanFaces(m, v, Toward(w.from, w.to))} :
                     v \in VerticesAhead(m, w)}
       ELSE IF ForwardExits(m, w) = {} THEN {[w EXCEPT !.at = "no exit"]}
       ELSE {ThroughEdge(m, w, h) : h \in ForwardExits(m, w)}

\* Every way the walk can end; one that is still walking did not converge.
StraightWalk(m, face, from, to) ==
  LET after[n \in Nat] ==
        IF n = 0 THEN {[at |-> "walking", face |-> face, from |-> from, to |-> to, last |-> 0,
                        wall |-> Border]}
        ELSE UNION {Advance(m, w) : w \in after[n - 1]}
  IN  after[Len(m.faces) + 2]

-----------------------------------------------------------------------------
(* Geometry                                                                *)

FacesAt(xy) == {f \in FacesOf(mesh) : Covers(mesh, f, xy)}

InOrder(set, Before(_, _)) ==
  [i \in 1..Cardinality(set) |->
     CHOOSE x \in set : Cardinality({y \in set : Before(y, x)}) = i - 1]

\* In the order of regions, then of faces.
FacesInOrder(xy) ==
  InOrder(FacesAt(xy),
          LAMBDA f, g : RegionOf(f) < RegionOf(g) \/ (RegionOf(f) = RegionOf(g) /\ f < g))

LocateInRegion(region, xy) ==
  LET there == {f \in FacesAt(xy) : RegionOf(f) = region}
  IN  IF there = {} THEN 0 ELSE Min(there)

\* The face whose height deviates least from a height; the first in order of
\* those that deviate alike.
LocateNearZ(xy, z, tolerance) ==
  LET faces == FacesInOrder(xy)
      Deviation(f) == LET at == PointOnFace(mesh, f, xy)
                      IN  <<Abs(at[1] * z[2] - z[1] * at[2]), at[2] * z[2]>>
      Less(one, other) == one[1] * other[2] < other[1] * one[2]
      near == {i \in DOMAIN faces : Less(Deviation(faces[i]), <<tolerance, 1>>)}
      best == {i \in near : \A k \in near : ~Less(Deviation(faces[k]), Deviation(faces[i]))}
  IN  IF near = {} THEN 0 ELSE faces[Min(best)]

WallsOf(region) == {h \in UNION {HalfedgesOf(mesh, f) : f \in {f \in FacesOf(mesh) : RegionOf(f) = region}} :
                      mesh.opposite[h] = Border}

\* A seam is stored once per direction, at the region it leaves.
SeamsOf(region) ==
  {h \in UNION {HalfedgesOf(mesh, f) : f \in {f \in FacesOf(mesh) : RegionOf(f) = region}} :
     mesh.opposite[h] # Border /\ RegionOf(FaceOf(mesh.opposite[h])) # region}

Meets(p, q, h) == SegmentsIntersect(p, q, mesh.points[From(mesh, h)], mesh.points[To(mesh, h)])

\* The regions a straight step may end in; none if a wall stops it.
RegionsReached(loc, to) ==
  LET region == RegionOf(loc.face)
  IN  IF \E seam \in SeamsOf(region) : Meets(loc.xy, to, seam)
      THEN {RegionOf(w.face) : w \in {w \in StraightWalk(mesh, loc.face, loc.xy, to) : w.at = "arrived"}}
      ELSE IF IntersectsAny(mesh, [h \in WallsOf(region) |-> filed[h]], loc.xy, to)
           THEN {} ELSE {region}

-----------------------------------------------------------------------------
(* PortalBoundaryIndex: a stretch of a wall or a seam that is seen is the   *)
(* set of the rays that see it                                             *)

Area(v, w) == v[1] * w[2] - v[2] * w[1]
Square(n) == n * n

\* Where a ray meets the line of a halfedge, as a multiple of its direction.
Reach(q, d, h) ==
  LET a == XY(mesh, From(mesh, h))
      along == Toward(a, XY(mesh, To(mesh, h)))
  IN  <<Sign(Area(d, along)) * Area(Toward(q, a), along), Abs(Area(d, along))>>
Nearer(one, other) == one[1] * other[2] < other[1] * one[2]

Strikes(q, d, h) ==
  /\ Side(q, Plus(q, d), XY(mesh, From(mesh, h))) * Side(q, Plus(q, d), XY(mesh, To(mesh, h))) < 0
  /\ Reach(q, d, h)[1] > 0

WithinRadius(q, d, h) ==
  Square(Reach(q, d, h)[1]) * (Square(d[1]) + Square(d[2])) <= Square(Radius * Reach(q, d, h)[2])

\* dist_to(q) <= Radius.
InDisc(q, h) ==
  LET a == XY(mesh, From(mesh, h))
      b == XY(mesh, To(mesh, h))
      Norm(v) == Square(v[1]) + Square(v[2])
      foot == Toward(a, q)[1] * Toward(a, b)[1] + Toward(a, q)[2] * Toward(a, b)[2]
  IN  \/ Norm(Toward(q, a)) <= Square(Radius)
      \/ Norm(Toward(q, b)) <= Square(Radius)
      \/ /\ foot >= 0 /\ foot <= Norm(Toward(a, b))
         /\ Square(Area(Toward(a, q), Toward(a, b))) <= Square(Radius) * Norm(Toward(a, b))

\* What is opaque in a region; a line through the agent hides nothing.
Opaque(q, region) ==
  {h \in WallsOf(region) \cup SeamsOf(region) :
     InDisc(q, h) /\ Side(XY(mesh, From(mesh, h)), XY(mesh, To(mesh, h)), q) # 0}

IsSeam(h) == mesh.opposite[h] # Border
Behind(seam) == RegionOf(FaceOf(mesh.opposite[seam]))

\* A look into a region through the rays that have been let through a window.
WindowJob(region, depth, seam, rays) ==
  [region |-> region, depth |-> depth, seam |-> seam, rays |-> rays]

\* The seam a look enters through, found again among those of the region.
Entering(q, job) ==
  {h \in Opaque(q, job.region) :
     /\ job.seam # Border /\ IsSeam(h)
     /\ Behind(h) = RegionOf(FaceOf(job.seam))
     /\ XY(mesh, From(mesh, h)) = XY(mesh, To(mesh, job.seam))
     /\ XY(mesh, To(mesh, h)) = XY(mesh, From(mesh, job.seam))}

BugNearSideKept(q, job, d, h) == TRUE

\* What lies on the near side of the line of the window is the surface folding
\* back over ground the ray has covered already.
BeyondWindow(q, job, d, h) ==
  job.seam # Border => ~Nearer(Reach(q, d, h), Reach(q, d, job.seam))

Struck(q, job, d) ==
  LET met == {h \in Opaque(q, job.region) \ Entering(q, job) :
                Strikes(q, d, h) /\ BeyondWindow(q, job, d, h)}
      nearest == {h \in met : \A g \in met : ~Nearer(Reach(q, d, g), Reach(q, d, h))}
  IN  IF \E h \in nearest : IsSeam(h) THEN {h \in nearest : IsSeam(h)} ELSE nearest

\* The pieces of walls and of seams that one job sees.
SeenBy(q, job) == UNION {{<<h, d>> : h \in Struck(q, job, d)} : d \in job.rays}

\* The rays of a job that go on through a seam.
RaysThrough(q, job, h) == {d \in job.rays : h \in Struck(q, job, d)}

\* A window out of reach opens on nothing that would be kept.
Windows(q, job) ==
  {WindowJob(Behind(h), job.depth + 1, h, RaysThrough(q, job, h)) :
     h \in {h \in {piece[1] : piece \in SeenBy(q, job)} :
              /\ IsSeam(h) /\ job.depth < MaxWindowDepth
              /\ \E d \in RaysThrough(q, job, h) : WithinRadius(q, d, h)}}

\* Walls that coincide are one answer.
Plain(h) == {XY(mesh, From(mesh, h)), XY(mesh, To(mesh, h))}
Answer(q, parts) == {<<Plain(part[1]), part[2]>> : part \in {p \in parts : WithinRadius(q, p[2], p[1])}}

-----------------------------------------------------------------------------
Nobody == [xy |-> <<0, 0>>, face |-> 0]
Blind == [at |-> "idle", pending |-> << >>, parts |-> {}]

AllWalls == {h \in UNION {HalfedgesOf(mesh, f) : f \in FacesOf(mesh)} : mesh.opposite[h] = Border}
BuildDone == sweep.at = "done" /\ mesh \in Explored /\ DOMAIN filed = AllWalls
Idle == BuildDone /\ sight = Blind

\* Rays that pass through a vertex graze something; the answer may omit it.
RaysFrom(q) == {d \in Rays : \A v \in DOMAIN mesh.points : Side(q, Plus(q, d), XY(mesh, v)) # 0}

FileWall ==
  /\ sweep.at = "done" /\ mesh \in Explored /\ DOMAIN filed # AllWalls
  /\ LET h == CHOOSE h \in AllWalls \ DOMAIN filed : TRUE
     IN  \E cells \in PossibleCells(XY(mesh, From(mesh, h)), XY(mesh, To(mesh, h))) :
           filed' = [g \in DOMAIN filed \cup {h} |-> IF g = h THEN cells ELSE filed[g]]
  /\ UNCHANGED <<vars, who, sight>>

GetLocation(xy, region) ==
  /\ Idle /\ LocateInRegion(region, xy) # 0
  /\ who' = [xy |-> xy, face |-> LocateInRegion(region, xy)]
  /\ UNCHANGED <<vars, filed, sight>>

\* A step that would leave the surface throws and changes nothing.
MoveOnSurface(to) ==
  /\ Idle /\ who # Nobody
  /\ \E w \in StraightWalk(mesh, who.face, who.xy, to) :
       w.at = "arrived" /\ who' = [xy |-> to, face |-> w.face]
  /\ UNCHANGED <<vars, filed, sight>>

StartQuery ==
  /\ Idle /\ who # Nobody
  /\ sight' = [at |-> "looking", parts |-> {},
               pending |-> <<WindowJob(RegionOf(who.face), 0, Border, RaysFrom(who.xy))>>]
  /\ UNCHANGED <<vars, filed, who>>

ProcessWindowJob ==
  /\ sight.at = "looking" /\ sight.pending # << >>
  /\ \E job \in {Last(sight.pending)} :
       /\ sight' = [sight EXCEPT
                      !.parts = @ \cup {part \in SeenBy(who.xy, job) : ~IsSeam(part[1])},
                      !.pending = Front(@) \o SetToSeq(Windows(who.xy, job))]
  /\ UNCHANGED <<vars, filed, who>>

AssembleAnswer ==
  /\ sight.at = "looking" /\ sight.pending = << >>
  /\ sight' = [sight EXCEPT !.at = "seen", !.parts = Answer(who.xy, @)]
  /\ UNCHANGED <<vars, filed, who>>

Forget ==
  /\ sight.at = "seen" /\ sight' = Blind
  /\ UNCHANGED <<vars, filed, who>>

SurfaceInit == Init /\ filed = [h \in {} |-> {}] /\ who = Nobody /\ sight = Blind

Query == StartQuery \/ ProcessWindowJob \/ AssembleAnswer \/ Forget
Inhabit ==
  \/ FileWall
  \/ \E xy \in Places(mesh), region \in RegionIds : who = Nobody /\ GetLocation(xy, region)
  \/ \E to \in Places(mesh) : MoveOnSurface(to)
  \/ Query

SurfaceNext == (Next /\ UNCHANGED surfaceVars) \/ Inhabit
SurfaceSpec == SurfaceInit /\ [][SurfaceNext]_allVars /\ WF_allVars(Step /\ UNCHANGED surfaceVars)

-----------------------------------------------------------------------------
SurfaceTypeOK ==
  /\ TypeOK
  /\ who # Nobody => Covers(mesh, who.face, who.xy)
  /\ sight.at \in {"idle", "looking", "seen"}

Somebody == Idle /\ who # Nobody

\* The faces a segment leads over, found without its direction: they hang
\* together by edges the segment meets.
RECURSIVE Strip(_, _, _)
Strip(from, to, faces) ==
  LET more == UNION {{FaceOf(mesh.opposite[h]) : h \in {h \in HalfedgesOf(mesh, f) :
                        mesh.opposite[h] # Border /\ Meets(from, to, h)}} : f \in faces}
  IN  IF more \subseteq faces THEN faces ELSE Strip(from, to, faces \cup more)

\* A vertex with faces above one another: a walk through it may go on on any.
PassesPole(from, to) ==
  \E v \in DOMAIN mesh.points :
    /\ Side(from, to, XY(mesh, v)) = 0 /\ Between(from, to, XY(mesh, v))
    /\ \E f, g \in FacesOf(mesh) :
         /\ f # g /\ {i \in 1..3 : mesh.faces[f][i] = v} # {} /\ {i \in 1..3 : mesh.faces[g][i] = v} # {}
         /\ ~InnerDisjoint(mesh, f, g)

\* A straight walk arrives iff the segment lies on the surface, on a face the
\* segment leads to; it always ends, and everywhere at the same height, in
\* whatever order CGAL lists faces and vertices.
WalkExact ==
  Somebody => \A to \in Places(mesh) :
    LET ends == StraightWalk(mesh, who.face, who.xy, to)
        goals == {f \in Strip(who.xy, to, {who.face}) : Covers(mesh, f, to)}
        Arrived == {w.face : w \in {w \in ends : w.at = "arrived"}}
    IN  /\ \A w \in ends : w.at \in {"arrived", "left"}
        /\ Arrived \subseteq goals
        /\ \/ PassesPole(who.xy, to)
           \/ /\ goals # {} => Cardinality({w.at : w \in ends}) = 1 /\ Arrived # {}
              /\ \A f, g \in Arrived : SameHeight(PointOnFace(mesh, f, to), PointOnFace(mesh, g, to))

OnBoundary(loc) ==
  \E h \in WallsOf(RegionOf(loc.face)) \cup SeamsOf(RegionOf(loc.face)) : Meets(loc.xy, loc.xy, h)

Grazes(loc, to) == \E h \in WallsOf(RegionOf(loc.face)) : Meets(loc.xy, to, h)

\* Nothing in between means that a walk arrives, in the region that is
\* answered, although no walk is tried where no seam is crossed; and where a
\* walk arrives nothing is in between, unless it touches a wall.
VisibleIsWalkable ==
  Somebody => \A to \in Places(mesh) :
    LET ends == StraightWalk(mesh, who.face, who.xy, to)
        arrivals == {RegionOf(w.face) : w \in {w \in ends : w.at = "arrived"}}
    IN  \E reached \in {RegionsReached(who, to)} :
          /\ reached \subseteq arrivals
          /\ Grazes(who, to) \/ reached = arrivals

\* intersects_any "performs a linesegment intersection versus every indexed
\* segment" and returns "if any indexed segment was intersected".
EverySegmentCompared ==
  Somebody => \A to \in Places(mesh) :
    IntersectsAny(mesh, filed, who.xy, to) <=> \E h \in AllWalls : Meets(who.xy, to, h)

\* can_walk_straight_to is mutual, of all that do not stand on a seam or a wall.
SeesBack ==
  Somebody /\ ~OnBoundary(who) =>
    \A to \in Places(mesh) : \A f \in FacesAt(to) :
      LET other == [xy |-> to, face |-> f]
      IN  \/ OnBoundary(other) \/ PassesPole(who.xy, to)
          \/ (RegionOf(f) \in RegionsReached(who, to))
               <=> (RegionOf(who.face) \in RegionsReached(other, who.xy))

\* Where somebody stands is found again, by the region and by the height: the
\* surface may lie above itself there, a region does not.
FoundAgain ==
  Somebody =>
    LET here == PointOnFace(mesh, who.face, who.xy)
        inRegion == LocateInRegion(RegionOf(who.face), who.xy)
        nearZ == LocateNearZ(who.xy, here, NearZTolerance)
    IN  /\ inRegion # 0 /\ SameHeight(PointOnFace(mesh, inRegion, who.xy), here)
        /\ nearZ # 0 /\ SameHeight(PointOnFace(mesh, nearZ, who.xy), here)

\* Where somebody is, goes and is looked up is one place of the surface.
PlacesSound == SurfaceTypeOK /\ WalkExact /\ FoundAgain

\* "A segment belongs to the answer iff a straight sight line runs to some point
\* of it, crossing no wall on the way": what a ray sees is the wall at which a
\* walk along it leaves the surface.  On a seam it is not: the seams through the
\* agent are left out, and with them what lies behind.
Infinity == 4
SightExact ==
  sight.at = "seen" /\ ~OnBoundary(who) =>
    sight.parts =
      UNION {{<<Plain(w.wall), d>> :
                w \in {w \in StraightWalk(mesh, who.face, who.xy, Plus(who.xy, <<Infinity * d[1], Infinity * d[2]>>)) :
                         w.wall # Border /\ WithinRadius(who.xy, d, w.wall)}} : d \in RaysFrom(who.xy)}

\* What the code asserts while it looks: the seam of a window is found again
\* once, and looks through windows do not run away.
WindowsFound ==
  sight.at = "looking" =>
    \A i \in DOMAIN sight.pending :
      LET job == sight.pending[i]
      IN  job.depth < MaxWindowDepth /\ (job.seam # Border => Cardinality(Entering(who.xy, job)) = 1)

\* Windows and walls together are what can be seen, by each other.
SightSound == WindowsFound /\ SightExact /\ SeesBack
=============================================================================
