---------------------------- MODULE RegionSplit ----------------------------
(***************************************************************************)
(* split_into_regions: the faces of a surface are grown into planar        *)
(* patches, and patches are merged, bottom up, as long as what is merged   *)
(* projects to the plane without folding over itself.                      *)
(***************************************************************************)
EXTENDS Mesh

CONSTANTS
  Surfaces,      \* the meshes to split
  Tolerance,     \* plane_distance_tolerance
  CosSquared     \* plane_normal_min_cos, squared, in twentieths

ASSUME SurfacesAssumption ==
  \A m \in Surfaces :
    /\ FacesOf(m) \subseteq Nat \ {0}
    /\ m.opposite \in [FacesOf(m) \X (1..3) -> (FacesOf(m) \X (1..3)) \cup {Border}]

\* A patch is named by the face it grew from.
VARIABLES
  mesh,
  patchOf,   \* the patch of a face, 0 while it has none
  patches,   \* [seed, minZ, boundary, neighbors, version, alive]
  root,      \* the patch a patch has been merged into
  failed,    \* pairs of patches: their versions when merging them failed
  sweep      \* [at, left, order, region, todo, merged]: where the algorithm is

vars == <<mesh, patchOf, patches, root, failed, sweep>>

-----------------------------------------------------------------------------
(* Phase 1: planar patches                                                 *)

\* Membership is tested against the plane of the seed, never a drifting average.
FitsSeedPlane(m, seed, f) ==
  \E n \in {m.normal[seed]}, k \in {m.normal[f]} :
    /\ Dot(n, k) > 0 /\ 20 * Dot(n, k)^2 >= CosSquared * Dot(n, n) * Dot(k, k)
    /\ \A i \in 1..3 : Dot(Minus(Corner(m, f, i), Corner(m, seed, 1)), n)^2
                         <= Tolerance^2 * Dot(n, n)

Coplanar(m, seed, f) ==
  \A i \in 1..3 : Dot(Minus(Corner(m, f, i), Corner(m, seed, 1)), m.normal[seed]) = 0

\* The faces a flood reaches from the seed among those that may join it.
Flood(m, seed, joining) ==
  LET reached[n \in Nat] ==
        IF n = 0 THEN {seed}
        ELSE UNION {region \cup UNION {Neighbors(m, g) \cap joining : g \in region} :
                      region \in {reached[n - 1]}}
  IN  {seed} \cup {f \in joining : f \in reached[Len(m.faces)]}

Lowest(m, region) == Min({Corner(m, f, i)[3] : f \in region, i \in 1..3})

Patch(m, seed, region) ==
  [seed |-> seed, minZ |-> Lowest(m, region), boundary |-> RegionBoundary(m, region),
   neighbors |-> {}, version |-> 0, alive |-> TRUE]

Unassigned == {f \in FacesOf(mesh) : patchOf[f] = 0}
First(faces) == {f \in faces : \A g \in faces : f <= g}

FinishPatch(seed, region) ==
  /\ patchOf' = [f \in DOMAIN patchOf |-> IF f \in region THEN seed ELSE patchOf[f]]
  /\ patches' = [p \in DOMAIN patches \cup {seed} |->
                   IF p = seed THEN Patch(mesh, seed, region) ELSE patches[p]]

\* A patch that fails the certificate is left to be split exactly.
GrowPatch ==
  /\ sweep.at = "grow" /\ sweep.left = {}
  /\ \E seed \in First(Unassigned) :
       \E region \in {Flood(mesh, seed, {f \in Unassigned : FitsSeedPlane(mesh, seed, f)})} :
         IF IsProjectionStrictlySimple(mesh, RegionBoundary(mesh, region))
         THEN FinishPatch(seed, region) /\ UNCHANGED sweep
         ELSE sweep' = [sweep EXCEPT !.left = region] /\ UNCHANGED <<patchOf, patches>>
  /\ UNCHANGED <<mesh, root, failed>>

\* Lying in one plane does not depend on the seed; no certificate is needed.
ResplitExactlyCoplanar ==
  /\ sweep.at = "grow"
  /\ \E seed \in First(sweep.left) :
       \E region \in {Flood(mesh, seed, {f \in sweep.left : Coplanar(mesh, seed, f)})} :
         /\ FinishPatch(seed, region)
         /\ sweep' = [sweep EXCEPT !.left = @ \ region]
  /\ UNCHANGED <<mesh, root, failed>>

-----------------------------------------------------------------------------
(* Phase 2: merging                                                        *)

KeyLess(p, q) ==
  \/ patches[p].minZ < patches[q].minZ
  \/ patches[p].minZ = patches[q].minZ /\ patches[p].seed < patches[q].seed

\* Patches are sorted by their keys: the one whose turn it is among some that
\* are left.  Of those, no key changes before its turn.
Foremost(ids) == {p \in ids : \A q \in ids \ {p} : KeyLess(p, q)}

Alive == {p \in DOMAIN patches : patches[p].alive}
RootAt(h) == root[patchOf[FaceOf(h)]]

\* Both boundaries without the seam they share.
MergedBoundary(a, b) ==
  {h \in patches[a].boundary \cup patches[b].boundary :
     \/ mesh.opposite[h] = Border
     \/ RootAt(mesh.opposite[h]) \notin {a, b}}

Mergeable(a, b) == IsProjectionStrictlySimple(mesh, MergedBoundary(a, b))

NeighborRoots(a) == {root[p] : p \in patches[a].neighbors} \ {a}

StartMerging ==
  /\ sweep.at = "grow" /\ sweep.left = {} /\ Unassigned = {}
  /\ LET Adjacent(p) == {patchOf[g] : g \in UNION {Neighbors(mesh, f) :
                           f \in {f \in FacesOf(mesh) : patchOf[f] = p}}} \ {p}
     IN  patches' = [p \in DOMAIN patches |-> [patches[p] EXCEPT !.neighbors = Adjacent(p)]]
  /\ root' = [p \in DOMAIN patches |-> p]
  /\ sweep' = [sweep EXCEPT !.at = "sweep", !.merged = TRUE]
  /\ UNCHANGED <<mesh, patchOf, failed>>

BeginSweep ==
  /\ sweep.at = "sweep"
  /\ sweep' = [sweep EXCEPT !.at = "next", !.order = Alive, !.merged = FALSE]
  /\ UNCHANGED <<mesh, patchOf, patches, root, failed>>

\* The next region in the order of the sweep, unless it has been absorbed.
NextRegion ==
  /\ sweep.at = "next"
  /\ \E a \in Foremost(sweep.order) :
       sweep' = IF a \in Alive
                THEN [sweep EXCEPT !.at = "merge", !.order = @ \ {a}, !.region = a,
                                   !.todo = NeighborRoots(a)]
                ELSE [sweep EXCEPT !.order = @ \ {a}]
  /\ UNCHANGED <<mesh, patchOf, patches, root, failed>>

Versions(a, b) == <<patches[a].version, patches[b].version>>
Skips(a, b) == {a, b} \in DOMAIN failed /\ failed[{a, b}] = Versions(a, b)

SkipFailed ==
  /\ sweep.at = "merge"
  /\ \E b \in Foremost(sweep.todo) :
       /\ Skips(sweep.region, b)
       /\ sweep' = [sweep EXCEPT !.todo = @ \ {b}]
  /\ UNCHANGED <<mesh, patchOf, patches, root, failed>>

\* A failed attempt changes nothing but what is remembered of it.
FailToMerge ==
  /\ sweep.at = "merge"
  /\ \E b \in Foremost(sweep.todo) : \E a \in {sweep.region} :
       /\ ~Skips(a, b) /\ ~Mergeable(a, b)
       /\ failed' = [pair \in DOMAIN failed \cup {{a, b}} |->
                       IF pair = {a, b} THEN Versions(a, b) ELSE failed[pair]]
       /\ sweep' = [sweep EXCEPT !.todo = @ \ {b}]
  /\ UNCHANGED <<mesh, patchOf, patches, root>>

Lesser(m, n) == IF m < n THEN m ELSE n

BugVersionKept(v) == v

Bumped(v) == v + 1

AllNeighbors(a, b) == patches[a].neighbors \cup patches[b].neighbors

Absorbed(a, b) ==
  [p \in DOMAIN patches |->
     CASE p = a -> [seed |-> Lesser(patches[a].seed, patches[b].seed),
                    minZ |-> Lesser(patches[a].minZ, patches[b].minZ),
                    boundary |-> MergedBoundary(a, b),
                    neighbors |-> AllNeighbors(a, b),
                    version |-> Bumped(patches[a].version),
                    alive |-> TRUE]
       [] p = b -> [patches[b] EXCEPT !.alive = FALSE]
       [] OTHER -> patches[p]]

Rerooted(a, b) == [p \in DOMAIN root |-> IF root[p] = b THEN a ELSE root[p]]

\* The set of neighbors has changed: they are enumerated again.
Absorb ==
  /\ sweep.at = "merge"
  /\ \E b \in Foremost(sweep.todo) : \E a \in {sweep.region} :
       /\ ~Skips(a, b) /\ Mergeable(a, b)
       /\ patches' = Absorbed(a, b)
       /\ root' = Rerooted(a, b)
  /\ sweep' = [sweep EXCEPT !.at = "again", !.todo = {}, !.merged = TRUE]
  /\ UNCHANGED <<mesh, patchOf, failed>>

Reenumerate ==
  /\ sweep.at = "again"
  /\ sweep' = [sweep EXCEPT !.at = "merge", !.todo = NeighborRoots(sweep.region)]
  /\ UNCHANGED <<mesh, patchOf, patches, root, failed>>

LeaveRegion ==
  /\ sweep.at = "merge" /\ sweep.todo = {}
  /\ sweep' = [sweep EXCEPT !.at = "next"]
  /\ UNCHANGED <<mesh, patchOf, patches, root, failed>>

BugAsLongAsAnyFail == sweep.merged \/ DOMAIN failed # {}

MergedAny == sweep.merged

EndSweep ==
  /\ sweep.at = "next" /\ sweep.order = {}
  /\ sweep' = [sweep EXCEPT !.at = IF MergedAny THEN "sweep" ELSE "done"]
  /\ UNCHANGED <<mesh, patchOf, patches, root, failed>>

Finished == sweep.at = "done" /\ UNCHANGED vars

Init ==
  /\ mesh \in Surfaces
  /\ patchOf = [f \in FacesOf(mesh) |-> 0]
  /\ patches = [p \in {} |-> 0] /\ root = [p \in {} |-> 0]
  /\ failed = [pair \in {} |-> <<0, 0>>]
  /\ sweep = [at |-> "grow", left |-> {}, order |-> {}, region |-> 0, todo |-> {},
              merged |-> FALSE]

Merge == SkipFailed \/ FailToMerge \/ Absorb \/ Reenumerate
Step ==
  \/ GrowPatch \/ ResplitExactlyCoplanar \/ StartMerging
  \/ BeginSweep \/ NextRegion \/ Merge \/ LeaveRegion \/ EndSweep
Next == Step \/ Finished

Spec == Init /\ [][Next]_vars
FairSpec == Spec /\ WF_vars(Step)

-----------------------------------------------------------------------------
TypeOK ==
  /\ patchOf \in [FacesOf(mesh) -> {0} \cup DOMAIN patches]
  /\ \A p \in DOMAIN patches :
       /\ patches[p].boundary \subseteq FacesOf(mesh) \X (1..3)
       /\ patches[p].neighbors \subseteq DOMAIN patches
       /\ patches[p].version \in Nat
  /\ sweep.at = "grow" \/ root \in [DOMAIN patches -> Alive]

Merged == sweep.at # "grow"
Region(p) == {f \in FacesOf(mesh) : root[patchOf[f]] = p}

\* The boundary of a region is carried along from merge to merge, never
\* computed anew; it stays the boundary of the faces of the region.
BoundaryExact ==
  Merged => \A p \in Alive : patches[p].boundary = RegionBoundary(mesh, Region(p))

\* Where a region lies in the plane names one place on the surface: no two
\* faces of a region lie above one another, which only boundaries were
\* tested for, and faces that were split exactly were not tested at all.
SingleValued ==
  Merged => \A p \in Alive : \A f, g \in Region(p) : f = g \/ InnerDisjoint(mesh, f, g)

\* "Purely an optimization, results are identical without it": a pair that is
\* skipped could not be merged, whatever has been merged since it failed.
CacheSound == \A a, b \in Alive : a # b /\ Skips(a, b) => ~Mergeable(a, b)

\* At the end no two regions that share a seam could be merged, although
\* neighbors are lists of patches of which many do not exist any more.
Maximal ==
  sweep.at = "done" =>
    \A f \in FacesOf(mesh) : \A g \in Neighbors(mesh, f) :
      LET a == root[patchOf[f]]
          b == root[patchOf[g]]
      IN  a = b \/ ~IsProjectionStrictlySimple(mesh, RegionBoundary(mesh, Region(a) \cup Region(b)))

\* Regions are what the rest of the geometry takes them for.
RegionsSound == TypeOK /\ BoundaryExact /\ SingleValued /\ Maximal

\* Splitting a surface comes to an end.
Ends == <>(sweep.at = "done")
=============================================================================
