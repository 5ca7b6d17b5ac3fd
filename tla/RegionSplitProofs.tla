------------------------- MODULE RegionSplitProofs -------------------------
(***************************************************************************)
(* What holds of RegionSplit for every mesh: the boundaries carried along  *)
(* are exact, the cache of failed merges never hides a merge that would    *)
(* succeed, and no merge is left when the sweeps are over.                 *)
(***************************************************************************)
EXTENDS RegionSplit, TLAPS

-----------------------------------------------------------------------------
(* The inductive invariant                                                 *)

PatchFields == {"seed", "minZ", "boundary", "neighbors", "version", "alive"}

PatchesTyped ==
  \A p \in DOMAIN patches :
    /\ DOMAIN patches[p] = PatchFields
    /\ patches[p].boundary \subseteq FacesOf(mesh) \X (1..3)
    /\ patches[p].neighbors \subseteq DOMAIN patches
    /\ patches[p].version \in Nat

Sweeps ==
  [at : {"grow", "sweep", "next", "merge", "again", "done"},
   left : SUBSET FacesOf(mesh), order : SUBSET DOMAIN patches,
   region : {0} \cup DOMAIN patches, todo : SUBSET DOMAIN patches, merged : BOOLEAN]

Shape ==
  /\ mesh \in Surfaces
  /\ DOMAIN patches \subseteq FacesOf(mesh)
  /\ patchOf \in [FacesOf(mesh) -> {0} \cup DOMAIN patches]
  /\ PatchesTyped
  /\ sweep \in Sweeps

Founded(p) == {f \in FacesOf(mesh) : patchOf[f] = p}

\* While patches grow, each is alive and holds the face it grew from.
GrowingInv ==
  sweep.at = "grow" =>
    /\ DOMAIN failed = {}
    /\ \A p \in DOMAIN patches :
         /\ patchOf[p] = p /\ patches[p].alive
         /\ patches[p].boundary = RegionBoundary(mesh, Founded(p))
    /\ \A f \in sweep.left : patchOf[f] = 0

Due(s) ==
  s.at \in {"merge", "again"} => s.region \in Alive /\ s.todo \subseteq Alive \ {s.region}

\* Roots are alive, and so is what the sweep is about to merge.
RootsInv ==
  sweep.at # "grow" =>
    /\ patchOf \in [FacesOf(mesh) -> DOMAIN patches]
    /\ root \in [DOMAIN patches -> Alive]
    /\ Due(sweep)

\* A failed attempt was made by x on y, and both were what they are, or older.
Recalled(x, y) ==
  /\ failed[{x, y}] \in Nat \X Nat
  /\ failed[{x, y}][1] <= patches[x].version
  /\ failed[{x, y}][2] <= patches[y].version
  /\ failed[{x, y}] = Versions(x, y) /\ x \in Alive /\ y \in Alive => ~Mergeable(x, y)

FailedInv ==
  \A x, y \in DOMAIN patches :
    x # y /\ {x, y} \in DOMAIN failed => Recalled(x, y) \/ Recalled(y, x)

\* Regions that share a seam are found among their neighbors.
NeighborsInv ==
  sweep.at # "grow" =>
    \A f \in FacesOf(mesh) : \A g \in Neighbors(mesh, f) :
      root[patchOf[f]] # root[patchOf[g]] =>
        root[patchOf[g]] \in NeighborRoots(root[patchOf[f]])

Settled(p) == \A q \in NeighborRoots(p) : ~Mergeable(p, q)

\* In a sweep that has merged nothing, whoever has had its turn is settled.
SettledUpTo(s) ==
  /\ s.at = "again" => s.merged
  /\ s.at = "next" /\ ~s.merged => \A p \in Alive \ s.order : Settled(p)
  /\ s.at = "merge" /\ ~s.merged =>
       /\ \A p \in Alive \ (s.order \cup {s.region}) : Settled(p)
       /\ \A q \in NeighborRoots(s.region) \ s.todo : ~Mergeable(s.region, q)
  /\ s.at = "done" => \A p \in Alive : Settled(p)

SettledInv == SettledUpTo(sweep)

IInv ==
  Shape /\ GrowingInv /\ RootsInv /\ BoundaryExact /\ FailedInv /\ NeighborsInv /\ SettledInv

-----------------------------------------------------------------------------
(* Facts about a state                                                     *)

LEMMA MergeableSymmetric ==
  ASSUME NEW a, NEW b
  PROVE  Mergeable(a, b) = Mergeable(b, a)
<1>1. MergedBoundary(a, b) = MergedBoundary(b, a)
  BY DEF MergedBoundary
<1> QED
  BY <1>1 DEF Mergeable

\* Whether two regions may be merged is not remembered wrongly: it could only
\* be if the versions had been swapped, and then they are the same.
LEMMA RecalledIsSound ==
  ASSUME PatchesTyped, FailedInv
  PROVE  CacheSound
<1> SUFFICES ASSUME NEW a \in Alive, NEW b \in Alive, a # b, Skips(a, b)
             PROVE  ~Mergeable(a, b)
  BY DEF CacheSound
<1>1. /\ a \in DOMAIN patches /\ b \in DOMAIN patches
      /\ patches[a].version \in Nat /\ patches[b].version \in Nat
  BY DEF Alive, PatchesTyped
<1>2. /\ {a, b} \in DOMAIN failed /\ {a, b} = {b, a}
      /\ failed[{a, b}] = <<patches[a].version, patches[b].version>>
  BY DEF Skips, Versions
<1>3. CASE Recalled(a, b)
  BY <1>2, <1>3 DEF Recalled, Versions
<1>4. CASE Recalled(b, a)
  <2>1. /\ patches[a].version <= patches[b].version
        /\ patches[b].version <= patches[a].version
    BY <1>1, <1>2, <1>4 DEF Recalled
  <2>2. failed[{b, a}] = Versions(b, a)
    BY <1>1, <1>2, <2>1 DEF Versions
  <2>3. ~Mergeable(b, a)
    BY <1>4, <2>2 DEF Recalled
  <2> QED
    BY <2>3, MergeableSymmetric
<1> QED
  BY <1>1, <1>2, <1>3, <1>4 DEF FailedInv

LEMMA NeighborRootsAlive ==
  ASSUME PatchesTyped, root \in [DOMAIN patches -> Alive], NEW a \in DOMAIN patches
  PROVE  NeighborRoots(a) \subseteq Alive \ {a}
BY DEF PatchesTyped, NeighborRoots

\* The seam drops out of two boundaries: what is left bounds both regions.
LEMMA MergedIsBoundary ==
  ASSUME mesh \in Surfaces, patchOf \in [FacesOf(mesh) -> DOMAIN patches],
         NEW a, NEW b,
         patches[a].boundary = RegionBoundary(mesh, Region(a)),
         patches[b].boundary = RegionBoundary(mesh, Region(b))
  PROVE  MergedBoundary(a, b) = RegionBoundary(mesh, Region(a) \cup Region(b))
<1> DEFINE H == FacesOf(mesh) \X (1..3)
<1>1. /\ mesh.opposite \in [H -> H \cup {Border}]
      /\ 0 \notin FacesOf(mesh)
  BY SurfacesAssumption
<1>2. FaceOf(Border) = 0 /\ \A h \in H : FaceOf(h) \in FacesOf(mesh)
  BY DEF FaceOf, Border
<1>3. \A f \in FacesOf(mesh) :
        f \in Region(a) \cup Region(b) <=> root[patchOf[f]] \in {a, b}
  BY DEF Region
<1>4. Region(a) \subseteq FacesOf(mesh) /\ Region(b) \subseteq FacesOf(mesh)
  BY DEF Region
<1>5. ASSUME NEW h \in H
      PROVE  (mesh.opposite[h] = Border \/ RootAt(mesh.opposite[h]) \notin {a, b})
               <=> FaceOf(mesh.opposite[h]) \notin Region(a) \cup Region(b)
  <2>1. CASE mesh.opposite[h] = Border
    BY <1>1, <1>2, <1>4, <2>1
  <2>2. CASE mesh.opposite[h] # Border
    <3>1. mesh.opposite[h] \in H
      BY <1>1, <1>5, <2>2
    <3>2. FaceOf(mesh.opposite[h]) \in FacesOf(mesh)
      BY <1>2, <3>1
    <3> QED
      BY <1>3, <2>2, <3>2 DEF RootAt
  <2> QED
    BY <2>1, <2>2
<1> QED
  BY <1>4, <1>5 DEF MergedBoundary, RegionBoundary

-----------------------------------------------------------------------------
(* Growing patches                                                         *)

LEMMA InitIInv == Init => IInv
<1> SUFFICES ASSUME Init PROVE IInv
  OBVIOUS
<1>1. DOMAIN patches = {} /\ DOMAIN failed = {} /\ DOMAIN root = {}
  BY DEF Init
<1>2. sweep.at = "grow" /\ sweep.left = {}
  BY DEF Init
<1>3. Shape
  BY <1>1 DEF Init, Shape, Sweeps, PatchesTyped, FacesOf
<1> QED
  BY <1>1, <1>2, <1>3
     DEF IInv, GrowingInv, RootsInv, BoundaryExact, Merged, FailedInv, NeighborsInv, SettledInv,
         SettledUpTo

\* A patch that is finished is the only one whose faces and boundary change.
LEMMA FinishPatchIInv ==
  ASSUME IInv, sweep.at = "grow", mesh' = mesh, UNCHANGED <<root, failed>>,
         NEW seed \in Unassigned, NEW region \in SUBSET Unassigned, seed \in region,
         FinishPatch(seed, region),
         sweep' \in Sweeps, sweep'.at = "grow", sweep'.left \subseteq sweep.left \ region
  PROVE  IInv'
<1>1. /\ seed \in FacesOf(mesh) /\ region \subseteq FacesOf(mesh)
      /\ \A f \in region : patchOf[f] = 0
  BY DEF Unassigned
<1>2. 0 \notin FacesOf(mesh)
  BY SurfacesAssumption DEF IInv, Shape
<1>3. /\ patchOf \in [FacesOf(mesh) -> {0} \cup DOMAIN patches]
      /\ DOMAIN patches \subseteq FacesOf(mesh)
      /\ PatchesTyped
  BY DEF IInv, Shape
<1>4. seed \notin DOMAIN patches
  BY <1>1, <1>2 DEF IInv, GrowingInv
<1>5. /\ DOMAIN patches' = DOMAIN patches \cup {seed}
      /\ patches'[seed] = Patch(mesh, seed, region)
      /\ \A p \in DOMAIN patches : patches'[p] = patches[p]
  BY <1>4 DEF FinishPatch
<1>6. /\ patchOf' \in [FacesOf(mesh) -> {0} \cup DOMAIN patches']
      /\ \A f \in FacesOf(mesh) : patchOf'[f] = IF f \in region THEN seed ELSE patchOf[f]
  BY <1>3, <1>5 DEF FinishPatch
<1>7. /\ DOMAIN patches'[seed] = PatchFields
      /\ patches'[seed].boundary = RegionBoundary(mesh, region)
      /\ patches'[seed].neighbors = {} /\ patches'[seed].version = 0
      /\ patches'[seed].alive
  BY <1>5 DEF Patch, PatchFields
<1>8. RegionBoundary(mesh, region) \subseteq FacesOf(mesh) \X (1..3)
  BY <1>1 DEF RegionBoundary
<1>9. PatchesTyped'
  <2> SUFFICES ASSUME NEW p \in DOMAIN patches'
               PROVE  /\ DOMAIN patches'[p] = PatchFields
                      /\ patches'[p].boundary \subseteq FacesOf(mesh) \X (1..3)
                      /\ patches'[p].neighbors \subseteq DOMAIN patches'
                      /\ patches'[p].version \in Nat
    BY DEF PatchesTyped, PatchFields, FacesOf
  <2>1. CASE p = seed
    BY <1>7, <1>8, <2>1
  <2>2. CASE p \in DOMAIN patches
    <3>1. patches'[p] = patches[p]
      BY <1>5, <2>2
    <3>2. /\ DOMAIN patches[p] = PatchFields
          /\ patches[p].boundary \subseteq FacesOf(mesh) \X (1..3)
          /\ patches[p].neighbors \subseteq DOMAIN patches
          /\ patches[p].version \in Nat
      BY <1>3, <2>2 DEF PatchesTyped
    <3> QED
      BY <1>5, <3>1, <3>2
  <2> QED
    BY <1>5, <2>1, <2>2
<1>11. Shape'
  <2>1. sweep' \in Sweeps'
    BY <1>5 DEF Sweeps, FacesOf
  <2> QED
    BY <1>1, <1>3, <1>5, <1>6, <1>9, <2>1 DEF IInv, Shape, FacesOf
<1>12. Founded(seed)' = region
  BY <1>1, <1>3, <1>4, <1>6, <1>2 DEF Founded, FacesOf
<1>13. \A p \in DOMAIN patches : Founded(p)' = Founded(p)
  BY <1>1, <1>2, <1>3, <1>4, <1>6 DEF Founded, FacesOf
<1>14. GrowingInv'
  <2>1. DOMAIN failed' = {}
    BY DEF IInv, GrowingInv
  <2>2. \A f \in sweep'.left : patchOf'[f] = 0
    BY <1>6 DEF IInv, GrowingInv, Sweeps
  <2>3. \A p \in DOMAIN patches' : patchOf'[p] = p /\ patches'[p].alive
    BY <1>1, <1>2, <1>3, <1>5, <1>6, <1>7 DEF IInv, GrowingInv
  <2>4. \A p \in DOMAIN patches' : patches'[p].boundary = RegionBoundary(mesh', Founded(p)')
    BY <1>5, <1>7, <1>12, <1>13 DEF IInv, GrowingInv
  <2> QED
    BY <2>1, <2>2, <2>3, <2>4 DEF GrowingInv
<1>15. FailedInv'
  BY DEF IInv, GrowingInv, FailedInv
<1> QED
  BY <1>11, <1>14, <1>15
     DEF IInv, RootsInv, BoundaryExact, Merged, NeighborsInv, SettledInv, SettledUpTo

\* A flood stays within the faces that may join it.
LEMMA FloodWithin ==
  ASSUME NEW m, NEW seed, NEW joining
  PROVE  seed \in Flood(m, seed, joining) /\ Flood(m, seed, joining) \subseteq {seed} \cup joining
BY DEF Flood

LEMMA GrowPatchIInv == IInv /\ GrowPatch => IInv'
<1> SUFFICES ASSUME IInv, GrowPatch PROVE IInv'
  OBVIOUS
<1>1. PICK seed \in First(Unassigned) :
        \E region \in {Flood(mesh, seed, {f \in Unassigned : FitsSeedPlane(mesh, seed, f)})} :
          IF IsProjectionStrictlySimple(mesh, RegionBoundary(mesh, region))
          THEN FinishPatch(seed, region) /\ UNCHANGED sweep
          ELSE sweep' = [sweep EXCEPT !.left = region] /\ UNCHANGED <<patchOf, patches>>
  BY DEF GrowPatch
<1> DEFINE region == Flood(mesh, seed, {f \in Unassigned : FitsSeedPlane(mesh, seed, f)})
<1>2. /\ seed \in Unassigned
      /\ seed \in region /\ region \subseteq Unassigned
  BY FloodWithin DEF First
<1>3. sweep.at = "grow" /\ sweep.left = {} /\ UNCHANGED <<mesh, root, failed>>
  BY DEF GrowPatch
<1>4. \/ FinishPatch(seed, region) /\ UNCHANGED sweep
      \/ sweep' = [sweep EXCEPT !.left = region] /\ UNCHANGED <<patchOf, patches>>
  BY <1>1
<1> HIDE DEF region
<1>5. CASE FinishPatch(seed, region) /\ UNCHANGED sweep
  <2>1. sweep' \in Sweeps /\ sweep'.at = "grow" /\ sweep'.left \subseteq sweep.left \ region
    BY <1>3, <1>5 DEF IInv, Shape
  <2> QED
    BY <1>2, <1>3, <1>5, <2>1, FinishPatchIInv
<1>6. CASE sweep' = [sweep EXCEPT !.left = region] /\ UNCHANGED <<patchOf, patches>>
  <2>1. sweep'.at = "grow" /\ sweep'.left = region
    BY <1>3, <1>6 DEF IInv, Shape, Sweeps
  <2>2. region \subseteq FacesOf(mesh) /\ \A f \in region : patchOf[f] = 0
    BY <1>2 DEF Unassigned
  <2>3. PatchesTyped'
    BY <1>3, <1>6 DEF IInv, Shape, PatchesTyped, FacesOf
  <2>4. Shape'
    BY <1>3, <1>6, <2>2, <2>3 DEF IInv, Shape, Sweeps, FacesOf
  <2>5. \A p : Founded(p)' = Founded(p)
    BY <1>3, <1>6 DEF Founded, FacesOf
  <2>6. GrowingInv'
    BY <1>3, <1>6, <2>1, <2>2, <2>5 DEF IInv, GrowingInv
  <2>7. FailedInv'
    BY <1>3 DEF IInv, GrowingInv, FailedInv
  <2> QED
    BY <2>1, <2>4, <2>6, <2>7
       DEF IInv, RootsInv, BoundaryExact, Merged, NeighborsInv, SettledInv, SettledUpTo
<1> QED
  BY <1>4, <1>5, <1>6

LEMMA ResplitIInv == IInv /\ ResplitExactlyCoplanar => IInv'
<1> SUFFICES ASSUME IInv, ResplitExactlyCoplanar PROVE IInv'
  OBVIOUS
<1>1. PICK seed \in First(sweep.left) :
        \E region \in {Flood(mesh, seed, {f \in sweep.left : Coplanar(mesh, seed, f)})} :
          /\ FinishPatch(seed, region)
          /\ sweep' = [sweep EXCEPT !.left = @ \ region]
  BY DEF ResplitExactlyCoplanar
<1> DEFINE region == Flood(mesh, seed, {f \in sweep.left : Coplanar(mesh, seed, f)})
<1>2. seed \in region /\ region \subseteq sweep.left /\ seed \in sweep.left
  BY FloodWithin DEF First
<1>3. /\ sweep.at = "grow" /\ UNCHANGED <<mesh, root, failed>>
      /\ FinishPatch(seed, region)
      /\ sweep' = [sweep EXCEPT !.left = @ \ region]
  BY <1>1 DEF ResplitExactlyCoplanar
<1> HIDE DEF region
<1>4. sweep.left \subseteq Unassigned
  BY <1>3 DEF IInv, Shape, Sweeps, GrowingInv, Unassigned
<1>5. sweep' \in Sweeps /\ sweep'.at = "grow" /\ sweep'.left \subseteq sweep.left \ region
  <2>1. sweep \in Sweeps
    BY DEF IInv, Shape
  <2> QED
    BY <1>3, <2>1 DEF Sweeps
<1> QED
  BY <1>2, <1>3, <1>4, <1>5, FinishPatchIInv

-----------------------------------------------------------------------------
(* Sweeping                                                                *)

\* What a step relies on that leaves the regions alone.
LEMMA SameRegions ==
  ASSUME UNCHANGED <<mesh, patchOf, patches, root>>
  PROVE  /\ Alive' = Alive
         /\ \A p : Region(p)' = Region(p) /\ NeighborRoots(p)' = NeighborRoots(p)
         /\ \A p, q : Mergeable(p, q)' = Mergeable(p, q)
         /\ \A p : Settled(p)' = Settled(p)
<1>1. Alive' = Alive
  BY DEF Alive
<1>2. \A p : Region(p)' = Region(p) /\ NeighborRoots(p)' = NeighborRoots(p)
  BY DEF Region, NeighborRoots, FacesOf
<1>3. \A p, q : Mergeable(p, q)' = Mergeable(p, q)
  BY DEF Mergeable, MergedBoundary, RootAt
<1>4. \A p : Settled(p)' = Settled(p)
  BY <1>2, <1>3 DEF Settled
<1> QED
  BY <1>1, <1>2, <1>3, <1>4

LEMMA SweepOnlyIInv ==
  ASSUME IInv, sweep.at # "grow", UNCHANGED <<mesh, patchOf, patches, root, failed>>,
         sweep' \in Sweeps, sweep'.at # "grow", Due(sweep'), SettledUpTo(sweep')
  PROVE  IInv'
<1>1. Shape'
  BY DEF IInv, Shape, Sweeps, PatchesTyped, FacesOf
<1>2. GrowingInv'
  BY DEF GrowingInv
<1>3. RootsInv'
  <2>1. Due(sweep)'
    BY SameRegions DEF Due
  <2> QED
    BY <2>1, SameRegions DEF IInv, RootsInv, FacesOf
<1>4. BoundaryExact'
  BY SameRegions DEF IInv, BoundaryExact, Merged
<1>5. FailedInv'
  <2> SUFFICES ASSUME NEW x \in DOMAIN patches, NEW y \in DOMAIN patches,
                      x # y, {x, y} \in DOMAIN failed
               PROVE  Recalled(x, y)' \/ Recalled(y, x)'
    BY DEF FailedInv
  <2>1. Recalled(x, y) \/ Recalled(y, x)
    BY DEF IInv, FailedInv
  <2> QED
    BY <2>1, SameRegions DEF Recalled, Versions
<1>6. NeighborsInv'
  BY SameRegions DEF IInv, NeighborsInv, Neighbors, HalfedgesOf, FaceOf, FacesOf
<1>7. SettledInv'
  BY SameRegions DEF SettledInv, SettledUpTo
<1> QED
  BY <1>1, <1>2, <1>3, <1>4, <1>5, <1>6, <1>7 DEF IInv

LEMMA BeginSweepIInv == IInv /\ BeginSweep => IInv'
<1> SUFFICES ASSUME IInv, BeginSweep PROVE IInv'
  OBVIOUS
<1>1. sweep \in Sweeps
  BY DEF IInv, Shape
<1>2. sweep' \in Sweeps /\ sweep'.at = "next" /\ sweep'.order = Alive
  BY <1>1 DEF BeginSweep, Sweeps, Alive
<1>3. Due(sweep') /\ SettledUpTo(sweep')
  BY <1>2 DEF Due, SettledUpTo
<1> QED
  BY <1>2, <1>3, SweepOnlyIInv DEF BeginSweep

LEMMA NextRegionIInv == IInv /\ NextRegion => IInv'
<1> SUFFICES ASSUME IInv, NextRegion PROVE IInv'
  OBVIOUS
<1>1. sweep \in Sweeps /\ sweep.at = "next" /\ sweep.at # "grow"
  BY DEF IInv, Shape, NextRegion
<1>2. PICK a \in Foremost(sweep.order) :
        sweep' = IF a \in Alive
                 THEN [sweep EXCEPT !.at = "merge", !.order = @ \ {a}, !.region = a,
                                    !.todo = NeighborRoots(a)]
                 ELSE [sweep EXCEPT !.order = @ \ {a}]
  BY DEF NextRegion
<1>3. a \in sweep.order /\ a \in DOMAIN patches
  BY <1>1 DEF Foremost, Sweeps
<1>4. NeighborRoots(a) \subseteq Alive \ {a} /\ Alive \subseteq DOMAIN patches
  BY <1>1, <1>3, NeighborRootsAlive DEF IInv, Shape, RootsInv, Alive
<1>5. SettledUpTo(sweep)
  BY DEF IInv, SettledInv
<1>6. CASE a \in Alive
  <2>1. /\ sweep' \in Sweeps /\ sweep'.at = "merge" /\ sweep'.region = a
        /\ sweep'.order = sweep.order \ {a} /\ sweep'.todo = NeighborRoots(a)
        /\ sweep'.merged = sweep.merged
    BY <1>1, <1>2, <1>3, <1>4, <1>6 DEF Sweeps
  <2>2. Due(sweep') /\ SettledUpTo(sweep')
    BY <1>1, <1>4, <1>5, <1>6, <2>1 DEF Due, SettledUpTo
  <2> QED
    BY <1>1, <2>1, <2>2, SweepOnlyIInv DEF NextRegion
<1>7. CASE a \notin Alive
  <2>1. /\ sweep' \in Sweeps /\ sweep'.at = "next"
        /\ sweep'.order = sweep.order \ {a} /\ sweep'.merged = sweep.merged
    BY <1>1, <1>2, <1>7 DEF Sweeps
  <2>2. Due(sweep') /\ SettledUpTo(sweep')
    BY <1>1, <1>5, <1>7, <2>1 DEF Due, SettledUpTo
  <2> QED
    BY <1>1, <2>1, <2>2, SweepOnlyIInv DEF NextRegion
<1> QED
  BY <1>6, <1>7

\* A pair that is skipped could not have been merged, so both are settled.
LEMMA SkipFailedIInv == IInv /\ SkipFailed => IInv'
<1> SUFFICES ASSUME IInv, SkipFailed PROVE IInv'
  OBVIOUS
<1>1. sweep \in Sweeps /\ sweep.at = "merge" /\ sweep.at # "grow"
  BY DEF IInv, Shape, SkipFailed
<1>2. PICK b \in Foremost(sweep.todo) :
        Skips(sweep.region, b) /\ sweep' = [sweep EXCEPT !.todo = @ \ {b}]
  BY DEF SkipFailed
<1>3. b \in sweep.todo /\ Due(sweep) /\ SettledUpTo(sweep)
  BY <1>1 DEF Foremost, IInv, RootsInv, SettledInv
<1>4. sweep.region \in Alive /\ b \in Alive /\ sweep.region # b
  BY <1>1, <1>3 DEF Due
<1>5. ~Mergeable(sweep.region, b)
  BY <1>2, <1>4, RecalledIsSound DEF IInv, Shape, CacheSound
<1>6. /\ sweep' \in Sweeps /\ sweep'.at = "merge" /\ sweep'.region = sweep.region
      /\ sweep'.order = sweep.order /\ sweep'.todo = sweep.todo \ {b}
      /\ sweep'.merged = sweep.merged
  BY <1>1, <1>2 DEF Sweeps
<1>7. Due(sweep') /\ SettledUpTo(sweep')
  BY <1>1, <1>3, <1>5, <1>6 DEF Due, SettledUpTo
<1> QED
  BY <1>1, <1>6, <1>7, SweepOnlyIInv DEF SkipFailed

LEMMA ReenumerateIInv == IInv /\ Reenumerate => IInv'
<1> SUFFICES ASSUME IInv, Reenumerate PROVE IInv'
  OBVIOUS
<1>1. sweep \in Sweeps /\ sweep.at = "again" /\ sweep.at # "grow"
  BY DEF IInv, Shape, Reenumerate
<1>2. Due(sweep) /\ SettledUpTo(sweep)
  BY <1>1 DEF IInv, RootsInv, SettledInv
<1>3. sweep.region \in Alive /\ sweep.region \in DOMAIN patches /\ sweep.merged
  BY <1>1, <1>2 DEF Due, SettledUpTo, Alive
<1>4. NeighborRoots(sweep.region) \subseteq Alive \ {sweep.region} /\ Alive \subseteq DOMAIN patches
  BY <1>1, <1>3, NeighborRootsAlive DEF IInv, Shape, RootsInv, Alive
<1>5. /\ sweep' \in Sweeps /\ sweep'.at = "merge" /\ sweep'.region = sweep.region
      /\ sweep'.todo = NeighborRoots(sweep.region) /\ sweep'.merged
  BY <1>1, <1>3, <1>4 DEF Sweeps, Reenumerate
<1>6. Due(sweep') /\ SettledUpTo(sweep')
  BY <1>3, <1>4, <1>5 DEF Due, SettledUpTo
<1> QED
  BY <1>1, <1>5, <1>6, SweepOnlyIInv DEF Reenumerate

LEMMA LeaveRegionIInv == IInv /\ LeaveRegion => IInv'
<1> SUFFICES ASSUME IInv, LeaveRegion PROVE IInv'
  OBVIOUS
<1>1. sweep \in Sweeps /\ sweep.at = "merge" /\ sweep.at # "grow" /\ sweep.todo = {}
  BY DEF IInv, Shape, LeaveRegion
<1>2. SettledUpTo(sweep)
  BY DEF IInv, SettledInv
<1>3. /\ sweep' \in Sweeps /\ sweep'.at = "next"
      /\ sweep'.order = sweep.order /\ sweep'.merged = sweep.merged
  BY <1>1 DEF Sweeps, LeaveRegion
<1>4. Due(sweep') /\ SettledUpTo(sweep')
  BY <1>1, <1>2, <1>3 DEF Due, SettledUpTo, Settled
<1> QED
  BY <1>1, <1>3, <1>4, SweepOnlyIInv DEF LeaveRegion

LEMMA EndSweepIInv == IInv /\ EndSweep => IInv'
<1> SUFFICES ASSUME IInv, EndSweep PROVE IInv'
  OBVIOUS
<1>1. sweep \in Sweeps /\ sweep.at = "next" /\ sweep.at # "grow" /\ sweep.order = {}
  BY DEF IInv, Shape, EndSweep
<1>2. SettledUpTo(sweep)
  BY DEF IInv, SettledInv
<1>3. /\ sweep' \in Sweeps
      /\ sweep'.at = IF sweep.merged THEN "sweep" ELSE "done"
  BY <1>1 DEF Sweeps, EndSweep, MergedAny
<1>4. Due(sweep') /\ SettledUpTo(sweep')
  BY <1>1, <1>2, <1>3 DEF Due, SettledUpTo
<1> QED
  BY <1>1, <1>3, <1>4, SweepOnlyIInv DEF EndSweep

-----------------------------------------------------------------------------
(* Merging                                                                 *)

Touching(p) ==
  {patchOf[g] : g \in UNION {Neighbors(mesh, f) : f \in Founded(p)}} \ {p}

LEMMA NeighborsAreFaces ==
  ASSUME mesh \in Surfaces, NEW f \in FacesOf(mesh)
  PROVE  Neighbors(mesh, f) \subseteq FacesOf(mesh)
<1>1. \A h \in FacesOf(mesh) \X (1..3) :
        mesh.opposite[h] \in (FacesOf(mesh) \X (1..3)) \cup {Border}
  BY SurfacesAssumption
<1>2. \A h \in HalfedgesOf(mesh, f) : h \in FacesOf(mesh) \X (1..3)
  BY DEF HalfedgesOf
<1>3. \A h \in (FacesOf(mesh) \X (1..3)) \cup {Border} : FaceOf(h) \in FacesOf(mesh) \cup {0}
  BY DEF FaceOf, Border
<1> QED
  BY <1>1, <1>2, <1>3 DEF Neighbors

LEMMA StartMergingIInv == IInv /\ StartMerging => IInv'
<1> SUFFICES ASSUME IInv, StartMerging PROVE IInv'
  OBVIOUS
<1>1. /\ sweep \in Sweeps /\ sweep.at = "grow" /\ sweep.left = {} /\ Unassigned = {}
      /\ UNCHANGED <<mesh, patchOf, failed>>
  BY DEF IInv, Shape, StartMerging
<1>2. /\ patches' = [p \in DOMAIN patches |-> [patches[p] EXCEPT !.neighbors = Touching(p)]]
      /\ root' = [p \in DOMAIN patches |-> p]
      /\ sweep' = [sweep EXCEPT !.at = "sweep", !.merged = TRUE]
  BY DEF StartMerging, Touching, Founded
<1>3. /\ mesh \in Surfaces /\ PatchesTyped /\ GrowingInv
      /\ patchOf \in [FacesOf(mesh) -> {0} \cup DOMAIN patches]
      /\ DOMAIN patches \subseteq FacesOf(mesh)
  BY DEF IInv, Shape
<1>4. patchOf \in [FacesOf(mesh) -> DOMAIN patches]
  BY <1>1, <1>3 DEF Unassigned
<1>5. \A p \in DOMAIN patches : Touching(p) \subseteq DOMAIN patches
  BY <1>3, <1>4, NeighborsAreFaces DEF Touching, Founded
<1>6. /\ DOMAIN patches' = DOMAIN patches
      /\ \A p \in DOMAIN patches :
           /\ DOMAIN patches'[p] = PatchFields
           /\ patches'[p].neighbors = Touching(p)
           /\ patches'[p].boundary = patches[p].boundary
           /\ patches'[p].version = patches[p].version
           /\ patches'[p].alive
  <2> SUFFICES ASSUME NEW p \in DOMAIN patches
               PROVE  /\ DOMAIN patches'[p] = PatchFields
                      /\ patches'[p].neighbors = Touching(p)
                      /\ patches'[p].boundary = patches[p].boundary
                      /\ patches'[p].version = patches[p].version
                      /\ patches'[p].alive
    BY <1>2
  <2>1. DOMAIN patches[p] = PatchFields /\ patches[p].alive
    BY <1>1, <1>3 DEF PatchesTyped, GrowingInv
  <2>2. patches'[p] = [patches[p] EXCEPT !.neighbors = Touching(p)]
    BY <1>2
  <2> HIDE DEF Touching
  <2> QED
    BY <2>1, <2>2 DEF PatchFields
<1>7. sweep' \in Sweeps' /\ sweep'.at = "sweep"
  BY <1>1, <1>2, <1>6 DEF Sweeps, FacesOf
<1>8. PatchesTyped'
  BY <1>1, <1>3, <1>5, <1>6 DEF PatchesTyped, FacesOf
<1>9. Shape'
  BY <1>1, <1>3, <1>6, <1>7, <1>8 DEF Shape, FacesOf
<1>10. Alive' = DOMAIN patches
  BY <1>6 DEF Alive
<1>11. \A f \in FacesOf(mesh) : root'[patchOf[f]] = patchOf[f]
  BY <1>2, <1>4
<1>12. RootsInv'
  BY <1>1, <1>2, <1>4, <1>6, <1>7, <1>10 DEF RootsInv, Due, FacesOf
<1>13. BoundaryExact'
  <2>1. \A p \in DOMAIN patches : Region(p)' = Founded(p)
    BY <1>1, <1>11 DEF Region, Founded, FacesOf
  <2> QED
    BY <1>1, <1>3, <1>6, <1>10, <2>1 DEF BoundaryExact, GrowingInv
<1>14. FailedInv'
  BY <1>1, <1>3 DEF FailedInv, GrowingInv
<1>15. NeighborsInv'
  <2>1. \A p \in DOMAIN patches : NeighborRoots(p)' = Touching(p)
    <3> SUFFICES ASSUME NEW p \in DOMAIN patches
                 PROVE  {root'[q] : q \in Touching(p)} \ {p} = Touching(p)
      BY <1>6 DEF NeighborRoots
    <3>1. \A q \in Touching(p) : root'[q] = q
      BY <1>2, <1>5
    <3>2. p \notin Touching(p)
      BY DEF Touching
    <3> HIDE DEF Touching
    <3> QED
      BY <3>1, <3>2
  <2> SUFFICES ASSUME NEW f \in FacesOf(mesh), NEW g \in Neighbors(mesh, f),
                      patchOf[f] # patchOf[g]
               PROVE  patchOf[g] \in Touching(patchOf[f])
    <3>1. \A f1 \in FacesOf(mesh) : \A g1 \in Neighbors(mesh, f1) : g1 \in FacesOf(mesh)
      BY <1>3, NeighborsAreFaces
    <3> QED
      BY <1>1, <1>4, <1>11, <2>1, <3>1 DEF NeighborsInv
  <2> QED
    BY DEF Touching, Founded
<1>16. GrowingInv' /\ SettledInv'
  BY <1>7 DEF GrowingInv, SettledInv, SettledUpTo
<1> QED
  BY <1>9, <1>12, <1>13, <1>14, <1>15, <1>16 DEF IInv

LEMMA FailToMergeIInv == IInv /\ FailToMerge => IInv'
<1> SUFFICES ASSUME IInv, FailToMerge PROVE IInv'
  OBVIOUS
<1>1. /\ sweep \in Sweeps /\ sweep.at = "merge" /\ PatchesTyped /\ FailedInv
      /\ UNCHANGED <<mesh, patchOf, patches, root>>
  BY DEF IInv, Shape, FailToMerge
<1>2. PICK b \in Foremost(sweep.todo), a \in {sweep.region} :
        /\ ~Mergeable(a, b)
        /\ failed' = [pair \in DOMAIN failed \cup {{a, b}} |->
                        IF pair = {a, b} THEN Versions(a, b) ELSE failed[pair]]
        /\ sweep' = [sweep EXCEPT !.todo = @ \ {b}]
  BY DEF FailToMerge
<1>3. a = sweep.region /\ b \in sweep.todo /\ Due(sweep) /\ SettledUpTo(sweep)
  BY <1>1 DEF Foremost, IInv, RootsInv, SettledInv
<1>4. a \in Alive /\ b \in Alive /\ a # b /\ a \in DOMAIN patches /\ b \in DOMAIN patches
  BY <1>1, <1>3 DEF Due, Alive
<1>5. /\ sweep' \in Sweeps /\ sweep'.at = "merge" /\ sweep'.region = a
      /\ sweep'.order = sweep.order /\ sweep'.todo = sweep.todo \ {b}
      /\ sweep'.merged = sweep.merged
  BY <1>1, <1>2, <1>3 DEF Sweeps
<1>6. Due(sweep') /\ SettledUpTo(sweep')
  BY <1>1, <1>2, <1>3, <1>5 DEF Due, SettledUpTo
<1>7. Shape'
  BY <1>1, <1>5 DEF IInv, Shape, Sweeps, PatchesTyped, FacesOf
<1>8. RootsInv'
  <2>1. Due(sweep)'
    BY <1>1, <1>6, SameRegions DEF Due
  <2> QED
    BY <1>1, <2>1, SameRegions DEF IInv, RootsInv, FacesOf
<1>9. BoundaryExact'
  BY <1>1, SameRegions DEF IInv, BoundaryExact, Merged
<1>10. FailedInv'
  <2> SUFFICES ASSUME NEW x \in DOMAIN patches, NEW y \in DOMAIN patches,
                      x # y, {x, y} \in DOMAIN failed'
               PROVE  Recalled(x, y)' \/ Recalled(y, x)'
    BY <1>1 DEF FailedInv
  <2>1. CASE {x, y} = {a, b}
    <3>1. failed'[{a, b}] = <<patches[a].version, patches[b].version>>
      BY <1>2 DEF Versions
    <3>2. patches[a].version \in Nat /\ patches[b].version \in Nat
      BY <1>1, <1>4 DEF PatchesTyped
    <3>3. ~Mergeable(a, b)'
      BY <1>1, <1>2, SameRegions
    <3>4. Recalled(a, b)'
      BY <1>1, <3>1, <3>2, <3>3 DEF Recalled
    <3> QED
      BY <2>1, <3>4
  <2>2. CASE {x, y} # {a, b}
    <3>1. /\ {x, y} \in DOMAIN failed /\ {x, y} = {y, x}
          /\ failed'[{x, y}] = failed[{x, y}]
      BY <1>2, <2>2
    <3>2. Recalled(x, y) \/ Recalled(y, x)
      BY <1>1, <3>1 DEF FailedInv
    <3> QED
      BY <1>1, <3>1, <3>2, SameRegions DEF Recalled, Versions
  <2> QED
    BY <2>1, <2>2
<1>11. NeighborsInv'
  BY <1>1, SameRegions DEF IInv, NeighborsInv, Neighbors, HalfedgesOf, FaceOf, FacesOf
<1>12. GrowingInv'
  BY <1>5 DEF GrowingInv
<1>13. SettledInv'
  BY <1>1, <1>6, SameRegions DEF SettledInv, SettledUpTo
<1> QED
  BY <1>7, <1>8, <1>9, <1>10, <1>11, <1>12, <1>13 DEF IInv

LEMMA AbsorbIInv == IInv /\ Absorb => IInv'
<1> SUFFICES ASSUME IInv, Absorb PROVE IInv'
  OBVIOUS
<1>1. /\ sweep \in Sweeps /\ sweep.at = "merge" /\ PatchesTyped /\ mesh \in Surfaces
      /\ patchOf \in [FacesOf(mesh) -> DOMAIN patches]
      /\ root \in [DOMAIN patches -> Alive]
      /\ DOMAIN patches \subseteq FacesOf(mesh)
      /\ UNCHANGED <<mesh, patchOf, failed>>
      /\ sweep' = [sweep EXCEPT !.at = "again", !.todo = {}, !.merged = TRUE]
  BY DEF IInv, Shape, RootsInv, Absorb
<1>2. PICK b \in Foremost(sweep.todo), a \in {sweep.region} :
        patches' = Absorbed(a, b) /\ root' = Rerooted(a, b)
  BY DEF Absorb
<1>3. a = sweep.region /\ b \in sweep.todo /\ Due(sweep)
  BY <1>1 DEF Foremost, IInv, RootsInv
<1>4. a \in Alive /\ b \in Alive /\ a # b /\ a \in DOMAIN patches /\ b \in DOMAIN patches
  BY <1>1, <1>3 DEF Due, Alive
\* What has become of the patches.
<1>5. /\ DOMAIN patches' = DOMAIN patches
      /\ \A p \in DOMAIN patches \ {a, b} : patches'[p] = patches[p]
  BY <1>2 DEF Absorbed
<1>6. /\ DOMAIN patches'[a] = PatchFields
      /\ patches'[a].boundary = MergedBoundary(a, b)
      /\ patches'[a].neighbors = patches[a].neighbors \cup patches[b].neighbors
      /\ patches'[a].version = patches[a].version + 1
      /\ patches'[a].alive
  BY <1>2, <1>4 DEF Absorbed, AllNeighbors, Bumped, PatchFields
<1>7. /\ DOMAIN patches'[b] = PatchFields
      /\ patches'[b].boundary = patches[b].boundary
      /\ patches'[b].neighbors = patches[b].neighbors
      /\ patches'[b].version = patches[b].version
      /\ ~patches'[b].alive
  <2>1. patches'[b] = [patches[b] EXCEPT !.alive = FALSE]
    BY <1>2, <1>4 DEF Absorbed
  <2>2. DOMAIN patches[b] = PatchFields
    BY <1>1, <1>4 DEF PatchesTyped
  <2> QED
    BY <2>1, <2>2 DEF PatchFields
<1>8. Alive' = Alive \ {b}
  BY <1>4, <1>5, <1>6, <1>7 DEF Alive
<1>9. /\ root' \in [DOMAIN patches -> Alive \ {b}]
      /\ \A p \in DOMAIN patches : root'[p] = IF root[p] = b THEN a ELSE root[p]
  BY <1>1, <1>2, <1>4 DEF Rerooted
<1>10. /\ sweep' \in Sweeps' /\ sweep'.at = "again" /\ sweep'.region = a
       /\ sweep'.todo = {} /\ sweep'.merged
  BY <1>1, <1>3, <1>5 DEF Sweeps, FacesOf
<1>11. MergedBoundary(a, b) \subseteq FacesOf(mesh) \X (1..3)
  BY <1>1, <1>4 DEF MergedBoundary, PatchesTyped
<1>12. PatchesTyped'
  <2> SUFFICES ASSUME NEW p \in DOMAIN patches
               PROVE  /\ DOMAIN patches'[p] = PatchFields
                      /\ patches'[p].boundary \subseteq FacesOf(mesh) \X (1..3)
                      /\ patches'[p].neighbors \subseteq DOMAIN patches
                      /\ patches'[p].version \in Nat
    BY <1>1, <1>5 DEF PatchesTyped, PatchFields, FacesOf
  <2>1. CASE p = a
    BY <1>1, <1>4, <1>6, <1>11, <2>1 DEF PatchesTyped
  <2>2. CASE p = b
    BY <1>1, <1>4, <1>7, <2>2 DEF PatchesTyped
  <2>3. CASE p \notin {a, b}
    BY <1>1, <1>5, <2>3 DEF PatchesTyped
  <2> QED
    BY <2>1, <2>2, <2>3
<1>13. Shape'
  BY <1>1, <1>5, <1>10, <1>12 DEF IInv, Shape, FacesOf
<1>14. GrowingInv' /\ SettledInv'
  BY <1>10 DEF GrowingInv, SettledInv, SettledUpTo
<1>15. RootsInv'
  BY <1>1, <1>4, <1>5, <1>8, <1>9, <1>10 DEF RootsInv, Due, FacesOf
<1>16. BoundaryExact'
  <2>1. \A f \in FacesOf(mesh) :
          root'[patchOf[f]] = IF root[patchOf[f]] = b THEN a ELSE root[patchOf[f]]
    BY <1>1, <1>9
  <2>2. Region(a)' = Region(a) \cup Region(b)
    BY <1>1, <1>4, <2>1 DEF Region, FacesOf
  <2>3. \A p \in Alive \ {a, b} : Region(p)' = Region(p)
    BY <1>1, <2>1 DEF Region, FacesOf
  <2>4. \A p \in Alive : patches[p].boundary = RegionBoundary(mesh, Region(p))
    BY <1>1 DEF IInv, BoundaryExact, Merged
  <2>5. MergedBoundary(a, b) = RegionBoundary(mesh, Region(a) \cup Region(b))
    BY <1>1, <1>4, <2>4, MergedIsBoundary
  <2> SUFFICES ASSUME NEW p \in Alive \ {b}
               PROVE  patches'[p].boundary = RegionBoundary(mesh, Region(p)')
    BY <1>1, <1>8 DEF BoundaryExact
  <2>6. CASE p = a
    BY <1>6, <2>2, <2>5, <2>6
  <2>7. CASE p # a
    BY <1>5, <2>3, <2>4, <2>7 DEF Alive
  <2> QED
    BY <2>6, <2>7
\* Who grows has a new version; others see the same faces as before.
<1>17. FailedInv'
  <2>1. ASSUME NEW x \in DOMAIN patches, NEW y \in DOMAIN patches, x # y, Recalled(x, y)
        PROVE  Recalled(x, y)'
    <3>1. /\ patches[x].version \in Nat /\ patches[y].version \in Nat
          /\ \A p \in DOMAIN patches :
               patches'[p].version = IF p = a THEN patches[p].version + 1 ELSE patches[p].version
      BY <1>1, <1>5, <1>6, <1>7 DEF PatchesTyped
    <3>2. /\ failed[{x, y}] \in Nat \X Nat
          /\ failed[{x, y}][1] <= patches[x].version
          /\ failed[{x, y}][2] <= patches[y].version
      BY <2>1 DEF Recalled
    <3>3. /\ failed[{x, y}][1] <= patches'[x].version
          /\ failed[{x, y}][2] <= patches'[y].version
      BY <3>1, <3>2
    <3>4. CASE x = a \/ y = a
      <4>1. failed[{x, y}] # <<patches'[x].version, patches'[y].version>>
        BY <3>1, <3>2, <3>4
      <4> QED
        BY <1>1, <3>2, <3>3, <4>1 DEF Recalled, Versions
    <3>5. CASE x = b \/ y = b
      BY <1>1, <1>8, <3>2, <3>3, <3>5 DEF Recalled
    <3>6. CASE x \notin {a, b} /\ y \notin {a, b}
      <4>1. patches'[x] = patches[x] /\ patches'[y] = patches[y]
        BY <1>5, <3>6
      <4>2. \A h \in FacesOf(mesh) \X (1..3) :
              mesh.opposite[h] # Border =>
                (RootAt(mesh.opposite[h])' \in {x, y} <=> RootAt(mesh.opposite[h]) \in {x, y})
        <5> SUFFICES ASSUME NEW h \in FacesOf(mesh) \X (1..3), mesh.opposite[h] # Border
                     PROVE  RootAt(mesh.opposite[h])' \in {x, y}
                              <=> RootAt(mesh.opposite[h]) \in {x, y}
          OBVIOUS
        <5>1. FaceOf(mesh.opposite[h]) \in FacesOf(mesh)
          BY <1>1, SurfacesAssumption DEF FaceOf
        <5>2. patchOf[FaceOf(mesh.opposite[h])] \in DOMAIN patches
          BY <1>1, <5>1
        <5> QED
          BY <1>1, <1>9, <3>6, <5>2 DEF RootAt, FaceOf
      <4>3. patches[x].boundary \cup patches[y].boundary \subseteq FacesOf(mesh) \X (1..3)
        BY <1>1 DEF PatchesTyped
      <4>4. MergedBoundary(x, y)' = MergedBoundary(x, y)
        BY <1>1, <4>1, <4>2, <4>3 DEF MergedBoundary
      <4>5. Mergeable(x, y)' = Mergeable(x, y)
        BY <1>1, <4>4 DEF Mergeable
      <4> QED
        BY <1>1, <1>8, <2>1, <4>1, <4>5 DEF Recalled, Versions
    <3> QED
      BY <3>4, <3>5, <3>6
  <2> QED
    BY <1>1, <1>5, <2>1 DEF IInv, FailedInv
<1>18. NeighborsInv'
  <2> SUFFICES ASSUME NEW f \in FacesOf(mesh), NEW g \in Neighbors(mesh, f),
                      root'[patchOf[f]] # root'[patchOf[g]]
               PROVE  root'[patchOf[g]] \in
                        {root'[p] : p \in patches'[root'[patchOf[f]]].neighbors}
    <3>1. /\ FacesOf(mesh)' = FacesOf(mesh)
          /\ \A f1 : Neighbors(mesh, f1)' = Neighbors(mesh, f1)
      BY <1>1 DEF Neighbors, HalfedgesOf, FaceOf, FacesOf
    <3> QED
      BY <1>1, <3>1 DEF NeighborsInv, NeighborRoots
  <2>1. g \in FacesOf(mesh)
    BY <1>1, NeighborsAreFaces
  <2>2. patchOf[f] \in DOMAIN patches /\ patchOf[g] \in DOMAIN patches
    BY <1>1, <2>1
  <2>3. root[patchOf[f]] # root[patchOf[g]]
    BY <1>9, <2>2
  <2>4. root[patchOf[g]] \in NeighborRoots(root[patchOf[f]])
    BY <1>1, <2>3 DEF IInv, NeighborsInv
  <2>5. PICK n \in patches[root[patchOf[f]]].neighbors : root[n] = root[patchOf[g]]
    BY <2>4 DEF NeighborRoots
  <2>6. root[patchOf[f]] \in DOMAIN patches /\ n \in DOMAIN patches
    BY <1>1, <2>2, <2>5 DEF PatchesTyped, Alive
  <2>7. root'[n] = root'[patchOf[g]]
    BY <1>9, <2>2, <2>5, <2>6
  <2>8. n \in patches'[root'[patchOf[f]]].neighbors
    BY <1>5, <1>6, <1>9, <2>2, <2>5, <2>6
  <2> QED
    BY <2>7, <2>8
<1> QED
  BY <1>12, <1>13, <1>14, <1>15, <1>16, <1>17, <1>18 DEF IInv

-----------------------------------------------------------------------------
(* The theorems                                                            *)

LEMMA NextIInv == IInv /\ [Next]_vars => IInv'
<1> SUFFICES ASSUME IInv, [Next]_vars PROVE IInv'
  OBVIOUS
<1>1. CASE UNCHANGED vars
  <2>1. UNCHANGED <<mesh, patchOf, patches, root, failed, sweep>>
    BY <1>1 DEF vars
  <2>2. Shape' /\ GrowingInv'
    BY <2>1 DEF IInv, Shape, Sweeps, PatchesTyped, GrowingInv, Founded, FacesOf
  <2>3. CASE sweep.at = "grow"
    BY <2>1, <2>2, <2>3
       DEF IInv, GrowingInv, RootsInv, BoundaryExact, Merged, FailedInv, NeighborsInv,
           SettledInv, SettledUpTo
  <2>4. CASE sweep.at # "grow"
    BY <2>1, <2>4, SweepOnlyIInv DEF IInv, Shape, RootsInv, SettledInv
  <2> QED
    BY <2>3, <2>4
<1>2. CASE Finished
  BY <1>1, <1>2 DEF Finished
<1>3. CASE Step
  BY <1>3, GrowPatchIInv, ResplitIInv, StartMergingIInv, BeginSweepIInv, NextRegionIInv,
     SkipFailedIInv, FailToMergeIInv, AbsorbIInv, ReenumerateIInv, LeaveRegionIInv, EndSweepIInv
     DEF Step, Merge
<1> QED
  BY <1>1, <1>2, <1>3 DEF Next

\* All of the above holds in every state split_into_regions goes through.
THEOREM SplitInvariant == Spec => []IInv
BY InitIInv, NextIInv, PTL DEF Spec

\* The types of all that split_into_regions keeps; every patch leads to a
\* region that still exists.
THEOREM SplitTypeCorrect == Spec => []TypeOK
<1>1. IInv => TypeOK
  BY DEF IInv, Shape, PatchesTyped, RootsInv, TypeOK
<1> QED
  BY <1>1, SplitInvariant, PTL

\* A pair of regions that merge_to_fixpoint skips because it remembers that it
\* failed could not be merged now: the cache is an optimization and no more.
THEOREM CacheIsSound == Spec => []CacheSound
<1>1. IInv => CacheSound
  BY RecalledIsSound DEF IInv, Shape
<1> QED
  BY <1>1, SplitInvariant, PTL

\* The boundary that is certified in each attempt to merge is that of all the
\* faces of both regions, although it is carried along from merge to merge.
THEOREM BoundariesAreExact == Spec => []BoundaryExact
<1>1. IInv => BoundaryExact
  BY DEF IInv
<1> QED
  BY <1>1, SplitInvariant, PTL

\* When the sweeps are over, no two regions that share a seam can be merged.
THEOREM SplitIsMaximal == Spec => []Maximal
<1>1. IInv => Maximal
  <2> SUFFICES ASSUME IInv, sweep.at = "done", NEW f \in FacesOf(mesh),
                      NEW g \in Neighbors(mesh, f), NEW a, NEW b,
                      a = root[patchOf[f]], b = root[patchOf[g]], a # b
               PROVE  ~IsProjectionStrictlySimple(mesh, RegionBoundary(mesh, Region(a) \cup Region(b)))
    BY DEF Maximal
  <2>1. /\ mesh \in Surfaces
        /\ patchOf \in [FacesOf(mesh) -> DOMAIN patches]
        /\ root \in [DOMAIN patches -> Alive]
    BY DEF IInv, Shape, RootsInv
  <2>2. a \in Alive /\ b \in Alive
    BY <2>1, NeighborsAreFaces
  <2>3. b \in NeighborRoots(a)
    BY DEF IInv, NeighborsInv
  <2>4. ~Mergeable(a, b)
    BY <2>2, <2>3 DEF IInv, SettledInv, SettledUpTo, Settled
  <2>5. MergedBoundary(a, b) = RegionBoundary(mesh, Region(a) \cup Region(b))
    BY <2>1, <2>2, MergedIsBoundary DEF IInv, BoundaryExact, Merged
  <2> QED
    BY <2>4, <2>5 DEF Mergeable
<1> QED
  BY <1>1, SplitInvariant, PTL
=============================================================================
