----------------------------- MODULE FloorField -----------------------------
(***************************************************************************)
(* The propagation of travel times between the regions of a floor field:   *)
(* MultiRegionFloorfield::solve of libfloorfield/src/multi_region.rs, with *)
(* the seeded solver of one region from libfloorfield/src/fsm.rs, run when *)
(* a destination without a solution is asked for.                          *)
(*                                                                         *)
(* Times are natural numbers, Infinity where nothing arrives.  A region is *)
(* the set of its walkable cells, the sweeps of its solver are replaced by *)
(* what they converge to: the least time of a way through the region from  *)
(* a seed.  (The code's update mixes the two axes; what the propagation    *)
(* relies on is that times add up along a way and only ever go down.)      *)
(***************************************************************************)
EXTENDS Integers, FiniteSets, Sequences, SequencesExt

CONSTANTS
  Region,      \* numbers of the regions
  Cell,        \* the walkable cells of all regions
  Infinity,    \* no way
  Eps,         \* an arrival has to be earlier by more than this to count
  Limits,      \* solves allowed, see Limit; in the code 50 and 100
  Geometries,  \* the surfaces to solve on, see Geometry
  Goals        \* the destinations: sets of cells

Time == 0 .. Infinity

\* A surface: the region of each cell, the time from cell to cell inside of a
\* region, and for each region the facing cells of the seams that leave it (one
\* for each region next to it), with the time to cross.
Geometry == [home : [Cell -> Region],
             inside : [Cell -> [Cell -> Time]],
             pairs : [Region -> Seq(Cell \X Cell \X Nat)]]

\* The budget of solves: some for each region and seam, some in addition.
Limit == [perPart : Nat, extra : Nat]

ASSUME FieldAssumption ==
  /\ Region \subseteq Nat /\ IsFiniteSet(Region) /\ Region # {}
  /\ IsFiniteSet(Cell) /\ Cell # {}
  /\ Infinity \in Nat /\ Eps \in Nat /\ Eps < Infinity
  /\ Infinity % (Eps + 1) = 0   \* no time comes close to infinity itself
  /\ Limits \subseteq Limit
  /\ Goals \subseteq SUBSET Cell
  /\ \A g \in Geometries :
       /\ g \in Geometry
       /\ \A r \in Region : \A i \in DOMAIN g.pairs[r] :
            g.home[g.pairs[r][i][1]] = r /\ g.home[g.pairs[r][i][2]] # r
       /\ \A c, d \in Cell :   \* the quickest ways inside of a region
            /\ g.inside[c][c] = 0
            /\ g.home[c] # g.home[d] => g.inside[c][d] = Infinity
            /\ \A e \in Cell : g.inside[c][e] <= g.inside[c][d] + g.inside[d][e]

VARIABLES
  geo,      \* the surface
  goal,     \* the cells of the destination
  limit,    \* the budget of solves
  fields,   \* the travel time found for each cell
  solved,   \* the regions that have a field
  seeds,    \* arrival times from outside of the region, Infinity if none
  dirty,    \* regions with a seed their field does not know
  heap,     \* entries <<key, region>>, also those of regions solved since
  pops,     \* regions taken from the heap and solved
  status,   \* "unsolved", "solving", "solved" or "not converged"
  exact     \* for reference: the least time over all ways, see TravelTime
inputs == <<geo, goal, limit, exact>>
vars == <<inputs, fields, solved, seeds, dirty, heap, pops, status>>

Min2(a, b) == IF a <= b THEN a ELSE b
Least(S) == CHOOSE t \in S \cup {Infinity} : \A u \in S \cup {Infinity} : t <= u
Plus(a, b) == Min2(a + b, Infinity)
CellsOf(r) == {c \in Cell : geo.home[c] = r}
Seams == UNION {{<<r, geo.home[p[2]]>> : p \in ToSet(geo.pairs[r])} : r \in Region}

(***************************************************************************)
(* The reference: the times at which a way of n legs, through cells and    *)
(* seams, over the surface as a whole, arrives at a cell.                  *)
(***************************************************************************)
Legs(c) == {<<d, geo.inside[c][d]>> : d \in {e \in Cell : geo.inside[c][e] < Infinity}}
           \cup {<<p[2], p[3]>> : p \in {q \in ToSet(geo.pairs[geo.home[c]]) : q[1] = c}}

Arrivals ==
  LET After[n \in 0 .. Cardinality(Cell) - 1] ==
        IF n = 0 THEN goal \X {0}
        ELSE UNION {{a} \cup {<<g[1], Plus(a[2], g[2])>> : g \in Legs(a[1])} : a \in After[n - 1]}
  IN After[Cardinality(Cell) - 1]

TravelTime(arrivals) == [c \in Cell |-> Least({a[2] : a \in {b \in arrivals : b[1] = c}})]

\* A solve starts cold: a field that is lower than the result stays so.
Cold == Infinity

Init ==
  /\ geo \in Geometries
  /\ goal \in Goals
  /\ limit \in Limits
  /\ fields = [c \in Cell |-> Infinity]
  /\ solved = {}
  /\ seeds = [c \in Cell |-> Infinity]
  /\ dirty = {}
  /\ heap = {}
  /\ pops = 0
  /\ status = "unsolved"
  /\ \E arrivals \in {Arrivals} : exact = TravelTime(arrivals)

\* The destination is asked for and has no solution, also after a failed solve.
Start ==
  /\ status \in {"unsolved", "not converged"}
  /\ fields' = [c \in Cell |-> Cold]
  /\ solved' = {}
  /\ seeds' = [c \in Cell |-> IF c \in goal THEN 0 ELSE Infinity]
  /\ dirty' = {geo.home[c] : c \in goal}
  /\ heap' = {<<0, r>> : r \in dirty'}
  /\ pops' = 0
  /\ status' = "solving"
  /\ UNCHANGED inputs

Budget == limit.perPart * (Cardinality(Region) + Cardinality(Seams)) + limit.extra

\* Smallest key first, ties by region.
Before(e, f) == e[1] < f[1] \/ (e[1] = f[1] /\ e[2] <= f[2])
First == CHOOSE e \in heap : \A f \in heap : Before(e, f)

\* solve_region: a warm start from the field the region has, if any.
SolveRegion(r) ==
  [c \in Cell |->
     IF c \in CellsOf(r)
     THEN Min2(fields[c], Least({Plus(seeds[s], geo.inside[s][c]) : s \in CellsOf(r)}))
     ELSE fields[c]]

\* Does the wave arrive earlier than the seed or the field of the other side?
BugEarlierThanField(t, seed, known) == t + Eps < known
Earlier(t, seed, known) == t + Eps < Min2(seed, known)

\* One facing pair of a seam.
Cross(field, sd, pair) ==
  [sd EXCEPT ![pair[2]] =
     LET t == Plus(field[pair[1]], pair[3])
     IN IF Earlier(t, @, fields[pair[2]]) THEN t ELSE @]

\* The seeds behind the seams of region r, from its new field, pair by pair.
Seeded(field, r) ==
  LET After[i \in 0 .. Len(geo.pairs[r])] ==
        IF i = 0 THEN seeds ELSE Cross(field, After[i - 1], geo.pairs[r][i])
  IN After[Len(geo.pairs[r])]

\* A region is queued again for every seed that improves, also one that has
\* a field or is queued already.
BugReached(newSeeds) == {geo.home[c] : c \in {d \in Cell : newSeeds[d] < Infinity}}
Improved(newSeeds) == {geo.home[c] : c \in {d \in Cell : newSeeds[d] < seeds[d]}}

BugQueued(regions) == regions \ solved
Queued(regions) == regions

Entries(newSeeds, regions) ==
  {<<Least({newSeeds[c] : c \in CellsOf(y)}), y>> : y \in Queued(regions)}

BugPopped == heap            \* looks at the first entry and leaves it there
Popped == heap \ {First}

Kept(r) == solved \cup {r}

SkipClean == /\ status = "solving"
             /\ heap # {}
             /\ First[2] \notin dirty
             /\ heap' = Popped
             /\ UNCHANGED <<inputs, fields, solved, seeds, dirty, pops, status>>

Solve == /\ status = "solving"
         /\ heap # {}
         /\ First[2] \in dirty
         /\ pops < Budget
         /\ \E field \in {SolveRegion(First[2])} :
            \E newSeeds \in {Seeded(field, First[2])} :
               /\ fields' = field
               /\ solved' = Kept(First[2])
               /\ seeds' = newSeeds
               /\ dirty' = (dirty \ {First[2]}) \cup Improved(newSeeds)
               /\ heap' = Popped \cup Entries(newSeeds, Improved(newSeeds))
         /\ pops' = pops + 1
         /\ UNCHANGED <<inputs, status>>

GiveUp == /\ status = "solving"
          /\ heap # {}
          /\ First[2] \in dirty
          /\ pops >= Budget
          /\ status' = "not converged"
          /\ dirty' = dirty \ {First[2]}
          /\ heap' = Popped
          /\ pops' = pops + 1
          /\ UNCHANGED <<inputs, fields, solved, seeds>>

Finish == /\ status = "solving"
          /\ heap = {}
          /\ status' = "solved"
          /\ UNCHANGED <<inputs, fields, solved, seeds, dirty, heap, pops>>

Next == Start \/ SkipClean \/ Solve \/ GiveUp \/ Finish

\* solve() is a loop that goes on until it returns.
Loop == SkipClean \/ Solve \/ GiveUp \/ Finish
Spec == Init /\ [][Next]_vars /\ WF_vars(Loop)

-----------------------------------------------------------------------------
\* Types of the variables; a region without a field has no times.
TypeOK ==
  /\ geo \in Geometry /\ goal \in Goals /\ limit \in Limit
  /\ fields \in [Cell -> Time] /\ seeds \in [Cell -> Time]
  /\ solved \subseteq Region /\ dirty \subseteq Region
  /\ heap \subseteq Time \X Region
  /\ \A c \in Cell : geo.home[c] \notin solved => fields[c] = Infinity
  /\ pops \in Nat
  /\ status \in {"unsolved", "solving", "solved", "not converged"}

\* No region is forgotten: one that has to be solved has an entry in the heap,
\* and one that was ever seeded has a field or has to be solved.
QueueComplete ==
  status = "solving" =>
    /\ \A r \in dirty : \E e \in heap : e[2] = r
    /\ \A c \in Cell : seeds[c] < Infinity => geo.home[c] \in solved \cup dirty

\* A region that is not dirty has nothing more to say: its seeds are in its
\* field, and no way through one of its seams is earlier (by more than Eps)
\* than what the other side knows or was seeded with.
CleanIsSettled ==
  status \in {"solving", "solved"} => \A r \in Region \ dirty :
    /\ \A c, s \in CellsOf(r) : fields[c] <= Plus(seeds[s], geo.inside[s][c])
    /\ \A pair \in ToSet(geo.pairs[r]) :
         Min2(seeds[pair[2]], fields[pair[2]]) <= Plus(fields[pair[1]], pair[3]) + Eps

\* No time is ever earlier than the earliest way: a later improvement can
\* only lower what is there, so a time too early would stay.
NeverTooEarly ==
  \A c \in Cell : exact[c] <= fields[c] /\ exact[c] <= seeds[c]

\* Whatever has been solved so far is a part of the solution.
PropagationSound == TypeOK /\ QueueComplete /\ CleanIsSettled /\ NeverTooEarly

\* Do all times differ by more than Eps, if they differ?
Coarse == \A c \in Cell : \A leg \in Legs(c) : leg[2] % (Eps + 1) = 0

\* The result is that of a single grid over the whole surface, in whatever
\* order the regions were solved: exactly, unless arrivals can be as close as
\* Eps, when each leg of a way may lose Eps.
MatchesSingleGrid ==
  status = "solved" =>
    \A c \in Cell :
      fields[c] <= exact[c] + (IF Coarse THEN 0 ELSE Eps * (Cardinality(Cell) - 1))

\* The budget is for pathological cases only: one solve for each region and
\* seam is enough.
Converges == limit.perPart > 0 => status # "not converged"

\* Every call of solve() returns, with a solution or an error.
Returns == status = "solving" ~> status # "solving"
=============================================================================
