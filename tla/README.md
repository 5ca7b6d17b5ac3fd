# A verification model of JuPedSim

JuPedSim simulates the movement of pedestrians. A host program (Python) builds a
walkable area, adds stages (waypoints, exits, direct steering), journeys through
these stages and agents, and then calls `iterate()` again and again. This
directory holds TLA+ models of the program, the TLC runs that check them on small
instances and the proofs, checked by TLAPS, of what holds for every instance.

## Inventory

| Component | State | Operations | Hard behaviour | Modelled |
|---|---|---|---|---|
| Simulation core (`libsimulator/src/simulation.cpp` and the systems it runs) | agents, the next generation, the removal list, the neighborhood grid, journeys, the clock, `_iterating` | `add_stage`, `add_journey`, `add_agent`, `mark_agent_for_removal`, `switch_agent_journey`, `set_agent_target`, `iterate` | five phases over shared containers, an exception possible in most of them, callbacks into the host, two generations of agents | yes |
| Stages (`stage.cpp`, `stage_manager.hpp`) | counter of targeting agents per stage | `is_completed`, `target`, `migrate_agent`, `handle_new_agent`, `handle_remove_agent` | unsigned counters touched from five places; an exit answers a question and lists an agent for removal as it does | yes |
| Journeys (`journey.hpp`) | call counter of each round robin | `target`, `next_stage` | choice by counters that the same phase changes, arithmetic at the borders | yes |
| Neighborhood search (`neighborhood_search.hpp`, the views of `agent_view.cpp`) | cells of pointers to agents | `add_agent`, `update`, `for_each_in_range` | pointers into a container that is filtered and swapped; truncating cell index | yes |
| Operational models (`operational_models/`) | per agent: orientation, velocity, delay, memory of a deadlock | `compute_next_state`, `check_model_constraint` | everybody moves from the same generation; state carried over many steps; piecewise forces | partly: in single file, the warp driver in the plane |
| Walkable surface (`geometry/`) | vertices, regions, seams; mesh, patches; the grids and windows of a query | `add_region`, `connect_regions`, `create_geometry`, `split_into_regions`, `straight_walk`, locating, visibility, walls in sight, `split_into_region_pieces` | termination, caches of failed merges, surfaces above one another, degenerate positions | partly |
| Floor field (`libfloorfield`) | solutions per destination | `register_destination`, `solve` | propagation between regions with a queue and a budget; warm starts | partly |
| Routing engines (`*_routing_engine.cpp`) | lazy solutions, cached shortest path tree | `get_orientation` | stale caches | no |
| Host loop and trajectory writers (`simulation.py`, `sqlite_serialization.py`, `hdf5_serialization.py`) | open file, buffered frames | `begin_writing`, `write_iteration_state`, `close` | first frame, flushes at a boundary, an iteration that fails in between | partly |
| Timers, profiler (`timing.cpp`, `tracing.cpp`) | stack of timers, open buffers | push, pop, enable, disable, dump | switching while scopes are open | no |
| Distributions, bindings, visualisation, logging | none that others rely on | | glue, sampling and drawing | no |

The components are called by one thread: the host calls the simulation, the
simulation calls its systems, and only two functions call back: the `compute_next_state`
and `check_model_constraint` of a custom model run host code inside `iterate()` and
inside `add_agent()`. That is the concurrency of this program: what a callback
does in the middle of an operation, and what an exception leaves half done. The
writers meet other processes, too: readers of the SQLite database, and whatever
is left of a file when the process stops.

What makes the components correct:

* core: every piece of derived state (counters, grid, removal list, next
  generation) agrees with the agents at every moment the host can look, whatever
  was called in whatever order and whichever phase failed;
* journeys: the answer of each transition is the documented one;
* liveness: scheduled agents leave, exits drain, `iterate()` returns, nobody is stuck
  for ever in the warp driver model, the splitting of a surface ends;
* operational models: a range query misses nobody, collision free models keep
  agents apart, probabilities and gradients are those of the field, what an agent
  remembers of its way is true;
* geometry: regions are single-valued and as large as possible, a walk ends where
  the surface says, what is visible can be walked to, the walls in sight are those
  a walk would run into, storeys do not pass through one another, and the graph of
  regions has the seams of the triangles;
* writers: what a reader of the file finds at any moment are whole chunks or whole
  frames, in the order they were recorded in, and all of them after `close()`;
* floor field: the travel times do not depend on the order in which the regions
  were solved and are those of one grid over the whole surface.

## Modules

`MC*.tla` give the constants their values for TLC. Definitions whose name starts
with `Bug` are plausible errors of the definition that follows them. No behaviour
uses them; substituting one shows that the property it is meant for notices.

### The core

`Simulation.tla` is the simulation core with the systems of `iterate()`, the
stages, the stage manager and `Journey::target`. Its variables are the members
of class `Simulation`: `agents` and `next` (`_agents`, `_next`), `removed` (how often
`_removed_agents_in_last_iteration` names an agent), `targeting` (`_targeting` of
each stage), `called` (`_next_called` of each round robin), `grid`, `iteration`, and
`pc`/`cursor` for the place inside `iterate()`. Each public function is an action
whose guard is what the function lets through. A call that throws before it has
changed anything is a stuttering step. `iterate()` is unfolded: `BeginIterate`
(removal system, first rebuild of the grid), one `Strategical` step per agent,
`Tactical`, one `Move` per agent, `FinishIterate` (swap, second rebuild, clock); the
`...Throws` actions are the exceptions. `add_agent` is `CallAddAgent` up to the call of the
model's constraint check and `CompleteAddAgent` or `RefuseAgent` after it, so that
a re-entrant callback (`Reentrant`) can act in between.

Agents are named by the order in which they were added, which is the order of
the container. Positions are abstract places. `Walk` says where one movement can
lead, `Route` which targets can be routed to, `Area` what a stage covers: these are
the answers of the geometry and of the routing engine, taken as parameters. The
tactical phase writes orientations that nothing in the core reads, so it is a
single step.

`Transitions.tla` holds the transitions of a journey as operators, `RoundRobin.tla`
the round robin alone with the history of its answers. `AgentLifecycle.tla` is the
abstract specification of what the core promises about an agent: it enters once,
between iterations, is scheduled to leave by the host or by an exit, and leaves
with all other scheduled agents at the start of an iteration. `SimulationProofs.tla`
holds the theorems.

### Operational models

`Perception.tla` is what an agent sees: the cells of the neighborhood grid, the range
query, walls in range. `SpeedModels.tla` holds the collision free speed model (V1 to
V3) and the anticipation velocity model, `ForceModels.tla` the social force and the
generalized centrifugal force model, all as operators from a crowd and an agent
to its next move. `Motion.tla` runs one of them: `Add` is `add_agent` with the model's
`check_model_constraint`, `Iterate` moves everybody from the current generation, and
leaves it in place when somebody would leave the surface. Agents walk in single
file between two walls, at whole numbers. Exponentials become halvings per unit
and lateral terms vanish; what is kept are the order of decisions, every branch,
clamp and cap, and which generation is read. The anticipation velocity model draws
a step only for agents that would creep (`Draws`). `MotionProofs.tla` holds the theorems.

Agents of the centrifugal force model have a desired speed each (`v0`), which the host
gives them and may change at any time (`SetDesiredSpeed`); the other speed models share
`V0`. It may be 0: `check_model_constraint` accepts that (`generalized_centrifugal_force_model.cpp`,
lines 113-116). The ellipse is scaled by speed / v0, which is guarded between agents
(448-450) and not towards walls (373). Towards a wall straight ahead the infinite scale
meets a sine of 0, so the distance is not a number (`WallDistance`, `NaN`), and so is every
force and position after it. The exact arithmetic a walk goes through does not take such a
position (with Boost's numbers, which `third-party/CMakeLists.txt:37` selects, the conversion
throws), so the movement fails like one that leaves the surface (`Arrives`); a build with
assertions ends at the one of `hermite_interp`. Off the exact axis rounding makes the
extent of the ellipse infinite and the force is capped, which single file does not show.

`WarpField.tla` is the mathematics of the warp driver model: the blurred field, the
chain of warps into the space of a neighbor, the gradient back through their
inverse Jacobians, the union of the neighbors and the velocity solved for, on whole
numbers with a common denominator and orientations along the axes, so that
rotations are exact. `WarpDriver.tla` is one step of an agent: `StartStep`, one
`Perceive` per neighbor in any order, `Steer`, then `OnDetour` or `Drive` with the stuck
detection, or `NoRoute`; the host may `Reroute` in between. An agent meets finitely
many neighbors in a step, as an agent of a program does; `DriverAssumption` says what an
encounter is: orientations along the axes, whole positions and speeds, a positive
radius. `WarpDriverProofs.tla` holds the theorems.

### Geometry

`Mesh.tla` is a triangle mesh with its exact predicates (the code's are exact, too) and
the certificate that a projection does not fold. `RegionSplit.tla` is
`split_into_regions`: `GrowPatch` and `ResplitExactlyCoplanar` make planar patches,
`BeginSweep` to `EndSweep` merge them bottom up; `sweep` is the place in the algorithm,
`failed` the cache of failed pairs with their versions. A patch is named by the face
it grew from. `RegionSplitProofs.tla` holds its theorems. `SegmentGrid.tla` is the grid
walls are looked up in. `Surface.tla` walks on the regions: `straight_walk` over faces
and vertices, locating by region or height, `region_reached`, and the windows of
`PortalBoundaryIndex`, one `ProcessWindowJob` at a time; what is seen is a set of rays.

`Building.tla` is how a surface comes about: `AddRegion`, `ConnectRegions`,
`CreateGeometry` with its validation and the region graph, and the cutting of a stage's
area along that graph. The triangles of a region do not matter there, outlines do.

### Floor field

`FloorField.tla` is `MultiRegionFloorfield::solve` with its heap, the dirty flags, the
seeds carried across seams and the budget of solves. The sweeps of one region's
solver are replaced by their fixed point, least times along ways inside the region,
which keeps that they start warm and only lower what is there. `exact` is computed
once, independently of regions, over all ways of the surface. `FloorFieldProofs.tla` holds
the theorems, `RoundRobinProofs.tla` those about the round robin of `Transitions.tla`.

### Host loop and writers

`HostLoop.tla` is `Simulation.iterate()` of `simulation.py`: the core, of which only
the agents and the count of iterations matter here, runs or throws, and the
trajectory writer is called before the first and after every iteration. `pc` is the
place in the loop. The two writers extend it with the steps of `begin_writing`,
`write_iteration_state` and `close`. `Hdf5Writer.tla` keeps the two buffers (`rowBuffer`
for `_trajectory_buffer[:_record_idx]`, `offsetBuffer` for `_frame_offset_buffer`), the two
datasets and `_records_written`; a dataset may be left resized but not filled (`Blank`)
by an append that raises. `SqliteWriter.tla` keeps the tables as the writer and as
other connections see them, the open transaction and `_buffered_frame_count`. With
`journal_mode=OFF` SQLite keeps changed pages in its cache until COMMIT unless the
cache overflows; the model assumes that it does not, so that a transaction that is
dropped leaves nothing. `TrajectoryLog.tla` is what either writer promises: a log of
rows of which the file holds a growing prefix, and all of it after `close()`.
`Hdf5WriterProofs.tla` and `SqliteWriterProofs.tla` hold the theorems.

## Runs

| Run | Instance | Question |
|---|---|---|
| `lifecycle` | 2 agents, 3 stages, 3 journeys (one with a round robin, one with a transition out of the journey), re-entrant callbacks, up to 2 entries of an agent in the removal list | every order of host calls, callbacks, iterations and failures: are counters, grid and generations consistent (`TargetingExact`, `GridExact`, `GenerationsAgree`), and does the core implement `AgentLifecycle`? |
| `liveness` | 2 agents, a waypoint before two exits chosen by fewest targeting, direct steering, no callbacks, fairness | who leaves, does `iterate()` come back, who decides where a steered agent goes, are the counters read by a choice the right ones? |
| `round_robin` | all lists of up to 3 weights up to 4, 25 calls | the documented cycle (`ServedInTurn`) |
| `motion` | six models, 3 agents (2 of the force models), 10 units between the walls, 7 places to be added at, all routes; with GCFM two desired speeds, one of them 0, set at any time | does a query miss somebody (`CrowdSound`), do agents overlap, come too close or pass (`NoOverlap`, `StepsSound`), where is the force interpolated in its interval, with desired speeds of 0, too (`InterpolationInRange`)? |
| `warp` | an area of 2 by 4 units, 3 neighbors to meet, up to 2 at once, 2 samples, 2 sets of uncertainties, a route that is set and taken away, fairness | are probability and gradient exact in every order of the neighbors (`ProbabilitySound`, `GradientSound`), is the memory true (`MemorySound`), is nobody stuck for ever (`NobodyStuck`)? |
| `surface` | a room with a pillar, gentle and steep spirals and hubs whose faces lie above one another, numbered in many orders; on four of them an agent anywhere, 42 goals, 12 rays | are the regions right (`RegionsSound`), is the cache sound (`CacheSound`), do walks, places, visibility and walls in sight agree (`PlacesSound`, `VisibleIsWalkable`, `SightSound`), does splitting end (`Ends`)? |
| `building` | a ground floor, an annex that touches it, a twisted ring, two bridges, an upper floor with a stairwell, a lobby, each added or left out, up to 2 connectors at 5 segments, 5 areas | is what `create_geometry` accepts one surface whose graph is that of its triangles (`SeamsSound`, `StoreysApart`), does the direction of a segment matter (`DirectionsDoNotMatter`), is an area cut in every region it reaches (`PiecesFollow`)? |
| `floor_field` | 6,817 surfaces of 3 regions, 6 cells, 5 crossings; 2 destinations; a budget of one solve for each region and seam, or of two in all | are the travel times those of a single grid (`PropagationSound`, `MatchesSingleGrid`), is the budget enough (`Converges`), does every call return? |
| `hdf5` | 2 agents, chunks of 2 rows and of 2 offsets, 6 iterations of which every second is recorded; runs without failures of the file and runs with failures at every statement on it | do frames that straddle chunks stay whole, indexed and in order (`FileSound`, `WritesLog`)? what is in place after a failure (`RowsKeepPlace`)? |
| `sqlite` | 2 agents, COMMIT every 2 frames, 6 iterations; calm runs, runs with locks by other connections, interrupted runs | what do readers see (`DatabaseSound`), what does the count say after a refused COMMIT (`BufferingSound`), what does `close()` leave (`WritesLog`)? |
| `grid_doc` | a room of 4 by 64 m with a wall on a grid line | is a chord compared with every wall, as `segment_grid.hpp` says? It is not. |
| `hip_doc` | a landing around a corner of a lower room, with ramps on both sides of the corner | does an area follow every seam, as `geometry.hpp` says? It does not. |

The bounds are enough for the interesting cases.

* Core: two agents suffice for one that is visited before and one after a failure, a
  removal or a callback, and for a choice that depends on an earlier one; an agent
  can be listed twice (by the host and by its exit); the clock wraps at 2. The 25
  calls of `round_robin` are two cycles of the largest total weight, 12, and one call more.
* Models: three agents are one with a neighbor on either side; cells of 2 units
  around the origin, where truncation makes a cell twice as wide, lie in the middle
  of the corridor; every place of the walls, of a cut-off and of a force's zones is
  reached. The area of the warp driver is narrower than a detour on one
  side, so that a detour to either side, both sides and neither is free somewhere.
* Geometry: a spiral of five triangles is the least that lies above itself, a hub
  the least where a patch that may be merged early is in the way of others.
  Renumbering the faces stands for the order in which triangles come out of the
  triangulation. The rooms of `building` are such that of two connectors each may pass
  through the other, through a bridge or through the stairwell. Rooms
  are added before they are connected and one geometry is created: no later call
  reaches it.
* Floor field: three regions are the least that close a circle, two cells per region
  the least with a way through a region. The surfaces with even times only come up
  with differences larger than the tolerance of 1, and are solved exactly; those
  with odd ones show what a dropped arrival costs. The budget of the code is 50 solves
  for each region and seam and 100 more; one is enough here.
* Writers: two agents and chunks of two rows let a frame begin and end anywhere in
  a chunk, and four recorded frames fill two chunks of offsets; the records are
  longer in the code (a chunk of 64 kB, 1024 offsets) but the tests for a full buffer
  are the same. `MaxBuffered` stops interrupts of COMMIT from being counted for ever.

What the runs show. The counters are exact, the grid is fresh and the two
generations agree at every moment, also after an exception half-way and with
callbacks that change the simulation during `check_model_constraint`. Locations
only change in the step that advances the clock. The core implements
`AgentLifecycle`. In single file V1 and V2 never let agents overlap, although each of
two may take half of the gap between them; the anticipation velocity
model lets them overlap only where a wall turned one of them around after its speed
had been chosen. The union of collision probabilities does not depend on the order
of the neighbors and is a probability as long as the uncertainty across a movement is not larger
than the one along it (`check_model_constraint` does not ask for that). A surface is split
into regions none of which could be merged further, in any numbering, and the cache
of failed pairs never hides a merge. The HDF5 file is always a whole number of chunks
of the recorded rows, and the offsets delimit the frames, as long as nothing raises;
when something does, no row is misplaced while the file is open. Readers of the
SQLite database never see a part of a frame unless calls of the writer were interrupted:
then rows may be there whose frame is not listed, or, in one case, no rows for frames
that are listed (below). The travel times are independent
of the order in which regions are solved.

Two documented statements do not hold (see "findings" in `PROJECT.json`).

* `grid_doc`: a wall that runs along a grid line has no crossing point with it
  (`segment_grid.cpp:48` divides zero by zero), and from 64 m on the sorted list of points is out of
  order: cells are skipped, and `region_reached` looks through the wall there.
* `hip_doc`: two connectors that start at one corner of a region and end at one corner of
  another share their side in the mesh. Agents walk across it and see through it, but
  the region graph has no edge for it, so the area of a stage ends there. `building`
  therefore has no two doors that share a corner; `SeamsSound` would not hold with them.

The models also show the following, for which there is no run of its own:

* `removed_agents()` returns agents that can still be accessed;
* with the centrifugal force model, a host that sets the desired speed of an agent that
  moves towards a wall to 0 makes its force not a number. The constraint accepts 0, and
  `test_model_constraints.py:339` tests that it does, but `force_rep_stat_point` divides by it
  (`generalized_centrifugal_force_model.cpp:373`): `hermite_interp` is asked at NaN and its
  assertion (`mathematics.cpp:37`) fails; in a build without assertions every iteration throws
  from then on, so nobody moves. `InterpolationInRange` says exactly that: at a wall
  somebody moves towards the interval is kept if and only if the desired speed is positive;
* an interrupt between the `DROP TABLE` of `trajectory_data` and that of `frame_data` in
  `begin_writing()` leaves the transaction open. If a frame is still counted as buffered, because
  an earlier interrupt came between its COMMIT and the reset of the count, `close()` commits
  what is there: frames are listed and all rows are gone (`HalfDropped`). It needs a COMMIT
  after every frame, which the run does not have; the proof covers it;
* a transition out of its journey (`journey.hpp:189`) is accepted, and every later
  iteration throws while the agent is there. The counters stay exact (`TargetingExact`); that
  iterations fail from then on is not excluded by any property, and the instance of `liveness` has no
  such transition;
* an agent that is switched or redirected to a direct steering stage goes on to the target
  the stage before had set until the host sets one: `SteeringIsTheHosts` only says that the
  target it has is kept;
* a custom model's `check_model_constraint` may call mutating methods of the
  simulation, although `custom_model.py` says that they raise within a callback; and a
  target set by a callback during `iterate()` is lost in the swap, which no property excludes
  (`SteeringIsTheHosts` is about simulations without callbacks);
* a transition can lead into a direct steering stage that is not the only stage of its
  journey;
* the last offset of an HDF5 file is not the number of rows when the `with` block was
  left by an exception in the middle of a frame;
* `iterate()` begins a trajectory again when the first iteration failed, or when
  `iterate(0)` came first: `BeginRefused` is the exception the host then gets from every
  further call. That is an outcome, which no property excludes; the properties of the writers say
  that what is in the file survives it;
* V3 of the collision free speed model blends two spacings and may walk
  through a neighbor that is in the way in only one of the two directions;
* from a seam or a wall the query for walls in sight omits what lies behind that line
  (segments collinear with the agent are dropped before the sweep): `SightExact` and `SeesBack` leave these
  positions out;
* where faces lie above one another around a vertex, a walk through that vertex may
  go on on either: `WalkExact` asks only that it ends on the surface;
* `create_geometry` rejects an edge that two connectors use; `connect_regions`, which
  could, does not;
* the cache of failed pairs compares two versions in the order of the attempt, not of
  the pair's key; the proof shows why it is harmless (`RecalledIsSound`).

Fairness. `iterate()` is synchronous code: once it runs, it goes on to its end,
hence weak fairness of the steps of a phase and of the return from a constraint
check. That the host keeps calling `iterate()` is an assumption on the host; it is
strong fairness because the host makes other calls, and runs constraint checks,
in between. Nothing is assumed about whether an iteration succeeds. `solve()` of the
floor field and `split_into_regions` are loops without calls that could block: weak
fairness of their steps. For the warp driver the host keeps iterating whatever
routes it sets (weak fairness of `Begin`, which is always enabled between two steps), and a step
comes to its end; `NobodyStuck` is about agents that keep a route and whose
movements do not fail for ever. The writers', `motion`'s and `building`'s runs check safety only.

## Proofs

Each theorem holds for all values of the constants the named assumptions allow.

**`SimulationProofs.tla`** (`ParameterAssumption`: any number of agents, stages and journeys;
any geometry; with and without re-entrant callbacks):

* the type invariant (`TypeCorrect`), so no counter wraps below zero and the assertion in
  `decrease_targeting` holds;
* `CountersExact`, `GridFresh`, `RemovalSound`, `SwapSound`, `TargetsOfStages`: the
  safety invariants;
* `MovesCommit`, `LeastTargetedCorrect`: the action properties;
* `SteeringIsKept`: the action property `SteeringIsTheHosts`, where callbacks do not call back
  (`~Reentrant`). The hypothesis is needed: a target that a callback sets during the
  movement phase goes to the old generation, and the swap undoes it. On the way, `TargetsAgree`: both generations steer alike;
* `ImplementsLifecycle`: the refinement of `AgentLifecycle`.

They follow from one inductive invariant, `IndInv`. None of its parts is inductive
alone: an agent is taken off a counter that must contain it (the counters count the
agents of the container), the container is replaced by the next generation (which
must have the same agents with the same stages), and add_agent relies, after the
callback, on what it checked before (`AddingSound`). `TargetsSettled` and
`MovesReachable` say what the strategical and the operational phase have achieved
for the agents they have visited. The counting rests on three lemmas about
cardinalities (`MigrateExact`, `AppendExact`, `RemoveExact`). `ParameterAssumption` excludes
what the code neither rejects nor survives: empty lists of candidates and weights
whose sum wraps to zero.

**`RegionSplitProofs.tla`** (`SurfacesAssumption`: faces have numbers, halfedges have
opposites; nothing about shape, so degenerate and non-planar meshes are included):

* `CacheIsSound`: a pair that is skipped could not be merged now;
* `SplitIsMaximal`: when the sweeps are over no two neighboring regions could be merged;
* `BoundariesAreExact`: the boundary carried along from merge to merge is that of the
  faces of a region;
* `SplitTypeCorrect`.

The inductive invariant says that patches own the faces they grew from while they grow
(`GrowingInv`); that every root is alive, and so is what the sweep is about to merge
(`RootsInv`); that a remembered failure was one of a pair at versions not newer than
the present ones, and that it is still a failure if the versions are the present ones
(`FailedInv`); that regions that share a seam find each other among their
neighbors (`NeighborsInv`); and that in a sweep that has merged nothing whoever has
had its turn is settled (`SettledInv`). A merge changes one region only and raises its
version, which is why a pair remembered at its present versions is unchanged.
That regions are single-valued (`SingleValued`) is a fact of topology, which the
certificate rests on; it stays with TLC, as does termination (`Ends`).

**`Hdf5WriterProofs.tla`** (`LoopAssumption`, `BufferAssumption`: any number of agents, any
size of the buffers, any interval between frames):

* `ImplementsLog`: as long as nothing raises, the writer implements `TrajectoryLog`;
* `ChunksAreWhole`: then the file holds the complete chunks of the recorded rows and
  nothing else;
* `NoRowMisplaced`: whatever raised, each row of the open file is the one recorded at
  its place or blank;
* `FileIsSound`: the file is always what a reader may expect of it (`FileSound`); the
  offsets of a closed file lead to exactly the rows of each frame.

The invariant relates three sequences: the buffer holds the rows behind those of the
file (`BufferFollows`) or, once an append broke after it had made room, is full and
stays so (`BufferStuck`), so that no further row is recorded. `FramesIndexed` speaks of
the file alone and is not inductive: what is in the two buffers will be in the
file. `FileInv` therefore says that the offsets in file and buffer together index the rows
recorded so far (`IndexInv`, `Indexing`), one for each frame begun (`FramesStarted`).
Chunks of rows and of offsets fill up independently of each other; that the offsets in
the file never lead past what they index there is `IndexingReads`, and that `close()`,
which appends the last offset, makes the file complete is `CloseIndexes`.

**`SqliteWriterProofs.tla`** (`LoopAssumption`, `WriterAssumption`):

* `BufferingIsSound`: the count of buffered frames is exact and bounded;
* `ImplementsLog`: the writer implements `TrajectoryLog`, whatever locks other
  connections hold;
* `DatabaseIsSound`: other connections read the first of the rows inserted, in order, with
  all rows of each frame that is listed, and, without interrupts, no others
  (`DatabaseSound`). The exception is `HalfDropped`: after an interrupt in `begin_writing()` all
  rows may be gone while frames are listed.

The invariant distinguishes two ways to be between two calls: what is on the disk is a
prefix of what was inserted and lacks the frames counted (`Follows`), or `begin_writing()`
has dropped the tables and could not commit that (`Dropped`), in which case everything is
still on the disk and no call gets past `begin_writing()` again. The second one came
up in the proof only: it needs a COMMIT after every frame, which the run does not have.
For `DatabaseIsSound` the same is said of the tables as the writer itself sees them and of
those others read (`WholeIn`, `ListedIn` of `DiskInv`), with the one frame that may be
inserted and not listed yet.

**`MotionProofs.tla`** (`SpaceAssumption`, `ModelAssumption`, `ForceAssumption`: any walls, any
number of agents, any whole parameters and desired speeds, 0 included; the widths GCFM interpolates over are positive and
shorter than its reach, which its constructor does not check):

* `NobodyIsMissed`: a range query of the neighborhood search hands out exactly the agents
  in range, for every size of the cells and every radius, although positions are
  truncated towards zero (`CellsClose`: two points at most r apart are at most
  ceil(r / size) cells apart, on whichever sides of the origin they are);
* `CrowdIsSound`: whichever of the six models moves them, agents stay agents on the surface
  and perceive everybody in range (`CrowdSound`);
* `InterpolationStaysInRange`: between agents `hermite_interp` is only asked inside of the
  interval it interpolates over, and that interval is not empty; at a wall an agent moves
  towards this is so if and only if its desired speed is positive (`InterpolationInRange`);
* `DistanceIsKept`: with the collision free speed model (V1, V2) and the anticipation
  velocity model no two agents pass one another or come closer than their contact distance
  in any step, unless one of them moves without looking (`StepsSound`);
* `NobodyOverlaps`: with V1 and V2 no two agents ever overlap (`NoOverlap`).

The last two have hypotheses that the code does not check. `Spacious`: a time gap of
two steps at least, a contact range of the validation that reaches as far as two agents,
and a neighborhood as far as two agents come in one step. With a time gap of one step two
agents that approach each other would meet in the same place. The defaults satisfy it (a
time gap of 1 s, steps of 0.01 s, radii of 0.2 m, ranges of 2 m and 3 m); agents wider than
1 m, which the constraint accepts, do not. `Buffered`: the buffer of the anticipation
velocity model is at least the space in which an agent creeps, and two creeping steps more.
Its 2 cm are more than the 0.01 m/s creep in the default time gap of 1.06 s; with a time
gap of 2 s or more, up to the 10 s the constraint accepts, an agent may draw a step
forward in front of somebody it touches.

That each of the models yields whole numbers needs types of sums over neighbors and walls,
of minima and of powers (`SumType`, `MinOfFinite`, `PowerType`), which are
recursive or chosen: they are proved by induction over sets of numbers and of agents
(`Induction`, `FiniteInduction`). `CrowdInv` adds to the type invariant that the crowd is
finite, without which there is no sum, and, but for the centrifugal force model, that radii are
those agents are added with. A force that is not a number never gets into the crowd, because the
iteration then fails (`Arrives`).
For distances the argument is one of two agents: both sides of a gap are moved from
the same generation, and each takes at most half of it (`Careful`, `SightedIsCareful`,
`BothCareful`), or they are farther apart than two steps reach. `StepsSound` excepts
two kinds of moves of the anticipation velocity model, which the attempt to prove it for more
than two agents turned up: an agent a wall turned goes with the speed of the direction
it had before, and one that steps back from the agent in front does not look behind.
With three agents either of them runs into a third. `KeptApart` adds to `NoOverlap` that
radii are positive, so that two agents apart are in different places and one is behind the
other.

**`FloorFieldProofs.tla`** (`FieldAssumption`: any finite set of cells in any regions,
numbered in any way; any seams and crossing times; any `Eps`):

* `PropagationIsSound`: no region that has to be solved is forgotten by the heap,
  a clean one has nothing more to say, and no time is earlier than the quickest way;
* `SingleGridIsMatched`: when the propagation finishes, its fields are those of one grid
  over the whole surface: exactly if arrivals differ by more than `Eps` or not at all, and
  otherwise within `Eps` for each leg of a way.

`FieldAssumption` says what the solver of one region does: its times are those of
quickest ways, so they are 0 from a cell to itself, infinite to other regions and
obey the triangle inequality. A seam joins two different regions (`RegionGraph`). That
`Infinity`, a number here, is a multiple of `Eps + 1` only keeps it away from finite times,
as IEEE infinity is. The inductive invariant `IInv` adds to `PropagationSound` that each
time in a field came from a seed of its region (`Attained`), which is what makes the warm
start of a region harmless, that the destination stays seeded (`GoalSeeded`), and
that roundness is preserved (`Rounded`), which is why nothing is lost to `Eps` then.
`exact` is the least arrival over ways of few legs, one for each other cell; that longer
ways are no quicker, so that it is the least over all of them, is `FewLegs` and `Reference`.
A finished field is then compared with the arrivals leg by leg, and each leg charges
`Eps` once at most (`SolvedLegs`).
The fixed points are recursive functions; their equations are proved from `CHOOSE` by
induction over a set of numbers (`Induction`, `Recursion`).

**`RoundRobinProofs.tla`** (`RoundRobinAssumption`, `ModulusAssumption`):

* `EveryCallAnswered`: each call of `next_stage` finds an entry, for all weights whose total
  is not zero modulo 2^64, also where the sums in between wrap, so the exception at its end
  cannot be thrown;
* `CycleIsServed`: the calls are answered in the order of the documented cycle, again and
  again, for every list whose sums of weights do not reach 2^64 (`NoWrap`). The hypothesis is
  needed: where a sum wraps, entries are skipped. The code does not check it.

`CycleInv` says that the counter is the number of answers modulo the length of the cycle,
and that answers so far repeat the cycle; `Laid` that the cycle, a list built by
concatenation, has at each place the entry whose interval of weights contains it.

**`WarpDriverProofs.tla`** (`FieldAssumption`, `DriverAssumption`: a grid of any
size and scale, any finite number of neighbors anywhere, any accepted uncertainties, any
area, any times and thresholds):

* `ProbabilityIsSound`: whatever neighbors an agent meets, in whatever order the grid hands
  them out, each sample holds the probability that not all of them are missed, and the
  gradient of it; both exactly, and the probability between 0 and 1 (`ProbabilitySound`);
* `GradientIsSound`: an encounter and its mirror image are perceived alike, so that neither
  side attracts an agent, for every warp with all of its divisions; and for a field that is a
  plane the chain of inverse Jacobians is its change along each axis, where nothing is
  rounded (`GradientSound`);
* `MemoryIsSound`: the displacement by which stuck detection decides is the way since its
  window began, over steps that failed, detours and their ends (`MemorySound`).

`IInv` is the inductive invariant (`Invariance`); TLC finds it true in every state of the
instance of `warp`. It adds to `TypeOK` what a step has come to (`SeenOK`): all of its
samples, each with a positive denominator, are there, the neighbors are finitely many, and
the parameters are such that `check_model_constraint` accepts them. `UnionExact` is inductive because the neighbor perceived
last can be taken out of the product and of the sum first (`UnionIsExact`). That sums and
products may be split at any element is a fact about folds, which the library defines by
`CHOOSE`: `FoldExists` and `FoldSplits` prove it by induction over a finite set, for an
operation that is associative and commutative, and `SumSplits` and `ProductSplits` are what
all others cite. `ProbabilityInRange` rests on the field: it is nowhere above its peak
(`ValuesType`), nor is what is interpolated (`InterpolatedInRange`). Its hypothesis, an
uncertainty across that is not larger than the one along, is needed, because the scaling
divides by the one and multiplies by the other.

For the symmetry the field itself is symmetric (`BlurredMirrored`: the terms of a sum trade
places, `SumReindexed`), its differences along y change sign (`AlongType`), interpolation
keeps both although a point on the mirrored border of a cell is looked up in the other cell
(`EitherCell`, `SampleType`), division towards zero is odd (`QuotType`), and the warps turn a
mirrored encounter into the mirrored point and back (`LocalMirrored`, `ForwardMirrored`,
`GradientMirrored`). Whole units and orientations along the axes are the model's, not the
code's: what is proved is the order and the signs of the calculation, not its rounding.

Only model-checked:

* the liveness properties (fairness is out of reach of the prover), and that the budget
  of the floor field is enough (`Converges`), which holds on the surfaces of the run and is
  no theorem: it depends on how often regions are improved;
* that regions are single-valued (`SingleValued` of `RegionsSound`), a fact of topology;
* the geometry of walks, sights and buildings, which is arithmetic on coordinates and
  holds for the surfaces of the runs.

## Plan

What is left, in this order:

1. Floor field: halo and queries (`travel_times`, `direction`, `steepest_descent`), the
   validation of the region graph, the pairing of cells across a seam.
2. Routing engines: lazy solutions, the cache of the last shortest path tree.
3. Composition of the host loop with the simulation core, and of `Motion` with the
   phases of `iterate()`.
4. Timers and profiler.

## Not modelled

* Numbers: exponentials, square roots and rounding of the operational models are replaced
  by functions of the same shape on whole numbers; in two dimensions only the warp
  driver is modelled. Distributions sample positions and keep no state.
* Geometry: the triangulation (a library), rounding of inexact coordinates, the queries
  that only the viewer uses.
* Floor field: rasterising, the sweeps inside a region, halo and queries, which interpolate
  what has been solved.
* Routing engines: what is cached are shortest paths over triangles, which a library
  computes; the core leaves open which routes exist (`Route`).
* Writers: the contents of headers and metadata, positions, and geometries a format does
  not support (every call then raises).
* Timers and the profiler, bindings, visualisation and logging are glue and output.
  Third-party code is not part of the program's own logic.
