----------------------------- MODULE Simulation -----------------------------
(***************************************************************************)
(* The simulation core of JuPedSim: the class Simulation of                *)
(* libsimulator/src/simulation.cpp together with the systems its iterate() *)
(* runs (agent removal, neighborhood search, strategical, tactical and     *)
(* operational decision), the stages, the journeys with their transitions  *)
(* and the stage manager that counts the agents targeting each stage.      *)
(*                                                                         *)
(* iterate() is unfolded into its phases and the phases into one step per  *)
(* agent, because a phase may throw at any agent and because a custom      *)
(* model's callback runs inside the operational phase.  Every other        *)
(* operation is one action; a call that throws before it changed anything  *)
(* is a stuttering step and has no action.  add_agent is split where the   *)
(* model's constraint check may call back into the host program.           *)
(*                                                                         *)
(* An agent is named by the rank of its emplace_back into _agents: the     *)
(* deque is only appended to and filtered in order, so ascending rank is   *)
(* the order in which every system visits the agents.  Geometry and        *)
(* routing are parameters: a finite set of places, the places an area      *)
(* covers, the places one movement can reach and the routes that exist.    *)
(***************************************************************************)
EXTENDS Transitions, FiniteSets

CONSTANTS
  Stages,         \* the stages the host may register, by id
  Journeys,       \* the journeys the host may register, by id
  Places,         \* the locations of the walkable area
  Kind,           \* the kind of each stage: "waypoint", "exit" or "direct"
  Area,           \* the places the destination of a stage contains
  Nodes,          \* for each journey: its stages, each with its transition
  Walk,           \* where one movement from a place can lead
  Aims,           \* bound: the places the host steers agents to
  Route,          \* the <<place, target>> pairs the routing engine can answer
  MaxAgents,      \* bound: agents added in a behaviour
  MaxMarks,       \* bound: entries of one agent in the removal list
  ClockModulus,   \* 2^64 in the code: the iteration counter wraps
  Reentrant,      \* does a callback of the model call the simulation back?
  NoCall          \* no add_agent call is pending

AgentId == 1 .. MaxAgents

(***************************************************************************)
(* A transition: its kind, the stages it chooses from and their weights,   *)
(* which only the round robin reads.  A list to choose from is not empty   *)
(* and its weights do not sum to zero: the code neither rejects nor        *)
(* survives such a list.                                                   *)
(***************************************************************************)
Transition == [kind : {"none", "fixed", "roundrobin", "least"},
               to : Seq(Stages), weight : Seq(Nat \ {0})]

Target == Stages \cup Places
AgentRecord == [journey : Journeys, stage : Stages, loc : Places, target : Target]
AddCall == [journey : Journeys, stage : Stages, loc : Places]

ASSUME ParameterAssumption ==
  /\ Stages \cap Places = {}
  /\ Kind \in [Stages -> {"waypoint", "exit", "direct"}]
  /\ Area \in [Stages -> SUBSET Places]
  /\ DOMAIN Nodes = Journeys
  /\ \A j \in Journeys :
       /\ DOMAIN Nodes[j] \subseteq Stages
       /\ \A s \in DOMAIN Nodes[j] :
            /\ Nodes[j][s] \in Transition
            /\ Nodes[j][s].kind # "none" => Nodes[j][s].to # <<>>
            /\ Len(Nodes[j][s].weight) = Len(Nodes[j][s].to)
            /\ Nodes[j][s].kind = "roundrobin" => TotalWeight(Nodes[j][s].weight) \in Nat \ {0}
  /\ Walk \in [Places -> SUBSET Places]
  /\ Aims \subseteq Places
  /\ MaxAgents \in Nat
  /\ MaxMarks \in Nat
  /\ ClockModulus \in Nat \ {0}
  /\ Reentrant \in BOOLEAN
  /\ NoCall \notin AddCall

VARIABLES
  pc,          \* "idle", or the phase iterate() is in (_iterating is pc # "idle")
  cursor,      \* the last agent the current phase has handled
  agents,      \* _agents: the records of the agents in the container
  next,        \* _next: the generation the operational phase computes
  removed,     \* _removed_agents_in_last_iteration: entries per agent
  stages,      \* the registered stages
  targeting,   \* _targeting of each stage
  journeys,    \* the registered journeys
  called,      \* _next_called of the round robin transition of each node
  grid,        \* the neighborhood grid: where each agent it holds is filed
  iteration,   \* the simulation clock
  born,        \* the agents ever appended to _agents
  adding       \* the add_agent call waiting for the model's constraint check

vars == <<pc, cursor, agents, next, removed, stages, targeting, journeys,
          called, grid, iteration, born, adding>>

Alive == DOMAIN agents
Empty == [a \in {} |-> a]
Targeters(ags, s) == {a \in DOMAIN ags : ags[a].stage = s}
FiledAt(ags) == [a \in DOMAIN ags |-> ags[a].loc]
Remaining == {a \in Alive : a > cursor}
IsNext(a) == a \in Remaining /\ \A b \in Remaining : a <= b
Referenced(j) == DOMAIN Nodes[j] \cup
  UNION {{Nodes[j][s].to[i] : i \in DOMAIN Nodes[j][s].to} : s \in DOMAIN Nodes[j]}

-----------------------------------------------------------------------------
(* Stages and transitions: what Journey::target answers.                   *)

AtDestination(rec) == Kind[rec.stage] # "direct" /\ rec.loc \in Area[rec.stage]
AtExit(rec) == Kind[rec.stage] = "exit" /\ AtDestination(rec)
BugTargetIsStage(s, rec) == s   \* direct steering forgets the host's target
TargetOf(s, rec) == IF Kind[s] = "direct" THEN rec.target ELSE s

BugListsNobody(a, rec) == removed

\* Exit::is_completed lists the agent for removal as it answers.
ListedIfOut(a, rec) == IF AtExit(rec) THEN [removed EXCEPT ![a] = @ + 1] ELSE removed

Redirect(ags, a, s) == [ags EXCEPT ![a] = [@ EXCEPT !.target = TargetOf(s, ags[a]), !.stage = s]]

\* Bug of migrate_agent: it only decreases.
BugMigrateDecreases(counts, from, to) ==
  [s \in Stages |-> counts[s] - (IF s = from THEN 1 ELSE 0)]

Migrate(counts, from, to) ==
  [s \in Stages |-> counts[s] + (IF s = to THEN 1 ELSE 0) - (IF s = from THEN 1 ELSE 0)]

\* One turn of the loop of the strategical system, for agent a of container
\* ags: ask the journey, redirect the agent, move it between the counters.
Decide(a, ags, counts) ==
  LET rec == ags[a]
      t   == Nodes[rec.journey][rec.stage]
      n   == called[rec.journey][rec.stage]
  IN \E s \in IF AtDestination(rec) THEN NextStage(t, rec.stage, n, counts) ELSE {rec.stage} :
       /\ agents' = Redirect(ags, a, s)
       /\ targeting' = Migrate(counts, rec.stage, s)
       /\ removed' = ListedIfOut(a, rec)
       /\ called' = IF AtDestination(rec) /\ t.kind = "roundrobin"
                    THEN [called EXCEPT ![rec.journey][rec.stage] = (n + 1) % TotalWeight(t.weight)]
                    ELSE called

-----------------------------------------------------------------------------
Init ==
  /\ pc = "idle"
  /\ cursor = 0
  /\ agents = Empty
  /\ next = Empty
  /\ removed = [a \in AgentId |-> 0]
  /\ stages = {}
  /\ targeting = [s \in Stages |-> 0]
  /\ journeys = {}
  /\ called = [j \in Journeys |-> [s \in Stages |-> 0]]
  /\ grid = Empty
  /\ iteration = 0
  /\ born = 0
  /\ adding = NoCall

BugMutateAnytime == adding = NoCall \/ Reentrant   \* no throw_if_iterating

\* What throw_if_iterating lets through.  While the constraint check of a
\* pending add_agent runs, only a model that calls back can get here.
MayMutate == pc = "idle" /\ (adding = NoCall \/ Reentrant)

(***************************************************************************)
(* The host program's calls                                                *)
(***************************************************************************)
AddStage(s) ==
  /\ MayMutate
  /\ s \notin stages
  /\ stages' = stages \cup {s}
  /\ UNCHANGED <<pc, cursor, agents, next, removed, targeting, journeys,
                 called, grid, iteration, born, adding>>

\* Refused unless every stage it names is registered, and when a direct
\* steering stage is not its only stage.  The targets of the transitions need
\* not be stages of the journey.
AddJourney(j) ==
  /\ MayMutate
  /\ j \notin journeys
  /\ Referenced(j) \subseteq stages
  /\ (\E s \in DOMAIN Nodes[j] : Kind[s] = "direct") => Cardinality(DOMAIN Nodes[j]) <= 1
  /\ journeys' = journeys \cup {j}
  /\ UNCHANGED <<pc, cursor, agents, next, removed, stages, targeting,
                 called, grid, iteration, born, adding>>

\* add_agent up to and including the call of check_model_constraint.  Bound:
\* one pending call, an add_agent from within the check of another is left out.
CallAddAgent(j, s, p) ==
  /\ MayMutate /\ adding = NoCall
  /\ born < MaxAgents
  /\ j \in journeys
  /\ s \in DOMAIN Nodes[j]
  /\ adding' = [journey |-> j, stage |-> s, loc |-> p]
  /\ UNCHANGED <<pc, cursor, agents, next, removed, stages, targeting,
                 journeys, called, grid, iteration, born>>

RefuseAgent ==
  /\ pc = "idle" /\ adding # NoCall
  /\ adding' = NoCall
  /\ UNCHANGED <<pc, cursor, agents, next, removed, stages, targeting,
                 journeys, called, grid, iteration, born>>

FileInGrid(a, p) == grid' = [b \in DOMAIN grid \cup {a} |-> IF b = a THEN p ELSE grid[b]]

\* The rest of add_agent, with the strategical system run on the new agent.
\* The tactical run that follows may throw, and the agent stays all the same:
\* both outcomes are this step.
CompleteAddAgent ==
  /\ pc = "idle" /\ adding # NoCall
  /\ LET a   == born + 1
         rec == [journey |-> adding.journey, stage |-> adding.stage,
                 loc |-> adding.loc, target |-> adding.loc]
         ags == [b \in Alive \cup {a} |-> IF b = a THEN rec ELSE agents[b]]
     IN /\ Decide(a, ags, [targeting EXCEPT ![adding.stage] = @ + 1])
        /\ FileInGrid(a, rec.loc)
        /\ born' = a
  /\ adding' = NoCall
  /\ UNCHANGED <<pc, cursor, next, stages, journeys, iteration>>

MarkAgentForRemoval(a) ==
  /\ MayMutate
  /\ a \in Alive
  /\ removed[a] < MaxMarks
  /\ removed' = [removed EXCEPT ![a] = @ + 1]
  /\ UNCHANGED <<pc, cursor, agents, next, stages, targeting, journeys,
                 called, grid, iteration, born, adding>>

SwitchAgentJourney(a, j, s) ==
  /\ MayMutate
  /\ j \in journeys
  /\ s \in DOMAIN Nodes[j]
  /\ a \in Alive
  /\ agents' = [agents EXCEPT ![a].journey = j, ![a].stage = s]
  /\ targeting' = Migrate(targeting, agents[a].stage, s)
  /\ UNCHANGED <<pc, cursor, next, removed, stages, journeys, called, grid,
                 iteration, born, adding>>

SetTarget(a, p) == agents' = [agents EXCEPT ![a].target = p] /\ UNCHANGED next

\* The one mutation without throw_if_iterating: a callback of the operational
\* phase may set a target, and it is set in the generation being read.
SetAgentTarget(a, p) ==
  /\ MayMutate \/ (pc = "operational" /\ Reentrant)
  /\ a \in Alive
  /\ SetTarget(a, p)
  /\ UNCHANGED <<pc, cursor, removed, stages, targeting, journeys,
                 called, grid, iteration, born, adding>>

(***************************************************************************)
(* iterate()                                                               *)
(***************************************************************************)
BugGridKept(ags) == UNCHANGED grid
RebuildGrid(ags) == grid' = FiledAt(ags)

\* Bugs of the removal system: the list is cleared too early; an agent is taken
\* off the counter once per entry; the list is kept.
BugStayingAll == Alive
BugReleasedPerEntry(s) ==
  Cardinality({e \in Alive \X (1 .. MaxMarks) : e[2] <= removed[e[1]] /\ agents[e[1]].stage = s})

\* The removal system: remove_if keeps the agents the list does not name and
\* takes each other one off the counter of its stage.
Staying == {a \in Alive : removed[a] = 0}
Released(s) == Cardinality({a \in Alive \ Staying : agents[a].stage = s})
ClearList == removed' = [a \in AgentId |-> 0]

\* iterate() up to the first rebuild of the grid.
BeginIterate ==
  /\ MayMutate
  /\ agents' = [a \in Staying |-> agents[a]]
  /\ targeting' = [s \in Stages |-> targeting[s] - Released(s)]
  /\ ClearList
  /\ RebuildGrid(agents')
  /\ pc' = "strategical"
  /\ cursor' = 0
  /\ UNCHANGED <<next, stages, journeys, called, iteration, born, adding>>

BugFlagKept == pc' = pc /\ cursor' = 0 /\ next' = Empty   \* no IterationScope

\* The IterationScope clears the flag, on return and on an exception.  What is
\* left in _next is cleared before it is read again.
LeaveIteration ==
  /\ pc' = "idle"
  /\ cursor' = 0
  /\ next' = Empty

\* An exception unwinds iterate(): the clock does not advance, what the
\* earlier steps did stays.
Unwind ==
  /\ LeaveIteration
  /\ UNCHANGED <<agents, removed, stages, targeting, journeys, called, grid,
                 iteration, born, adding>>

Strategical(a) ==
  /\ pc = "strategical"
  /\ IsNext(a)
  /\ agents[a].stage \in DOMAIN Nodes[agents[a].journey]
  /\ Decide(a, agents, targeting)
  /\ cursor' = a
  /\ UNCHANGED <<pc, next, stages, journeys, grid, iteration, born, adding>>

\* Journey::target looks the stage of the agent up with at().
StrategicalThrows(a) ==
  /\ pc = "strategical"
  /\ IsNext(a)
  /\ agents[a].stage \notin DOMAIN Nodes[agents[a].journey]
  /\ Unwind

\* The tactical system writes only the orientations, which nothing here reads,
\* so the whole phase is one step; the operational one then copies the agents.
Tactical ==
  /\ pc = "strategical"
  /\ Remaining = {}
  /\ \A a \in Alive : <<agents[a].loc, agents[a].target>> \in Route
  /\ pc' = "operational"
  /\ cursor' = 0
  /\ next' = agents
  /\ UNCHANGED <<agents, removed, stages, targeting, journeys, called, grid,
                 iteration, born, adding>>

TacticalThrows ==
  /\ pc = "strategical"
  /\ Remaining = {}
  /\ \E a \in Alive : <<agents[a].loc, agents[a].target>> \notin Route
  /\ Unwind

\* Bug: the movement is applied to the generation being read as well.
BugMoveInPlace(a, p) ==
  /\ next' = [next EXCEPT ![a].loc = p]
  /\ agents' = [agents EXCEPT ![a].loc = p]
ApplyMove(a, p) == next' = [next EXCEPT ![a].loc = p] /\ UNCHANGED agents

\* One agent's compute_next_state and movement: read from _agents, written to _next.
Move(a, p) ==
  /\ pc = "operational"
  /\ IsNext(a)
  /\ p \in Walk[agents[a].loc]
  /\ ApplyMove(a, p)
  /\ cursor' = a
  /\ UNCHANGED <<pc, removed, stages, targeting, journeys, called,
                 grid, iteration, born, adding>>

\* The model raises, or the movement ends in a wall.
MoveThrows ==
  /\ pc = "operational"
  /\ Remaining # {}
  /\ Unwind

\* The swap of the generations, the second rebuild of the grid, the clock.
FinishIterate ==
  /\ pc = "operational"
  /\ Remaining = {}
  /\ agents' = next
  /\ RebuildGrid(next)
  /\ iteration' = (iteration + 1) % ClockModulus
  /\ LeaveIteration
  /\ UNCHANGED <<removed, stages, targeting, journeys, called, born, adding>>

-----------------------------------------------------------------------------
HostCall ==
  \/ \E s \in Stages : AddStage(s)
  \/ \E j \in Journeys : AddJourney(j)
  \/ \E j \in Journeys, s \in Stages, p \in Places : CallAddAgent(j, s, p)
  \/ \E a \in AgentId : MarkAgentForRemoval(a)
  \/ \E a \in AgentId, j \in Journeys, s \in Stages : SwitchAgentJourney(a, j, s)
  \/ \E a \in AgentId, p \in Aims : SetAgentTarget(a, p)

ReturnFromCheck == RefuseAgent \/ CompleteAddAgent

PhaseStep ==
  \/ \E a \in AgentId : Strategical(a) \/ StrategicalThrows(a)
  \/ Tactical \/ TacticalThrows
  \/ \E a \in AgentId, p \in Places : Move(a, p)
  \/ MoveThrows
  \/ FinishIterate

Next == HostCall \/ ReturnFromCheck \/ BeginIterate \/ PhaseStep

Spec == Init /\ [][Next]_vars

\* The host keeps calling iterate(), whatever else it calls in between, and
\* neither a constraint check nor a phase of iterate() runs forever.
Fairness ==
  /\ SF_vars(BeginIterate)
  /\ WF_vars(ReturnFromCheck)
  /\ WF_vars(PhaseStep)

FairSpec == Spec /\ Fairness

-----------------------------------------------------------------------------
(***************************************************************************)
(* Properties                                                              *)
(***************************************************************************)
\* Every variable has its type.  The counters of the stages are unsigned: the
\* assertion in decrease_targeting never fails.
TypeOK ==
  /\ pc \in {"idle", "strategical", "operational"}
  /\ cursor \in 0 .. MaxAgents
  /\ Alive \subseteq 1 .. born
  /\ agents \in [Alive -> AgentRecord]
  /\ DOMAIN next \subseteq AgentId
  /\ next \in [DOMAIN next -> AgentRecord]
  /\ removed \in [AgentId -> Nat]
  /\ stages \subseteq Stages
  /\ targeting \in [Stages -> Nat]
  /\ journeys \subseteq Journeys
  /\ called \in [Journeys -> [Stages -> Nat]]
  /\ iteration \in 0 .. ClockModulus - 1
  /\ born \in 0 .. MaxAgents
  /\ adding \in AddCall \cup {NoCall}

\* count_targeting() of a stage is the number of agents whose stage it is, at
\* every moment anyone can ask: between the decisions of one strategical run,
\* while a callback runs, and after an iterate() that threw half-way.
TargetingExact ==
  \A s \in Stages : targeting[s] = Cardinality(Targeters(agents, s))

\* agents_in_range() and the neighbor queries of a callback see every agent at
\* its current place: the grid files exactly the agents of the container.
GridExact == grid = FiledAt(agents)

\* The removal list names agents of the simulation only, so that removing them
\* cannot miss, whoever listed them and however often.
RemovalListed == \A a \in AgentId : removed[a] > 0 => a \in Alive

\* The generation that will be swapped in has the agents of the one it
\* replaces, with their journeys and stages, and those not yet visited at
\* their old place: the swap loses no agent and reverts no journey.
GenerationsAgree ==
  pc = "operational" =>
    /\ DOMAIN next = Alive
    /\ \A a \in Alive : /\ next[a].journey = agents[a].journey
                        /\ next[a].stage = agents[a].stage
                        /\ a > cursor => next[a].loc = agents[a].loc

\* A final target set on an agent without direct steering is ignored: whatever
\* the host wrote, the agent moves towards the area of its stage.
HostTargetsIgnored ==
  \A a \in DOMAIN next : Kind[next[a].stage] # "direct" => next[a].target = next[a].stage

\* Compute, then apply: no agent is seen at a new place before every agent has
\* computed its step, and an iterate() that throws moves nobody.
MovesCommitWithClock ==
  [][(\E a \in Alive \cap Alive' : agents'[a].loc # agents[a].loc) =>
       /\ pc = "operational" /\ pc' = "idle"
       /\ iteration' = (iteration + 1) % ClockModulus
       /\ \A a \in Alive : agents'[a].loc \in Walk[agents[a].loc]]_vars

\* A directly steered agent keeps its target until the host sets another one:
\* no step of iterate() changes it.
SteeringIsTheHosts ==
  [][\A a \in Alive \cap Alive' :
       Kind[agents[a].stage] = "direct" /\ agents'[a].target # agents[a].target
         => \E p \in Aims : SetAgentTarget(a, p)]_vars

\* An agent that completes a stage with a least targeted transition gets a
\* candidate that no fewer of the agents in the simulation head for than for
\* any other: the counters the choice reads are the agents' own.
LeastTargetedIsLeast ==
  [][\A a \in Alive :
       LET rec == agents[a]
           t   == Nodes[rec.journey][rec.stage]
           heading(s) == Cardinality(Targeters(agents, s))
       IN /\ pc = "strategical" /\ cursor' = a
          /\ AtDestination(rec) /\ t.kind = "least"
          => \A i \in DOMAIN t.to : heading(agents'[a].stage) <= heading(t.to[i])]_vars

\* A scheduled agent does leave, even when iterations keep failing: the removal
\* system runs before anything that can throw.
ScheduledLeave == \A a \in AgentId : removed[a] > 0 ~> a \notin Alive

\* An agent standing in the area of its exit leaves the simulation, unless the
\* host gives it another stage.
ExitReachedLeaves ==
  \A a \in AgentId :
    (pc = "idle" /\ a \in Alive /\ AtExit(agents[a]))
      ~> (a \notin Alive \/ Kind[agents[a].stage] # "exit")

\* iterate() comes to its end, completed or not, and lets the host in again.
IterateReturns == pc # "idle" ~> pc = "idle"

\* The simulation implements the life of an agent as AgentLifecycle states it.
Lifecycle == INSTANCE AgentLifecycle WITH
  Agent   <- AgentId,
  present <- Alive,
  leaving <- {a \in AgentId : removed[a] > 0},
  entered <- 1 .. born,
  busy    <- pc # "idle"

LifecycleSpec == Lifecycle!Spec
=============================================================================
