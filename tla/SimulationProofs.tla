-------------------------- MODULE SimulationProofs --------------------------
(***************************************************************************)
(* What holds of Simulation for every value of its constants.              *)
(***************************************************************************)
EXTENDS Simulation, FiniteSetTheorems, TLAPS

(***************************************************************************)
(* The transitions: whatever is answered is a stage.                       *)
(***************************************************************************)
\* next_stage answers with a stage the transition names, or stays.
LEMMA NextStageIsStage ==
  ASSUME NEW t \in Transition, t.kind # "none" => t.to # <<>>,
         Len(t.weight) = Len(t.to),
         NEW s \in Stages, NEW n, NEW counts
  PROVE  NextStage(t, s, n, counts) \subseteq Stages
<1>1. /\ t.kind \in {"none", "fixed", "roundrobin", "least"}
      /\ t.to \in Seq(Stages)
      /\ t.weight \in Seq(Nat \ {0})
  BY DEF Transition
<1>2. DOMAIN t.weight = DOMAIN t.to
  BY <1>1
<1>3. \A i \in DOMAIN t.to : t.to[i] \in Stages
  BY <1>1
<1>4. RoundRobinPick(t.weight, n) \subseteq DOMAIN t.to
  BY <1>2 DEF RoundRobinPick
<1>5. LeastTargetedPick(t.to, counts) \subseteq DOMAIN t.to
  BY DEF LeastTargetedPick
<1>6. t.kind = "fixed" => 1 \in DOMAIN t.to
  BY <1>1
<1> QED
  BY <1>1, <1>3, <1>4, <1>5, <1>6 DEF NextStage

\* Redirect changes the target and the stage of one agent and nothing else.
LEMMA RedirectAgent ==
  ASSUME NEW ags, ags \in [DOMAIN ags -> AgentRecord],
         NEW a \in DOMAIN ags, NEW s \in Stages,
         NEW new, new = Redirect(ags, a, s)
  PROVE  /\ new \in [DOMAIN ags -> AgentRecord]
         /\ DOMAIN new = DOMAIN ags
         /\ new[a].stage = s
         /\ new[a].target = TargetOf(s, ags[a])
         /\ new[a].journey = ags[a].journey
         /\ new[a].loc = ags[a].loc
         /\ \A b \in DOMAIN ags \ {a} : new[b] = ags[b]
<1>1. TargetOf(s, ags[a]) \in Target
  BY DEF TargetOf, Target, AgentRecord
<1> DEFINE rec == [ags[a] EXCEPT !.target = TargetOf(s, ags[a]), !.stage = s]
<1>2. ags[a] \in AgentRecord
  OBVIOUS
<1>4. rec \in AgentRecord
  BY <1>1, <1>2 DEF AgentRecord
<1>5. Redirect(ags, a, s) = [ags EXCEPT ![a] = rec]
  BY DEF Redirect
<1>6. /\ rec.stage = s
      /\ rec.target = TargetOf(s, ags[a])
      /\ rec.journey = ags[a].journey
      /\ rec.loc = ags[a].loc
  BY <1>2 DEF AgentRecord
<1> HIDE DEF rec
<1> QED
  BY <1>4, <1>5, <1>6

(***************************************************************************)
(* Counting the agents of a stage.                                         *)
(***************************************************************************)
\* One agent changes its stage: migrate_agent keeps the counters exact.
LEMMA MigrateExact ==
  ASSUME NEW f, NEW g, DOMAIN f = DOMAIN g, IsFiniteSet(DOMAIN f),
         NEW a \in DOMAIN f,
         \A b \in DOMAIN f \ {a} : g[b].stage = f[b].stage,
         NEW counts \in [Stages -> Int],
         \A s \in Stages : counts[s] = Cardinality(Targeters(f, s))
  PROVE  \A s \in Stages :
           Migrate(counts, f[a].stage, g[a].stage)[s] = Cardinality(Targeters(g, s))
<1> SUFFICES ASSUME NEW s \in Stages
             PROVE  Migrate(counts, f[a].stage, g[a].stage)[s] = Cardinality(Targeters(g, s))
  OBVIOUS
<1> DEFINE rest == Targeters(f, s) \ {a}
<1>1. IsFiniteSet(Targeters(f, s)) /\ IsFiniteSet(rest)
  BY FS_Subset DEF Targeters
<1>2. Cardinality(rest) \in Nat
  BY <1>1, FS_CardinalityType
<1>3. Cardinality(rest \cup {a}) = Cardinality(rest) + 1
  BY <1>1, FS_AddElement
<1>4. Targeters(f, s) = IF f[a].stage = s THEN rest \cup {a} ELSE rest
  BY DEF Targeters
<1>5. Targeters(g, s) = IF g[a].stage = s THEN rest \cup {a} ELSE rest
  BY DEF Targeters
<1> HIDE DEF rest
<1>6. Cardinality(Targeters(f, s)) = Cardinality(rest) + (IF s = f[a].stage THEN 1 ELSE 0)
  BY <1>2, <1>3, <1>4
<1>7. Cardinality(Targeters(g, s)) = Cardinality(rest) + (IF s = g[a].stage THEN 1 ELSE 0)
  BY <1>2, <1>3, <1>5
<1> QED
  BY <1>2, <1>6, <1>7 DEF Migrate

\* An agent is appended: handle_new_agent keeps the counters exact.
LEMMA AppendExact ==
  ASSUME NEW f, NEW g, NEW a, a \notin DOMAIN f, DOMAIN g = DOMAIN f \cup {a},
         IsFiniteSet(DOMAIN f), \A b \in DOMAIN f : g[b] = f[b],
         g[a].stage \in Stages,
         NEW counts \in [Stages -> Int],
         \A s \in Stages : counts[s] = Cardinality(Targeters(f, s))
  PROVE  \A s \in Stages :
           [counts EXCEPT ![g[a].stage] = @ + 1][s] = Cardinality(Targeters(g, s))
<1> SUFFICES ASSUME NEW s \in Stages
             PROVE  [counts EXCEPT ![g[a].stage] = @ + 1][s] = Cardinality(Targeters(g, s))
  OBVIOUS
<1>1. IsFiniteSet(Targeters(f, s)) /\ a \notin Targeters(f, s)
  BY FS_Subset DEF Targeters
<1>2. Cardinality(Targeters(f, s) \cup {a}) = Cardinality(Targeters(f, s)) + 1
  BY <1>1, FS_AddElement
<1>3. Targeters(g, s) = IF g[a].stage = s THEN Targeters(f, s) \cup {a} ELSE Targeters(f, s)
  BY DEF Targeters
<1> QED
  BY <1>2, <1>3

\* Agents are removed: handle_remove_agent keeps the counters exact.
LEMMA RemoveExact ==
  ASSUME NEW f, IsFiniteSet(DOMAIN f), NEW kept \in SUBSET DOMAIN f, NEW s
  PROVE  Cardinality(Targeters([a \in kept |-> f[a]], s))
           = Cardinality(Targeters(f, s)) - Cardinality({a \in DOMAIN f \ kept : f[a].stage = s})
<1> DEFINE gone == {a \in DOMAIN f \ kept : f[a].stage = s}
           stay == Targeters([a \in kept |-> f[a]], s)
<1>1. IsFiniteSet(Targeters(f, s))
  BY FS_Subset DEF Targeters
<1>2. stay = Targeters(f, s) \ gone
  BY DEF Targeters
<1>3. Targeters(f, s) \cap gone = gone
  BY DEF Targeters
<1>4. IsFiniteSet(gone)
  BY FS_Subset
<1> QED
  BY <1>1, <1>2, <1>3, <1>4, FS_Difference

(***************************************************************************)
(* The inductive invariant.  The counters, the grid, the removal list and  *)
(* the two generations are correct only together: each rests on the        *)
(* agents of the container being those the others were computed for.       *)
(***************************************************************************)
\* A pending add_agent has been admitted: its agent will fit and has a node.
AddingSound ==
  adding # NoCall => /\ born < MaxAgents
                     /\ adding.stage \in DOMAIN Nodes[adding.journey]

Settled(rec) == Kind[rec.stage] # "direct" => rec.target = rec.stage

Listed == {a \in AgentId : removed[a] > 0}

\* The strategical system has settled the targets of the agents it visited.
TargetsSettled ==
  pc = "strategical" => \A a \in Alive : a <= cursor => Settled(agents[a])

\* The agents visited by the operational system moved by one movement.
MovesReachable ==
  pc = "operational" => \A a \in Alive : a <= cursor => next[a].loc \in Walk[agents[a].loc]

IndInv ==
  /\ TypeOK
  /\ AddingSound
  /\ TargetingExact
  /\ GridExact
  /\ RemovalListed
  /\ GenerationsAgree
  /\ TargetsSettled
  /\ HostTargetsIgnored
  /\ MovesReachable

\* Only finitely many agents are alive.
LEMMA AliveFinite ==
  ASSUME TypeOK
  PROVE  /\ Alive \subseteq AgentId
         /\ IsFiniteSet(Alive)
         /\ born + 1 \notin Alive
<1>1. born \in Nat /\ born <= MaxAgents /\ MaxAgents \in Nat
  BY ParameterAssumption DEF TypeOK
<1>2. IsFiniteSet(1 .. born)
  BY <1>1, FS_Interval
<1>3. Alive \subseteq 1 .. born
  BY DEF TypeOK
<1>4. IsFiniteSet(Alive)
  BY <1>2, <1>3, FS_Subset
<1> QED
  BY <1>1, <1>3, <1>4 DEF AgentId

\* The node of an agent that is looked up holds a transition that can answer.
LEMMA NodeAnswers ==
  ASSUME NEW j \in Journeys, NEW s \in DOMAIN Nodes[j]
  PROVE  /\ s \in Stages
         /\ \A n, counts : NextStage(Nodes[j][s], s, n, counts) \subseteq Stages
         /\ Nodes[j][s].kind = "roundrobin" => TotalWeight(Nodes[j][s].weight) \in Nat \ {0}
<1>1. /\ s \in Stages
      /\ Nodes[j][s] \in Transition
      /\ Nodes[j][s].kind # "none" => Nodes[j][s].to # <<>>
      /\ Len(Nodes[j][s].weight) = Len(Nodes[j][s].to)
      /\ Nodes[j][s].kind = "roundrobin" => TotalWeight(Nodes[j][s].weight) \in Nat \ {0}
  BY ParameterAssumption
<1> QED
  BY <1>1, NextStageIsStage

\* One turn of the strategical loop: one agent is redirected to a stage and
\* settled, the counters follow, the removal list may gain that agent.
LEMMA DecideStep ==
  ASSUME NEW ags, ags \in [DOMAIN ags -> AgentRecord],
         DOMAIN ags \subseteq AgentId, IsFiniteSet(DOMAIN ags),
         NEW a \in DOMAIN ags, ags[a].stage \in DOMAIN Nodes[ags[a].journey],
         NEW counts \in [Stages -> Int],
         \A s \in Stages : counts[s] = Cardinality(Targeters(ags, s)),
         removed \in [AgentId -> Nat],
         called \in [Journeys -> [Stages -> Nat]],
         Decide(a, ags, counts)
  PROVE  /\ agents' \in [DOMAIN ags -> AgentRecord]
         /\ DOMAIN agents' = DOMAIN ags
         /\ \A b \in DOMAIN ags : /\ agents'[b].journey = ags[b].journey
                                  /\ agents'[b].loc = ags[b].loc
                                  /\ b # a => agents'[b] = ags[b]
         /\ Settled(agents'[a])
         /\ targeting' \in [Stages -> Int]
         /\ \A s \in Stages : targeting'[s] = Cardinality(Targeters(agents', s))
         /\ removed' \in [AgentId -> Nat]
         /\ Listed' \in {Listed, Listed \cup {a}}
         /\ called' \in [Journeys -> [Stages -> Nat]]
<1> DEFINE rec == ags[a]
           t == Nodes[rec.journey][rec.stage]
           n == called[rec.journey][rec.stage]
           wraps == AtDestination(rec) /\ t.kind = "roundrobin"
<1>1. /\ rec.journey \in Journeys
      /\ rec.stage \in Stages
  BY DEF AgentRecord
<1>2. PICK s \in IF AtDestination(rec) THEN NextStage(t, rec.stage, n, counts) ELSE {rec.stage} :
        /\ agents' = Redirect(ags, a, s)
        /\ targeting' = Migrate(counts, rec.stage, s)
        /\ removed' = ListedIfOut(a, rec)
        /\ called' = IF wraps
                     THEN [called EXCEPT ![rec.journey][rec.stage] = (n + 1) % TotalWeight(t.weight)]
                     ELSE called
  BY DEF Decide
<1>3. s \in Stages
  <2>1. NextStage(t, rec.stage, n, counts) \subseteq Stages
    <3>1. rec.stage \in DOMAIN Nodes[rec.journey]
      OBVIOUS
    <3>2. \A x, c : NextStage(t, rec.stage, x, c) \subseteq Stages
      <4> HIDE DEF rec
      <4> QED
        BY <1>1, <3>1, NodeAnswers, Zenon
    <3> QED
      BY <3>2, Zenon
  <2>2. s \in NextStage(t, rec.stage, n, counts) \/ s = rec.stage
    BY <1>2
  <2> HIDE DEF t, n, rec
  <2> QED
    BY <1>1, <2>1, <2>2
<1>4. /\ agents' \in [DOMAIN ags -> AgentRecord]
      /\ DOMAIN agents' = DOMAIN ags
      /\ agents'[a].stage = s
      /\ agents'[a].target = TargetOf(s, rec)
      /\ agents'[a].journey = rec.journey
      /\ agents'[a].loc = rec.loc
      /\ \A b \in DOMAIN ags \ {a} : agents'[b] = ags[b]
  <2>1. agents' = Redirect(ags, a, s)
    BY <1>2
  <2> HIDE DEF n, t, wraps
  <2> QED
    BY <1>3, <2>1, RedirectAgent
<1>5. \A s_1 \in Stages : Migrate(counts, rec.stage, s)[s_1] = Cardinality(Targeters(agents', s_1))
  <2>1. \A b \in DOMAIN ags \ {a} : agents'[b].stage = ags[b].stage
    BY <1>4
  <2>2. PICK after : after = agents'
    OBVIOUS
  <2>3. DOMAIN ags = DOMAIN after /\ after[a].stage = s
    BY <1>4, <2>2
  <2>4. \A b \in DOMAIN ags \ {a} : after[b].stage = ags[b].stage
    BY <2>1, <2>2
  <2> HIDE DEF t, n, wraps
  <2>5. \A s_1 \in Stages :
          Migrate(counts, ags[a].stage, after[a].stage)[s_1] = Cardinality(Targeters(after, s_1))
    BY <2>3, <2>4, MigrateExact
  <2> QED
    BY <2>2, <2>3, <2>5
<1>6. targeting' \in [Stages -> Int]
  BY <1>2 DEF Migrate
<1>7. /\ removed' \in [AgentId -> Nat]
      /\ Listed' \in {Listed, Listed \cup {a}}
  BY <1>2 DEF ListedIfOut, Listed
<1>8. called' \in [Journeys -> [Stages -> Nat]]
  <2>1. n \in Nat
    BY <1>1
  <2>2. wraps => (n + 1) % TotalWeight(t.weight) \in Nat
    BY <1>1, <2>1, NodeAnswers
  <2> QED
    BY <1>1, <1>2, <2>2
<1>9. Settled(agents'[a])
  BY <1>4 DEF Settled, TargetOf
<1> QED
  BY <1>2, <1>4, <1>5, <1>6, <1>7, <1>8, <1>9

(***************************************************************************)
(* Each action preserves the invariant.                                    *)
(***************************************************************************)
LEMMA InitIndInv == Init => IndInv
<1> SUFFICES ASSUME Init PROVE IndInv
  OBVIOUS
<1> USE ParameterAssumption DEF Init
<1>1. DOMAIN Empty = {}
  BY DEF Empty
<1>2. Empty \in [{} -> AgentRecord]
  BY DEF Empty
<1>3. TypeOK
  BY <1>1, <1>2 DEF TypeOK, Alive
<1>4. TargetingExact
  <2>1. \A s \in Stages : Targeters(Empty, s) = {}
    BY <1>1 DEF Targeters
  <2> QED
    BY <2>1, FS_EmptySet DEF TargetingExact
<1>5. GridExact
  BY <1>1 DEF GridExact, FiledAt, Empty
<1> QED
  BY <1>1, <1>3, <1>4, <1>5 DEF IndInv, AddingSound, RemovalListed, GenerationsAgree,
     TargetsSettled, HostTargetsIgnored, MovesReachable

LEMMA AddStageStep ==
  ASSUME IndInv, NEW s \in Stages, AddStage(s)
  PROVE  IndInv'
BY DEF IndInv, AddStage, TypeOK, Alive, AddingSound, TargetingExact, GridExact, RemovalListed,
   GenerationsAgree, TargetsSettled, HostTargetsIgnored, MovesReachable

LEMMA AddJourneyStep ==
  ASSUME IndInv, NEW j \in Journeys, AddJourney(j)
  PROVE  IndInv'
BY DEF IndInv, AddJourney, TypeOK, Alive, AddingSound, TargetingExact, GridExact, RemovalListed,
   GenerationsAgree, TargetsSettled, HostTargetsIgnored, MovesReachable

LEMMA CallAddAgentStep ==
  ASSUME IndInv, NEW j \in Journeys, NEW s \in Stages, NEW p \in Places, CallAddAgent(j, s, p)
  PROVE  IndInv'
<1>1. adding' \in AddCall
  BY DEF CallAddAgent, AddCall
<1>2. AddingSound'
  BY DEF CallAddAgent, AddingSound
<1> QED
  BY <1>1, <1>2 DEF IndInv, CallAddAgent, TypeOK, Alive, TargetingExact, GridExact,
     RemovalListed, GenerationsAgree, TargetsSettled, HostTargetsIgnored, MovesReachable

LEMMA RefuseAgentStep ==
  ASSUME IndInv, RefuseAgent
  PROVE  IndInv'
BY DEF IndInv, RefuseAgent, TypeOK, Alive, AddingSound, TargetingExact, GridExact, RemovalListed,
   GenerationsAgree, TargetsSettled, HostTargetsIgnored, MovesReachable

LEMMA MarkStep ==
  ASSUME IndInv, NEW a \in AgentId, MarkAgentForRemoval(a)
  PROVE  IndInv'
<1>1. removed' \in [AgentId -> Nat]
  BY DEF MarkAgentForRemoval, IndInv, TypeOK
<1>2. RemovalListed'
  BY DEF MarkAgentForRemoval, IndInv, TypeOK, RemovalListed, Alive
<1> QED
  BY <1>1, <1>2 DEF IndInv, MarkAgentForRemoval, TypeOK, Alive, AddingSound, TargetingExact,
     GridExact, GenerationsAgree, TargetsSettled, HostTargetsIgnored, MovesReachable

LEMMA UnwindStep ==
  ASSUME IndInv, Unwind
  PROVE  IndInv'
<1>1. DOMAIN Empty = {} /\ Empty \in [{} -> AgentRecord]
  BY DEF Empty
<1> QED
  BY <1>1, ParameterAssumption DEF IndInv, Unwind, LeaveIteration, TypeOK, Alive, AddingSound,
     TargetingExact, GridExact, RemovalListed, GenerationsAgree, TargetsSettled,
     HostTargetsIgnored, MovesReachable

LEMMA TacticalStep ==
  ASSUME IndInv, Tactical
  PROVE  IndInv'
<1>1. \A a \in Alive : a <= cursor
  BY AliveFinite DEF IndInv, Tactical, Remaining, TypeOK, AgentId
<1>2. HostTargetsIgnored'
  BY <1>1 DEF IndInv, Tactical, HostTargetsIgnored, TargetsSettled, Settled, Alive
<1>3. TypeOK'
  BY AliveFinite, ParameterAssumption DEF IndInv, Tactical, TypeOK, Alive
<1>4. GenerationsAgree' /\ MovesReachable'
  BY AliveFinite DEF IndInv, Tactical, GenerationsAgree, MovesReachable, Alive, AgentId
<1> QED
  BY <1>2, <1>3, <1>4 DEF IndInv, Tactical, Alive, AddingSound, TargetingExact, GridExact,
     RemovalListed, TargetsSettled

\* add_agent appends one agent, redirects and files it.
LEMMA CompleteAddAgentEffect ==
  ASSUME IndInv, CompleteAddAgent
  PROVE  /\ born + 1 \in AgentId /\ born + 1 \notin Alive /\ born' = born + 1
         /\ DOMAIN agents' = Alive \cup {born + 1}
         /\ agents' \in [DOMAIN agents' -> AgentRecord]
         /\ \A b \in Alive : agents'[b] = agents[b]
         /\ IsFiniteSet(DOMAIN agents')
         /\ grid' = FiledAt(agents')
         /\ targeting' \in [Stages -> Int]
         /\ TargetingExact'
         /\ removed' \in [AgentId -> Nat]
         /\ Listed' \in {Listed, Listed \cup {born + 1}}
         /\ called' \in [Journeys -> [Stages -> Nat]]
<1> DEFINE a == born + 1
           rec == [journey |-> adding.journey, stage |-> adding.stage,
                   loc |-> adding.loc, target |-> adding.loc]
           ags == [b \in Alive \cup {a} |-> IF b = a THEN rec ELSE agents[b]]
           counts == [targeting EXCEPT ![adding.stage] = @ + 1]
<1>1. /\ adding \in AddCall
      /\ a \in AgentId /\ a \in Nat /\ a <= MaxAgents
      /\ adding.stage \in DOMAIN Nodes[adding.journey]
  BY ParameterAssumption DEF IndInv, TypeOK, AddingSound, CompleteAddAgent, AgentId
<1>2. /\ adding.journey \in Journeys
      /\ adding.stage \in Stages
      /\ rec \in AgentRecord
  BY <1>1 DEF AddCall, AgentRecord, Target
<1>3. /\ a \notin Alive
      /\ IsFiniteSet(Alive)
      /\ Alive \subseteq AgentId
  BY AliveFinite DEF IndInv
<1>4. /\ DOMAIN ags = Alive \cup {a}
      /\ ags[a] = rec
      /\ \A b \in Alive : ags[b] = agents[b]
      /\ ags \in [DOMAIN ags -> AgentRecord]
  BY <1>2, <1>3 DEF IndInv, TypeOK
<1>5. IsFiniteSet(DOMAIN ags) /\ DOMAIN ags \subseteq AgentId
  BY <1>1, <1>3, <1>4, FS_AddElement
<1>6. rec.stage = adding.stage /\ rec.journey = adding.journey /\ rec.loc = adding.loc
  OBVIOUS
<1>7. counts \in [Stages -> Int]
  BY <1>2 DEF IndInv, TypeOK
<1>8. Decide(a, ags, counts) /\ FileInGrid(a, rec.loc) /\ born' = a
  BY DEF CompleteAddAgent
<1> HIDE DEF rec, ags, counts
<1>9. \A s \in Stages : counts[s] = Cardinality(Targeters(ags, s))
  <2>1. targeting \in [Stages -> Int]
    BY DEF IndInv, TypeOK
  <2>2. \A s \in Stages : [targeting EXCEPT ![ags[a].stage] = @ + 1][s] = Cardinality(Targeters(ags, s))
    BY <1>2, <1>3, <1>4, <1>6, <2>1, AppendExact DEF IndInv, TargetingExact, Alive
  <2> QED
    BY <1>4, <1>6, <2>2 DEF counts
<1>10. /\ agents' \in [DOMAIN ags -> AgentRecord]
       /\ DOMAIN agents' = DOMAIN ags
       /\ \A b \in DOMAIN ags : /\ agents'[b].loc = ags[b].loc
                                /\ b # a => agents'[b] = ags[b]
       /\ targeting' \in [Stages -> Int]
       /\ \A s \in Stages : targeting'[s] = Cardinality(Targeters(agents', s))
       /\ removed' \in [AgentId -> Nat]
       /\ Listed' \in {Listed, Listed \cup {a}}
       /\ called' \in [Journeys -> [Stages -> Nat]]
  <2>1. ags[a].stage \in DOMAIN Nodes[ags[a].journey] /\ a \in DOMAIN ags
    BY <1>1, <1>4, <1>6
  <2>2. removed \in [AgentId -> Nat] /\ called \in [Journeys -> [Stages -> Nat]]
    BY DEF IndInv, TypeOK
  <2> QED
    BY <1>4, <1>5, <1>7, <1>8, <1>9, <2>1, <2>2, DecideStep
<1>11. grid' = FiledAt(agents')
  <2>1. grid' = [b \in Alive \cup {a} |-> IF b = a THEN rec.loc ELSE agents[b].loc]
    BY <1>8 DEF IndInv, GridExact, FiledAt, FileInGrid, Alive
  <2> QED
    BY <1>4, <1>10, <2>1 DEF FiledAt
<1>12. \A b \in Alive : agents'[b] = agents[b]
  BY <1>3, <1>4, <1>10
<1>13. DOMAIN agents' = Alive \cup {a} /\ agents' \in [DOMAIN agents' -> AgentRecord]
  BY <1>4, <1>10
<1> QED
  BY <1>1, <1>3, <1>5, <1>8, <1>10, <1>11, <1>12, <1>13 DEF TargetingExact

LEMMA CompleteAddAgentStep ==
  ASSUME IndInv, CompleteAddAgent
  PROVE  IndInv'
<1> DEFINE a == born + 1
<1>1. /\ a \in AgentId /\ born' = a
      /\ Alive' = Alive \cup {a}
      /\ agents' \in [Alive' -> AgentRecord]
      /\ IsFiniteSet(Alive')
      /\ targeting' \in [Stages -> Int]
      /\ TargetingExact' /\ GridExact'
      /\ removed' \in [AgentId -> Nat]
      /\ Listed' \in {Listed, Listed \cup {a}}
      /\ called' \in [Journeys -> [Stages -> Nat]]
  BY CompleteAddAgentEffect DEF Alive, GridExact
<1>2. \A s \in Stages : targeting'[s] \in Nat
  <2>1. \A s \in Stages : IsFiniteSet(Targeters(agents', s))
    BY <1>1, FS_Subset DEF Targeters, Alive
  <2> QED
    BY <1>1, <2>1, FS_CardinalityType DEF TargetingExact
<1>3. /\ pc = "idle" /\ adding' = NoCall
      /\ UNCHANGED <<pc, cursor, next, stages, journeys, iteration>>
  BY DEF CompleteAddAgent
<1>4. TypeOK'
  <2>1. Alive' \subseteq 1 .. born'
    BY <1>1 DEF IndInv, TypeOK
  <2>2. targeting' \in [Stages -> Nat]
    BY <1>1, <1>2
  <2>3. born' \in 0 .. MaxAgents
    BY <1>1, ParameterAssumption DEF AgentId
  <2> QED
    BY <1>1, <1>3, <2>1, <2>2, <2>3 DEF IndInv, TypeOK
<1>5. RemovalListed'
  BY <1>1 DEF IndInv, RemovalListed, Listed
<1> QED
  BY <1>1, <1>3, <1>4, <1>5 DEF IndInv, AddingSound, GenerationsAgree, TargetsSettled,
     HostTargetsIgnored, MovesReachable

LEMMA SwitchAgentJourneyStep ==
  ASSUME IndInv, NEW a \in AgentId, NEW j \in Journeys, NEW s \in Stages,
         SwitchAgentJourney(a, j, s)
  PROVE  IndInv'
<1>1. /\ a \in Alive /\ IsFiniteSet(Alive)
      /\ agents \in [Alive -> AgentRecord]
      /\ targeting \in [Stages -> Int]
  BY AliveFinite DEF SwitchAgentJourney, IndInv, TypeOK
<1> DEFINE rec == [agents[a] EXCEPT !.journey = j, !.stage = s]
<1>2. /\ rec \in AgentRecord
      /\ rec.stage = s
      /\ rec.loc = agents[a].loc
  BY <1>1 DEF AgentRecord
<1>3. agents' = [agents EXCEPT ![a] = rec]
  BY DEF SwitchAgentJourney
<1> HIDE DEF rec
<1>4. /\ agents' \in [Alive -> AgentRecord]
      /\ DOMAIN agents' = Alive
      /\ agents'[a].stage = s
      /\ \A b \in Alive : agents'[b].loc = agents[b].loc
      /\ \A b \in Alive \ {a} : agents'[b].stage = agents[b].stage
  BY <1>1, <1>2, <1>3
<1>5. TargetingExact'
  <2>1. \A q \in Stages : Migrate(targeting, agents[a].stage, agents'[a].stage)[q]
                            = Cardinality(Targeters(agents', q))
    BY <1>1, <1>4, MigrateExact DEF IndInv, TargetingExact, Alive
  <2> QED
    BY <1>4, <2>1 DEF SwitchAgentJourney, TargetingExact
<1>6. targeting' \in [Stages -> Nat]
  <2>1. targeting' \in [Stages -> Int]
    BY <1>1 DEF SwitchAgentJourney, Migrate
  <2>2. \A q \in Stages : IsFiniteSet(Targeters(agents', q))
    BY <1>1, <1>4, FS_Subset DEF Targeters
  <2> QED
    BY <1>5, <2>1, <2>2, FS_CardinalityType DEF TargetingExact
<1>7. TypeOK'
  BY <1>4, <1>6 DEF SwitchAgentJourney, IndInv, TypeOK, Alive
<1>8. GridExact'
  BY <1>4 DEF SwitchAgentJourney, IndInv, GridExact, FiledAt, Alive
<1>9. pc' = "idle" /\ UNCHANGED <<next, removed, adding, born>>
  BY DEF SwitchAgentJourney, MayMutate
<1>10. RemovalListed'
  BY <1>4, <1>9 DEF IndInv, RemovalListed, Alive
<1> QED
  BY <1>5, <1>7, <1>8, <1>9, <1>10 DEF IndInv, AddingSound, GenerationsAgree, TargetsSettled,
     HostTargetsIgnored, MovesReachable

LEMMA SetAgentTargetStep ==
  ASSUME IndInv, NEW a \in AgentId, NEW p \in Aims, SetAgentTarget(a, p)
  PROVE  IndInv'
<1>1. /\ a \in Alive /\ IsFiniteSet(Alive)
      /\ agents \in [Alive -> AgentRecord]
      /\ p \in Target
  BY AliveFinite, ParameterAssumption DEF SetAgentTarget, IndInv, TypeOK, Target
<1> DEFINE rec == [agents[a] EXCEPT !.target = p]
<1>2. /\ rec \in AgentRecord
      /\ rec.journey = agents[a].journey
      /\ rec.stage = agents[a].stage
      /\ rec.loc = agents[a].loc
  BY <1>1 DEF AgentRecord
<1>3. agents' = [agents EXCEPT ![a] = rec]
  BY DEF SetAgentTarget, SetTarget
<1> HIDE DEF rec
<1>4. /\ agents' \in [Alive -> AgentRecord]
      /\ DOMAIN agents' = Alive
      /\ \A b \in Alive : /\ agents'[b].journey = agents[b].journey
                          /\ agents'[b].stage = agents[b].stage
                          /\ agents'[b].loc = agents[b].loc
  BY <1>1, <1>2, <1>3
<1>5. /\ pc # "strategical"
      /\ UNCHANGED <<pc, cursor, next, removed, stages, targeting, journeys,
                     called, grid, iteration, born, adding>>
  BY DEF SetAgentTarget, SetTarget, MayMutate
<1>6. TypeOK'
  BY <1>4, <1>5 DEF IndInv, TypeOK, Alive
<1>7. TargetingExact'
  <2>1. \A q \in Stages : Targeters(agents', q) = Targeters(agents, q)
    BY <1>4 DEF Targeters, Alive
  <2> QED
    BY <1>5, <2>1 DEF IndInv, TargetingExact
<1>8. GridExact'
  BY <1>4, <1>5 DEF IndInv, GridExact, FiledAt, Alive
<1>9. RemovalListed'
  BY <1>4, <1>5 DEF IndInv, RemovalListed, Alive
<1>10. GenerationsAgree' /\ MovesReachable'
  BY <1>4, <1>5 DEF IndInv, GenerationsAgree, MovesReachable, Alive
<1> QED
  BY <1>5, <1>6, <1>7, <1>8, <1>9, <1>10 DEF IndInv, AddingSound, TargetsSettled, HostTargetsIgnored

LEMMA BeginIterateStep ==
  ASSUME IndInv, BeginIterate
  PROVE  IndInv'
<1>1. /\ IsFiniteSet(Alive) /\ Alive \subseteq AgentId
      /\ Staying \subseteq Alive
      /\ agents \in [Alive -> AgentRecord]
      /\ agents' = [a \in Staying |-> agents[a]]
  BY AliveFinite DEF BeginIterate, Staying, IndInv, TypeOK
<1>2. agents' \in [Staying -> AgentRecord] /\ DOMAIN agents' = Staying
  BY <1>1
<1>3. TargetingExact'
  <2> SUFFICES ASSUME NEW s \in Stages
               PROVE  targeting'[s] = Cardinality(Targeters(agents', s))
    BY DEF TargetingExact
  <2>1. targeting'[s] = targeting[s] - Released(s)
    BY DEF BeginIterate
  <2>2. targeting[s] = Cardinality(Targeters(agents, s))
    BY DEF IndInv, TargetingExact
  <2>3. Released(s) = Cardinality({a \in DOMAIN agents \ Staying : agents[a].stage = s})
    BY DEF Released, Alive
  <2> QED
    BY <1>1, <2>1, <2>2, <2>3, RemoveExact DEF Alive
<1>4. \A s \in Stages : targeting'[s] \in Nat
  <2>1. IsFiniteSet(Staying)
    BY <1>1, FS_Subset
  <2>2. \A s \in Stages : IsFiniteSet(Targeters(agents', s))
    BY <1>2, <2>1, FS_Subset DEF Targeters
  <2> QED
    BY <1>3, <2>2, FS_CardinalityType DEF TargetingExact
<1>5. /\ pc' = "strategical" /\ cursor' = 0
      /\ removed' = [a \in AgentId |-> 0]
      /\ grid' = FiledAt(agents')
      /\ targeting' = [s \in Stages |-> targeting[s] - Released(s)]
      /\ UNCHANGED <<next, stages, journeys, called, iteration, born, adding>>
  BY DEF BeginIterate, ClearList, RebuildGrid
<1>6. TypeOK'
  <2>1. targeting' \in [Stages -> Nat]
    BY <1>4, <1>5
  <2>2. Alive' \subseteq 1 .. born'
    BY <1>1, <1>2, <1>5 DEF IndInv, TypeOK, Alive
  <2>3. cursor' \in 0 .. MaxAgents
    BY <1>5, ParameterAssumption
  <2> QED
    BY <1>2, <1>5, <2>1, <2>2, <2>3 DEF IndInv, TypeOK, Alive
<1>7. GridExact'
  BY <1>5 DEF GridExact
<1>8. RemovalListed'
  BY <1>5 DEF RemovalListed
<1>9. TargetsSettled'
  BY <1>1, <1>2, <1>5 DEF TargetsSettled, Alive, AgentId
<1> QED
  BY <1>3, <1>5, <1>6, <1>7, <1>8, <1>9 DEF IndInv, AddingSound, GenerationsAgree,
     HostTargetsIgnored, MovesReachable

\* One decision redirects the agent and settles its target.
LEMMA StrategicalEffect ==
  ASSUME IndInv, NEW a \in AgentId, Strategical(a)
  PROVE  /\ agents' \in [Alive -> AgentRecord]
         /\ DOMAIN agents' = Alive
         /\ \A b \in Alive : /\ agents'[b].loc = agents[b].loc
                             /\ b # a => agents'[b] = agents[b]
         /\ Settled(agents'[a])
         /\ targeting' \in [Stages -> Int]
         /\ \A s \in Stages : targeting'[s] = Cardinality(Targeters(agents', s))
         /\ removed' \in [AgentId -> Nat]
         /\ Listed' \in {Listed, Listed \cup {a}}
         /\ called' \in [Journeys -> [Stages -> Nat]]
<1>0. /\ a \in Alive
      /\ IsFiniteSet(Alive) /\ Alive \subseteq AgentId
      /\ agents \in [Alive -> AgentRecord]
  BY AliveFinite DEF Strategical, IsNext, Remaining, IndInv, TypeOK
<1>1. targeting \in [Stages -> Int] /\ called \in [Journeys -> [Stages -> Nat]]
  BY DEF IndInv, TypeOK
<1>2. \A s \in Stages : targeting[s] = Cardinality(Targeters(agents, s))
  BY DEF IndInv, TargetingExact
<1>3. /\ removed \in [AgentId -> Nat]
      /\ agents[a].stage \in DOMAIN Nodes[agents[a].journey]
      /\ Decide(a, agents, targeting)
  BY DEF IndInv, TypeOK, Strategical
<1> QED
  BY <1>0, <1>1, <1>2, <1>3, DecideStep DEF Alive

LEMMA StrategicalStep ==
  ASSUME IndInv, NEW a \in AgentId, Strategical(a)
  PROVE  IndInv'
<1>1. /\ a \in Alive /\ a > cursor
      /\ \A b \in Alive : b > cursor => a <= b
      /\ IsFiniteSet(Alive) /\ Alive \subseteq AgentId
      /\ agents \in [Alive -> AgentRecord]
      /\ cursor \in Nat
  <2>1. IsFiniteSet(Alive) /\ Alive \subseteq AgentId
    BY AliveFinite DEF IndInv
  <2>2. agents \in [Alive -> AgentRecord] /\ cursor \in Nat
    BY ParameterAssumption DEF IndInv, TypeOK
  <2>3. a \in Remaining /\ \A b \in Remaining : a <= b
    BY DEF Strategical, IsNext
  <2> QED
    BY <2>1, <2>2, <2>3 DEF Remaining
<1>2. /\ agents' \in [Alive -> AgentRecord]
      /\ DOMAIN agents' = Alive
      /\ \A b \in Alive : /\ agents'[b].loc = agents[b].loc
                          /\ b # a => agents'[b] = agents[b]
      /\ Settled(agents'[a])
      /\ targeting' \in [Stages -> Int]
      /\ \A s \in Stages : targeting'[s] = Cardinality(Targeters(agents', s))
      /\ removed' \in [AgentId -> Nat]
      /\ Listed' \in {Listed, Listed \cup {a}}
      /\ called' \in [Journeys -> [Stages -> Nat]]
  BY StrategicalEffect
<1>3. TargetingExact'
  BY <1>2 DEF TargetingExact
<1>4. \A s \in Stages : targeting'[s] \in Nat
  <2>1. \A s \in Stages : IsFiniteSet(Targeters(agents', s))
    BY <1>1, <1>2, FS_Subset DEF Targeters
  <2> QED
    BY <1>2, <2>1, FS_CardinalityType
<1>5. /\ pc = "strategical" /\ pc' = "strategical" /\ cursor' = a
      /\ UNCHANGED <<next, stages, journeys, grid, iteration, born, adding>>
  BY DEF Strategical
<1>6. TypeOK'
  <2>1. targeting' \in [Stages -> Nat]
    BY <1>2, <1>4
  <2>2. cursor' \in 0 .. MaxAgents
    BY <1>5, ParameterAssumption DEF AgentId
  <2>3. Alive' = Alive
    BY <1>2 DEF Alive
  <2> QED
    BY <1>2, <1>5, <2>1, <2>2, <2>3 DEF IndInv, TypeOK
<1>7. GridExact'
  BY <1>2, <1>5 DEF IndInv, GridExact, FiledAt, Alive
<1>8. RemovalListed'
  BY <1>1, <1>2 DEF IndInv, RemovalListed, Alive, Listed
<1>9. TargetsSettled'
  <2> SUFFICES ASSUME NEW b \in Alive, b <= a
               PROVE  Settled(agents'[b])
    BY <1>2, <1>5 DEF TargetsSettled, Alive
  <2>1. CASE b = a
    BY <1>2, <2>1
  <2>2. CASE b # a
    <3>1. b <= cursor
      BY <1>1, <2>2 DEF AgentId
    <3> QED
      BY <1>2, <1>5, <2>2, <3>1 DEF IndInv, TargetsSettled
  <2> QED
    BY <2>1, <2>2
<1> QED
  BY <1>3, <1>5, <1>6, <1>7, <1>8, <1>9 DEF IndInv, AddingSound, GenerationsAgree,
     HostTargetsIgnored, MovesReachable

LEMMA MoveStep ==
  ASSUME IndInv, NEW a \in AgentId, NEW p \in Places, Move(a, p)
  PROVE  IndInv'
<1>1. /\ a \in Alive /\ a > cursor
      /\ \A b \in Alive : b > cursor => a <= b
      /\ Alive \subseteq AgentId
      /\ cursor \in Nat
      /\ p \in Walk[agents[a].loc]
  BY AliveFinite, ParameterAssumption DEF Move, IsNext, Remaining, IndInv, TypeOK
<1>2. DOMAIN next = Alive /\ next \in [Alive -> AgentRecord]
  BY DEF Move, IndInv, TypeOK, GenerationsAgree
<1> DEFINE rec == [next[a] EXCEPT !.loc = p]
<1>3. /\ rec \in AgentRecord
      /\ rec.journey = next[a].journey
      /\ rec.stage = next[a].stage
      /\ rec.target = next[a].target
      /\ rec.loc = p
  BY <1>1, <1>2 DEF AgentRecord
<1>4. next' = [next EXCEPT ![a] = rec]
  BY DEF Move, ApplyMove
<1> HIDE DEF rec
<1>5. /\ next' \in [Alive -> AgentRecord]
      /\ DOMAIN next' = Alive
      /\ next'[a].loc = p
      /\ \A b \in Alive : /\ next'[b].journey = next[b].journey
                          /\ next'[b].stage = next[b].stage
                          /\ next'[b].target = next[b].target
                          /\ b # a => next'[b].loc = next[b].loc
  BY <1>1, <1>2, <1>3, <1>4
<1>6. /\ pc = "operational" /\ cursor' = a
      /\ UNCHANGED <<pc, agents, removed, stages, targeting, journeys, called,
                     grid, iteration, born, adding>>
  BY DEF Move, ApplyMove
<1>7. \A b \in Alive : (b <= a /\ b # a) => b <= cursor
  BY <1>1 DEF AgentId
<1>8. \A b \in Alive : b > a => b > cursor /\ b # a
  BY <1>1 DEF AgentId
<1>9. TypeOK'
  BY <1>1, <1>5, <1>6, ParameterAssumption DEF IndInv, TypeOK, Alive, AgentId
<1>10. GenerationsAgree'
  BY <1>5, <1>6, <1>8 DEF IndInv, GenerationsAgree, Alive
<1>11. MovesReachable'
  BY <1>1, <1>5, <1>6, <1>7 DEF IndInv, MovesReachable, Alive
<1>12. HostTargetsIgnored'
  BY <1>2, <1>5 DEF IndInv, HostTargetsIgnored
<1> QED
  BY <1>6, <1>9, <1>10, <1>11, <1>12 DEF IndInv, AddingSound, TargetingExact, GridExact,
     RemovalListed, TargetsSettled, Alive

LEMMA FinishIterateStep ==
  ASSUME IndInv, FinishIterate
  PROVE  IndInv'
<1>1. /\ pc = "operational" /\ pc' = "idle" /\ cursor' = 0
      /\ agents' = next /\ next' = Empty /\ grid' = FiledAt(next)
      /\ iteration' = (iteration + 1) % ClockModulus
      /\ UNCHANGED <<removed, stages, targeting, journeys, called, born, adding>>
  BY DEF FinishIterate, LeaveIteration, RebuildGrid
<1>2. DOMAIN Empty = {} /\ Empty \in [{} -> AgentRecord]
  BY DEF Empty
<1>3. DOMAIN next = Alive /\ \A a \in Alive : next[a].stage = agents[a].stage
  BY <1>1 DEF IndInv, GenerationsAgree
<1>4. iteration' \in 0 .. ClockModulus - 1
  <2>1. iteration + 1 \in Nat /\ ClockModulus \in Nat \ {0}
    BY ParameterAssumption DEF IndInv, TypeOK
  <2> QED
    BY <1>1, <2>1
<1>5. TypeOK'
  BY <1>1, <1>2, <1>3, <1>4, ParameterAssumption DEF IndInv, TypeOK, Alive
<1>6. TargetingExact'
  <2>1. \A s \in Stages : Targeters(next, s) = Targeters(agents, s)
    BY <1>3 DEF Targeters, Alive
  <2> QED
    BY <1>1, <2>1 DEF IndInv, TargetingExact
<1>7. GridExact' /\ RemovalListed' /\ HostTargetsIgnored'
  BY <1>1, <1>2, <1>3 DEF IndInv, GridExact, RemovalListed, HostTargetsIgnored, Alive
<1> QED
  BY <1>1, <1>5, <1>6, <1>7 DEF IndInv, AddingSound, GenerationsAgree, TargetsSettled, MovesReachable

LEMMA StutterStep ==
  ASSUME IndInv, UNCHANGED vars
  PROVE  IndInv'
BY DEF IndInv, vars, TypeOK, Alive, AddingSound, TargetingExact, GridExact, RemovalListed,
   GenerationsAgree, TargetsSettled, HostTargetsIgnored, MovesReachable

LEMMA NextIndInv == IndInv /\ [Next]_vars => IndInv'
<1> SUFFICES ASSUME IndInv, [Next]_vars PROVE IndInv'
  OBVIOUS
<1>1. CASE HostCall
  BY <1>1, AddStageStep, AddJourneyStep, CallAddAgentStep, MarkStep, SwitchAgentJourneyStep,
     SetAgentTargetStep DEF HostCall
<1>2. CASE ReturnFromCheck
  BY <1>2, RefuseAgentStep, CompleteAddAgentStep DEF ReturnFromCheck
<1>3. CASE BeginIterate
  BY <1>3, BeginIterateStep
<1>4. CASE PhaseStep
  <2>1. ASSUME NEW a \in AgentId, Strategical(a) \/ StrategicalThrows(a) PROVE IndInv'
    BY <2>1, StrategicalStep, UnwindStep DEF StrategicalThrows
  <2>2. CASE Tactical \/ TacticalThrows
    BY <2>2, TacticalStep, UnwindStep DEF TacticalThrows
  <2>3. ASSUME NEW a \in AgentId, NEW p \in Places, Move(a, p) PROVE IndInv'
    BY <2>3, MoveStep
  <2>4. CASE MoveThrows
    BY <2>4, UnwindStep DEF MoveThrows
  <2>5. CASE FinishIterate
    BY <2>5, FinishIterateStep
  <2> QED
    BY <1>4, <2>1, <2>2, <2>3, <2>4, <2>5 DEF PhaseStep
<1>5. CASE UNCHANGED vars
  BY <1>5, StutterStep
<1> QED
  BY <1>1, <1>2, <1>3, <1>4, <1>5 DEF Next

(***************************************************************************)
(* The theorems                                                            *)
(***************************************************************************)
THEOREM IndInvHolds == Spec => []IndInv
<1> QED
  BY InitIndInv, NextIndInv, PTL DEF Spec

\* The variables keep their types: no counter of a stage ever wraps below zero.
THEOREM TypeCorrect == Spec => []TypeOK
<1>1. IndInv => TypeOK
  BY DEF IndInv
<1> QED
  BY <1>1, IndInvHolds, PTL

\* count_targeting() is exact at every moment, with callbacks and failures.
THEOREM CountersExact == Spec => []TargetingExact
<1>1. IndInv => TargetingExact
  BY DEF IndInv
<1> QED
  BY <1>1, IndInvHolds, PTL

\* The neighborhood grid files the agents of the container where they stand.
THEOREM GridFresh == Spec => []GridExact
<1>1. IndInv => GridExact
  BY DEF IndInv
<1> QED
  BY <1>1, IndInvHolds, PTL

\* Removal never misses: only agents of the simulation are listed.
THEOREM RemovalSound == Spec => []RemovalListed
<1>1. IndInv => RemovalListed
  BY DEF IndInv
<1> QED
  BY <1>1, IndInvHolds, PTL

\* The swap of the generations loses no agent and reverts no journey.
THEOREM SwapSound == Spec => []GenerationsAgree
<1>1. IndInv => GenerationsAgree
  BY DEF IndInv
<1> QED
  BY <1>1, IndInvHolds, PTL

\* Agents without direct steering move towards the area of their stage.
THEOREM TargetsOfStages == Spec => []HostTargetsIgnored
<1>1. IndInv => HostTargetsIgnored
  BY DEF IndInv
<1> QED
  BY <1>1, IndInvHolds, PTL

\* Locations change only in the step that commits an iteration, all together
\* and each by one movement.
THEOREM MovesCommit == Spec => MovesCommitWithClock
<1> DEFINE Commits ==
      (\E a \in Alive \cap Alive' : agents'[a].loc # agents[a].loc) =>
        /\ pc = "operational" /\ pc' = "idle"
        /\ iteration' = (iteration + 1) % ClockModulus
        /\ \A a \in Alive : agents'[a].loc \in Walk[agents[a].loc]
<1>1. ASSUME IndInv, [Next]_vars PROVE Commits \/ UNCHANGED vars
  <2>1. /\ IsFiniteSet(Alive) /\ Alive \subseteq AgentId
        /\ born + 1 \notin Alive
        /\ agents \in [Alive -> AgentRecord]
    BY <1>1, AliveFinite DEF IndInv, TypeOK
  <2>2. CASE UNCHANGED agents
    BY <2>2 DEF Alive
  <2>3. ASSUME NEW a \in AgentId, NEW j \in Journeys, NEW s \in Stages, SwitchAgentJourney(a, j, s)
        PROVE  Commits
    <3>1. a \in Alive /\ agents' = [agents EXCEPT ![a] = [agents[a] EXCEPT !.journey = j, !.stage = s]]
      BY <2>3 DEF SwitchAgentJourney
    <3>2. agents[a] \in AgentRecord
      BY <2>1, <3>1
    <3>3. [agents[a] EXCEPT !.journey = j, !.stage = s].loc = agents[a].loc
      BY <3>2 DEF AgentRecord
    <3> QED
      BY <2>1, <3>1, <3>3
  <2>4. ASSUME NEW a \in AgentId, NEW p \in Aims, SetAgentTarget(a, p)
        PROVE  Commits
    <3>1. a \in Alive /\ agents' = [agents EXCEPT ![a] = [agents[a] EXCEPT !.target = p]]
      BY <2>4 DEF SetAgentTarget, SetTarget
    <3>2. agents[a] \in AgentRecord
      BY <2>1, <3>1
    <3>3. [agents[a] EXCEPT !.target = p].loc = agents[a].loc
      BY <3>2 DEF AgentRecord
    <3> QED
      BY <2>1, <3>1, <3>3
  <2>5. CASE BeginIterate
    <3>1. agents' = [a \in Staying |-> agents[a]]
      BY <2>5 DEF BeginIterate
    <3> QED
      BY <3>1 DEF Alive
  <2>6. ASSUME NEW a \in AgentId, Strategical(a)
        PROVE  Commits
    BY <1>1, <2>6, StrategicalEffect
  <2>7. CASE FinishIterate
    <3>1. /\ pc = "operational" /\ pc' = "idle" /\ agents' = next
          /\ iteration' = (iteration + 1) % ClockModulus
          /\ Remaining = {}
      BY <2>7 DEF FinishIterate, LeaveIteration
    <3>2. \A a \in Alive : a <= cursor
      BY <1>1, <2>1, <3>1 DEF IndInv, TypeOK, Remaining, AgentId
    <3>3. \A a \in Alive : next[a].loc \in Walk[agents[a].loc]
      BY <1>1, <3>1, <3>2 DEF IndInv, MovesReachable
    <3> QED
      BY <3>1, <3>3
  <2>8. CASE CompleteAddAgent
    BY <1>1, <2>8, CompleteAddAgentEffect
  <2>9. CASE HostCall
    <3>1. ASSUME NEW s \in Stages, AddStage(s) PROVE UNCHANGED agents
      BY <3>1 DEF AddStage
    <3>2. ASSUME NEW j \in Journeys, AddJourney(j) PROVE UNCHANGED agents
      BY <3>2 DEF AddJourney
    <3>3. ASSUME NEW j \in Journeys, NEW s \in Stages, NEW p \in Places, CallAddAgent(j, s, p)
          PROVE  UNCHANGED agents
      BY <3>3 DEF CallAddAgent
    <3>4. ASSUME NEW a \in AgentId, MarkAgentForRemoval(a) PROVE UNCHANGED agents
      BY <3>4 DEF MarkAgentForRemoval
    <3> QED
      BY <2>2, <2>3, <2>4, <2>9, <3>1, <3>2, <3>3, <3>4 DEF HostCall
  <2>10. CASE RefuseAgent
    BY <2>2, <2>10 DEF RefuseAgent
  <2>11. CASE PhaseStep
    <3>1. ASSUME Unwind PROVE UNCHANGED agents
      BY <3>1 DEF Unwind
    <3>2. ASSUME NEW a \in AgentId, StrategicalThrows(a) PROVE UNCHANGED agents
      BY <3>1, <3>2 DEF StrategicalThrows
    <3>3. CASE Tactical \/ TacticalThrows \/ MoveThrows
      BY <2>2, <3>1, <3>3 DEF Tactical, TacticalThrows, MoveThrows
    <3>4. ASSUME NEW a \in AgentId, NEW p \in Places, Move(a, p) PROVE UNCHANGED agents
      BY <3>4 DEF Move, ApplyMove
    <3> QED
      BY <2>2, <2>6, <2>7, <2>11, <3>2, <3>3, <3>4 DEF PhaseStep
  <2>12. CASE UNCHANGED vars
    BY <2>12
  <2> HIDE DEF Commits
  <2> QED
    BY <1>1, <2>5, <2>8, <2>9, <2>10, <2>11, <2>12 DEF Next, ReturnFromCheck
<1> QED
  BY <1>1, IndInvHolds, PTL DEF Spec, MovesCommitWithClock

\* Without callbacks nothing writes a target while the operational phase runs:
\* the generation that will be swapped in steers as the one it replaces.
TargetsAgree == pc = "operational" => \A a \in Alive : next[a].target = agents[a].target

LEMMA TargetsAgreeStep ==
  ASSUME ~Reentrant, IndInv, TargetsAgree, [Next]_vars
  PROVE  TargetsAgree'
<1> SUFFICES ASSUME pc' = "operational"
             PROVE  \A a \in Alive' : next'[a].target = agents'[a].target
  BY DEF TargetsAgree
<1>1. CASE HostCall
  <2>1. pc = "idle" /\ pc' = pc
    BY <1>1 DEF HostCall, AddStage, AddJourney, CallAddAgent, MarkAgentForRemoval,
       SwitchAgentJourney, SetAgentTarget, MayMutate
  <2> QED
    BY <2>1
<1>2. CASE ReturnFromCheck
  <2>1. pc = "idle" /\ pc' = pc
    BY <1>2 DEF ReturnFromCheck, RefuseAgent, CompleteAddAgent
  <2> QED
    BY <2>1
<1>3. CASE BeginIterate
  BY <1>3 DEF BeginIterate
<1>4. CASE PhaseStep
  <2>1. ~ Unwind /\ ~ FinishIterate
    BY DEF Unwind, FinishIterate, LeaveIteration
  <2>2. \A a \in AgentId : ~ Strategical(a) /\ ~ StrategicalThrows(a)
    BY <2>1 DEF Strategical, StrategicalThrows
  <2>3. CASE Tactical
    BY <2>3 DEF Tactical, Alive
  <2>4. ASSUME NEW a \in AgentId, NEW p \in Places, Move(a, p)
        PROVE  \A b \in Alive' : next'[b].target = agents'[b].target
    <3>1. /\ pc = "operational" /\ a \in Alive
          /\ next' = [next EXCEPT ![a] = [next[a] EXCEPT !.loc = p]]
          /\ agents' = agents
      BY <2>4 DEF Move, ApplyMove, IsNext, Remaining
    <3>2. DOMAIN next = Alive /\ next \in [Alive -> AgentRecord]
      BY <3>1 DEF IndInv, TypeOK, GenerationsAgree
    <3>3. [next[a] EXCEPT !.loc = p].target = next[a].target
      BY <3>1, <3>2 DEF AgentRecord
    <3>4. \A b \in Alive : next'[b].target = next[b].target
      BY <3>1, <3>2, <3>3
    <3> QED
      BY <3>1, <3>4 DEF TargetsAgree, Alive
  <2> QED
    BY <1>4, <2>1, <2>2, <2>3, <2>4 DEF PhaseStep, TacticalThrows, MoveThrows
<1>5. CASE UNCHANGED vars
  BY <1>5 DEF vars, TargetsAgree, Alive
<1> QED
  BY <1>1, <1>2, <1>3, <1>4, <1>5 DEF Next

\* Without callbacks, an agent whose stage is a direct steering stage keeps its
\* target in every step but a set_agent_target for this very agent.  With
\* callbacks it does not: the run target_doc shows the target a callback sets
\* undone by the swap.
THEOREM SteeringIsKept ==
  ASSUME ~Reentrant
  PROVE  Spec => SteeringIsTheHosts
<1> DEFINE Kept ==
      \A a \in Alive \cap Alive' :
        Kind[agents[a].stage] = "direct" /\ agents'[a].target # agents[a].target
          => \E p \in Aims : SetAgentTarget(a, p)
<1>1. ASSUME IndInv, TargetsAgree, [Next]_vars PROVE Kept
  <2>1. /\ Alive \subseteq AgentId /\ born + 1 \notin Alive
        /\ agents \in [Alive -> AgentRecord]
    BY <1>1, AliveFinite DEF IndInv, TypeOK
  <2>2. CASE UNCHANGED agents
    BY <2>2
  <2>3. ASSUME NEW a \in AgentId, NEW j \in Journeys, NEW s \in Stages, SwitchAgentJourney(a, j, s)
        PROVE  Kept
    <3>1. a \in Alive /\ agents' = [agents EXCEPT ![a] = [agents[a] EXCEPT !.journey = j, !.stage = s]]
      BY <2>3 DEF SwitchAgentJourney
    <3>2. [agents[a] EXCEPT !.journey = j, !.stage = s].target = agents[a].target
      BY <2>1, <3>1 DEF AgentRecord
    <3> QED
      BY <2>1, <3>1, <3>2
  <2>4. ASSUME NEW a \in AgentId, NEW p \in Aims, SetAgentTarget(a, p)
        PROVE  Kept
    <3>1. a \in Alive /\ agents' = [agents EXCEPT ![a] = [agents[a] EXCEPT !.target = p]]
      BY <2>4 DEF SetAgentTarget, SetTarget
    <3>2. \A b \in Alive \ {a} : agents'[b] = agents[b]
      BY <2>1, <3>1
    <3> QED
      BY <2>4, <3>2
  <2>5. CASE BeginIterate
    <3>1. agents' = [a \in Staying |-> agents[a]]
      BY <2>5 DEF BeginIterate
    <3> QED
      BY <3>1 DEF Alive
  <2>6. ASSUME NEW a \in AgentId, Strategical(a)
        PROVE  Kept
    <3> DEFINE rec == agents[a]
               t == Nodes[rec.journey][rec.stage]
    <3>1. /\ a \in Alive /\ rec \in AgentRecord
          /\ rec.stage \in Stages /\ rec.journey \in Journeys
      BY <2>1, <2>6 DEF Strategical, IsNext, Remaining, AgentRecord
    <3>2. \A b \in Alive : b # a => agents'[b] = agents[b]
      BY <1>1, <2>6, StrategicalEffect
    <3>3. ASSUME Kind[rec.stage] = "direct" PROVE agents'[a].target = rec.target
      <4>1. ~ AtDestination(rec)
        BY <3>3 DEF AtDestination
      <4>2. agents' = Redirect(agents, a, rec.stage)
        BY <2>6, <4>1 DEF Strategical, Decide
      <4>3. agents'[a].target = TargetOf(rec.stage, rec)
        BY <2>1, <3>1, <4>2, RedirectAgent DEF Alive
      <4> QED
        BY <3>3, <4>3 DEF TargetOf
    <3> QED
      BY <3>2, <3>3
  <2>7. CASE FinishIterate
    <3>1. pc = "operational" /\ agents' = next
      BY <2>7 DEF FinishIterate
    <3>2. \A a \in Alive : agents'[a].target = agents[a].target
      BY <1>1, <3>1 DEF TargetsAgree
    <3> QED
      BY <3>2
  <2>8. CASE CompleteAddAgent
    BY <1>1, <2>8, CompleteAddAgentEffect
  <2>9. CASE HostCall
    <3>1. ASSUME NEW s \in Stages, AddStage(s) PROVE UNCHANGED agents
      BY <3>1 DEF AddStage
    <3>2. ASSUME NEW j \in Journeys, AddJourney(j) PROVE UNCHANGED agents
      BY <3>2 DEF AddJourney
    <3>3. ASSUME NEW j \in Journeys, NEW s \in Stages, NEW p \in Places, CallAddAgent(j, s, p)
          PROVE  UNCHANGED agents
      BY <3>3 DEF CallAddAgent
    <3>4. ASSUME NEW a \in AgentId, MarkAgentForRemoval(a) PROVE UNCHANGED agents
      BY <3>4 DEF MarkAgentForRemoval
    <3> HIDE DEF Kept
    <3> QED
      BY <2>2, <2>3, <2>4, <2>9, <3>1, <3>2, <3>3, <3>4 DEF HostCall
  <2>10. CASE RefuseAgent
    BY <2>2, <2>10 DEF RefuseAgent
  <2>11. CASE PhaseStep
    <3>1. ASSUME Unwind PROVE UNCHANGED agents
      BY <3>1 DEF Unwind
    <3>2. ASSUME NEW a \in AgentId, StrategicalThrows(a) PROVE UNCHANGED agents
      BY <3>1, <3>2 DEF StrategicalThrows
    <3>3. CASE Tactical \/ TacticalThrows \/ MoveThrows
      BY <2>2, <3>1, <3>3 DEF Tactical, TacticalThrows, MoveThrows
    <3>4. ASSUME NEW a \in AgentId, NEW p \in Places, Move(a, p) PROVE UNCHANGED agents
      BY <3>4 DEF Move, ApplyMove
    <3> HIDE DEF Kept
    <3> QED
      BY <2>2, <2>6, <2>7, <2>11, <3>2, <3>3, <3>4 DEF PhaseStep
  <2>12. CASE UNCHANGED vars
    BY <2>2, <2>12 DEF vars
  <2> HIDE DEF Kept
  <2> QED
    BY <1>1, <2>5, <2>8, <2>9, <2>10, <2>11, <2>12 DEF Next, ReturnFromCheck
<1>2. Init => TargetsAgree
  BY DEF Init, TargetsAgree
<1>3. Spec => []TargetsAgree
  BY <1>2, TargetsAgreeStep, IndInvHolds, PTL DEF Spec
<1> QED
  BY <1>1, <1>3, IndInvHolds, PTL DEF Spec, SteeringIsTheHosts

\* A least targeted transition answers with a stage the fewest agents head for.
THEOREM LeastTargetedCorrect == Spec => LeastTargetedIsLeast
<1> DEFINE Least ==
      \A a \in Alive :
        LET rec == agents[a]
            t   == Nodes[rec.journey][rec.stage]
            heading(s) == Cardinality(Targeters(agents, s))
        IN /\ pc = "strategical" /\ cursor' = a
           /\ AtDestination(rec) /\ t.kind = "least"
           => \A i \in DOMAIN t.to : heading(agents'[a].stage) <= heading(t.to[i])
<1>1. ASSUME IndInv, [Next]_vars PROVE Least \/ UNCHANGED vars
  <2> SUFFICES ASSUME NEW a \in Alive, Next,
                      pc = "strategical", cursor' = a,
                      AtDestination(agents[a]),
                      Nodes[agents[a].journey][agents[a].stage].kind = "least"
               PROVE  \A i \in DOMAIN Nodes[agents[a].journey][agents[a].stage].to :
                        Cardinality(Targeters(agents, agents'[a].stage))
                          <= Cardinality(Targeters(agents, Nodes[agents[a].journey][agents[a].stage].to[i]))
    BY <1>1
  <2> DEFINE rec == agents[a]
             t == Nodes[rec.journey][rec.stage]
  <2>1. /\ a \in AgentId /\ a # 0
        /\ agents \in [Alive -> AgentRecord]
        /\ rec.journey \in Journeys
        /\ \A s \in Stages : targeting[s] = Cardinality(Targeters(agents, s)) /\ targeting[s] \in Nat
    <3>1. a \in AgentId /\ a # 0
      BY <1>1, AliveFinite DEF IndInv, AgentId
    <3>2. agents \in [Alive -> AgentRecord]
      BY <1>1 DEF IndInv, TypeOK
    <3>3. rec.journey \in Journeys
      BY <3>2 DEF AgentRecord
    <3>4. \A s \in Stages : targeting[s] = Cardinality(Targeters(agents, s)) /\ targeting[s] \in Nat
      BY <1>1 DEF IndInv, TypeOK, TargetingExact
    <3> QED
      BY <3>1, <3>2, <3>3, <3>4
  <2>2. Strategical(a)
    <3>1. ~ HostCall /\ ~ ReturnFromCheck /\ ~ BeginIterate
      BY DEF HostCall, ReturnFromCheck, AddStage, AddJourney, CallAddAgent, MarkAgentForRemoval,
         SwitchAgentJourney, SetAgentTarget, RefuseAgent, CompleteAddAgent, BeginIterate, MayMutate
    <3>2. ~ Unwind /\ ~ Tactical
      BY <2>1 DEF Unwind, LeaveIteration, Tactical
    <3>3. \A b \in AgentId, p \in Places : ~ Move(b, p)
      BY DEF Move
    <3>4. ~ TacticalThrows /\ ~ MoveThrows /\ ~ FinishIterate
      BY <3>2 DEF TacticalThrows, MoveThrows, FinishIterate
    <3>5. \A b \in AgentId : Strategical(b) => b = a
      BY DEF Strategical
    <3>6. \A b \in AgentId : ~ StrategicalThrows(b)
      BY <3>2 DEF StrategicalThrows
    <3> QED
      BY <3>1, <3>2, <3>3, <3>4, <3>5, <3>6 DEF Next, PhaseStep
  <2>3. rec.stage \in DOMAIN Nodes[rec.journey]
    BY <2>2 DEF Strategical
  <2>4. PICK s \in NextStage(t, rec.stage, called[rec.journey][rec.stage], targeting) :
          agents' = Redirect(agents, a, s)
    BY <2>2 DEF Strategical, Decide
  <2>5. s \in Stages
    BY <2>1, <2>3, <2>4, NodeAnswers
  <2>6. agents'[a].stage = s
    BY <2>1, <2>4, <2>5, RedirectAgent DEF Alive
  <2>7. \A i \in DOMAIN t.to : t.to[i] \in Stages
    <3>1. t \in Transition
      BY <2>1, <2>3, ParameterAssumption
    <3> QED
      BY <3>1 DEF Transition
  <2>8. \A i \in DOMAIN t.to : targeting[s] <= targeting[t.to[i]]
    <3>1. PICK i \in LeastTargetedPick(t.to, targeting) : s = t.to[i]
      BY <2>4 DEF NextStage
    <3>2. i \in DOMAIN t.to /\ \A k \in DOMAIN t.to : \/ targeting[t.to[i]] < targeting[t.to[k]]
                                                      \/ targeting[t.to[i]] = targeting[t.to[k]]
      BY <3>1 DEF LeastTargetedPick
    <3>3. \A k \in DOMAIN t.to : targeting[t.to[k]] \in Nat
      BY <2>1, <2>7
    <3> HIDE DEF t, rec
    <3> QED
      BY <3>1, <3>2, <3>3
  <2> QED
    BY <2>1, <2>5, <2>6, <2>7, <2>8
<1> QED
  BY <1>1, IndInvHolds, PTL DEF Spec, LeastTargetedIsLeast

(***************************************************************************)
(* The simulation implements the life of an agent.                         *)
(***************************************************************************)
LEMMA LifecycleInit == Init => Lifecycle!Init
<1> SUFFICES ASSUME Init PROVE Lifecycle!Init
  OBVIOUS
<1>1. DOMAIN Empty = {}
  BY DEF Empty
<1> QED
  BY <1>1 DEF Init, Alive, Lifecycle!Init

LEMMA LifecycleStep ==
  ASSUME IndInv, Next
  PROVE  Lifecycle!Next \/ UNCHANGED Lifecycle!lifeVars
<1> DEFINE Same == UNCHANGED <<Alive, Listed, born, pc>>
<1> USE DEF Listed
<1>1. ASSUME Same PROVE UNCHANGED Lifecycle!lifeVars
  BY <1>1 DEF Lifecycle!lifeVars
<1>2. Alive \subseteq AgentId /\ born + 1 \notin Alive /\ born \in Nat /\ removed \in [AgentId -> Nat]
  BY AliveFinite, ParameterAssumption DEF IndInv, TypeOK
<1>3. ASSUME NEW a \in AgentId, a \in Alive, Listed' = Listed \cup {a}, UNCHANGED <<Alive, born, pc>>
      PROVE  Lifecycle!Next
  BY <1>3 DEF Lifecycle!Next, Lifecycle!Schedule
<1>4. CASE HostCall
  <2>1. ASSUME NEW s \in Stages, AddStage(s) PROVE Same
    BY <2>1 DEF AddStage, Alive
  <2>2. ASSUME NEW j \in Journeys, AddJourney(j) PROVE Same
    BY <2>2 DEF AddJourney, Alive
  <2>3. ASSUME NEW j \in Journeys, NEW s \in Stages, NEW p \in Places, CallAddAgent(j, s, p)
        PROVE  Same
    BY <2>3 DEF CallAddAgent, Alive
  <2>4. ASSUME NEW a \in AgentId, MarkAgentForRemoval(a)
        PROVE  Lifecycle!Next
    <3>1. a \in Alive /\ removed' = [removed EXCEPT ![a] = @ + 1] /\ UNCHANGED <<Alive, born, pc>>
      BY <2>4 DEF MarkAgentForRemoval, Alive
    <3>2. Listed' = Listed \cup {a}
      BY <1>2, <3>1
    <3> QED
      BY <1>3, <3>1, <3>2
  <2>5. ASSUME NEW a \in AgentId, NEW j \in Journeys, NEW s \in Stages, SwitchAgentJourney(a, j, s)
        PROVE  Same
    BY <2>5 DEF SwitchAgentJourney, MayMutate, Alive
  <2>6. ASSUME NEW a \in AgentId, NEW p \in Aims, SetAgentTarget(a, p) PROVE Same
    BY <2>6 DEF SetAgentTarget, SetTarget, Alive
  <2> HIDE DEF Same
  <2> QED
    BY <1>1, <1>4, <2>1, <2>2, <2>3, <2>4, <2>5, <2>6 DEF HostCall
<1>5. CASE RefuseAgent
  BY <1>1, <1>5 DEF RefuseAgent, Alive
<1>6. CASE CompleteAddAgent
  <2>0. PICK a \in AgentId : a = born + 1
    BY <1>6, CompleteAddAgentEffect
  <2>1. /\ born' = a
        /\ Alive' = Alive \cup {a}
        /\ Listed' \in {Listed, Listed \cup {a}}
    BY <1>6, <2>0, CompleteAddAgentEffect DEF Alive
  <2>2. 1 .. born' = (1 .. born) \cup {a} /\ a \notin 1 .. born
    BY <1>2, <2>0, <2>1
  <2>3. pc = "idle" /\ pc' = "idle"
    BY <1>6 DEF CompleteAddAgent
  <2>4. Lifecycle!Enter(a)
    BY <2>1, <2>2, <2>3 DEF Lifecycle!Enter
  <2> QED
    BY <2>4 DEF Lifecycle!Next
<1>7. CASE BeginIterate
  <2>1. /\ pc = "idle" /\ pc' = "strategical"
        /\ Alive' = Staying
        /\ removed' = [a \in AgentId |-> 0]
        /\ UNCHANGED born
    BY <1>7 DEF BeginIterate, MayMutate, ClearList, Alive
  <2>2. Staying = Alive \ Listed
    BY <1>2 DEF Staying
  <2>3. Listed' = {}
    BY <2>1
  <2> QED
    BY <2>1, <2>2, <2>3 DEF Lifecycle!Next, Lifecycle!Sweep
<1>8. CASE PhaseStep
  <2>1. ASSUME Unwind, pc # "idle" PROVE Lifecycle!Next
    BY <2>1 DEF Unwind, LeaveIteration, Lifecycle!Next, Lifecycle!Rest, Alive
  <2>2. ASSUME NEW a \in AgentId, Strategical(a)
        PROVE  Lifecycle!Next \/ UNCHANGED Lifecycle!lifeVars
    <3>1. /\ UNCHANGED <<Alive, born, pc>> /\ a \in Alive
          /\ Listed' \in {Listed, Listed \cup {a}}
      BY <2>2, StrategicalEffect DEF Strategical, IsNext, Remaining, Alive
    <3> QED
      BY <1>1, <1>3, <3>1
  <2>3. ASSUME NEW a \in AgentId, StrategicalThrows(a) PROVE Lifecycle!Next
    BY <2>1, <2>3 DEF StrategicalThrows
  <2>4. CASE Tactical
    BY <2>4 DEF Tactical, Lifecycle!lifeVars, Alive
  <2>5. CASE TacticalThrows \/ MoveThrows
    BY <2>1, <2>5 DEF TacticalThrows, MoveThrows
  <2>6. ASSUME NEW a \in AgentId, NEW p \in Places, Move(a, p) PROVE Same
    BY <2>6 DEF Move, ApplyMove, Alive
  <2>7. CASE FinishIterate
    <3>1. /\ pc = "operational" /\ pc' = "idle" /\ agents' = next
          /\ UNCHANGED <<removed, born>>
      BY <2>7 DEF FinishIterate, LeaveIteration
    <3>2. Alive' = Alive
      BY <3>1 DEF IndInv, GenerationsAgree, Alive
    <3> QED
      BY <3>1, <3>2 DEF Lifecycle!Next, Lifecycle!Rest
  <2> HIDE DEF Same
  <2> QED
    BY <1>1, <1>8, <2>2, <2>3, <2>4, <2>5, <2>6, <2>7 DEF PhaseStep
<1> QED
  BY <1>4, <1>5, <1>6, <1>7, <1>8 DEF Next, ReturnFromCheck

\* Every behaviour of the simulation is one of AgentLifecycle: agents enter once
\* between iterations, and each iteration removes the scheduled ones at once.
THEOREM ImplementsLifecycle == Spec => LifecycleSpec
<1>1. IndInv /\ [Next]_vars => [Lifecycle!Next]_(Lifecycle!lifeVars)
  <2>1. CASE UNCHANGED vars
    BY <2>1 DEF vars, Lifecycle!lifeVars, Alive
  <2> QED
    BY <2>1, LifecycleStep
<1> QED
  BY <1>1, LifecycleInit, IndInvHolds, PTL DEF Spec, LifecycleSpec, Lifecycle!Spec
=============================================================================
