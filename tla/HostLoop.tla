------------------------------ MODULE HostLoop ------------------------------
(***************************************************************************)
(* Simulation.iterate() of python_modules/jupedsim/jupedsim/simulation.py, *)
(* the loop that drives the simulation core and hands every iteration to   *)
(* the trajectory writer.  The module holds the steps of the loop; a       *)
(* module of a writer adds the steps of begin_writing() and of             *)
(* write_iteration_state(), which leave the loop by Done or by Raise.      *)
(***************************************************************************)
EXTENDS Integers, Sequences, SequencesExt, FiniteSets

CONSTANTS
  AgentId,       \* ids of the agents, numbers as in the code
  EveryNth,      \* every_nth_frame of the writer
  MaxIteration,  \* bound: successful iterations of the core
  MaxCount       \* bound: iterations asked for in one call

ASSUME LoopAssumption == /\ AgentId \subseteq Nat \ {0}
                         /\ IsFiniteSet(AgentId)
                         /\ EveryNth \in Nat \ {0}
                         /\ MaxIteration \in Nat
                         /\ MaxCount \in Nat

VARIABLES
  pc,      \* the place in iterate(); "host" outside of it
  left,    \* iterations of the call still to run
  clock,   \* iteration_count() of the core
  agents   \* ids of the agents, in the order of the container
loop == <<pc, left, clock, agents>>

\* Agents are appended with ascending ids and removed in place.
Containers ==
  UNION {{ids \in [1 .. n -> AgentId] : \A i, k \in 1 .. n : i < k => ids[i] < ids[k]} :
           n \in 0 .. Cardinality(AgentId)}

LoopInit == /\ pc = "host"
            /\ left = 0
            /\ clock = 0
            /\ agents \in Containers

\* The host adds and removes agents between two calls.
HostChanges == /\ pc = "host"
               /\ agents' \in Containers
               /\ UNCHANGED <<pc, left, clock>>

\* The head of the for loop with n iterations left.
Loop(n) == IF n = 0 THEN "host" ELSE "core"

CallIterate == /\ pc = "host"
               /\ \E count \in 0 .. MaxCount :
                    /\ left' = count
                    /\ pc' = IF clock = 0 THEN "begin" ELSE Loop(count)
               /\ UNCHANGED <<clock, agents>>

\* The core ran one iteration: agents may have left.
CoreIterates == /\ pc = "core"
                /\ clock < MaxIteration
                /\ clock' = clock + 1
                /\ left' = left - 1
                /\ \E A \in Containers :
                     /\ ToSet(A) \subseteq ToSet(agents)
                     /\ agents' = A
                /\ pc' = "write"

\* An exception passes through iterate() to the host.
Raise == /\ pc' = "host"
         /\ left' = 0
         /\ UNCHANGED <<clock, agents>>

CoreThrows == pc = "core" /\ Raise

\* write_iteration_state() returned.
Done == /\ pc' = Loop(left)
        /\ UNCHANGED <<left, clock, agents>>

Goto(place) == /\ pc' = place
               /\ UNCHANGED <<left, clock, agents>>

Recorded == clock % EveryNth = 0   \* is this iteration one to record?
Frame == clock \div EveryNth
=============================================================================
