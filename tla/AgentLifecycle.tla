--------------------------- MODULE AgentLifecycle ---------------------------
(***************************************************************************)
(* What the simulation promises about the life of an agent, without the    *)
(* machinery of iterate(): an agent enters once, while no iteration runs;  *)
(* the host program or an exit it has reached schedules it for removal,    *)
(* which nothing takes back; the start of an iteration removes exactly the *)
(* scheduled agents, all of them at once.                                  *)
(***************************************************************************)
CONSTANT Agent

VARIABLES
  present,   \* the agents of the simulation
  leaving,   \* those scheduled for removal
  entered,   \* every agent that ever entered
  busy       \* is an iteration running?

lifeVars == <<present, leaving, entered, busy>>

Init ==
  /\ present = {}
  /\ leaving = {}
  /\ entered = {}
  /\ busy = FALSE

\* An agent placed into its exit is scheduled as it enters.
Enter(a) ==
  /\ ~busy
  /\ a \notin entered
  /\ present' = present \cup {a}
  /\ leaving' \in {leaving, leaving \cup {a}}
  /\ entered' = entered \cup {a}
  /\ UNCHANGED busy

Schedule(a) ==
  /\ a \in present
  /\ leaving' = leaving \cup {a}
  /\ UNCHANGED <<present, entered, busy>>

Sweep ==
  /\ ~busy
  /\ present' = present \ leaving
  /\ leaving' = {}
  /\ busy' = TRUE
  /\ UNCHANGED entered

\* The iteration ends, completed or not.
Rest ==
  /\ busy
  /\ busy' = FALSE
  /\ UNCHANGED <<present, leaving, entered>>

Next == \/ \E a \in Agent : Enter(a) \/ Schedule(a)
        \/ Sweep
        \/ Rest

Spec == Init /\ [][Next]_lifeVars
=============================================================================
