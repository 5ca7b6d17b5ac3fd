----------------------------- MODULE RoundRobin -----------------------------
(***************************************************************************)
(* RoundRobinTransition (libsimulator/src/journey.hpp) by itself: its call *)
(* counter, and the answers it gave so far as a history.                   *)
(***************************************************************************)
EXTENDS Transitions, SequencesExt

CONSTANTS WeightLists,   \* the lists of weights a host may pass
          MaxCalls       \* bound: the calls of next_stage

ASSUME RoundRobinAssumption ==
  /\ WeightLists \subseteq Seq(Nat)
  /\ MaxCalls \in Nat

VARIABLES weights,      \* the weights of _weighted_stages
          nextCalled,   \* _next_called
          answers       \* the entries answered, in order

vars == <<weights, nextCalled, answers>>

\* The constructor refuses a weight of zero.  It accepts a list whose sum wraps
\* to zero, on which next_stage would divide by zero: left out here.
Constructed(w) == (\A i \in DOMAIN w : w[i] # 0) /\ TotalWeight(w) # 0

Init ==
  /\ weights \in {w \in WeightLists : Constructed(w)}
  /\ nextCalled = 0
  /\ answers = <<>>

\* Bug: the counter wraps at the number of entries.
BugWrapAtLength ==
  /\ Len(answers) < MaxCalls
  /\ \E i \in RoundRobinPick(weights, nextCalled) : answers' = Append(answers, i)
  /\ nextCalled' = (nextCalled + 1) % Len(weights)
  /\ UNCHANGED weights

CallNextStage ==
  /\ Len(answers) < MaxCalls
  /\ \E i \in RoundRobinPick(weights, nextCalled) : answers' = Append(answers, i)
  /\ nextCalled' = (nextCalled + 1) % TotalWeight(weights)
  /\ UNCHANGED weights

Next == CallNextStage
Spec == Init /\ [][Next]_vars

-----------------------------------------------------------------------------
TypeOK ==
  /\ weights \in WeightLists
  /\ nextCalled \in 0 .. TotalWeight(weights) - 1
  /\ answers \in Seq(DOMAIN weights)

\* One cycle as the documentation describes it: the first entry as often as its
\* weight says, then the second, and so on.
Cycle(w) == FlattenSeq([i \in DOMAIN w |-> [k \in 1 .. w[i] |-> i]])

\* The n-th agent to choose gets the n-th place of the repeated cycle, and the
\* next call has an answer, too.
ServedInTurn ==
  LET cycle == Cycle(weights)
  IN /\ TypeOK
     /\ RoundRobinPick(weights, nextCalled) # {}
     /\ \A n \in DOMAIN answers : answers[n] = cycle[((n - 1) % Len(cycle)) + 1]
=============================================================================
