----------------------------- MODULE Transitions -----------------------------
(***************************************************************************)
(* The transitions of a journey (libsimulator/src/journey.hpp): given that *)
(* an agent has completed its stage, which stage is next?  The answer of   *)
(* next_stage is given as a set, a singleton for every list the code can   *)
(* work on, so that a use of it needs no CHOOSE.                           *)
(***************************************************************************)
EXTENDS Integers, Sequences

CONSTANT WeightModulus   \* 2^64 in the code: sums of weights wrap

ASSUME ModulusAssumption == WeightModulus \in Nat \ {0}

\* The weights of the entries in front of entry i, summed as unsigned integers.
WeightBefore(w, i) ==
  LET sum[k \in 0 .. Len(w)] == IF k = 0 THEN 0 ELSE (sum[k - 1] + w[k]) % WeightModulus
  IN sum[i - 1]
TotalWeight(w) == WeightBefore(w, Len(w) + 1)

\* Bug: the fullest candidate is chosen.

BugMostTargetedPick(to, counts) ==
  {i \in DOMAIN to : \A k \in DOMAIN to : counts[to[i]] >= counts[to[k]]}

\* The loop of RoundRobinTransition::next_stage on its call number n: it moves
\* on while the weights passed so far do not exceed n.
RoundRobinPick(w, n) ==
  LET reached == {i \in DOMAIN w : \A k \in 1 .. i : WeightBefore(w, k) <= n}
  IN {i \in reached : \A k \in reached : k <= i}

\* std::min_element: the first entry with the fewest agents targeting it.
LeastTargetedPick(to, counts) ==
  LET fewest(i, k) == \/ counts[to[i]] < counts[to[k]]
                      \/ counts[to[i]] = counts[to[k]] /\ i <= k
  IN {i \in DOMAIN to : \A k \in DOMAIN to : fewest(i, k)}

\* The stages next_stage may answer with for transition t of stage s, when it
\* was called n times (modulo the total weight) before.
NextStage(t, s, n, counts) ==
  CASE t.kind = "none"       -> {s}
    [] t.kind = "fixed"      -> {t.to[1]}
    [] t.kind = "roundrobin" -> {t.to[i] : i \in RoundRobinPick(t.weight, n)}
    [] t.kind = "least"      -> {t.to[i] : i \in LeastTargetedPick(t.to, counts)}
=============================================================================
