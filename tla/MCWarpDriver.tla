---------------------------- MODULE MCWarpDriver ----------------------------
(* Instances of WarpDriver for TLC. *)
EXTENDS WarpDriver

MCWays == {Vec(0, -1)}
MCArea == [x : 0..1, y : 0..3]
MCDetour == Vec(0, 1)

\* Somebody ahead who comes towards the agent, somebody who crosses, and
\* somebody who stands in the same place.
MCEncounters ==
  UNION {{[rel |-> Times(3, a), a |-> a, b |-> Times(-1, a), speed |-> 2, radius |-> 2],
          [rel |-> Plus(Times(2, a), Turned(a, Vec(0, 1))), a |-> a, b |-> Turned(a, Vec(0, -1)),
           speed |-> 1, radius |-> 2],
          [rel |-> Vec(0, 0), a |-> a, b |-> Vec(1, 0), speed |-> 0, radius |-> 1]} : a \in Axes}

MCUncertainty == {[lambda |-> 0, ux |-> 0, uy |-> 1], [lambda |-> 1, ux |-> 1, uy |-> 1]}
=============================================================================
