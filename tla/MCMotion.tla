------------------------------ MODULE MCMotion ------------------------------
(* Instances of Motion for TLC. *)
EXTENDS Motion, TLC

MCMost == [m \in Models |-> IF m \in {"cfsm", "cfsm_v2", "cfsm_v3", "avm"} THEN 3 ELSE 2]
MCSymmetry == Permutations(Agents)
MCPed == [strength |-> 1, reach |-> 6, blend |-> 1, cap |-> 2]
MCGeo == [strength |-> 1, reach |-> 5, blend |-> 1, cap |-> 2]
MCDesiredSpeeds == {0, V0}
MCLo == -5
MCPlaces == {-4, -3, -1, 0, 2, 3, 5}
=============================================================================
