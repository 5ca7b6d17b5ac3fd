---------------------------- MODULE MCRoundRobin ----------------------------
(* Every list of up to three weights between zero and four. *)
EXTENDS RoundRobin

MCWeightLists == UNION {[1 .. n -> 0 .. 4] : n \in 1 .. 3}
=============================================================================
