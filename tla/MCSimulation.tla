---------------------------- MODULE MCSimulation ----------------------------
(* Instances of Simulation for TLC.  The places are a hall and a door one   *)
(* can walk between, and an island without a connection to either.          *)
EXTENDS Simulation, TLC

MCPlaces == {"hall", "door", "island"}
MCWalk == ("hall" :> {"hall", "door"}) @@ ("door" :> {"hall", "door"}) @@ ("island" :> {"island"})

\* A waypoint in the hall, an exit in the door, a direct steering stage.
MCStages == {"way", "exit", "steer"}
MCKind == ("way" :> "waypoint") @@ ("exit" :> "exit") @@ ("steer" :> "direct")
MCArea == ("way" :> {"hall"}) @@ ("exit" :> {"door"}) @@ ("steer" :> {})
MCRoute == ({"hall", "door"} \X {"hall", "door", "way", "exit"}) \cup {<<"island", "island">>}

\* Two exits behind one waypoint, and direct steering.
FairStages == {"way", "exit", "side", "steer"}
FairKind == ("side" :> "exit") @@ MCKind
FairArea == ("side" :> {"door"}) @@ MCArea
FairRoute == MCRoute \cup ({"hall", "door"} \X {"side"})

None == [kind |-> "none", to |-> <<>>, weight |-> <<>>]
Fixed(s) == [kind |-> "fixed", to |-> <<s>>, weight |-> <<1>>]

Least(ss) == [kind |-> "least", to |-> ss, weight |-> [i \in DOMAIN ss |-> 1]]
Robin(ss, ws) == [kind |-> "roundrobin", to |-> ss, weight |-> ws]

\* Out by the waypoint, direct steering, and a journey with a transition into
\* a stage it does not contain.
Out == ("way" :> Robin(<<"way", "exit">>, <<1, 1>>)) @@ ("exit" :> None)
Steer == "steer" :> None
Stray == "way" :> Fixed("steer")

MCNodes == ("out" :> Out) @@ ("steer" :> Steer) @@ ("stray" :> Stray)
FairNodes == ("least" :> (("way" :> Least(<<"exit", "side">>)) @@ ("exit" :> None) @@ ("side" :> None)))
          @@ ("steer" :> Steer)
=============================================================================
