---------------------------- MODULE MCFloorField ----------------------------
(* Instances of FloorField for TLC: three regions of two cells each.  The   *)
(* cells of a region are near, far or not connected inside of it; five      *)
(* crossings, one of them closing a circle, are quick, slow or closed.      *)
EXTENDS FloorField

MCRegion == 1 .. 3
MCCell == 1 .. 6
MCHome == [c \in MCCell |-> (c + 1) \div 2]
MCInfinity == 80

Slots == <<<<1, 3>>, <<2, 4>>, <<3, 5>>, <<4, 6>>, <<2, 5>>>>

\* The facing cells from region r to the others, in the order of the slots.
Facing(r, time) ==
  LET there == [i \in DOMAIN Slots |-> <<Slots[i][1], Slots[i][2], time[i]>>]
      back == [i \in DOMAIN Slots |-> <<Slots[i][2], Slots[i][1], time[i]>>]
      Open(p) == MCHome[p[1]] = r /\ p[3] # 0
  IN SelectSeq(there \o back, Open)

Surface(near, time) ==
  [home |-> MCHome,
   inside |-> [c \in MCCell |-> [d \in MCCell |->
                 IF c = d THEN 0
                 ELSE IF MCHome[c] = MCHome[d] THEN near[MCHome[c]]
                 ELSE MCInfinity]],
   pairs |-> <<Facing(1, time), Facing(2, time), Facing(3, time)>>]

\* Every surface with these times, which are even, and some with odd ones.
MCGeometries ==
  {Surface(near, time) : near \in [MCRegion -> {2, 12, MCInfinity}], time \in [DOMAIN Slots -> {0, 2, 8}]}
  \cup {Surface(near, time) : near \in [MCRegion -> {1, 6}], time \in [DOMAIN Slots -> {1, 4}]}
MCGoals == {{1}, {2, 5}}
MCLimits == {[perPart |-> 1, extra |-> 0], [perPart |-> 0, extra |-> 2]}
=============================================================================
