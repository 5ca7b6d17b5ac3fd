----------------------------- MODULE MCBuilding -----------------------------
(* Rooms for Building: two floors with ramps, a bridge, a stairwell. *)
EXTENDS Building

Rectangle(x, y, u, v) == <<<<x, y>>, <<u, y>>, <<u, v>>, <<x, v>>>>
Room(rings, height) == [rings |-> rings, height |-> height]

MCRooms == <<
  \* ground floor
  Room(<<<<<<0, 0>>, <<4, 0>>, <<4, 4>>, <<4, 6>>, <<0, 6>>, <<0, 0>>>>>>, 0),
  \* touches it
  Room(<<Rectangle(-2, 6, 4, 8)>>, 0),
  \* twisted
  Room(<<<<<<0, 0>>, <<4, 4>>, <<4, 0>>, <<0, 4>>>>>>, 3),
  \* a bridge that a ramp from the ground floor to the upper floor runs into
  Room(<<Rectangle(5, -1, 7, 7)>>, 1),
  \* a bridge above all ramps, out of reach
  Room(<<Rectangle(5, -1, 7, 7)>>, 3),
  \* upper floor with a stairwell, given clockwise
  Room(<<<<<<8, 0>>, <<8, 4>>, <<8, 6>>, <<14, 6>>, <<14, 0>>>>, Rectangle(9, 1, 11, 3)>>, 2),
  \* lobby at the foot of the stairwell
  Room(<<Rectangle(11, 1, 13, 3)>>, 1)>>

MCDoors == {
  <<<<4, 0>>, <<4, 4>>>>, <<<<8, 4>>, <<8, 0>>>>, <<<<5, -1>>, <<5, 7>>>>,
  <<<<9, 1>>, <<9, 3>>>>, <<<<11, 3>>, <<11, 1>>>>}

MCAreas == {Rectangle(3, 1, 5, 5), Rectangle(5, 2, 9, 3), Rectangle(6, 1, 7, 2), Rectangle(10, 1, 12, 3),
            Rectangle(0, -1, 9, 9)}

\* A landing around a corner of a lower room, with ramps on both sides of it.
CornerRooms == <<
  Room(<<Rectangle(0, 0, 8, 8)>>, 0),
  Room(<<<<<<0, 12>>, <<12, 12>>, <<12, 0>>, <<14, 0>>, <<14, 14>>, <<0, 14>>>>>>, 2)>>
CornerDoors == {<<<<0, 8>>, <<8, 8>>>>, <<<<8, 0>>, <<8, 8>>>>, <<<<0, 12>>, <<12, 12>>>>, <<<<12, 0>>, <<12, 12>>>>}
CornerAreas == {<<<<9, 10>>, <<10, 9>>, <<11, 10>>, <<10, 11>>>>}
=============================================================================
