--------------------------- MODULE MCSurface ---------------------------
(* Surfaces for RegionSplit and Surface, with their faces numbered in many orders. *)
EXTENDS Surface

Renumbered(points, faces, order) == MeshOf(points, [i \in DOMAIN faces |-> faces[order[i]]])
Orders(n) == Permutations(1..n)
Rotations(n) == {[i \in 1..n |-> ((i + k) % n) + 1] : k \in 1..n}
                  \cup {[i \in 1..n |-> ((k - i + n) % n) + 1] : k \in 1..n}

\* Spirals of faces around a pole: the fifth lies above the first.  A gentle
\* one looks planar, the faces of a steep one are patches of their own.
SpiralPoints(heights) ==
  <<<<0, 0, 0>>, <<8, 0, heights[1]>>, <<0, 8, heights[2]>>, <<-8, 0, heights[3]>>,
    <<0, -8, heights[4]>>, <<8, 0, heights[5]>>, <<0, 8, heights[6]>>, <<-8, 0, heights[7]>>>>
Spirals(heights, n, orders) ==
  {Renumbered(SpiralPoints(heights), [i \in 1..n |-> <<1, i + 1, i + 2>>], o) : o \in orders}

\* Four faces around a point and five that lead around it on one side.
\* A gentle one and a steep one.
HubPoints(h) == <<<<0, 0, 0>>, <<-4, -4, h>>, <<4, -4, 0>>, <<4, 4, 0>>, <<-4, 4, h>>,
                  <<0, -9, 3 * h>>, <<9, 0, 0>>, <<0, 9, 2 * h>>>>
HubFaces == <<<<1, 2, 3>>, <<1, 3, 4>>, <<1, 4, 5>>, <<1, 5, 2>>,
              <<3, 2, 6>>, <<3, 6, 7>>, <<4, 3, 7>>, <<4, 7, 8>>, <<5, 4, 8>>>>
HubOrders ==
  Rotations(9) \cup {<<1, 5, 6, 7, 8, 9, 3, 2, 4>>, <<3, 9, 8, 7, 6, 5, 1, 2, 4>>,
                    <<5, 8, 7, 1, 3, 4, 9, 6, 2>>, <<6, 7, 8, 5, 4, 1, 9, 2, 3>>}
Hubs == {Renumbered(HubPoints(h), HubFaces, o) : h \in {1, 4}, o \in HubOrders}

\* A room of four walls around a pillar.
Room ==
  MeshOf(<<<<-8, -8, 0>>, <<8, -8, 0>>, <<8, 8, 0>>, <<-8, 8, 0>>,
           <<-4, -4, 0>>, <<4, -4, 0>>, <<4, 4, 0>>, <<-4, 4, 0>>>>,
         <<<<1, 2, 6>>, <<1, 6, 5>>, <<2, 3, 7>>, <<2, 7, 6>>,
           <<3, 4, 8>>, <<3, 8, 7>>, <<4, 1, 5>>, <<4, 5, 8>>>>)

MCPlaces(m) == {<<x, y>> \in {-6, -3, -2, 0, 2, 5, 8} \X {-8, -5, -2, 0, 3, 6} : TRUE}
MCRays == {<<7, 1>>, <<6, 5>>, <<3, 7>>, <<-1, 8>>, <<-4, 7>>, <<-8, 3>>, <<-7, -2>>, <<-5, -7>>,
           <<-1, -6>>, <<2, -7>>, <<5, -4>>, <<8, -1>>}
MCExplored == {Room, Renumbered(SpiralPoints(<<0, 0, 0, 0, 1, 1, 1>>), [i \in 1..5 |-> <<1, i + 1, i + 2>>], <<1, 2, 3, 4, 5>>),
  Renumbered(SpiralPoints(<<0, 0, 2, 2, 4, 4, 6>>), [i \in 1..6 |-> <<1, i + 1, i + 2>>], <<1, 2, 3, 4, 5, 6>>),
  Renumbered(HubPoints(4), HubFaces, <<5, 8, 7, 1, 3, 4, 9, 6, 2>>)}

MCSurfaces == MCExplored \cup
  Spirals(<<0, 0, 0, 0, 1, 1, 1>>, 5, Orders(5))
    \cup Spirals(<<0, 0, 2, 2, 4, 4, 6>>, 6, Rotations(6)) \cup Hubs

\* A room with a wall of 64 m on a grid line.
LongRoom == MeshOf(<<<<0, 1, 0>>, <<4, 1, 0>>, <<4, 65, 0>>, <<0, 65, 0>>>>, <<<<1, 2, 3>>, <<1, 3, 4>>>>)
LongSurfaces == {LongRoom}
LongPlaces(m) == {<<x, y>> : x \in {2, 5}, y \in {6, 14, 33, 50}}
=============================================================================
