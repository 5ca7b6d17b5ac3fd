\* Two ramps around a corner share an edge.
CONSTANTS
  Rooms <- CornerRooms
  Doors <- CornerDoors
  MaxConnectors = 2
  MinZSquared = 41
  Areas <- CornerAreas
SPECIFICATION Spec
INVARIANTS PiecesFollow
CHECK_DEADLOCK FALSE
