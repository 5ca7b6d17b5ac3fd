\* Two floors, a bridge, a stairwell: in parts or whole.
CONSTANTS
  Rooms <- MCRooms
  Doors <- MCDoors
  MaxConnectors = 2
  MinZSquared = 41
  Areas <- MCAreas
SPECIFICATION Spec
INVARIANTS SeamsSound DirectionsDoNotMatter StoreysApart PiecesFollow
CHECK_DEADLOCK FALSE
