\* A room, spirals and hubs: split into regions, then walked on.
CONSTANTS
  Surfaces <- MCSurfaces
  Tolerance = 1
  CosSquared = 19
  CellExtend = 4
  SortThreshold = 16
  Explored <- MCExplored
  Places <- MCPlaces
  Rays <- MCRays
  Radius = 9
  MaxWindowDepth = 8
  NearZTolerance = 5
SPECIFICATION SurfaceSpec
INVARIANTS RegionsSound CacheSound PlacesSound VisibleIsWalkable SightSound
PROPERTIES Ends
