\* A long wall on a grid line is not filed in every cell it touches.
CONSTANTS
  Surfaces <- LongSurfaces
  Tolerance = 1
  CosSquared = 19
  CellExtend = 4
  SortThreshold = 16
  Explored <- LongSurfaces
  Places <- LongPlaces
  Rays <- MCRays
  Radius = 9
  MaxWindowDepth = 8
  NearZTolerance = 5
SPECIFICATION SurfaceSpec
INVARIANTS EverySegmentCompared
