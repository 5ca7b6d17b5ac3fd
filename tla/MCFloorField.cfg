\* Every small surface, with a budget that is enough and one that is not.
CONSTANTS
  Region <- MCRegion
  Cell <- MCCell
  Infinity <- MCInfinity
  Eps = 1
  Limits <- MCLimits
  Geometries <- MCGeometries
  Goals <- MCGoals
SPECIFICATION Spec
INVARIANTS PropagationSound MatchesSingleGrid Converges
PROPERTIES Returns
\* A destination that is solved stays so.
CHECK_DEADLOCK FALSE
