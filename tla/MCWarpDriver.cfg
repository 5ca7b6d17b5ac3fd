\* One agent in a room of two by four units.
CONSTANTS
  Half = 2
  Sub = 2
  Scale = 4
  V0 = 2
  NumSamples = 2
  StepSize = 2
  Ways <- MCWays
  Area <- MCArea
  Radius = 1
  Encounters <- MCEncounters
  Most = 2
  Lateral = {0}
  Uncertainty <- MCUncertainty
  Dt = 2
  Threshold = 5
  Duration = 3
  Progress = 1
  Creep = 1
  Detour <- MCDetour
SPECIFICATION FairSpec
INVARIANTS ProbabilitySound GradientSound MemorySound
PROPERTIES NobodyStuck
