\* Six operational models, each with two or three agents in single file.
CONSTANTS
  CellSize = 2
  Lo <- MCLo
  Hi = 5
  TimeGap = 2
  V0 = 2
  CutOff = 7
  WallRange = 8
  Far = 1000
  Unit = 2
  ModelStrength = 4
  AgentStrength = 8
  V3Buffer = 1
  Reverse = 1
  AVMBuffer = 4
  Creep = 1
  WallBuffer = 1
  PushOut = 1
  Tau = 1
  SFMCutOff = 3
  AgentScale = 2
  ObstacleScale = 2
  BodyForce = 1
  GCFMCutOff = 8
  AMin = 1
  AV = 1
  MinDist = 3
  Ped <- MCPed
  Geo <- MCGeo
  Settle = 2
  NaN = NaN
  Agents = {a, b, c}
  Models = {"cfsm", "cfsm_v2", "cfsm_v3", "avm", "sfm", "gcfm"}
  Most <- MCMost
  Places <- MCPlaces
  Radii = {0, 1}
  DesiredSpeeds <- MCDesiredSpeeds
  RadiusMax = 4
  ContactRange = 4
  Waist = 1
SYMMETRY MCSymmetry
SPECIFICATION Spec
INVARIANTS CrowdSound NoOverlap InterpolationInRange
PROPERTIES StepsSound
