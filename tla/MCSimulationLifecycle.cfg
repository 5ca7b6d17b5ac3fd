\* Two agents, re-entrant callbacks: every order of host calls, iterations and failures.
CONSTANTS
  NoCall = NoCall
  Stages <- MCStages
  Journeys = {"out", "steer", "stray"}
  Places <- MCPlaces
  Kind <- MCKind
  Area <- MCArea
  Nodes <- MCNodes
  Walk <- MCWalk
  Aims <- MCPlaces
  Route <- MCRoute
  MaxAgents = 2
  MaxMarks = 2
  ClockModulus = 2
  WeightModulus = 16
  Reentrant = TRUE
SPECIFICATION Spec
INVARIANTS TypeOK TargetingExact GridExact GenerationsAgree
PROPERTIES MovesCommitWithClock LifecycleSpec
