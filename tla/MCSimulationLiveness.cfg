\* The host keeps iterating; every transition stays in its journey and chooses
\* between two exits by fewest targeting.
CONSTANTS
  NoCall = NoCall
  Stages <- FairStages
  Journeys = {"least", "steer"}
  Places <- MCPlaces
  Kind <- FairKind
  Area <- FairArea
  Nodes <- FairNodes
  Walk <- MCWalk
  Aims <- MCPlaces
  Route <- FairRoute
  MaxAgents = 2
  MaxMarks = 1
  ClockModulus = 1
  WeightModulus = 16
  Reentrant = FALSE
SPECIFICATION FairSpec
PROPERTIES ScheduledLeave ExitReachedLeaves IterateReturns SteeringIsTheHosts LeastTargetedIsLeast
