SPECIFICATION FairSockets
CONSTANTS
  Replicas = {"api1", "api2"}
  Engine = "engine"
  Publishers = {"engine", "api1"}
  Users = {"alice"}
  Public = {"wingo-results"}
  Direct = {"account-balance"}
  None = None
  MaxSockets = 2
  FaultKinds = {"send", "shutdown", "crash"}
  MaxFaults = 1
INVARIANTS ReplacementKept
PROPERTIES LeftoversPruned RoutedAgain
\* The browser may have left for good, with nothing to publish to.
CHECK_DEADLOCK FALSE
