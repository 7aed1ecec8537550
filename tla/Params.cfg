SPECIFICATION Spec
CONSTANTS
  ServerStates <- CardStates
  RouteProfiles <- RoutesInProfiles
  OwnRoutes = {1, 2}
  MaxChanges = 2
INVARIANTS
  SnapshotsWhole
  ListenersFollow
PROPERTY ParamsConverge
CHECK_DEADLOCK FALSE
