CONSTANTS
  n1 = n1
  n2 = n2
  Nodes = {n1, n2}
  Scenarios <- MCScenarios
SPECIFICATION FairSpec
INVARIANTS
  TypeOK
  GoneMeansGone
  VMHasPublicIP
PROPERTIES
  NicGCSparesLaunches
  RefreshDropsOnlyStale
  NothingLeftBehind
  LaunchSurvivesPoolChange
CHECK_DEADLOCK FALSE
