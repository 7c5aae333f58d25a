\* One agent and the bridge: what the list says of a cluster.
CONSTANTS
  Clusters = {c1}
  ReportInterval = 1
  ClientTimeout = 1
  MaxDelay = 2
  StaleAfter = 3
  AgeBound = 5
  NoNodes = NoNodes
SPECIFICATION FleetSpec
CHECK_DEADLOCK FALSE
INVARIANTS FleetTypeOK
PROPERTIES AwaitedIsNewest SilentGoesStale LiveIsFresh
