SPECIFICATION PendingSpec
CONSTANTS
  NodeIds = {0, 1}
  Nodes = {0, 1}
  Neighbors <- Pair
  MaxLabel = 1
  MaxRestarts <- NoRestarts
  MaxDups = 1
  MaxSetBacks = 1
  DlDsrNodes = {0, 1}
  StrictNodes = {0, 1}
  SeenTtl = 0
  SeenMax = 1
  RouteTtl = 0
  DiscoveryTimeout = 1
  MaxRetries = 1
  MaxRreqHops = 3
  Payloads = {1}
  Src <- FromZero
  Dst <- ToOne
PROPERTIES
  NothingPendsForever
  PayloadsDecided
