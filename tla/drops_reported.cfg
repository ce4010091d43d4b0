SPECIFICATION WarmSpec
CONSTANTS
  NodeIds = {0, 1}
  Nodes = {0, 1}
  Neighbors <- Pair
  MaxLabel = 1
  MaxRestarts <- NoRestarts
  MaxDups = 0
  MaxSetBacks = 0
  DlDsrNodes = {0}
  StrictNodes = {0, 1}
  SeenTtl = 1
  SeenMax = 2
  RouteTtl = 1
  DiscoveryTimeout = 1
  MaxRetries = 1
  MaxRreqHops = 3
  Payloads = {1}
  Src <- FromZero
  Dst <- ToOne
INVARIANTS
  DropsReported
