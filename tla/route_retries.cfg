SPECIFICATION WarmSpec
CONSTANTS
  NodeIds = {0, 1, 9}
  Nodes = {0, 1}
  Neighbors <- Pair
  MaxLabel = 1
  MaxRestarts <- NoRestarts
  MaxDups = 0
  MaxSetBacks = 1
  DlDsrNodes = {0, 1}
  StrictNodes = {0, 1}
  SeenTtl = 0
  SeenMax = 2
  RouteTtl = 0
  DiscoveryTimeout = 1
  MaxRetries = 1
  MaxRreqHops = 3
  Payloads = {1, 2}
  Src <- FromZero
  Dst <- OneAndUnknown
INVARIANTS
  RetryBudget
  RequestIdsIdentify
  SeenBounded
  PendingIffDiscovering
