SPECIFICATION WarmSpec
CONSTANTS
  NodeIds = {0, 1, 2, 3, 9}
  Nodes = {0, 1, 2, 3}
  Neighbors <- Diamond
  MaxLabel = 2
  MaxRestarts <- NoRestarts
  MaxDups = 1
  MaxSetBacks = 0
  DlDsrNodes = {1}
  StrictNodes = {1}
  SeenTtl = 1
  SeenMax = 2
  RouteTtl = 0
  DiscoveryTimeout = 1
  MaxRetries = 0
  MaxRreqHops = 3
  Payloads = {1}
  Src <- FromThree
  Dst <- ToZero
INVARIANTS
  TypeOK
  RoutesAreSimplePaths
  PayloadsAccountedFor
PROPERTIES
  MessagingSpec
