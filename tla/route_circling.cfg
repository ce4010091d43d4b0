SPECIFICATION WarmSpec
CONSTANTS
  NodeIds = {0, 1, 2, 3, 9}
  Nodes = {0, 1, 2, 3}
  Neighbors <- Lollipop
  MaxLabel = 3
  MaxRestarts <- NoRestarts
  MaxDups = 0
  MaxSetBacks = 0
  DlDsrNodes = {}
  StrictNodes = {0, 1, 2}
  SeenTtl = 1
  SeenMax = 0
  RouteTtl = 1
  DiscoveryTimeout = 1
  MaxRetries = 0
  MaxRreqHops = 6
  Payloads = {1}
  Src <- FromZero
  Dst <- ToThree
INVARIANTS
  RoutesAreSimplePaths
  HopsBounded
  RoutedDataNeverDropped
PROPERTIES
  MessagingSpec
