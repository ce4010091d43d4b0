SPECIFICATION WarmSpec
CONSTANTS
  NodeIds = {0, 1, 2}
  Nodes = {0, 1, 2}
  Neighbors <- Chain3
  MaxLabel = 2
  MaxRestarts <- NoRestarts
  MaxDups = 0
  MaxSetBacks = 0
  DlDsrNodes = {0, 1, 2}
  StrictNodes = {0, 1, 2}
  SeenTtl = 1
  SeenMax = 2
  RouteTtl = 1
  DiscoveryTimeout = 1
  MaxRetries = 0
  MaxRreqHops = 3
  Payloads = {1, 2}
  Src <- FromZero
  Dst <- ToTwo
INVARIANTS
  LabelsFollowPath
  RoutedDataNeverDropped
  PayloadsNotDuplicated
  PendingIffDiscovering
