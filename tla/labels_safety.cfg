SPECIFICATION LabelSpec
CONSTANTS
  NodeIds = {0, 1, 2, 9}
  Nodes = {0, 1, 2}
  Neighbors <- Lopsided
  MaxLabel = 1
  MaxRestarts <- NodeOneRestarts
  MaxDups = 1
INVARIANTS
  LabelTypeOK
  LabelsUnique
  LabelsResolve
