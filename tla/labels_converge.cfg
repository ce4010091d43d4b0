SPECIFICATION FairLabelSpec
CONSTANTS
  NodeIds = {0, 1, 2}
  Nodes = {0, 1, 2}
  Neighbors <- Chain3
  MaxLabel = 2
  MaxRestarts <- NodeOneRestarts
  MaxDups = 1
PROPERTIES
  EventuallyConverged
INVARIANTS
  LabelAgreement
  LabelsResolve
