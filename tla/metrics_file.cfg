SPECIFICATION Spec
CONSTANTS
  Setups <- Standalone
  CommandCap = 1
  EventCap = 1
  MaxCommands = 1
  MaxFailed = 1
  EventIds = 5
  Requests = {good, bad}
  Malformed = {bad}
  MaxCounted = 2
  MaxProcesses = 2
INVARIANTS
  FileWhole
  FinalSnapshot
  AnswersKept
PROPERTIES
  SnapshotsInOrder
CHECK_DEADLOCK FALSE
