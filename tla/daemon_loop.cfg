SPECIFICATION FairSpec
CONSTANTS
  Setups <- AllSetups
  CommandCap = 1
  EventCap = 1
  MaxCommands = 2
  MaxFailed = 2
  EventIds = 7
  Requests = {}
  Malformed = {}
  MaxCounted = 0
  MaxProcesses = 1
INVARIANTS
  DaemonTypeOK
  EventsInOrder
PROPERTIES
  StuckOnlyByOverload
  TicksGoOn
  CommandsTaken
  CtrlCStops
CHECK_DEADLOCK FALSE
