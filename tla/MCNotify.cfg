CONSTANTS
  gap = gap
  crossing = crossing
  NoNote = NoNote
  Channels = {gap, crossing}
  Notes <- Alerts
  Adapters <- Sinks
  OutBuffer = 1
  MaxAttempts = 3
  MaxDisconnects = 1
  MaxFaults = 1
  MaxStops = 1
CHECK_DEADLOCK FALSE
SPECIFICATION FairSpec
INVARIANTS
  HandledIsSettled
PROPERTIES
  HeardIsHandled
  ShutdownCompletes
