CONSTANTS
  v1 = v1
  v2 = v2
  harbour = harbour
  sea = sea
  NoPlace = NoPlace
  NoMessage = NoMessage
  Vessels = {v1, v2}
  Places = {harbour, sea}
  Messages <- RepeatedFix
  BatchSize = 2
  ChanSize = 2
  Retention = 1
  RawRetention = 1
  MaxTime = 0
  MaxFaults = 1
  MaxStops = 1
  MaxDbCrashes = 0
SPECIFICATION FairSpec
INVARIANTS
  PublishedIsCurrent
  PositionsFollowArchive
  NoSilentLoss
  OriginalKept
PROPERTIES
  QueuedIsStored
  ShutdownCompletes
