CONSTANTS
  v1 = v1
  v2 = v2
  harbour = harbour
  sea = sea
  NoPlace = NoPlace
  NoMessage = NoMessage
  Vessels = {v1, v2}
  Places = {harbour, sea}
  Messages <- UntimedFix
  BatchSize = 2
  ChanSize = 2
  Retention = 1
  RawRetention = 1
  MaxTime = 2
  MaxFaults = 1
  MaxStops = 1
  MaxDbCrashes = 1
SPECIFICATION Spec
INVARIANTS
  PublishedIsStored
  
  WindowCoversRecent
PROPERTIES
  MapSpec
  RebuildCoversPositions
