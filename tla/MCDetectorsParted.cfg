CONSTANTS
  v1 = v1
  v2 = v2
  harbour = harbour
  terminal = terminal
  roads = roads
  bank = bank
  sea = sea
  Vessels = {v1, v2}
  Before <- First1
  Places = {harbour, terminal, roads, bank, sea}
  Slow = {harbour, terminal, roads, bank}
  Fence = {harbour, terminal}
  PortOf <- Port
  NoPort = NoPort
  NoTime = NoTime
  CallLookback = 3
  CallMinimum = 1
  GapThreshold = 1
  GapMax = 4
  FenceLookback = 5
  FenceInterval = 1
  MeetLookback = 4
  MeetMinimum = 2
  MeetBucket = 2
  FillLookback = 4
  FillThreshold = 1
  JobRetention = 4
  MaxTime = 7
  Casts <- PartingCast
SPECIFICATION Spec
INVARIANTS
  PartedIsClosed
