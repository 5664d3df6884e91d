CONSTANTS
  c1 = c1
  c2 = c2
  cdc = cdc
  river = river
  Clients = {c1, c2}
  NoClient = NoClient
  NoBox = NoBox
  Boxes <- TwoBoxes
  Batches <- TwoFlushes
  SubBuffer = 1
  MaxSubscribes = 2
  MaxBreaks = 1
  Others = {cdc, river}
  Obedient = {river}
  Casts <- ThreeCasts
SPECIFICATION FairSpec
INVARIANTS
  FramesAreWanted
  FramesInOrder
  FramesReachSubscribers
  ErrorIsReported
PROPERTIES
  BroadcastEnds
  ConnectionsClose
  ExitsAfterSignal
CHECK_DEADLOCK FALSE
