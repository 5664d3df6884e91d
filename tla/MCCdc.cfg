CONSTANTS
  t1 = t1
  t2 = t2
  Txns = {t1, t2}
  Reach = {1, 2}
  Bracket = 1
  MaxWal = 4
  MaxFaults = 1
  MaxStops = 1
CHECK_DEADLOCK FALSE
SPECIFICATION FairSpec
INVARIANTS
  LossIsOvershoot
  ProgressIsCovered
PROPERTIES
  CommittedIsHandled
  SlotAdvances
