CONSTANTS
  w1 = w1
  w2 = w2
  w3 = w3
  Workers = {w1, w2, w3}
  NoJob = NoJob
  MaxId = 2
  MaxFaults = 2
SPECIFICATION Spec
INVARIANTS
  HandlersExclude
  HandledOnceMore
PROPERTIES
  QueueSpec
