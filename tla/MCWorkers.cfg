CONSTANTS
  v1 = v1
  v2 = v2
  Vessels = {v1}
  NoJob = NoJob
  NoArg = NoArg
  NoList = NoList
  NoStatic = NoStatic
  MaxWorkers = 2
  maxAttempts = 3
  riverAttempts = 3
  Retention = 1
  batchSize = 1
  MaxJobs = 4
  Casts <- FiveCasts
SPECIFICATION FairSpec
PROPERTIES
  ScansRecur
  NewListIsMatched
  SightedIsEnriched
