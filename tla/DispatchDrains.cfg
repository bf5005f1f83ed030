SPECIFICATION LiveSpec
CONSTANTS
  w1 = w1
  w2 = w2
  NoOwner = NoOwner
  NoJob = NoJob
  Jobs <- TwoJobs
  Workers <- TwoWorkers
  Provider <- FalAndOpenAI
  Malformed <- Job2
  Priorities <- NoJobs
  RemoteIds <- NoJobs
  LeaseTTL = 1
  MaxLag = 0
  AttemptCap = 1
  MaxPolls = 1
  MaxRows = 2
  Calm = TRUE
PROPERTIES
  EveryJobSettles
