SPECIFICATION LiveSpec
CONSTANTS
  w1 = w1
  w2 = w2
  NoOwner = NoOwner
  NoJob = NoJob
  Jobs <- ThreeJobs
  Workers <- TwoWorkers
  Provider <- Kinds
  Malformed <- Job3
  Priorities <- NoJobs
  RemoteIds <- NoJobs
  LeaseTTL = 1
  MaxLag = 0
  AttemptCap = 1
  MaxPolls = 2
  MaxRows = 1
  Calm = FALSE
PROPERTIES
  SentJobSettles
