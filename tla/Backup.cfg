SPECIFICATION BackupSpec
CONSTANTS
  w1 = w1
  w2 = w2
  w3 = w3
  NoOwner = NoOwner
  NoJob = NoJob
  None = None
  Jobs <- Both
  Workers <- Incarnations
  Provider <- TwoKinds
  Malformed <- NoJobs
  Priorities <- NoJobs
  RemoteIds <- NoJobs
  LeaseTTL = 1
  MaxLag = 0
  AttemptCap = 1
  MaxPolls = 1
  MaxRows = 1
  Calm = FALSE
  MaxBackups = 1
  MaxRollbacks = 2
SYMMETRY Symmetry
INVARIANTS
  BackupTypeOK
  BoughtTwiceOnlyIfRewound
  SuccessKeepsBytes
  ServicesRunOnOneSet
CHECK_DEADLOCK FALSE
