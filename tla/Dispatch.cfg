SPECIFICATION Spec
CONSTANTS
  w1 = w1
  w2 = w2
  NoOwner = NoOwner
  NoJob = NoJob
  Jobs <- ThreeJobs
  Workers <- TwoWorkers
  Provider <- Kinds
  Malformed <- Job3
  Priorities <- NoJobs
  RemoteIds <- NoJobs
  LeaseTTL = 1
  MaxLag = 1
  AttemptCap = 1
  MaxPolls = 2
  MaxRows = 1
  Calm = FALSE
SYMMETRY Symmetry
INVARIANTS
  SingleSubmission
  SuccessIsWhole
  CancelledLeavesNothingRunning
PROPERTIES
  ImplementsPaidGeneration
