SPECIFICATION HandlerSpec
CONSTANTS
  w1 = w1
  w2 = w2
  NoOwner = NoOwner
  NoJob = NoJob
  Jobs <- OneJob
  Workers <- TwoWorkers
  Priorities <- Zero
  RemoteIds <- Ids
  LeaseTTL = 1
  MaxLag = 1
  AttemptCap = 3
  RetryLimit = 2
SYMMETRY Symmetry
INVARIANTS
  EffectHappensOnce
PROPERTIES
  RequeueTakesOwnRun
  ImplementsHandledJob
