SPECIFICATION QueueSpec
CONSTANTS
  w1 = w1
  w2 = w2
  NoOwner = NoOwner
  Jobs <- TwoRows
  Workers <- TwoWorkers
  Priorities <- TwoPriorities
  RemoteIds <- TwoIds
  LeaseTTL = 1
  MaxLag = 1
  AttemptCap = 1
SYMMETRY Symmetry
INVARIANTS
  LeaseShape
PROPERTIES
  TerminalIsFinal
  CancelStopsProgress
  HandoverOnlyByExpiry
  ClaimMovesQueueUp
  PushedBackOnlyByPrivilege
