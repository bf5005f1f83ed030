SPECIFICATION EvidenceSpec
CONSTANTS
  t1 = t1
  t2 = t2
  None = None
  Empty = Empty
  Tabs <- TwoTabs
  Plans <- AllPlans
  LastRevision = 2
  Contents <- TwoContents
  Jpegs <- FirstIsJpeg
  MaxCalls = 3
  MaxEdits = 1
INVARIANTS
  EvidenceTypeOK
  ApprovalIsEarned
PROPERTIES
  CompletePackageIsOneCandidate
  WritesAreCurrent
SYMMETRY Exchange
CHECK_DEADLOCK FALSE
