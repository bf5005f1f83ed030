SPECIFICATION EvidenceSpec
CONSTANTS
  t1 = t1
  t2 = t2
  None = None
  Empty = Empty
  Tabs <- TwoTabs
  Plans <- SavingOnly
  LastRevision = 2
  Contents <- TwoContents
  Jpegs <- FirstIsJpeg
  MaxCalls = 3
  MaxEdits = 1
PROPERTIES
  ReloadHelps
SYMMETRY Exchange
CHECK_DEADLOCK FALSE
