SPECIFICATION FairSessionSpec
CONSTANTS
  t1 = t1
  t2 = t2
  a1 = a1
  a2 = a2
  p1 = p1
  p2 = p2
  NoAsset = NoAsset
  Tabs <- TwoTabs
  Assets <- TwoAssets
  Earlier <- OneEarlier
  Prompts <- TwoPrompts
  MaxClicks = 2
INVARIANTS
  SessionTypeOK
  PublishedIsBacked
  ProvenanceIsTheJobs
  EachJobWasApproved
  OneJobPerKey
PROPERTIES
  EvidenceOnlyGrows
  PaidPictureIsRecorded
CHECK_DEADLOCK FALSE
