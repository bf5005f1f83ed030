SPECIFICATION LiveSpec
CONSTANTS
  a1 = a1
  a2 = a2
  r1 = r1
  r2 = r2
  NoArtifact = NoArtifact
  Artifacts <- TwoArtifacts
  Readers <- TwoReaders
  TTL = 3
  HoldTime = 2
INVARIANTS
  TypeOK
  BytesUntilExpiry
  RowWithoutBytes
  PromptReaderKeepsFile

  
CHECK_DEADLOCK FALSE
