SPECIFICATION ShellSpec
CONSTANTS
  f1 = f1
  f2 = f2
  o1 = o1
  o2 = o2
  Nothing = Nothing
  Folders <- TwoFolders
  Ops <- TwoOps
  Verdicts <- BothVerdicts
  Starts <- AnyStart
  MaxClicks = 4
  MaxEdits = 1
  Edited <- OthersWrite
INVARIANTS
  ShellTypeOK
  GateIsOfTheScreen
  ExportingIsTrue
PROPERTIES
  AnswersAreTimely
  OnlyOpeningRewinds
SYMMETRY Exchange
CHECK_DEADLOCK FALSE
