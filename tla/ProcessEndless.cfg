SPECIFICATION FairSpec
CONSTANTS
  Timeouts = {2, 9}
  Codes = {0, 137}
  IntMax = 7
  KillWait = 2
  MaxNow = 3
  PipeSize = 2
  ReadSize = 1
  MaxForks = 0
  Writes = 2
  Endless = TRUE
  Faults = FALSE
PROPERTY AlwaysReturns
