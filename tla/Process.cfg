SPECIFICATION FairSpec
CONSTANTS
  Timeouts = {2, 3, 9}
  Codes = {0, 137}
  IntMax = 7
  KillWait = 2
  MaxNow = 5
  PipeSize = 2
  ReadSize = 1
  MaxForks = 1
  Writes = 3
  Endless = FALSE
  Faults = TRUE
INVARIANTS TypeOK OutputComplete OutcomeIsTheChilds NoStrayKill
PROPERTY AlwaysReturns
