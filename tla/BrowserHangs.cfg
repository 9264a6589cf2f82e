SPECIFICATION FairSpec
CONSTANTS
  Clients = {a}
  Docs <- TwoPages
  MaxNodes = 2
  MaxHandles = 3
  BufferNodes = 5
  Powers = {2, 4, 8, 16}
  PipeRoom = 1
  MaxCalls = 3
  MaxTimeouts = 1
  MaxEvents = 1
  Faults = TRUE
  Dies = TRUE
  Reuses = FALSE
PROPERTY AlwaysAnswered
