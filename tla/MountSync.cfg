SPECIFICATION Spec
CONSTANTS
  Order <- BlankOrder
  Watched <- FirstMount
  Word <- UpToBlank
  LineLen <- LineLengths
  MaxFiles = 2
  Room = 4
  MaxWrites = 2
  MaxExecs = 2
  MaxFaults = 1
INVARIANTS ChangesReachHost
PROPERTY RemovalsOfCommand
