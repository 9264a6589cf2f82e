SPECIFICATION Spec
CONSTANTS
  Order <- BlankOrder
  Watched <- FirstMount
  Word <- UpToBlank
  LineLen <- LineLengths
  MaxFiles = 9
  Room = 9
  MaxWrites = 1
  MaxExecs = 2
  MaxFaults = 0
PROPERTY OnlyRemovedDisappear
