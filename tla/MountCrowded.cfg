SPECIFICATION Spec
CONSTANTS
  Order <- PlainOrder
  Watched <- FirstMount
  Word <- UpToBlank
  LineLen <- LineLengths
  MaxFiles = 2
  Room = 9
  MaxWrites = 1
  MaxExecs = 2
  MaxFaults = 0
PROPERTY OnlyRemovedDisappear
