SPECIFICATION Spec
CONSTANTS
  Order <- PlainOrder
  Watched <- FirstMount
  Word <- UpToBlank
  LineLen <- LineLengths
  MaxFiles = 9
  Room = 9
  MaxWrites = 2
  MaxExecs = 2
  MaxFaults = 1
INVARIANT OwnContent
