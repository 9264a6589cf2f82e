SPECIFICATION Spec
CONSTANTS
  Byte <- Classes
  Zero = "text"
  Capacity = 6
  Pieces <- DcsPieces
  MaxPieces = 2
  MaxRuns = 1
INVARIANT StripsToText
