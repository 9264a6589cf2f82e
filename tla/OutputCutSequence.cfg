SPECIFICATION Spec
CONSTANTS
  Byte <- Classes
  Zero = "text"
  Capacity = 4
  Pieces <- FewPieces
  MaxPieces = 2
  MaxRuns = 1
INVARIANT SequencesStripped
