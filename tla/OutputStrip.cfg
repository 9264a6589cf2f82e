SPECIFICATION Spec
CONSTANTS
  Byte <- Classes
  Zero = "text"
  Capacity = 6
  Pieces <- MCPieces
  MaxPieces = 2
  MaxRuns = 2
INVARIANTS StripsToText FlagsTheLoss DamageConfined
PROPERTY ImplementsTail
