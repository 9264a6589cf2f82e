SPECIFICATION FileSpec
CONSTANTS
  Text = {"a", "b"}
  Symbol = "s"
  Cap = 2
  Chunk = 2
  SizeMod = 4
  MaxLen = 3
  MaxOps = 1
  MaxChanges = 0
INVARIANTS PatchOnlySymbol
