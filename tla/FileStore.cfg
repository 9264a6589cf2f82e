SPECIFICATION FileSpec
CONSTANTS
  Text = {"a"}
  Symbol = "s"
  Cap = 2
  Chunk = 2
  SizeMod = 4
  MaxLen = 4
  MaxOps = 2
  MaxChanges = 1
INVARIANTS ReadAllWhole WriteAllWhole PatchedInPlace
