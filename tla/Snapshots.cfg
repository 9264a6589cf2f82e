SPECIFICATION Spec
CONSTANTS
  Snaps = {"base"}
  Names = {"a", "b"}
  MaxDepth = 1
  MaxGuests = 3
  MaxWrites = 2
  MaxCalls = 4
  MaxFaults = 1
INVARIANTS MachinesApart IntactSnapshotIsExact PausedOnlyInside
