SPECIFICATION Spec
CONSTANTS
  Snaps = {"base"}
  Names = {"a"}
  MaxDepth = 1
  MaxGuests = 3
  MaxWrites = 2
  MaxCalls = 4
  MaxFaults = 0
INVARIANT RolledBack
