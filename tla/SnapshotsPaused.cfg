SPECIFICATION Spec
CONSTANTS
  Snaps = {"base"}
  Names = {"a"}
  MaxDepth = 1
  MaxGuests = 1
  MaxWrites = 1
  MaxCalls = 2
  MaxFaults = 1
INVARIANT NeverLeftPaused
