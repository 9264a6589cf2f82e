SPECIFICATION Spec
CONSTANTS
  Snaps = {"base"}
  Names = {"a"}
  MaxDepth = 1
  MaxGuests = 3
  MaxWrites = 2
  MaxCalls = 3
  MaxFaults = 0
INVARIANT BranchFindsItsDisk
