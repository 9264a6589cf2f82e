SPECIFICATION Spec
CONSTANTS
  HeaderSize = 2
  MaxCalls = 2
  Kinds = {"Ping", "Exec"}
INVARIANT OwnAnswer
