SPECIFICATION FairSpec
CONSTANTS
  HeaderSize = 2
  MaxCalls = 3
  Kinds = {"Ping", "Exec"}
INVARIANTS OwnAnswerAlone WholeAnswer
PROPERTY CallsSettle
