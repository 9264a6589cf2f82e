SPECIFICATION Spec
CONSTANTS
  HeaderSize = 2
  Payload = 2
  MaxCalls = 3
INVARIANTS OwnAnswerOnFreshStream NoMixedAnswer
