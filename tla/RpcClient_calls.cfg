SPECIFICATION Spec
CONSTANTS
  MaxRetries = 2
  MaxCalls = 4
  MaxRestarts = 2
CHECK_DEADLOCK FALSE
INVARIANTS
  AnswerIsOurs
  OneRefusalPerRestart
PROPERTIES
  ImplementsRpcCall
