CONSTANTS
  Values <- MCValues
  Indexes = {0}
  Registered = TRUE
  Tolerated = {}
  Lag = 1
  MaxCalls = 2
SPECIFICATION ProtocolFairSpec
CHECK_DEADLOCK FALSE
INVARIANTS ExecutesCalls RepliesMatch PendingExact
PROPERTY Answered
