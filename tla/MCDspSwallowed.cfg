CONSTANTS
  Values = {}
  Indexes = {0}
  Registered = TRUE
  Tolerated = {"unpadded"}
  Lag = 1
  MaxCalls = 2
SPECIFICATION ProtocolSpec
CHECK_DEADLOCK FALSE
INVARIANT NoneSwallowed
