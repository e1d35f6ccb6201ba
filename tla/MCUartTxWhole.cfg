CONSTANTS
  MsgLen = 5
  FifoLength = 16
  LenMod = 65536
  MaxMsgs = 5
SPECIFICATION Spec
CHECK_DEADLOCK FALSE
INVARIANT WholeMessages
