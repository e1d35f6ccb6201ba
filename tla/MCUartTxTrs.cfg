CONSTANTS
  MsgLen = 1
  FifoLength = 16
  LenMod = 65536
  MaxMsgs = 18
SPECIFICATION FairSpec
CHECK_DEADLOCK FALSE
PROPERTY AllDelivered
