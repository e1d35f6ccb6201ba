SPECIFICATION SerialSpec
CHECK_DEADLOCK FALSE
CONSTANTS
  MsgLen = 3
  FifoLength = 4
  LenMod = 65536
  MaxMsgs = 8
  Leds = {l1}
  Levels = {1}
  Full = 2
  TxLen = 2
  RxLen = 2
  MaxAsks = 2
  MidiBytes = {1, 2, 145, 192, 240, 244, 247, 248}
  SysexLength = 2
  MaxBytes = 6
INVARIANTS Exclusive Framed NoLostWakeup CacheCoherent CallbacksExact
           ChannelExact SysexReported RealtimeKeepsFraming
PROPERTIES Delivered Answered
