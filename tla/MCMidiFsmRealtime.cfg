CONSTANTS
  MidiBytes = {1, 2, 145, 248}
  SysexLength = 2
  MaxBytes = 5
SPECIFICATION MidiSpec
CHECK_DEADLOCK FALSE
INVARIANT RealtimeTransparent
