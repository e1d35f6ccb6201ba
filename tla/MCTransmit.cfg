SPECIFICATION TransmitSpec
CHECK_DEADLOCK FALSE
CONSTANTS
  N = 4
  Laps = 2
  Width = 2
  Burst = 3
  MaxPuts = 9
  Pages = 2
  Columns = 2
  LenMod = 4
  MaxDraws = 1
INVARIANTS TypeOK ExactUntilOverrun Whole ShowsCopy
PROPERTIES ImplementsQueue Settles
