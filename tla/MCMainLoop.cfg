SPECIFICATION LoopSpec
CHECK_DEADLOCK FALSE
CONSTANTS
  Period = 4
  Cycles = 2
  Hold <- MCHold
  Settle <- MCSettle
  Cap = 6
  N = 4
  Laps = 2
  Width = 2
  Burst = 3
  MaxPuts = 9
INVARIANTS TypeOK ExactUntilOverrun
PROPERTIES NeverEarly Prompt BootRunsApp Drains
