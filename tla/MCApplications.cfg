SPECIFICATION FairAppSpec
CONSTANTS
  CountMod = 4
  Divisors = {0, 1, 3}
  MaxTicks = 5
  Notes = {60, 62, 64}
  MaxVoices = 2
  Peak = 2
  Quiet = 1
  Cutoffs = {1, 2}
  Steps = 3
  Times = {4, 5, 6}
  TailTime = 4
  Lead = 2
  Scales = {2}
  Release = 1
  MaxMissed = 2
INVARIANTS WithinPeriod SlotsPure OneNote NoStuckNote
PROPERTIES CallbackOwed CutoffTracks FreedInTime KeepsCalling
