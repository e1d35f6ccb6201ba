SPECIFICATION DisplayFairSpec
CONSTANTS
  Pages = 2
  Columns = 2
  LenMod = 4
  MaxDraws = 1
INVARIANT CopyShown
