SPECIFICATION Spec
CONSTANTS
  Step = 2
  Steps = 3
  MaxEvents = 4
  AmountMod = 256
  Notes = {n1, n2}
INVARIANT Chronological
