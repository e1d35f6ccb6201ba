SPECIFICATION SoundSpec
CONSTANTS
  Period = 4
  Loads <- MCLoads
  MaxFrames = 8
  Step = 2
  Steps = 3
  MaxEvents = 4
  AmountMod = 256
  Notes = {n1, n2}
INVARIANTS InTime InOrder PassPlaysAll AmountExact Paired
PROPERTY OneFrameLater
