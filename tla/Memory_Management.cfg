CONSTANTS
  LastSlot = 2
  LastSample = 4
  FrameMin = 3
  FrameMax = 4
SPECIFICATION FairMemorySpec
INVARIANTS
  ShownIsARecording
PROPERTIES
  PauseFreezes
  TurnsGoOn
