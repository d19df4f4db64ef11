CONSTANTS
  HSyncEnd = 0
  HStart = 1
  HEnd = 5
  HLast = 5
  VStart = 1
  VEnd = 4
  VLast = 4
  LastWord = 11
  BarColumns = {2}
  BarRows = {1}
  MaxShots = 2
  MaxResets = 1
  PromptReader = TRUE
SPECIFICATION FairCaptureSpec
INVARIANTS
  ShotIsOneFrame
PROPERTIES
  FinishedShotIsStable
  ShotFinishes
