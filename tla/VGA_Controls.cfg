CONSTANTS
  HSyncEnd = 1
  HStart = 3
  HEnd = 7
  HLast = 9
  VStart = 1
  VEnd = 4
  VLast = 5
SPECIFICATION FairVGASpec
INVARIANTS
  VGATypeOK
  CountersTrackRaster
  BlankMatchesScreen
PROPERTIES
  FrameRecurs
