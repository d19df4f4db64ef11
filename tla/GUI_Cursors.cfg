CONSTANTS
  HalfPeriod = 3
  Period = 7
  TimeLow = 1
  TimeHigh = 2
  OffsetHigh = 1
  AmpLow = 1
  AmpLimit = 1
  AmpHigh = 2
  MaxResets = 1
SPECIFICATION FairCursorSpec
INVARIANTS
  CursorTypeOK
PROPERTIES
  MovesAreSpaced
  HeldButtonUpdates
