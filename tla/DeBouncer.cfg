CONSTANTS
  Channels = {s}
  Threshold = 3
  Modulus = 6
SPECIFICATION FairDebouncerSpec
PROPERTIES
  LowPulseIsLong
  RiseIsSettled
  ResetIsDebounced
  HeldSwitchIsSeen
