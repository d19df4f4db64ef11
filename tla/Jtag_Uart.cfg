\* Rings of three bytes, FIFOs of two that interrupt when empty or full, so that
\* either may be the one that is full, and a pointer wraps in the middle of a copy.
CONSTANTS
  BUF_LEN = 4
  FIFO_DEPTH = 2
  THRESHOLD = 0
  DEFAULT_TIMEOUT = 2
  INT_MAX = 4
  Clocks = {TRUE, FALSE}
  Counts = {2, 3}
  Timeouts = {}
  MaxOut = 4
  MaxIn = 4
SPECIFICATION JtagSafe
INVARIANTS
  JtagTypeOK
  InterruptsOn
PROPERTIES
  TransmitIsChannel
  ReceiveIsChannel
  PresentWithoutClock
