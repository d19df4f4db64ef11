\* Rings of two bytes, FIFOs of one, calls of three: every call may have to wait.
CONSTANTS
  BUF_LEN = 3
  FIFO_DEPTH = 1
  THRESHOLD = 0
  DEFAULT_TIMEOUT = 2
  INT_MAX = 4
  Clocks = {TRUE, FALSE}
  Counts = {3}
  Timeouts = {0}
  MaxOut = 3
  MaxIn = 3
SPECIFICATION JtagSpec
PROPERTIES
  BlockedWriteReturns
  BlockedReadReturns
  Delivered
