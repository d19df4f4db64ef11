\* Two descriptors besides the standard ones.
CONSTANTS
  ALT_MAX_FD = 5
  Handles = {h1, h2}
  Stdio = "/dev/JTAG"
  Modes = {{}, {"O_WRONLY"}}
  Switched = {1, 3}
  None = None
SPECIFICATION FilesSpec
CHECK_DEADLOCK FALSE
INVARIANTS
  FilesTypeOK
  StandardOpen
  HandleIsOwned
PROPERTIES
  PoolGrowsByOpen
