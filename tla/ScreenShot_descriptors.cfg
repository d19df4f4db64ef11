CONSTANTS
  LastWord = 3
  MaxFiles = 2
  Users = {{"holds", "prompt"}}
  MaxShots = 2
  MaxResets = 0
SPECIFICATION ShotSpec
INVARIANTS
  FileIsOpenToPrint
