\* A user who does as he likes, and one the shot can rely on.
CONSTANTS
  LastWord = 3
  MaxFiles = 2
  Users = {{}, {"holds", "prompt"}}
  MaxShots = 2
  MaxResets = 1
SPECIFICATION FairShotSpec
INVARIANTS
  ShotTypeOK
  ReaderExcludesWriter
  FileIsTheShot
PROPERTIES
  NewShotIsNoticed
  ShotIsAnswered
