SPECIFICATION FairSpec
CONSTANTS
  Native = {p1}
  Go = {g1}
  Faults = {"lock", "save", "fsync", "lost", "read", "crash"}
  MaxLogins = 1
  MaxGen = 2
PROPERTIES RefreshEnds
