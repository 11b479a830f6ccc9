SPECIFICATION LiveSpec
CONSTANTS
  Procs = {p1, p2}
  Workspaces = {w1, w2}
  Older = w1
  ExpiresIn = 4
  MaxTasks = 3
  MaxCodes = 1
  None = None
CHECK_DEADLOCK FALSE
INVARIANTS DirectoryConsistent KeysKept
PROPERTIES SlowDownHonoured TasksEnd OkIsOnDisk
