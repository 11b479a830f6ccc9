SPECIFICATION LiveSpec
CONSTANTS
  Routines = {r1, r2}
  Strict = TRUE
  Kinds = {"explicit", "auto"}
  Uses <- MCUses
  MaxCalls = 3
  MaxRefusals = 1
  MaxAddr = 6
  None = None
CHECK_DEADLOCK FALSE
INVARIANTS MemoryAccounted BuffersAccounted ToldOfThisCall SecretsOwned
PROPERTIES CancelledCallEnds
