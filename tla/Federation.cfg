SPECIFICATION Spec
CONSTANTS
  Calls = {c1, c2}
  Jwts = {j1, j2}
  Capacity = 1
  DENIAL_TTL = 1
  MaxEngines = 2
  MaxTokens = 2
  MaxTime = 1
SYMMETRY Symmetry
CHECK_DEADLOCK FALSE
INVARIANTS Isolation EnginesAccounted
PROPERTIES SlotsEarned NoStorm EnginesAreTokenEngines
