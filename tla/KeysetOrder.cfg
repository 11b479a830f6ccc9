SPECIFICATION Spec
CONSTANTS
  Ids = {d, k1, k2}
  Default = d
  Names = {n1, n2}
  None = None
  Capacity = 1
  NameTTL = 1
  Selections = {s1, s2}
  MaxTime = 1
  MaxLookups = 4
SYMMETRY Symmetry
INVARIANTS CacheConsistent
PROPERTIES LaterLookupWins LoserNotHandedOut
