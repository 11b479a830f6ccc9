SPECIFICATION MCSpec
CONSTANTS
  Workers = {w1, w2}
  LastPk = 2
  ChunkSize = 1
  Locked = {2}
  Nulling = TRUE
  Overlap = FALSE
  MaxWrites = 1
SYMMETRY Symmetry
CHECK_DEADLOCK FALSE
INVARIANTS TrailHonest DropLosesNothing NothingStaleUnowed
