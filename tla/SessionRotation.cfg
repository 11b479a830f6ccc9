SPECIFICATION Spec
CONSTANTS
  Native = {p1, p2}
  Go = {g1}
  Faults = {"lock", "save", "fsync", "lost", "crash"}
  MaxLogins = 2
  MaxGen = 2
SYMMETRY Symmetry
INVARIANTS TypeOK NoReplay DiskCurrent
PROPERTIES RotationNotHidden
