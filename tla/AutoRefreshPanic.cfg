SPECIFICATION Spec
CONSTANTS
  Callers = {c1, c2}
  Tasks = {t1, t2}
  Rotating = FALSE
  Lifetimes = {2}
  LEEWAY = 1
  DENIAL_TTL = 2
  ClockJumps = FALSE
  Deaths = {"panic"}
  MaxTime = 3
  MaxTokens = 2
SYMMETRY Symmetry
INVARIANTS NoLostWaiter
