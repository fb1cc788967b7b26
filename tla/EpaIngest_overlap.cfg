SPECIFICATION Spec
CONSTANTS
  t1 = t1
  t2 = t2
  Cycles = {1, 2}
  Hours = {1, 2}
  Types = {t1, t2}
  SlowFetch = TRUE
  MaxVersion = 1
  MaxFaults = 0
  MaxCopies = 1
SYMMETRY TypeSymmetry
INVARIANTS
  CompletedCycleIsLoaded
CHECK_DEADLOCK FALSE
