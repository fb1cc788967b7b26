SPECIFICATION Spec
CONSTANTS
  t1 = t1
  t2 = t2
  Cycles = {1}
  Hours = {1, 2}
  Types = {t1, t2}
  SlowFetch = FALSE
  MaxVersion = 1
  MaxFaults = 0
  MaxCopies = 1
PROPERTIES
  LoadWaitsForAllHours
CHECK_DEADLOCK FALSE
