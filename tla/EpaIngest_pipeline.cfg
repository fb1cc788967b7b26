SPECIFICATION FairSpec
CONSTANTS
  t1 = t1
  t2 = t2
  Cycles = {1}
  Hours = {1, 2}
  Types = {t1, t2}
  SlowFetch = TRUE
  MaxVersion = 1
  MaxFaults = 2
  MaxCopies = 3
INVARIANTS
  LoadPushedOnce
  NoLostWakeup
PROPERTIES
  CyclesSettle
  ImplementsBarrier
CHECK_DEADLOCK FALSE
