SPECIFICATION FairSpec
CONSTANTS
  t1 = t1
  t2 = t2
  t3 = t3
  t4 = t4
  Threads = {t1, t2, t3, t4}
  narenas_auto = 2
  NoThread = none
  MaxFails = 1
  MaxUsage = 1
INVARIANTS
  Balanced
  SharedOnlyWhenFull
  CountsExact
  UsageMissesNone
  IndInv
PROPERTIES
  EverybodyBound
CHECK_DEADLOCK FALSE
