SPECIFICATION FairSpec
CONSTANTS
  t1 = t1
  t2 = t2
  Thread = {t1, t2}
  None = None
  Pools <- DirtyPool
  NSTEPS = 3
  h_steps <- ThreeSteps
  ONE = 5
  INTERVAL <- Intervals
  NTICKS = 0
  PageCounts = {1, 2}
  MaxFrees = 2
INVARIANT
  OnePurge
PROPERTIES
  LimitFalls
  Drains
