\* A free is logged after the extent is given back.
CONSTANTS
  t1 = t1
  t2 = t2
  NoThread = NoThread
  Thread = {t1, t2}
  psz <- Psz
  CHUNK = 4
  PAGE_SIZE = 4096
  SLAB = 4
  FIT = 2
  NUM_MAX_CACHE = 1
  Requests = {1}
  SlabUsers = {t1, t2}
  Limits = {0}
  Serial = FALSE
  NFILES = 2
  MaxOps = 6

SPECIFICATION Spec

INVARIANTS
  GCFindsOwners

SYMMETRY Threads
