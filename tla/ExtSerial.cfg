\* One operation at a time: large objects of one, two and four pages and slabs
\* of four, in two chunks of four pages.
CONSTANTS
  t1 = t1
  t2 = t2
  NoThread = NoThread
  Thread = {t1}
  psz <- Psz
  CHUNK = 4
  PAGE_SIZE = 4096
  SLAB = 4
  FIT = 2
  NUM_MAX_CACHE = 1
  Requests = {0, 1}
  SlabUsers = {t1}
  Limits = {0, 1}
  Serial = TRUE
  NFILES = 2
  MaxOps = 6

SPECIFICATION FairSpec

INVARIANTS
  TypeOK
  ExtentsTile
  HeldFound
  RecordsExact
  MuzzyMerged
  NeverStopped

PROPERTY CallEnds
