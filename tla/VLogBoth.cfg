SPECIFICATION FairSpec
CONSTANTS
  o1 = o1
  o2 = o2
  o3 = o3
  Objs = {o1, o2, o3}
  Files = {o1}
  Slabs = {o2}
  SizeOf <- MCSizes
  LOG_FILE_SIZE = 11
  N_ITEMS_PER_LCHUNK = 1
  LineItems = 1
  NBANKS = 1
  GCPeriod = 1
  SlowRatio = 3
  FastRatio = 1
  FieldRange = 16384
  WordRange = 64
  MaxChunkId = 10
  MaxSlowGC = 1
  MaxFastGC = 3
INVARIANTS
  IndInv
  BitsAreLive
PROPERTIES
  CollectionEnds
CHECK_DEADLOCK FALSE
