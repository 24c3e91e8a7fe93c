SPECIFICATION Spec
CONSTANTS
  o1 = o1
  o2 = o2
  o3 = o3
  Objs = {o1, o2, o3}
  Files = {}
  Slabs = {}
  SizeOf <- MCSizes
  LOG_FILE_SIZE = 10
  N_ITEMS_PER_LCHUNK = 1
  LineItems = 1
  NBANKS = 1
  GCPeriod = 1
  SlowRatio = 3
  FastRatio = 2
  FieldRange = 16384
  WordRange = 64
  MaxChunkId = 8
  MaxSlowGC = 1
  MaxFastGC = 2
SYMMETRY Sym
INVARIANTS
  ChunkOfFreedItemFound
CHECK_DEADLOCK FALSE
