SPECIFICATION Spec
CONSTANTS
  o1 = o1
  o2 = o2
  o3 = o3
  Objs = {o1, o2, o3}
  Files = {}
  Slabs = {}
  SizeOf <- MCSizes
  LOG_FILE_SIZE = 10
  N_ITEMS_PER_LCHUNK = 2
  LineItems = 2
  NBANKS = 2
  GCPeriod = 2
  SlowRatio = 4
  FastRatio = 2
  FieldRange = 16384
  WordRange = 64
  MaxChunkId = 9
  MaxSlowGC = 2
  MaxFastGC = 2
SYMMETRY Sym
INVARIANTS
  ChainIsTree
  NumOfItemsExact
  NeverStopped
PROPERTIES
  ImplementsDurableSet
CHECK_DEADLOCK FALSE
