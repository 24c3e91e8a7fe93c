CONSTANTS
  h = h
  h2 = h2
  f = f
  f2 = f2
  NoThread = NoThread
  Home = {h, h2}
  Foreign = {f}
  Freeing = {f}
  Classes <- OneClass
  bitsize <- OneBitsize
  roffset <- OneRoffset
  toffset = 1
  SLAB_SIZE = 11
  CACHELINE_SIZE = 2
  EntrySize = 1
  NBANKS = 2
  NUM_MAX_CACHE = 2
  LowNum = 1
  LowDen = 2
  SearchNum = 1
  SearchDen = 10
  TIMESTAMP_MORPH_THRESHOLD = 0
  Garbage <- ClearFlags
  Serial = FALSE
  MaxSlabs = 2
  MaxFills = 3
SPECIFICATION Spec
INVARIANTS
  NoOverlap
  BitmapExact
  HeldIsRecorded
CHECK_DEADLOCK FALSE
