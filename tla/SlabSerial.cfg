CONSTANTS
  h = h
  h2 = h2
  f = f
  f2 = f2
  NoThread = NoThread
  Home = {h}
  Foreign = {f}
  Freeing = {h, f}
  Classes <- TwoClasses
  bitsize <- TwoBitsize
  roffset <- TwoRoffset
  toffset = 1
  SLAB_SIZE = 10
  CACHELINE_SIZE = 2
  EntrySize = 1
  NBANKS = 2
  NUM_MAX_CACHE = 2
  LowNum = 1
  LowDen = 2
  SearchNum = 1
  SearchDen = 10
  TIMESTAMP_MORPH_THRESHOLD = 0
  Garbage <- ClearFlags
  Serial = TRUE
  MaxSlabs = 2
  MaxFills = 3
SPECIFICATION Spec
INVARIANTS
  NoOverlap
  BitmapExact
  OldCounted
  ListsExact
  AssertionsHold
  HeldIsRecorded
CHECK_DEADLOCK FALSE
