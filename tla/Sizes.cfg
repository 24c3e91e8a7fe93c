SPECIFICATION Spec
CONSTANTS
  SLAB_SIZE = 65536
  CACHELINE_SIZE = 64
  NBANKS = 6
  PAGE_SIZE = 4096
  HeadBytes = 44
  EntryBytes = 2
  LowNum = 1
  LowDen = 5
  Sizes <- MCSizes
INVARIANTS
  LookupLeast
  GeometryFits
  MorphFits
