SPECIFICATION Spec
CONSTANTS
  SIZE_MAX = 1073741823
  ALIGNMENT = 16
  SIZEOF_PAGE = 48
  SIZEOF_CHUNK_HEADER = 32
  TINY_ZONE_SIZE = 64
  SMALL_ZONE_SIZE = 2048
  NB_ALLOCATION_ZONE = 100
  PAGE_SIZE = 4096
  MMAP_MAX = 1000000000
  p1 = p1
  t1 = t1
  t2 = t2
  p2 = p2
  p3 = p3
  b = b
  a = a
  Threads <- OneThread
  Pages <- OnePage
  Ops <- MallocFree
  Sizes = {1073741788}
  Counts = {}
  Tags = {a}
  MaxBlocks = 1
  NoThread = NoThread
  NULL = NULL
  Zero = Zero
  Junk = Junk
INVARIANTS
  BlocksFit

