SPECIFICATION ShowSpec
CONSTANTS
  SIZE_MAX = 255
  ALIGNMENT = 2
  SIZEOF_PAGE = 2
  SIZEOF_CHUNK_HEADER = 4
  TINY_ZONE_SIZE = 4
  SMALL_ZONE_SIZE = 8
  NB_ALLOCATION_ZONE = 1
  PAGE_SIZE = 16
  MMAP_MAX = 32
  Threads = {t1, t2}
  Pages = {1, 2}
  Ops = {"malloc", "free", "calloc", "reallocarray", "show_alloc_mem"}
  Sizes = {2, 12}
  Counts = {1, 128}
  Tags = {a}
  MaxBlocks = 2
  NoThread = NoThread
  NULL = NULL
  Zero = Zero
  Junk = Junk
INVARIANTS
  DumpIsComplete
PROPERTIES
  DumpedHeapIsStill
  DumpIsUnseen
  LockIsReleased
  SomeoneGetsThrough
