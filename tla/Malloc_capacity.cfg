SPECIFICATION Spec
CONSTANTS
  SIZE_MAX = 255
  ALIGNMENT = 2
  SIZEOF_PAGE = 2
  SIZEOF_CHUNK_HEADER = 4
  TINY_ZONE_SIZE = 4
  SMALL_ZONE_SIZE = 8
  NB_ALLOCATION_ZONE = 2
  PAGE_SIZE = 16
  MMAP_MAX = 64
  p1 = p1
  p2 = p2
  p3 = p3
  t1 = t1
  t2 = t2
  a = a
  b = b
  Threads <- OneThread
  Pages <- ThreePages
  Ops <- HeapOps
  Sizes = {4, 8}
  Counts = {1}
  Tags = {a}
  MaxBlocks = 4
  NoThread = NoThread
  NULL = NULL
  Zero = Zero
  Junk = Junk
SYMMETRY Symmetry
INVARIANTS
  CapacityInv
PROPERTIES
  NewPageOnlyWhenFull
