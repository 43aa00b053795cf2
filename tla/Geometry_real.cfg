SPECIFICATION Spec
CONSTANTS
  SIZE_MAX = 262143
  ALIGNMENT = 16
  SIZEOF_PAGE = 48
  SIZEOF_CHUNK_HEADER = 32
  TINY_ZONE_SIZE = 64
  SMALL_ZONE_SIZE = 2048
  NB_ALLOCATION_ZONE = 100
  PAGE_SIZE = 4096
  MMAP_MAX = 253952
INVARIANTS
  MaskDropsRemainder
  NewPageHoldsRequest
  NewPageHoldsItsZone
  BlockLeadsBackToChunk
  ZoneOfSizeIsZoneOfPage
  ProductIsExact
  RangeIsLegible
CHECK_DEADLOCK FALSE
