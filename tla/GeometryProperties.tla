------------------------- MODULE GeometryProperties -------------------------
(***************************************************************************)
(* What the size arithmetic owes the rest of the allocator, one state for  *)
(* every size_t n.                                                         *)
(***************************************************************************)
EXTENDS Geometry

VARIABLE n

Init == n = 0

Next == n < SIZE_MAX /\ n' = n + 1

Spec == Init /\ [][Next]_n

(* The sum of get_zone_full_size is the size of the zone, not its remainder*)
(* modulo SIZE_MAX + 1.                                                    *)
ZoneSizeFits(size) == size + PageHeader + ChunkHeader <= SIZE_MAX

(* The first chunk of a new page is large enough for the request that made *)
(* allocate_page map it, and allocate_free_chunk relies on that.           *)
NewPageHoldsRequest ==
  MmapAccepts(n) /\ ZoneSizeFits(n) => FirstChunkSize(n) >= n

(* A new TINY or SMALL page has room for NB_ALLOCATION_ZONE blocks of the  *)
(* largest size of its zone, each with its header.                         *)
NewPageHoldsItsZone ==
  /\ n <= TINY_ZONE_SIZE =>
       FirstChunkSize(n) + ChunkHeader
         >= (TINY_ZONE_SIZE + ChunkHeader) * NB_ALLOCATION_ZONE
  /\ n \in TINY_ZONE_SIZE + 1 .. SMALL_ZONE_SIZE =>
       FirstChunkSize(n) + ChunkHeader
         >= (SMALL_ZONE_SIZE + ChunkHeader) * NB_ALLOCATION_ZONE

(* free and realloc find the chunk of every block that was handed out, and *)
(* the block lies between the header and the end of its chunk.             *)
BlockLeadsBackToChunk ==
  n % ALIGNMENT = 0 /\ n + ChunkHeader <= SIZE_MAX =>
    /\ GetChunkFromData(DataOfChunk(n)) = n
    /\ DataOfChunk(n) % ALIGNMENT = 0
    /\ DataOfChunk(n) >= n + SIZEOF_CHUNK_HEADER
    /\ DataOfChunk(n) <= n + ChunkHeader

(* realloc takes the zone from the size it is given, malloc and the page   *)
(* from the aligned size: the two agree unless aligning wraps around, so a *)
(* block is never put into a list of another zone than its page's.         *)
ZoneOfSizeIsZoneOfPage ==
  AlignUp(n, ALIGNMENT) # 0 =>
    GetZoneFromSize(n) = GetZoneType(AlignUp(n, ALIGNMENT))

(* calloc and reallocarray refuse an element size of 0 and exactly the     *)
(* products that a size_t cannot hold, those at the edge included.         *)
ProductIsExact ==
  \A size \in {0, 1, 2, 3, 7, 1000, 4096} :
    RejectsProduct(n, size) <=> size = 0 \/ n * size > SIZE_MAX
=============================================================================
