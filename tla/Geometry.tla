------------------------------ MODULE Geometry ------------------------------
(***************************************************************************)
(* The size arithmetic of the allocator: alignment, the layout of a page   *)
(* and of a chunk, and the classification of sizes into zones              *)
(* (include/allocation.h, include/zone.h, src/zone.c and the arithmetic of *)
(* src/page.c, src/chunk.c, src/malloc.c).                                 *)
(*                                                                         *)
(* All quantities are bytes of type size_t: additions wrap at SIZE_MAX + 1 *)
(* wherever the code may reach that bound.  An address is an offset from   *)
(* the base of its page; the base is a multiple of the kernel's page size, *)
(* hence of ALIGNMENT, so aligning an offset aligns the address.           *)
(***************************************************************************)
EXTENDS Integers

CONSTANTS
  SIZE_MAX,             (* largest size_t                                  *)
  ALIGNMENT,            (* alignment of every header and of every block    *)
  SIZEOF_PAGE,          (* sizeof(page_t)                                  *)
  SIZEOF_CHUNK_HEADER,  (* sizeof(chunk_header_t), the offset of chunk.data*)
  TINY_ZONE_SIZE,       (* largest request of the TINY zone                *)
  SMALL_ZONE_SIZE,      (* largest request of the SMALL zone               *)
  NB_ALLOCATION_ZONE,   (* largest requests a TINY or SMALL page is made for*)
  PAGE_SIZE,            (* getpagesize()                                   *)
  MMAP_MAX              (* longest mapping the kernel grants               *)

ZoneTypes == {"TINY_ZONE", "SMALL_ZONE", "LARGE_ZONE"}

-----------------------------------------------------------------------------
(* align_up_power_of_two and align_down_power_of_two: masking the low bits *)
(* of a power of two is dropping the remainder.                            *)
ClearOneBit(size, alignment) ==              \* mutant: size & ~alignment
  size - (IF (size \div alignment) % 2 = 1 THEN alignment ELSE 0)

AlignDown(size, alignment) == size - (size % alignment)

AlignUp(size, alignment) ==
  AlignDown((size + (alignment - 1)) % (SIZE_MAX + 1), alignment)

(* The space page_t and chunk_header_t take in front of what follows them. *)
PageHeader == AlignUp(SIZEOF_PAGE, ALIGNMENT)

ChunkHeader == AlignUp(SIZEOF_CHUNK_HEADER, ALIGNMENT)

(* The block handed out for the chunk at offset c, and the way back from   *)
(* the block to its chunk.                                                 *)
DataOfChunk(c) == AlignUp(c + SIZEOF_CHUNK_HEADER, ALIGNMENT)

ChunkAtData(data) == AlignDown(data, ALIGNMENT)    \* mutant: no header

GetChunkFromData(data) == AlignDown(data - SIZEOF_CHUNK_HEADER, ALIGNMENT)

-----------------------------------------------------------------------------
(* The zone a request is served from (get_zone_from_size) and the zone a   *)
(* size is classified into (get_zone_type).                                *)
ZoneBelowLimit(size) ==                      \* mutant: < instead of <=
  IF size < TINY_ZONE_SIZE THEN "TINY_ZONE"
  ELSE IF size < SMALL_ZONE_SIZE THEN "SMALL_ZONE" ELSE "LARGE_ZONE"

GetZoneFromSize(size) ==
  IF size <= TINY_ZONE_SIZE THEN "TINY_ZONE"
  ELSE IF size <= SMALL_ZONE_SIZE THEN "SMALL_ZONE" ELSE "LARGE_ZONE"

GetZoneType(size) ==
  IF size <= TINY_ZONE_SIZE THEN "TINY_ZONE"
  ELSE IF size <= SMALL_ZONE_SIZE THEN "SMALL_ZONE" ELSE "LARGE_ZONE"

(* The space one page needs: room for NB_ALLOCATION_ZONE of the largest    *)
(* requests of its zone, or for the one request of a LARGE page, whose sum *)
(* wraps around for requests close to SIZE_MAX.                            *)
ZoneSizeWithoutHeaders(n) ==        \* mutant: no room for chunk headers
  IF n <= TINY_ZONE_SIZE
  THEN PageHeader + TINY_ZONE_SIZE * NB_ALLOCATION_ZONE
  ELSE IF n <= SMALL_ZONE_SIZE
  THEN PageHeader + SMALL_ZONE_SIZE * NB_ALLOCATION_ZONE
  ELSE (PageHeader + (n + ChunkHeader)) % (SIZE_MAX + 1)

GetZoneFullSize(n) ==
  IF n <= TINY_ZONE_SIZE
  THEN PageHeader + (TINY_ZONE_SIZE + ChunkHeader) * NB_ALLOCATION_ZONE
  ELSE IF n <= SMALL_ZONE_SIZE
  THEN PageHeader + (SMALL_ZONE_SIZE + ChunkHeader) * NB_ALLOCATION_ZONE
  ELSE (PageHeader + (n + ChunkHeader)) % (SIZE_MAX + 1)

(* mmap refuses an empty mapping (EINVAL) and one that is too long (ENOMEM)*)
MmapAccepts(n) == GetZoneFullSize(n) \in 1 .. MMAP_MAX

(* page->size, and the size of the one chunk a new page starts with.       *)
TotalSizeRoundedDown(n) ==                \* mutant: down, not up
  AlignDown(GetZoneFullSize(n), PAGE_SIZE)

TotalSize(n) == AlignUp(GetZoneFullSize(n), PAGE_SIZE)

FirstChunkSize(n) == TotalSize(n) - PageHeader - ChunkHeader

(* The check of calloc and reallocarray: no element size, or a product     *)
(* that does not fit into size_t.                                          *)
RejectsAtLimit(nmemb, size) ==               \* mutant: <= instead of <
  size = 0 \/ SIZE_MAX \div size <= nmemb

RejectsProduct(nmemb, size) == size = 0 \/ SIZE_MAX \div size < nmemb

-----------------------------------------------------------------------------
(* What the code takes for granted of its constants.  A power of two would *)
(* be true of the alignments, divisibility is all that is used.            *)
ASSUME GeometryAssumption ==
  /\ {SIZE_MAX, ALIGNMENT, SIZEOF_PAGE, SIZEOF_CHUNK_HEADER, TINY_ZONE_SIZE,
      SMALL_ZONE_SIZE, NB_ALLOCATION_ZONE, PAGE_SIZE, MMAP_MAX}
        \subseteq Nat \ {0}
  /\ TINY_ZONE_SIZE < SMALL_ZONE_SIZE
  /\ TINY_ZONE_SIZE + ChunkHeader <= SMALL_ZONE_SIZE
  /\ (SIZE_MAX + 1) % ALIGNMENT = 0
  /\ PAGE_SIZE % ALIGNMENT = 0
  /\ TINY_ZONE_SIZE % ALIGNMENT = 0
  /\ SMALL_ZONE_SIZE % ALIGNMENT = 0
  /\ (SIZE_MAX + 1) % PAGE_SIZE = 0
  /\ MMAP_MAX + PAGE_SIZE + ALIGNMENT <= SIZE_MAX
  /\ PageHeader + (SMALL_ZONE_SIZE + ChunkHeader) * NB_ALLOCATION_ZONE
        <= MMAP_MAX
  /\ SIZEOF_PAGE + SIZEOF_CHUNK_HEADER + 2 * ALIGNMENT <= MMAP_MAX
  /\ PageHeader + ChunkHeader < PAGE_SIZE
=============================================================================
