-------------------------------- MODULE Heap --------------------------------
(***************************************************************************)
(* The heap: the three zones of allocations_t, the pages linked in them    *)
(* and the chunks a page is cut into (src/zone.c, src/page.c, src/chunk.c).*)
(*                                                                         *)
(* A page names a mapping, from mmap to munmap, and stands for its base    *)
(* address; a chunk is the offset of its header in its page, and           *)
(* header.page of a chunk is the page it lies in.                          *)
(* A linked list is the sequence of its elements, head first: the chunk or *)
(* page an operation unlinks is given by its address, as in the code.      *)
(*                                                                         *)
(* The operators that change the heap are used by one thread at a time:    *)
(* module Malloc puts the lock around them.                                *)
(***************************************************************************)
EXTENDS Geometry, SequencesExt

CONSTANT Pages   (* names of mappings, a bound on how many there are at once*)

VARIABLES
  mapped,       (* the pages that are mapped, the kernel's view             *)
  zone,         (* malloc_memory: the list of pages of each zone            *)
  zoneType,     (* page->zone_type                                          *)
  pageSize,     (* page->size                                               *)
  allocation,   (* page->allocation, the list of chunks handed out          *)
  free,         (* page->free, the list of free chunks                      *)
  chunkSize     (* header.size of every chunk of a page                     *)

heapVars ==
  <<mapped, zone, zoneType, pageSize, allocation, free, chunkSize>>

(* f with the value v at x, in its domain or not.                          *)
Assign(f, x, v) == [y \in DOMAIN f \cup {x} |-> IF y = x THEN v ELSE f[y]]

MediumZones == {"TINY_ZONE", "SMALL_ZONE"}

(* Before the first call nothing is mapped and the lists are NULL; a page  *)
(* mmap returns is filled with zeros.                                      *)
HeapInit ==
  /\ mapped = {}
  /\ zone = [z \in ZoneTypes |-> <<>>]
  /\ zoneType = [p \in Pages |-> "TINY_ZONE"]
  /\ pageSize = [p \in Pages |-> 0]
  /\ allocation = [p \in Pages |-> <<>>]
  /\ free = [p \in Pages |-> <<>>]
  /\ chunkSize = [p \in Pages |-> <<>>]

-----------------------------------------------------------------------------
(* The searches.  get_chunk_with_size finds the first chunk of a free list *)
(* that is large enough, get_page_with_free_chunk the first page of a zone *)
(* that has such a chunk.                                                  *)
HasChunk(p, n) == \E c \in Range(free[p]) : chunkSize[p][c] >= n

IsFirstFit(p, n, c) ==
  \E i \in DOMAIN free[p] :
    /\ free[p][i] = c
    /\ chunkSize[p][c] >= n
    /\ \A j \in 1 .. i - 1 : chunkSize[p][free[p][j]] < n

IsFirstPage(z, n, p) ==
  \E i \in DOMAIN zone[z] :
    /\ zone[z][i] = p
    /\ HasChunk(p, n)
    /\ \A j \in 1 .. i - 1 : ~ HasChunk(zone[z][j], n)

NoPageFits(z, n) == \A p \in Range(zone[z]) : ~ HasChunk(p, n)

-----------------------------------------------------------------------------
(* allocate_page and push_front_page: a mapping of the zone's size, cut    *)
(* into the page header and one chunk, linked in front of list z.          *)
MapPage(p, n, z) ==
  /\ mapped' = mapped \cup {p}
  /\ zone' = [zone EXCEPT ![z] = Cons(p, @)]
  /\ zoneType' = [zoneType EXCEPT ![p] = GetZoneType(n)]
  /\ pageSize' = [pageSize EXCEPT ![p] = TotalSize(n)]
  /\ chunkSize' = [chunkSize EXCEPT ![p] =
                                 [c \in {PageHeader} |-> FirstChunkSize(n)]]

(* The chunk of a new page of a medium zone is free; that of a LARGE page  *)
(* is moved to the allocation list before the page is linked.              *)
MapMediumPage(p, n, z) ==
  /\ MapPage(p, n, z)
  /\ free' = [free EXCEPT ![p] = <<PageHeader>>]
  /\ UNCHANGED allocation

MapLargePage(p, n, z) ==
  /\ MapPage(p, n, z)
  /\ allocation' = [allocation EXCEPT ![p] = <<PageHeader>>]
  /\ UNCHANGED free

(* allocate_free_chunk between remove_chunk and push_front_chunk: the rest *)
(* of the chunk becomes a free chunk if it holds more than a header.       *)
SplitsAnyRest(p, c, n) == chunkSize[p][c] > n    \* mutant: header forgotten

SplitsAtHeader(p, c, n) ==               \* mutant: >= instead of >
  chunkSize[p][c] - n >= ChunkHeader

Splits(p, c, n) == chunkSize[p][c] - n > ChunkHeader

RestWithoutHeader(c, n) == c + n        \* mutant: header not stepped over

Rest(c, n) == c + n + ChunkHeader

TakeChunk(p, c, n) ==
  LET others == RemoveFirst(free[p], c)
      rest   == Rest(c, n)
  IN /\ IF Splits(p, c, n)
        THEN /\ chunkSize' = [chunkSize EXCEPT ![p] =
                  Assign([@ EXCEPT ![c] = n], rest, @[c] - n - ChunkHeader)]
             /\ free' = [free EXCEPT ![p] = Cons(rest, others)]
        ELSE /\ free' = [free EXCEPT ![p] = others]
             /\ UNCHANGED chunkSize
     /\ allocation' = [allocation EXCEPT ![p] = Cons(c, @)]
     /\ UNCHANGED <<mapped, zone, zoneType, pageSize>>

(* remove_chunk from the allocation list, push_front_chunk on the free one.*)
PutChunkStaysAllocated(p, c) ==         \* mutant: remove_chunk forgotten
  /\ free' = [free EXCEPT ![p] = Cons(c, @)]
  /\ UNCHANGED <<mapped, zone, zoneType, pageSize, allocation, chunkSize>>

PutChunk(p, c) ==
  /\ allocation' = [allocation EXCEPT ![p] = RemoveFirst(@, c)]
  /\ free' = [free EXCEPT ![p] = Cons(c, @)]
  /\ UNCHANGED <<mapped, zone, zoneType, pageSize, chunkSize>>

(* A page has a neighbour in its list, page->previous or page->next.       *)
HasNeighbour(p) == Len(zone[zoneType[p]]) > 1

(* remove_page and free_page: the page and every chunk in it are gone.  (A *)
(* munmap that fails, which the code does not notice, leaves a mapping that*)
(* no list leads to: to the allocator there is no difference.)             *)
UnmapPageStaysLinked(p) ==               \* mutant: remove_page forgotten
  /\ mapped' = mapped \ {p}
  /\ zoneType' = [zoneType EXCEPT ![p] = "TINY_ZONE"]
  /\ pageSize' = [pageSize EXCEPT ![p] = 0]
  /\ allocation' = [allocation EXCEPT ![p] = <<>>]
  /\ free' = [free EXCEPT ![p] = <<>>]
  /\ chunkSize' = [chunkSize EXCEPT ![p] = <<>>]
  /\ UNCHANGED zone

UnmapPage(p) ==
  /\ mapped' = mapped \ {p}
  /\ zone' = [zone EXCEPT ![zoneType[p]] = RemoveFirst(@, p)]
  /\ zoneType' = [zoneType EXCEPT ![p] = "TINY_ZONE"]
  /\ pageSize' = [pageSize EXCEPT ![p] = 0]
  /\ allocation' = [allocation EXCEPT ![p] = <<>>]
  /\ free' = [free EXCEPT ![p] = <<>>]
  /\ chunkSize' = [chunkSize EXCEPT ![p] = <<>>]

-----------------------------------------------------------------------------
(* What the heap is at every step, even inside a critical section.         *)

(* The chunks of a page.                                                   *)
Chunks(p) == DOMAIN chunkSize[p]

(* Where the block of a chunk ends.                                        *)
EndOfChunk(p, c) == c + ChunkHeader + chunkSize[p][c]

HeapTypeOK ==
  /\ mapped \subseteq Pages
  /\ zone \in [ZoneTypes -> Seq(Pages)]
  /\ zoneType \in [Pages -> ZoneTypes]
  /\ pageSize \in [Pages -> 0 .. MMAP_MAX + PAGE_SIZE]
  /\ allocation \in [Pages -> Seq(Nat)]
  /\ free \in [Pages -> Seq(Nat)]
  /\ DOMAIN chunkSize = Pages
  /\ \A p \in Pages : /\ DOMAIN chunkSize[p] \subseteq Nat
                      /\ \A c \in DOMAIN chunkSize[p] : chunkSize[p][c] \in Nat

(* Every mapped page is linked exactly once, in the list of its own zone:  *)
(* no mapping is leaked and no list reaches an unmapped page, whatever     *)
(* push_front_page and remove_page did to the lists.                       *)
ZonesLinkMappedPages ==
  /\ \A z \in ZoneTypes : IsInjective(zone[z])
  /\ \A z \in ZoneTypes : \A p \in Range(zone[z]) :
       p \in mapped /\ zoneType[p] = z
  /\ \A p \in mapped : p \in Range(zone[zoneType[p]])

(* A page that is not mapped has no list and no chunk: it is as mmap will  *)
(* hand it out, filled with zeros.                                         *)
UnmappedPagesAreBlank ==
  \A p \in Pages \ mapped :
    allocation[p] = <<>> /\ free[p] = <<>> /\ Chunks(p) = {}

(* Every chunk of a page is in exactly one of its two lists, once: no      *)
(* chunk is lost, and none is both free and handed out.                    *)
ChunksAreListedOnce ==
  \A p \in Pages :
    /\ IsInjective(allocation[p]) /\ IsInjective(free[p])
    /\ Range(allocation[p]) \cap Range(free[p]) = {}
    /\ Range(allocation[p]) \cup Range(free[p]) = Chunks(p)

(* The chunks of a page cover it from the page header to its end without   *)
(* overlapping: the header of a chunk starts where the block before ends,  *)
(* and no chunk is a header alone, without a byte to hand out.             *)
ChunksTilePage ==
  \A p \in mapped :
    /\ PageHeader \in Chunks(p)
    /\ \A c \in Chunks(p) :
         /\ c >= PageHeader
         /\ c % ALIGNMENT = 0
         /\ chunkSize[p][c] > 0
         /\ EndOfChunk(p, c) = pageSize[p] \/ EndOfChunk(p, c) \in Chunks(p)
         /\ \A d \in Chunks(p) : d > c => d >= EndOfChunk(p, c)
         /\ EndOfChunk(p, c) <= pageSize[p]

HeapInv ==
  /\ HeapTypeOK
  /\ ZonesLinkMappedPages
  /\ UnmappedPagesAreBlank
  /\ ChunksAreListedOnce
  /\ ChunksTilePage
=============================================================================
