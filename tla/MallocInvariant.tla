-------------------------- MODULE MallocInvariant --------------------------
(***************************************************************************)
(* The inductive invariant of Malloc: the properties that hold each other  *)
(* up, and what the locals of a call say about each other at each step.    *)
(***************************************************************************)
EXTENDS MallocProperties

(* How far a call is tells which of its locals are set: no block is taken  *)
(* before "take" is over, and none for a size of 0; copy has two blocks, a *)
(* block is freed for free itself or because realloc has moved it.         *)
InStep(t) ==
  LET f == frame[t]
  IN /\ pc[t] = "enter" =>
          f.op \in {"malloc", "free", "realloc", "calloc", "reallocarray"}
     /\ pc[t] = "enter" /\ f.op \in {"malloc", "calloc"} => f.ptr = NULL
     /\ pc[t] \in {"realloc", "allocate", "take", "copy"} => f.op # "free"
     /\ pc[t] \in {"enter", "realloc", "allocate", "take"} => f.new = NULL
     /\ pc[t] = "take" => Aligned(t) # 0
     /\ pc[t] = "copy" => f.ptr # NULL /\ f.new # NULL
     /\ pc[t] \in {"copy", "free"} /\ f.new = f.ptr => f.new = NULL
     /\ pc[t] \in {"free", "release"} /\ f.new = NULL => f.op = "free"

CallsAreInStep == \A t \in Threads : InStep(t)

(* The steps a call can take in the allocator depend on all of this: a     *)
(* chunk can be taken because it is free and only free, it is free because *)
(* nobody holds its block, and the lists stay that way because only the    *)
(* holder of the lock touches them.                                        *)
IInv ==
  /\ TypeOK
  /\ HeapInv
  /\ MutualExclusion
  /\ BlocksAreAllocated
  /\ CallsHoldBlocks
  /\ FindingsStayValid
  /\ CallsAreInStep

-----------------------------------------------------------------------------
(* What the sizes of the chunks say about the zones, on top of IInv.       *)

ZoneLimit(z) == IF z = "TINY_ZONE" THEN TINY_ZONE_SIZE ELSE SMALL_ZONE_SIZE

(* A LARGE page is never cut; a block of another page got at most a header *)
(* more than the limit of its zone, the rest that was too small to split.  *)
ChunksSuitZone ==
  \A p \in mapped :
    IF zoneType[p] = "LARGE_ZONE" THEN Chunks(p) = {PageHeader}
    ELSE \A c \in Range(allocation[p]) :
           chunkSize[p][c] <= ZoneLimit(zoneType[p]) + ChunkHeader

(* What was found is in a page of the zone of the request.                 *)
FindingSuitsRequest(t) ==
  pc[t] = "take" =>
    /\ Aligned(t) # 0
    /\ zoneType[frame[t].page] = GetZoneType(Aligned(t))
    /\ zoneType[frame[t].page] # "LARGE_ZONE"

ZoneInv == ChunksSuitZone /\ \A t \in Threads : FindingSuitsRequest(t)

-----------------------------------------------------------------------------
(* A page for a request of this size: the sum of its size and the headers  *)
(* does not wrap around.  (A size that alignment wraps around is refused.) *)
MappingFits(size) ==
  AlignUp(size, ALIGNMENT) + PageHeader + ChunkHeader <= SIZE_MAX

(* The program asks for no size so close to SIZE_MAX that its page would   *)
(* be mapped too short.                                                    *)
RequestsFit ==
  /\ \A size \in Sizes : MappingFits(size)
  /\ \A nmemb \in Counts, size \in Sizes :
       ~ RejectsProduct(nmemb, size) =>
         MappingFits(nmemb * size % (SIZE_MAX + 1))

(* What follows for such a program.                                        *)

IsServable(t) ==
  pc[t] \in {"enter", "realloc", "allocate"} => MappingFits(frame[t].size)

(* The chunk of a LARGE page is handed out and too large to be freed alone.*)
LargeChunksAreLarge ==
  \A p \in mapped :
    zoneType[p] = "LARGE_ZONE" =>
      free[p] = <<>> /\ chunkSize[p][PageHeader] > SMALL_ZONE_SIZE

Empty(p) == allocation[p] = <<>>

(* Two pages of a zone are without blocks only while a call is about to    *)
(* take a chunk of one, or to release it.                                  *)
OneEmptyPage ==
  \A p, q \in mapped :
    Empty(p) /\ Empty(q) /\ zoneType[p] = zoneType[q] /\ p # q =>
      /\ lock # NoThread
      /\ pc[lock] # "killed" =>
           pc[lock] \in {"take", "release"} /\ frame[lock].page \in {p, q}

PagesInv ==
  /\ \A t \in Threads : IsServable(t)
  /\ LargeChunksAreLarge
  /\ OneEmptyPage

(* A block holds what was asked for, and the one a call will return what   *)
(* this call was asked for.                                                *)
Holds(ptr, size) == PageOf(ptr) \in mapped => size <= SizeOfChunk(ptr)

ResultHolds(t) ==
  pc[t] \in {"copy", "free", "release", "exit", "clear", "return"}
    /\ frame[t].new # NULL => Holds(frame[t].new, frame[t].size)

SizesInv ==
  /\ \A ptr \in DOMAIN owned : Holds(ptr, owned[ptr].size)
  /\ \A t \in Threads : ResultHolds(t)

(* Every block in a mapped page has what the program expects in it, but the*)
(* one realloc is filling; that one was promised what realloc will copy.   *)
Keeps(ptr) ==
  PageOf(ptr) \in mapped /\ owned[ptr].kept > 0 =>
    /\ content[ptr].tag = owned[ptr].tag
    /\ content[ptr].len >= owned[ptr].kept

Filling(ptr) ==
  LET t == owned[ptr].by
  IN /\ t # NoThread
     /\ \/ pc[t] = "killed"
        \/ pc[t] = "copy" /\ frame[t].new = ptr

(* The block of a call that is not the program's yet: what realloc will    *)
(* copy is what was promised, and of calloc's nothing is expected before   *)
(* it is cleared.                                                          *)
CallKeeps(t) ==
  LET f == frame[t]
  IN /\ f.op = "calloc" => f.ptr = NULL
     /\ pc[t] = "clear" => f.op = "calloc"
     /\ pc[t] = "copy" => owned[f.new] = Promise(t)
     /\ f.op = "calloc" /\ f.new # NULL =>
          /\ pc[t] \in {"copy", "free", "release", "exit", "clear"} =>
               owned[f.new].kept = 0
          /\ pc[t] = "return" /\ PageOf(f.new) \in mapped =>
               content[f.new] = Bytes(Zero, f.size)

ContentInv ==
  /\ \A ptr \in DOMAIN owned :
       owned[ptr].kept <= owned[ptr].size /\ (Filling(ptr) \/ Keeps(ptr))
  /\ \A t \in Threads : CallKeeps(t)

BlocksInv == ZoneInv /\ PagesInv /\ SizesInv /\ ContentInv

-----------------------------------------------------------------------------
(* How many blocks a page holds, for a program that asks for blocks of one *)
(* size in each zone.                                                      *)

(* The sizes that get into the allocator, and what they are rounded up to  *)
(* in a zone.                                                              *)
ServedSizes ==
  Sizes \cup {0} \cup
    {x[1] * x[2] % (SIZE_MAX + 1) :
       x \in {y \in Counts \X Sizes : ~ RejectsProduct(y[1], y[2])}}

RequestsOf(z) ==
  {n \in {AlignUp(size, ALIGNMENT) : size \in ServedSizes} :
     n # 0 /\ GetZoneType(n) = z}

OneSizePerZone ==
  \A z \in MediumZones : \A m, n \in RequestsOf(z) : m = n

(* The page is cut like a ruler into chunks for blocks of n bytes, up to a *)
(* last chunk that reaches the end of the page.                            *)
Mark(n, i) == PageHeader + (n + ChunkHeader) * i

CutFor(p, n) ==
  \E k \in 0 .. pageSize[p] :
    /\ Chunks(p) = {Mark(n, i) : i \in 0 .. k}
    /\ \A i \in 0 .. k - 1 : chunkSize[p][Mark(n, i)] = n
    /\ EndOfChunk(p, Mark(n, k)) = pageSize[p]
    /\ Mark(n, k) \in Range(allocation[p]) =>
         chunkSize[p][Mark(n, k)] <= n + ChunkHeader

IsServed(t) ==
  pc[t] \in {"enter", "realloc", "allocate", "take"} => frame[t].size \in ServedSizes

IsRuler(p) ==
  zoneType[p] # "LARGE_ZONE" =>
    /\ Mark(ZoneLimit(zoneType[p]), NB_ALLOCATION_ZONE) <= pageSize[p]
    /\ \A n \in RequestsOf(zoneType[p]) : CutFor(p, n)

CapacityInv == (\A t \in Threads : IsServed(t)) /\ (\A p \in mapped : IsRuler(p))

-----------------------------------------------------------------------------
(* Which blocks stay mapped, for a program that asks for no block within a *)
(* header of the limit of the SMALL zone.  The rest of a chunk that is too *)
(* small to be split off does not make such a block larger than the limit. *)

StaysBelowLimit ==
  \A n \in RequestsOf("SMALL_ZONE") : n + ChunkHeader <= SMALL_ZONE_SIZE

BlocksAreFiledRight ==
  \A p \in mapped :
    zoneType[p] # "LARGE_ZONE" =>
      \A c \in Range(allocation[p]) : chunkSize[p][c] <= SMALL_ZONE_SIZE

BlocksAreMapped == \A ptr \in DOMAIN owned : PageOf(ptr) \in mapped

NobodyIsKilled == \A t \in Threads : pc[t] # "killed"

MappedInv ==
  /\ \A t \in Threads : IsServed(t)
  /\ BlocksAreFiledRight
  /\ BlocksAreMapped
  /\ NobodyIsKilled
=============================================================================
