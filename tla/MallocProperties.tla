-------------------------- MODULE MallocProperties --------------------------
(***************************************************************************)
(* What the allocator owes the program, and what its own data structures   *)
(* owe it, over the behaviours of module Malloc.                           *)
(***************************************************************************)
EXTENDS Malloc

Labels ==
  {"idle", "enter", "realloc", "allocate", "take", "copy", "free", "release",
   "exit", "clear", "return", "killed"}

(* Between enter_wrapper and exit_wrapper.                                 *)
Critical == {"realloc", "allocate", "take", "copy", "free", "release", "exit"}

CallsOfProgram == {"malloc", "free", "realloc", "calloc", "reallocarray"}

(* The sizes a call may have: calloc and reallocarray multiply, free has 0. *)
AskedSizes ==
  Sizes \cup {0} \cup {m * n % (SIZE_MAX + 1) : m \in Counts, n \in Sizes}

TypeOK ==
  /\ HeapTypeOK
  /\ lock \in Threads \cup {NoThread}
  /\ pc \in [Threads -> Labels]
  /\ frame \in [Threads ->
       [op: Ops \cup {"none"}, ptr: Pointers, size: 0 .. SIZE_MAX,
        new: Pointers, page: Pages \cup {NULL}, chunk: Nat]]
  /\ DOMAIN owned \subseteq Blocks
  /\ \A ptr \in DOMAIN owned :
       owned[ptr] \in [by: Threads \cup {NoThread}, size: 0 .. SIZE_MAX,
                       tag: Tags \cup {Zero, Junk}, kept: 0 .. SIZE_MAX]
  /\ content \in
       [DOMAIN owned -> [tag: Tags \cup {Zero, Junk}, len: 0 .. SIZE_MAX]]

(* The lock lets one thread at a time into the allocator: a thread between *)
(* enter_wrapper and exit_wrapper is the one that holds malloc_lock.  (A   *)
(* process that was killed keeps its lock.)                                *)
MutualExclusion ==
  \A t \in Threads : pc[t] # "killed" => (pc[t] \in Critical <=> lock = t)

(* The chunks in the allocation lists are those of the blocks the program  *)
(* (or a call it is making) holds: no block is handed out twice, none that *)
(* was freed stays allocated, and a call that fails leaks nothing.         *)
BlocksAreAllocated ==
  \A p \in mapped :
    {BlockOf(p, c) : c \in Range(allocation[p])}
      = {ptr \in DOMAIN owned : PageOf(ptr) = p}

(* A block has room for what was asked for, is aligned and ends before its *)
(* page does.                                                              *)
BlocksFit ==
  \A ptr \in DOMAIN owned :
    PageOf(ptr) \in mapped =>
      /\ owned[ptr].size <= SizeOfChunk(ptr)
      /\ ptr[2] % ALIGNMENT = 0
      /\ ptr[2] + owned[ptr].size <= pageSize[PageOf(ptr)]

(* What the program put into a block is still there: other calls do not    *)
(* touch it, realloc moves it, calloc's block is zero.                     *)
ContentsAreKept ==
  \A ptr \in DOMAIN owned :
    owned[ptr].by = NoThread /\ owned[ptr].kept > 0 =>
      /\ content[ptr].tag = owned[ptr].tag
      /\ content[ptr].len >= owned[ptr].kept

(* When no call is under way a zone keeps at most one page without blocks, *)
(* and the LARGE zone none: free returns the others to the kernel.         *)
NoHoarding ==
  lock = NoThread =>
    \A z \in ZoneTypes :
      Cardinality({p \in Range(zone[z]) : allocation[p] = <<>>})
        <= IF z = "LARGE_ZONE" THEN 0 ELSE 1

(* The blocks a call answers for: until it frees it the one it was passed, *)
(* and the one it will return; a call that got nothing still answers for   *)
(* the block it was passed, except free.                                   *)
Answers(t) ==
  LET ptr == frame[t].ptr
      new == frame[t].new
  IN CASE pc[t] = "idle" -> {}
       [] pc[t] \in {"enter", "realloc", "allocate", "take", "copy", "free"} ->
            {ptr, new} \ {NULL}
       [] pc[t] \in {"release", "exit", "clear", "return"} ->
            IF new # NULL THEN {new}
            ELSE IF frame[t].op = "free" THEN {} ELSE {ptr} \ {NULL}

HeldBy(t) == {ptr \in DOMAIN owned : owned[ptr].by = t}

(* A block that the program passed to a call, or that a call has taken for *)
(* it, is neither lost nor given to two: at every step, the early returns  *)
(* and the failures included, a call holds the blocks it answers for and no*)
(* other, and an idle thread's program has back all it is owed.            *)
CallsHoldBlocks ==
  \A t \in Threads : pc[t] # "killed" => HeldBy(t) = Answers(t)

(* What a call found in the lists is still there when it uses it: the chunk*)
(* is still free and large enough, the page to release still mapped, and   *)
(* so is the page of the block that realloc copies.                        *)
FindingsStayValid ==
  \A t \in Threads :
    LET f == frame[t]
    IN /\ pc[t] = "take" =>
            /\ f.page \in mapped
            /\ f.chunk \in Range(free[f.page])
            /\ Aligned(t) <= chunkSize[f.page][f.chunk]
       /\ pc[t] = "release" => f.page \in mapped
       /\ pc[t] \in {"allocate", "take", "copy"} /\ f.ptr # NULL =>
            PageOf(f.ptr) \in mapped

(* A call that got nothing leaves the program its block.                   *)
FailureKeepsBlock ==
  \A t \in Threads :
    pc[t] = "return" /\ frame[t].ptr # NULL /\ frame[t].new = NULL =>
      frame[t].op = "free" \/ frame[t].ptr \in DOMAIN owned

(* No step takes the mapping away from under a block the program holds.    *)
NoBlockIsUnmapped ==
  [][\A p \in mapped \ mapped' : \A ptr \in DOMAIN owned' : PageOf(ptr) # p]_vars

(* A mapping is taken away from under other blocks only when the block     *)
(* that is freed got a whole free chunk of a SMALL page, a little larger   *)
(* than the zone's limit, and free takes it for a LARGE one.               *)
LostOnlyByMisfiledFree ==
  [][\A p \in mapped \ mapped' :
       (\E ptr \in DOMAIN owned' : PageOf(ptr) = p) =>
         /\ zoneType[p] = "SMALL_ZONE"
         /\ \E ptr \in DOMAIN owned \ DOMAIN owned' :
              /\ PageOf(ptr) = p
              /\ SizeOfChunk(ptr) > SMALL_ZONE_SIZE
              /\ SizeOfChunk(ptr) <= SMALL_ZONE_SIZE + ChunkHeader]_vars

(* A program that asks for the largest blocks of a zone only gets          *)
(* NB_ALLOCATION_ZONE of them from a page: no other page is mapped before. *)
NewPageOnlyWhenFull ==
  [][\A z \in MediumZones :
       Len(zone'[z]) > Len(zone[z]) =>
         \A p \in Range(zone[z]) :
           Len(allocation[p]) >= NB_ALLOCATION_ZONE]_vars

(* Every path through the allocator, the early returns included, ends in   *)
(* exit_wrapper: a thread does not keep the lock for ever.                 *)
LockIsReleased == \A t \in Threads : lock = t ~> lock # t
=============================================================================
