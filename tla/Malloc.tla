------------------------------- MODULE Malloc -------------------------------
(***************************************************************************)
(* The API of the library (src/malloc.c, src/memory/*.c) called by the     *)
(* threads of a program.  A call waits for malloc_lock, changes the heap   *)
(* in a few steps and unlocks; what calloc does before and after malloc,   *)
(* and the checks of reallocarray, happen outside the lock.                *)
(*                                                                         *)
(* The program is the environment: it passes to free, realloc and          *)
(* reallocarray only NULL or a pointer it was given and has not given back,*)
(* never to two calls at a time, and writes only into the bytes it asked   *)
(* for.  "owned" and "content" record what it holds and what is in it.     *)
(***************************************************************************)
EXTENDS Heap

CONSTANTS
  Threads,
  NoThread,     (* nobody: the lock is free, the program holds the block    *)
  NULL,
  Sizes,        (* the sizes the program asks for                           *)
  Counts,       (* the element counts it passes to calloc and reallocarray  *)
  Ops,          (* the functions it calls                                   *)
  Tags,         (* what it writes into its blocks                           *)
  Zero, Junk,   (* bytes that are all 0; bytes that hold anything           *)
  MaxBlocks     (* bound: blocks the program holds at a time                *)

ASSUME ProgramAssumption ==
  /\ Sizes \subseteq 0 .. SIZE_MAX
  /\ Counts \subseteq 0 .. SIZE_MAX
  /\ NoThread \notin Threads
  /\ NULL \notin Pages \X Nat
  /\ Zero \notin Tags /\ Junk \notin Tags \cup {Zero}
  /\ MaxBlocks \in Nat

VARIABLES
  lock,         (* the thread that holds malloc_lock                        *)
  pc,           (* where each thread is                                     *)
  frame,        (* the arguments and the locals of each thread's call       *)
  owned,        (* the blocks the program was given and has not freed       *)
  content       (* what these blocks hold                                   *)

vars == <<heapVars, lock, pc, frame, owned, content>>

(* A block is known by the page it is in and the offset of its first byte. *)
Blocks == Pages \X Nat

Pointers == Blocks \cup {NULL}

(* op, ptr and size are the call's arguments (size after the multiplication*)
(* of calloc and reallocarray), new is the pointer it will return, page and*)
(* chunk are what a search found or what free is about to release.         *)
NoFrame ==
  [op |-> "none", ptr |-> NULL, size |-> 0, new |-> NULL,
   page |-> NULL, chunk |-> 0]

PageOf(ptr) == ptr[1]

ChunkOf(ptr) == GetChunkFromData(ptr[2])

(* header.size of the chunk of a block.                                    *)
SizeOfChunk(ptr) == chunkSize[PageOf(ptr)][ChunkOf(ptr)]

BlockOf(p, c) == <<p, DataOfChunk(c)>>

(* What the program knows of a block: the call it has passed it to, the    *)
(* size it asked for, what it expects to find there and in how many bytes. *)
Block(by, size, tag, kept) ==
  [by |-> by, size |-> size, tag |-> tag, kept |-> kept]

Bytes(tag, len) == [tag |-> tag, len |-> len]

Lesser(m, n) == IF m < n THEN m ELSE n

Init ==
  /\ HeapInit
  /\ lock = NoThread
  /\ pc = [t \in Threads |-> "idle"]
  /\ frame = [t \in Threads |-> NoFrame]
  /\ owned = <<>>
  /\ content = <<>>

Goto(t, l) == pc' = [pc EXCEPT ![t] = l]

-----------------------------------------------------------------------------
(* The calls.                                                              *)

(* The program calls op; a call without a block asks for one more.         *)
Call(t, op, ptr, size, l) ==
  /\ pc[t] = "idle"
  /\ op \in Ops
  /\ frame' = [frame EXCEPT ![t] =
                 [NoFrame EXCEPT !.op = op, !.ptr = ptr, !.size = size]]
  /\ Goto(t, l)
  /\ UNCHANGED <<heapVars, lock, content>>

Room ==
  Cardinality(DOMAIN owned)
    + Cardinality({t \in Threads : pc[t] # "idle" /\ frame[t].ptr = NULL})
    < MaxBlocks

(* The pointer of a call: the program hands it over until the call returns.*)
Pass(t, ptr) ==
  IF ptr = NULL THEN UNCHANGED owned
  ELSE /\ owned[ptr].by = NoThread
       /\ owned' = [owned EXCEPT ![ptr].by = t]

CallMalloc(t) ==
  \E size \in Sizes :
    /\ Room
    /\ Call(t, "malloc", NULL, size, "enter")
    /\ UNCHANGED owned

CallFree(t) ==
  \E ptr \in DOMAIN owned \cup {NULL} :
    /\ Call(t, "free", ptr, 0, "enter")
    /\ Pass(t, ptr)

CallRealloc(t) ==
  \E ptr \in DOMAIN owned \cup {NULL}, size \in Sizes :
    /\ ptr = NULL => Room
    /\ Call(t, "realloc", ptr, size, "enter")
    /\ Pass(t, ptr)

(* A product that is rejected makes the call return NULL at once, with the *)
(* lock untouched.                                                         *)
AfterCheck(nmemb, size) ==
  IF RejectsProduct(nmemb, size) THEN "return" ELSE "enter"

CallCalloc(t) ==
  \E nmemb \in Counts, size \in Sizes :
    /\ Room
    /\ Call(t, "calloc", NULL, nmemb * size % (SIZE_MAX + 1),
            AfterCheck(nmemb, size))
    /\ UNCHANGED owned

CallReallocarray(t) ==
  \E ptr \in DOMAIN owned \cup {NULL}, nmemb \in Counts, size \in Sizes :
    /\ ptr = NULL => Room
    /\ Call(t, "reallocarray", ptr, nmemb * size % (SIZE_MAX + 1),
            AfterCheck(nmemb, size))
    /\ Pass(t, ptr)

-----------------------------------------------------------------------------
(* The critical section.                                                   *)

FirstStep(op) ==
  CASE op \in {"malloc", "calloc"}        -> "allocate"
    [] op \in {"realloc", "reallocarray"} -> "realloc"
    [] op = "free"                        -> "free"

EnterUnlocked(t) ==                           \* mutant: no enter_wrapper
  /\ pc[t] = "enter"
  /\ lock' = t
  /\ Goto(t, FirstStep(frame[t].op))
  /\ UNCHANGED <<heapVars, frame, owned, content>>

(* enter_wrapper                                                           *)
Enter(t) ==
  /\ pc[t] = "enter"
  /\ lock = NoThread
  /\ lock' = t
  /\ Goto(t, FirstStep(frame[t].op))
  /\ UNCHANGED <<heapVars, frame, owned, content>>

(* realloc_memory_allocation: the block stays where it is if its chunk is  *)
(* large enough and its page belongs to the zone of the new size.          *)
StaysInItsZone(ptr, size) ==             \* mutant: chunk size not checked
  ptr # NULL /\ zoneType[PageOf(ptr)] = GetZoneFromSize(size)

StaysInPlace(ptr, size) ==
  /\ ptr # NULL
  /\ SizeOfChunk(ptr) >= size
  /\ zoneType[PageOf(ptr)] = GetZoneFromSize(size)

ReallocInPlace(t) ==
  LET ptr == frame[t].ptr
      size == frame[t].size
  IN /\ pc[t] = "realloc"
     /\ StaysInPlace(ptr, size)
     /\ frame' = [frame EXCEPT ![t].new = ptr]
     /\ Goto(t, "exit")
     /\ UNCHANGED <<heapVars, lock, owned, content>>

ReallocElsewhere(t) ==
  /\ pc[t] = "realloc"
  /\ ~ StaysInPlace(frame[t].ptr, frame[t].size)
  /\ Goto(t, "allocate")
  /\ UNCHANGED <<heapVars, lock, frame, owned, content>>

(* malloc aligns the size before it chooses the list, realloc does not;    *)
(* allocate_memory_allocation aligns it for both.                          *)
Aligned(t) == AlignUp(frame[t].size, ALIGNMENT)

Destination(t) ==
  IF frame[t].op \in {"malloc", "calloc"} THEN GetZoneFromSize(Aligned(t))
  ELSE GetZoneFromSize(frame[t].size)

(* allocate_memory_allocation_medium up to remove_chunk: a free chunk of a *)
(* page of the zone, or else the one chunk of a new page.                  *)
Found(t, p, c) ==
  /\ frame' = [frame EXCEPT ![t].page = p, ![t].chunk = c]
  /\ Goto(t, "take")
  /\ UNCHANGED <<lock, owned, content>>

FindFreeChunk(t) ==
  /\ pc[t] = "allocate"
  /\ Aligned(t) # 0
  /\ GetZoneType(Aligned(t)) # "LARGE_ZONE"
  /\ \E p \in mapped : \E c \in Chunks(p) :
       /\ IsFirstPage(Destination(t), Aligned(t), p)
       /\ IsFirstFit(p, Aligned(t), c)
       /\ Found(t, p, c)
  /\ UNCHANGED heapVars

(* A name for the new mapping: not that of another one, nor of one that is *)
(* gone while the program still believes to hold a block of it.  (mmap may *)
(* well return the address again: what an access through such a block      *)
(* reaches then is left to Fault.)                                         *)
MmapMayReturn(p) ==
  /\ p \notin mapped
  /\ \A ptr \in DOMAIN owned : PageOf(ptr) # p

AddMediumPage(t) ==
  /\ pc[t] = "allocate"
  /\ Aligned(t) # 0
  /\ GetZoneType(Aligned(t)) # "LARGE_ZONE"
  /\ NoPageFits(Destination(t), Aligned(t))
  /\ MmapAccepts(Aligned(t))
  /\ \E p \in Pages :
       /\ MmapMayReturn(p)
       /\ MapMediumPage(p, Aligned(t), Destination(t))
       /\ Found(t, p, PageHeader)

(* What the new block owes the program: of the block a call moves, as much *)
(* as fits, and nothing otherwise.                                         *)
Promise(t) ==
  LET ptr == frame[t].ptr
      size == frame[t].size
  IN IF ptr = NULL THEN Block(t, size, Junk, 0)
     ELSE Block(t, size, owned[ptr].tag, Lesser(owned[ptr].kept, size))

(* The block is the program's as soon as its chunk is in the allocation    *)
(* list.                                                                   *)
Give(t, ptr) ==
  /\ frame' = [frame EXCEPT ![t].new = ptr, ![t].page = NULL, ![t].chunk = 0]
  /\ owned' = Assign(owned, ptr, Promise(t))
  /\ content' = Assign(content, ptr, Bytes(Junk, 0))
  /\ Goto(t, IF frame[t].ptr = NULL THEN "exit" ELSE "copy")
  /\ UNCHANGED lock

TakeFoundChunk(t) ==
  /\ pc[t] = "take"
  /\ TakeChunk(frame[t].page, frame[t].chunk, Aligned(t))
  /\ Give(t, BlockOf(frame[t].page, frame[t].chunk))

(* allocate_memory_allocation_large                                        *)
AddLargePage(t) ==
  /\ pc[t] = "allocate"
  /\ GetZoneType(Aligned(t)) = "LARGE_ZONE"
  /\ MmapAccepts(Aligned(t))
  /\ \E p \in Pages :
       /\ MmapMayReturn(p)
       /\ MapLargePage(p, Aligned(t), Destination(t))
       /\ Give(t, BlockOf(p, PageHeader))

(* No block: the size is 0 (or wraps around to 0), or mmap fails, which it *)
(* may do at any time for lack of memory.                                  *)
LeaveLocked(t) ==                \* mutant: early return, no exit_wrapper
  /\ pc[t] = "allocate"
  /\ \/ Aligned(t) = 0
     \/ GetZoneType(Aligned(t)) = "LARGE_ZONE"
     \/ NoPageFits(Destination(t), Aligned(t))
  /\ Goto(t, "return")
  /\ UNCHANGED <<heapVars, lock, frame, owned, content>>

AllocateNothingButFree(t) ==    \* mutant: a failing realloc frees its block
  /\ pc[t] = "allocate"
  /\ \/ Aligned(t) = 0
     \/ GetZoneType(Aligned(t)) = "LARGE_ZONE"
     \/ NoPageFits(Destination(t), Aligned(t))
  /\ Goto(t, "free")
  /\ UNCHANGED <<heapVars, lock, frame, owned, content>>

AllocateNothing(t) ==
  /\ pc[t] = "allocate"
  /\ \/ Aligned(t) = 0
     \/ GetZoneType(Aligned(t)) = "LARGE_ZONE"
     \/ NoPageFits(Destination(t), Aligned(t))
  /\ Goto(t, "exit")
  /\ UNCHANGED <<heapVars, lock, frame, owned, content>>

(* The copy of realloc: as many bytes as both chunk and request have.      *)
CopySize(t) == Lesser(SizeOfChunk(frame[t].ptr), frame[t].size)

CopyWithoutFree(t) ==          \* mutant: realloc does not free the old block
  LET ptr == frame[t].ptr
      new == frame[t].new
  IN /\ pc[t] = "copy"
     /\ content' = [content EXCEPT ![new] =
          Bytes(content[ptr].tag, Lesser(content[ptr].len, CopySize(t)))]
     /\ Goto(t, "exit")
     /\ UNCHANGED <<heapVars, lock, frame, owned>>

CopyBlock(t) ==
  LET ptr == frame[t].ptr
      new == frame[t].new
  IN /\ pc[t] = "copy"
     /\ content' = [content EXCEPT ![new] =
          Bytes(content[ptr].tag, Lesser(content[ptr].len, CopySize(t)))]
     /\ Goto(t, "free")
     /\ UNCHANGED <<heapVars, lock, frame, owned>>

(* free_memory_allocation                                                  *)
FreeNull(t) ==
  /\ pc[t] = "free"
  /\ frame[t].ptr = NULL
  /\ Goto(t, "exit")
  /\ UNCHANGED <<heapVars, lock, frame, owned, content>>

(* The program has given ptr up; left is what the blocks hold by then.     *)
TakeBack(ptr, left) ==
  /\ owned' = Restrict(owned, DOMAIN owned \ {ptr})
  /\ content' = Restrict(left, DOMAIN left \ {ptr})

(* munmap destroys what is in a page, whoever holds a block there.         *)
ContentsWithout(p) ==
  [ptr \in DOMAIN content |->
     IF PageOf(ptr) = p THEN Bytes(Junk, 0) ELSE content[ptr]]

(* The size of the chunk, not the zone of its page, tells how it is freed. *)
FreesPageAtLimit(ptr) ==                     \* mutant: >= instead of >
  SizeOfChunk(ptr) >= SMALL_ZONE_SIZE

FreesWholePage(ptr) == GetZoneType(SizeOfChunk(ptr)) = "LARGE_ZONE"

FreePage(t) ==
  LET ptr == frame[t].ptr
  IN /\ pc[t] = "free"
     /\ ptr # NULL
     /\ FreesWholePage(ptr)
     /\ UnmapPage(PageOf(ptr))
     /\ TakeBack(ptr, ContentsWithout(PageOf(ptr)))
     /\ Goto(t, "exit")
     /\ UNCHANGED <<lock, frame>>

FreeChunk(t) ==
  LET ptr == frame[t].ptr
  IN /\ pc[t] = "free"
     /\ ptr # NULL
     /\ ~ FreesWholePage(ptr)
     /\ PutChunk(PageOf(ptr), ChunkOf(ptr))
     /\ TakeBack(ptr, content)
     /\ frame' = [frame EXCEPT ![t].page = PageOf(ptr)]
     /\ Goto(t, "release")
     /\ UNCHANGED lock

(* A page without blocks is unmapped unless it is the only one of its zone.*)
IsNotAlone(p) == HasNeighbour(p)       \* mutant: blocks not looked for

HasNoFreeChunk(p) ==                   \* mutant: the wrong list is looked at
  free[p] = <<>> /\ HasNeighbour(p)

IsSpare(p) == allocation[p] = <<>> /\ HasNeighbour(p)

ReleasePage(t) ==
  /\ pc[t] = "release"
  /\ IsSpare(frame[t].page)
  /\ UnmapPage(frame[t].page)
  /\ content' = ContentsWithout(frame[t].page)
  /\ frame' = [frame EXCEPT ![t].page = NULL]
  /\ Goto(t, "exit")
  /\ UNCHANGED <<lock, owned>>

KeepPage(t) ==
  /\ pc[t] = "release"
  /\ ~ IsSpare(frame[t].page)
  /\ frame' = [frame EXCEPT ![t].page = NULL]
  /\ Goto(t, "exit")
  /\ UNCHANGED <<heapVars, lock, owned, content>>

ExitWithoutClear(t) ==                     \* mutant: no memset in calloc
  /\ pc[t] = "exit"
  /\ lock' = NoThread
  /\ Goto(t, "return")
  /\ UNCHANGED <<heapVars, frame, owned, content>>

(* exit_wrapper; calloc clears its block after it.                         *)
Exit(t) ==
  /\ pc[t] = "exit"
  /\ lock' = NoThread
  /\ Goto(t, IF frame[t].op = "calloc" /\ frame[t].new # NULL
             THEN "clear" ELSE "return")
  /\ UNCHANGED <<heapVars, frame, owned, content>>

-----------------------------------------------------------------------------
(* After the critical section.                                             *)

(* ft_memset of calloc                                                     *)
Clear(t) ==
  LET new == frame[t].new
  IN /\ pc[t] = "clear"
     /\ content' = [content EXCEPT ![new] = Bytes(Zero, frame[t].size)]
     /\ Goto(t, "return")
     /\ UNCHANGED <<heapVars, lock, frame, owned>>

Finish(t) ==
  /\ pc[t] = "return"
  /\ frame' = [frame EXCEPT ![t] = NoFrame]
  /\ Goto(t, "idle")
  /\ UNCHANGED <<heapVars, lock>>

(* The program gets a block and writes all of it, unless it is calloc's.   *)
ReturnNewBlock(t) ==
  LET new == frame[t].new
      size == frame[t].size
  IN /\ frame[t].ptr = NULL /\ new # NULL
     /\ IF frame[t].op = "calloc"
        THEN /\ owned' = [owned EXCEPT ![new] =
                            Block(NoThread, size, Zero, size)]
             /\ UNCHANGED content
        ELSE \E tag \in Tags :
               /\ owned' = [owned EXCEPT ![new] =
                              Block(NoThread, size, tag, size)]
               /\ content' = [content EXCEPT ![new] = Bytes(tag, size)]
     /\ Finish(t)

(* realloc and reallocarray give the block back, moved or in place.        *)
ReturnReallocated(t) ==
  LET new == frame[t].new
      size == frame[t].size
  IN /\ frame[t].ptr # NULL /\ new # NULL
     /\ owned' = [owned EXCEPT ![new] =
          Block(NoThread, size, @.tag, Lesser(@.kept, size))]
     /\ UNCHANGED content
     /\ Finish(t)

(* No block: nothing was asked for, or the call failed and the program     *)
(* still has the block it passed.                                          *)
ReturnNull(t) ==
  /\ frame[t].new = NULL
  /\ owned' = [ptr \in DOMAIN owned |->
                 IF owned[ptr].by = t THEN [owned[ptr] EXCEPT !.by = NoThread]
                 ELSE owned[ptr]]
  /\ UNCHANGED content
  /\ Finish(t)

-----------------------------------------------------------------------------
Begin(t) ==
  CallMalloc(t) \/ CallFree(t) \/ CallRealloc(t) \/ CallCalloc(t)
    \/ CallReallocarray(t)

(* The block the next step of a thread reads or writes: its header in the  *)
(* allocator, its bytes in calloc and in the program that has just got it. *)
Touches(t) ==
  CASE pc[t] \in {"realloc", "free"} -> frame[t].ptr
    [] pc[t] = "clear" -> frame[t].new
    [] pc[t] = "return" /\ frame[t].ptr = NULL -> frame[t].new
    [] OTHER -> NULL

Survives(t) == Touches(t) # NULL => PageOf(Touches(t)) \in mapped

(* An access through a block whose mapping is gone is a segmentation fault *)
(* that kills the whole process, or, where the address is in use again, it *)
(* reaches memory of somebody else.  Nothing is said of what comes after.  *)
Fault(t) ==
  /\ ~ Survives(t)
  /\ pc' = [u \in Threads |-> "killed"]
  /\ UNCHANGED <<heapVars, lock, frame, owned, content>>

(* The steps of a call once it is made: threads are scheduled, and only    *)
(* the lock makes them wait.                                               *)
Proceed(t) ==
  \/ Survives(t) /\ \/ Enter(t) \/ Exit(t)
                    \/ ReallocInPlace(t) \/ ReallocElsewhere(t)
                    \/ FindFreeChunk(t) \/ AddMediumPage(t)
                    \/ TakeFoundChunk(t) \/ AddLargePage(t)
                    \/ AllocateNothing(t) \/ CopyBlock(t)
                    \/ FreeNull(t) \/ FreePage(t) \/ FreeChunk(t)
                    \/ ReleasePage(t) \/ KeepPage(t) \/ Clear(t)
                    \/ ReturnNewBlock(t) \/ ReturnReallocated(t)
                    \/ ReturnNull(t)
  \/ Fault(t)

Next == \E t \in Threads : Begin(t) \/ Proceed(t)

Spec == Init /\ [][Next]_vars
=============================================================================
