-------------------------- MODULE MallocRefinement --------------------------
(***************************************************************************)
(* Malloc implements Allocator: what a program sees of the pages, chunks,  *)
(* lists and the lock is a set of blocks and calls that take effect in one *)
(* step each.  That step is the one in which a chunk is taken, a page      *)
(* mapped, or the old block freed, while the thread has the lock.          *)
(***************************************************************************)
EXTENDS MallocProperties

(* realloc has its new block, but still copies: the move is not done yet.  *)
Moving(t) ==
  LET ptr == frame[t].ptr
  IN /\ ptr # NULL /\ frame[t].new \notin {NULL, ptr}
     /\ ptr \in DOMAIN owned /\ owned[ptr].by = t

Visible ==
  DOMAIN owned \ {frame[t].new : t \in {u \in Threads : Moving(u)}}

(* What a block holds of what the program expects there.                   *)
DataOf(ptr) ==
  LET len == Lesser(content[ptr].len, owned[ptr].kept)
  IN IF len = 0 THEN Bytes(Junk, 0) ELSE Bytes(content[ptr].tag, len)

VisibleBlocks ==
  [ptr \in Visible |->
     [by |-> owned[ptr].by, size |-> owned[ptr].size, data |-> DataOf(ptr)]]

VisibleCalls ==
  [t \in Threads |->
     [op |-> frame[t].op, ptr |-> frame[t].ptr, size |-> frame[t].size,
      new |-> IF Moving(t) THEN NULL ELSE frame[t].new]]

Service == INSTANCE Allocator WITH
  block     <- VisibleBlocks,
  call      <- VisibleCalls,
  Sizes     <- AskedSizes,
  Places    <- Pages \X (0 .. MMAP_MAX + PAGE_SIZE),
  Alignment <- ALIGNMENT

(* Whatever threads do in whatever order, and whichever mmap fails, the    *)
(* program sees blocks that do not overlap, keep their contents until they *)
(* are freed, move whole, come back from a call that fails, and are zero   *)
(* when calloc returns them.  (Of a program that asks for no block near the*)
(* limit of the SMALL zone: free loses the contents of others.)            *)
ImplementsAllocator == Service!Spec

-----------------------------------------------------------------------------
(* What the mapping relies on, besides the invariants of MallocInvariant.  *)

(* Killed threads are killed together; an idle one has nothing left of its *)
(* last call; a block of its own means that something was asked for.       *)
CallIsClear(t) ==
  LET f == frame[t]
  IN /\ pc[t] = "killed" => \A u \in Threads : pc[u] = "killed"
     /\ pc[t] = "idle" => f = NoFrame
     /\ pc[t] \notin {"idle", "killed"} => f.op \in CallsOfProgram
     /\ f.ptr = NULL /\ f.new # NULL => f.size # 0

(* While realloc has two blocks the new one has its size, and from the copy*)
(* on the data; its page is there because realloc still has the lock.      *)
MoveIsReady(t) ==
  LET f == frame[t]
  IN pc[t] \in {"copy", "free"} /\ f.new # NULL =>
       /\ f.op # "free" /\ f.ptr # NULL
       /\ PageOf(f.new) \in mapped
       /\ owned[f.new].size = f.size
       /\ pc[t] = "free" =>
            DataOf(f.new) = Service!Prefix(DataOf(f.ptr), f.size)

MappingInv == \A t \in Threads : CallIsClear(t) /\ MoveIsReady(t)
=============================================================================
