----------------------------- MODULE ShowProofs ------------------------------
(***************************************************************************)
(* show_alloc_mem among the other calls, for every program and every value *)
(* of the constants: the heap stands still under a dump, the rest of the   *)
(* program does not notice that it is made, the heap is sound whatever is  *)
(* dumped and when, and every dump shows all of it in order.               *)
(***************************************************************************)
EXTENDS ShowMem, GeometryLemmas, ListLemmas, FiniteSetTheorems

-----------------------------------------------------------------------------
(* Malloc without the dumps has the heap of Malloc with them: what is said *)
(* and done with it in one is said and done in the other.                  *)

LEMMA SameSizes ==
  ASSUME NEW m, NEW n, NEW ptr
  PROVE  /\ Seen!AlignUp(m, n) = AlignUp(m, n)
         /\ Seen!GetZoneType(n) = GetZoneType(n)
         /\ Seen!GetZoneFromSize(n) = GetZoneFromSize(n)
         /\ Seen!MmapAccepts(n) = MmapAccepts(n)
         /\ Seen!RejectsProduct(m, n) = RejectsProduct(m, n)
         /\ Seen!PageHeader = PageHeader
         /\ Seen!BlockOf(m, n) = BlockOf(m, n)
         /\ Seen!PageOf(ptr) = PageOf(ptr) /\ Seen!ChunkOf(ptr) = ChunkOf(ptr)
         /\ Seen!SizeOfChunk(ptr) = SizeOfChunk(ptr)
         /\ Seen!Lesser(m, n) = Lesser(m, n) /\ Seen!Bytes(m, n) = Bytes(m, n)
<1> USE DEF Seen!AlignDown, AlignDown, Seen!AlignUp, AlignUp
<1>1. /\ Seen!AlignUp(m, n) = AlignUp(m, n)
      /\ Seen!GetZoneType(n) = GetZoneType(n)
      /\ Seen!GetZoneFromSize(n) = GetZoneFromSize(n)
      /\ Seen!RejectsProduct(m, n) = RejectsProduct(m, n)
      /\ Seen!PageHeader = PageHeader /\ Seen!ChunkHeader = ChunkHeader
  BY DEF Seen!GetZoneType, GetZoneType, Seen!GetZoneFromSize, GetZoneFromSize,
     Seen!RejectsProduct, RejectsProduct, Seen!PageHeader, PageHeader,
     Seen!ChunkHeader, ChunkHeader
<1>2. Seen!MmapAccepts(n) = MmapAccepts(n)
  BY <1>1 DEF Seen!MmapAccepts, MmapAccepts, Seen!GetZoneFullSize, GetZoneFullSize
<1>3. /\ Seen!BlockOf(m, n) = BlockOf(m, n)
      /\ Seen!PageOf(ptr) = PageOf(ptr) /\ Seen!ChunkOf(ptr) = ChunkOf(ptr)
      /\ Seen!SizeOfChunk(ptr) = SizeOfChunk(ptr)
  BY DEF Seen!BlockOf, BlockOf, Seen!DataOfChunk, DataOfChunk, Seen!PageOf, PageOf,
     Seen!ChunkOf, ChunkOf, Seen!GetChunkFromData, GetChunkFromData,
     Seen!SizeOfChunk, SizeOfChunk
<1>4. Seen!Lesser(m, n) = Lesser(m, n) /\ Seen!Bytes(m, n) = Bytes(m, n)
  BY DEF Seen!Lesser, Lesser, Seen!Bytes, Bytes
<1> QED BY <1>1, <1>2, <1>3, <1>4

LEMMA SameHeap ==
  ASSUME NEW p, NEW c, NEW n, NEW z
  PROVE  /\ Seen!IsFirstPage(z, n, p) = IsFirstPage(z, n, p)
         /\ Seen!IsFirstFit(p, n, c) = IsFirstFit(p, n, c)
         /\ Seen!NoPageFits(z, n) = NoPageFits(z, n)
         /\ Seen!Chunks(p) = Chunks(p)
         /\ Seen!MapMediumPage(p, n, z) = MapMediumPage(p, n, z)
         /\ Seen!MapLargePage(p, n, z) = MapLargePage(p, n, z)
         /\ Seen!TakeChunk(p, c, n) = TakeChunk(p, c, n)
         /\ Seen!PutChunk(p, c) = PutChunk(p, c)
         /\ Seen!HasNeighbour(p) = HasNeighbour(p)
         /\ Seen!UnmapPage(p) = UnmapPage(p)
<1> USE DEF Seen!AlignDown, AlignDown, Seen!AlignUp, AlignUp,
            Seen!PageHeader, PageHeader, Seen!ChunkHeader, ChunkHeader,
            Seen!Range, Range, Seen!Cons, Cons, Seen!Assign, Assign,
            Seen!RemoveFirst, RemoveFirst, Seen!RemoveAt, RemoveAt,
            Seen!SelectInSeq, SelectInSeq, Seen!Min, Min
<1>1. /\ Seen!IsFirstPage(z, n, p) = IsFirstPage(z, n, p)
      /\ Seen!IsFirstFit(p, n, c) = IsFirstFit(p, n, c)
      /\ Seen!NoPageFits(z, n) = NoPageFits(z, n)
      /\ Seen!Chunks(p) = Chunks(p) /\ Seen!HasNeighbour(p) = HasNeighbour(p)
  BY DEF Seen!IsFirstPage, IsFirstPage, Seen!IsFirstFit, IsFirstFit,
     Seen!NoPageFits, NoPageFits, Seen!HasChunk, HasChunk, Seen!Chunks, Chunks,
     Seen!HasNeighbour, HasNeighbour
<1>2. /\ Seen!MapMediumPage(p, n, z) = MapMediumPage(p, n, z)
      /\ Seen!MapLargePage(p, n, z) = MapLargePage(p, n, z)
  BY DEF Seen!MapMediumPage, MapMediumPage, Seen!MapLargePage, MapLargePage,
     Seen!MapPage, MapPage, Seen!TotalSize, TotalSize, Seen!FirstChunkSize,
     FirstChunkSize, Seen!GetZoneFullSize, GetZoneFullSize, Seen!GetZoneType,
     GetZoneType
<1>3. Seen!TakeChunk(p, c, n) = TakeChunk(p, c, n)
  BY DEF Seen!TakeChunk, TakeChunk, Seen!Splits, Splits, Seen!Rest, Rest
<1>4. Seen!PutChunk(p, c) = PutChunk(p, c) /\ Seen!UnmapPage(p) = UnmapPage(p)
  BY DEF Seen!PutChunk, PutChunk, Seen!UnmapPage, UnmapPage
<1> QED BY <1>1, <1>2, <1>3, <1>4
-----------------------------------------------------------------------------
(* Where the threads are that print, and where the others.                 *)

DumpLabels == {"wait"} \cup Dumping

FrameFields == {"op", "ptr", "size", "new", "page", "chunk"}

IsCall(f) == f = [i \in FrameFields |-> f[i]]

Shows(t) ==
  /\ pc[t] \in DumpLabels \cup {"return", "killed"}
  /\ frame[t].ptr = NULL /\ frame[t].new = NULL

Locks(t) == pc[t] # "killed" => (pc[t] \in Critical \cup Dumping <=> lock = t)

(* What a call may hold: until it is freed the block it was passed, and    *)
(* the one it will return; an idle thread and one that prints hold none.   *)
HoldsItsOwn(t) ==
  LET ptr == frame[t].ptr
      new == frame[t].new
  IN /\ pc[t] = "idle" \/ Showing(t) => HeldBy(t) = {}
     /\ pc[t] \in {"enter", "realloc", "allocate", "take"} =>
          new = NULL /\ HeldBy(t) \subseteq {ptr} \ {NULL}
     /\ pc[t] \in {"copy", "free"} =>
          /\ HeldBy(t) \subseteq {ptr, new}
          /\ ptr = NULL => HeldBy(t) \subseteq {new}
     /\ pc[t] \in {"release", "exit", "clear", "return"} /\ new # NULL =>
          HeldBy(t) \subseteq {new}

IsBlock(b) == b = [by |-> b.by, size |-> b.size, tag |-> b.tag, kept |-> b.kept]

OwnedAreBlocks ==
  /\ owned = [ptr \in DOMAIN owned |-> owned[ptr]]
  /\ IsFiniteSet(DOMAIN owned)
  /\ \A ptr \in DOMAIN owned : IsBlock(owned[ptr])

ShowInv ==
  /\ pc \in [Threads -> Labels \cup DumpLabels]
  /\ frame = [t \in Threads |-> frame[t]]
  /\ lock \in Threads \cup {NoThread}
  /\ \A t \in Threads :
       /\ IsCall(frame[t])
       /\ Locks(t)
       /\ Showing(t) => Shows(t)
       /\ pc[t] \in DumpLabels => Showing(t)
       /\ pc[t] = "enter" => frame[t].op \in CallsOfProgram
       /\ pc[t] = "idle" => frame[t] = NoFrame
       /\ HoldsItsOwn(t)
  /\ OwnedAreBlocks

(* A step of t, which prints neither before nor after it.                  *)
IsOrdinary(t) ==
  /\ ~ Showing(t) /\ ~ Showing(t)'
  /\ pc' = [pc EXCEPT ![t] = pc'[t]]
  /\ frame' = [frame EXCEPT ![t] = frame'[t]]

LEMMA SeenThread ==
  ASSUME ShowInv, NEW t \in Threads, ~ Showing(t)
  PROVE  /\ SeenPc[t] = pc[t] /\ SeenFrame[t] = frame[t]
         /\ lock = t <=> SeenLock = t
         /\ lock = NoThread => SeenLock = NoThread
BY ProgramAssumption DEF ShowInv, SeenPc, SeenFrame, SeenLock

LEMMA SeenStep ==
  ASSUME ShowInv, NEW t \in Threads, IsOrdinary(t)
  PROVE  /\ SeenPc' = [SeenPc EXCEPT ![t] = pc'[t]]
         /\ SeenFrame' = [SeenFrame EXCEPT ![t] = frame'[t]]
         /\ lock' = t => SeenLock' = t
         /\ lock' = NoThread => SeenLock' = NoThread
         /\ lock' = lock => SeenLock' = SeenLock
<1>1. /\ DOMAIN SeenPc = Threads /\ DOMAIN SeenFrame = Threads
      /\ DOMAIN pc = Threads /\ DOMAIN frame = Threads
  BY DEF ShowInv, SeenPc, SeenFrame
<1>2. \A u \in Threads \ {t} :
        /\ pc'[u] = pc[u] /\ frame'[u] = frame[u] /\ Showing(u)' = Showing(u)
  BY <1>1 DEF IsOrdinary, Showing
<1>3. ~ Showing(t)' /\ ~ Showing(t)
  BY DEF IsOrdinary
<1>4. \A u \in Threads : SeenPc'[u] = IF u = t THEN pc'[t] ELSE SeenPc[u]
  BY <1>2, <1>3 DEF SeenPc
<1>5. \A u \in Threads : SeenFrame'[u] = IF u = t THEN frame'[t] ELSE SeenFrame[u]
  BY <1>2, <1>3 DEF SeenFrame
<1>6. SeenPc' = [SeenPc EXCEPT ![t] = pc'[t]]
  BY <1>1, <1>4 DEF SeenPc
<1>7. SeenFrame' = [SeenFrame EXCEPT ![t] = frame'[t]]
  BY <1>1, <1>5 DEF SeenFrame
<1>8. \A u \in Threads : Showing(u)' <=> Showing(u)
  BY <1>2, <1>3
<1> QED BY <1>3, <1>6, <1>7, <1>8, ProgramAssumption DEF SeenLock

(* What is left of the invariant after a step of a thread that does not    *)
(* print.                                                                  *)
LockMoves(t) ==
  \/ lock' = lock /\ (pc'[t] \in Critical <=> pc[t] \in Critical)
  \/ lock = NoThread /\ lock' = t /\ pc'[t] \in Critical
  \/ pc[t] \in Critical /\ lock' = NoThread /\ pc'[t] \notin Critical

(* The blocks that a step adds, changes or takes are its thread's.         *)
OwnChange(t) ==
  /\ OwnedAreBlocks'
  /\ \A ptr \in DOMAIN owned' :
       \/ owned'[ptr].by \in {t, NoThread}
       \/ ptr \in DOMAIN owned /\ owned'[ptr].by = owned[ptr].by

LEMMA OthersHold ==
  ASSUME NEW t, OwnChange(t), NEW u \in Threads, u # t
  PROVE  HeldBy(u)' \subseteq HeldBy(u)
BY ProgramAssumption DEF OwnChange, HeldBy

LEMMA OrdinaryInv ==
  ASSUME ShowInv, NEW t \in Threads, IsOrdinary(t), LockMoves(t), OwnChange(t),
         HoldsItsOwn(t)', pc[t] # "killed", pc'[t] \in Labels, IsCall(frame'[t]),
         pc'[t] = "enter" => frame'[t].op \in CallsOfProgram,
         pc'[t] = "idle" => frame'[t] = NoFrame
  PROVE  ShowInv'
<1>1. /\ DOMAIN pc = Threads /\ DOMAIN frame = Threads
      /\ \A u \in Threads : pc[u] \in Labels \cup DumpLabels
      /\ NoThread \notin Threads
  BY ProgramAssumption DEF ShowInv
<1>2. \A u \in Threads \ {t} : pc'[u] = pc[u] /\ frame'[u] = frame[u]
  BY <1>1 DEF IsOrdinary
<1>3. pc' \in [Threads -> Labels \cup DumpLabels]
  <2>1. DOMAIN pc' = Threads /\ pc' = [u \in Threads |-> pc'[u]]
    BY <1>1 DEF IsOrdinary
  <2> QED BY <1>1, <1>2, <2>1
<1>4. frame' = [u \in Threads |-> frame'[u]]
  BY <1>1 DEF IsOrdinary
<1>5. lock' \in Threads \cup {NoThread}
  BY DEF LockMoves, ShowInv
<1>6. Critical \cap DumpLabels = {} /\ Labels \cap DumpLabels = {} /\ Dumping \subseteq DumpLabels
  BY DEF Critical, DumpLabels, Dumping, Labels
<1>7. ~ Showing(t) /\ ~ Showing(t)' /\ pc[t] \notin DumpLabels /\ Locks(t)
  BY DEF IsOrdinary, ShowInv
<1>8. pc[t] \in Critical <=> lock = t
  BY <1>6, <1>7 DEF Locks
<1>9. Locks(t)'
  BY <1>1, <1>6, <1>8 DEF Locks, LockMoves
<1>10. ASSUME NEW u \in Threads
       PROVE  /\ IsCall(frame[u])' /\ Locks(u)'
              /\ Showing(u)' => Shows(u)'
              /\ (pc[u] \in DumpLabels)' => Showing(u)'
              /\ pc'[u] = "enter" => frame'[u].op \in CallsOfProgram
              /\ pc'[u] = "idle" => frame'[u] = NoFrame
              /\ HoldsItsOwn(u)'
  <2>1. CASE u = t
    BY <1>6, <1>7, <1>9, <2>1 DEF IsCall
  <2>2. CASE u # t
    <3>1. /\ pc'[u] = pc[u] /\ frame'[u] = frame[u]
          /\ IsCall(frame[u]) /\ Locks(u) /\ (Showing(u) => Shows(u))
          /\ pc[u] \in DumpLabels => Showing(u)
          /\ pc[u] = "enter" => frame[u].op \in CallsOfProgram
          /\ pc[u] = "idle" => frame[u] = NoFrame
          /\ HoldsItsOwn(u)
      BY <1>2, <2>2 DEF ShowInv
    <3>2. Locks(u)'
      BY <1>1, <1>8, <2>2, <3>1 DEF Locks, LockMoves
    <3>3. HeldBy(u)' \subseteq HeldBy(u)
      BY <2>2, OthersHold
    <3>4. HoldsItsOwn(u)'
      BY <3>1, <3>3 DEF HoldsItsOwn, Showing
    <3> QED BY <3>1, <3>2, <3>4 DEF IsCall, Showing, Shows
  <2> QED BY <2>1, <2>2
<1> QED BY <1>3, <1>4, <1>5, <1>10 DEF ShowInv, OwnChange

LEMMA BlocksKept ==
  ASSUME ShowInv, NEW t \in Threads, UNCHANGED owned
  PROVE  OwnChange(t) /\ HeldBy(t)' = HeldBy(t)
BY DEF ShowInv, OwnChange, OwnedAreBlocks, IsBlock, HeldBy

(* A block changes hands, or a new one comes.                              *)
LEMMA BlockAssigned ==
  ASSUME ShowInv, NEW t \in Threads, NEW ptr,
         NEW by \in {t, NoThread}, NEW size, NEW tag, NEW kept,
         \/ owned' = [owned EXCEPT ![ptr] = Block(by, size, tag, kept)]
         \/ owned' = Assign(owned, ptr, Block(by, size, tag, kept))
  PROVE  /\ OwnChange(t)
         /\ HeldBy(t)' \subseteq IF by = t THEN HeldBy(t) \cup {ptr}
                                 ELSE HeldBy(t) \ {ptr}
<1>1. OwnedAreBlocks /\ NoThread # t
  BY ProgramAssumption DEF ShowInv
<1> PICK b : b = Block(by, size, tag, kept)
  OBVIOUS
<1>2. IsBlock(b) /\ b.by = by
  BY DEF Block, IsBlock
<1>3. /\ DOMAIN owned' \subseteq DOMAIN owned \cup {ptr} /\ IsFiniteSet(DOMAIN owned')
      /\ owned' = [x \in DOMAIN owned' |-> owned'[x]]
      /\ \A x \in DOMAIN owned' : owned'[x] = IF x = ptr THEN b ELSE owned[x]
  <2>1. CASE owned' = [owned EXCEPT ![ptr] = b]
    <3>1. DOMAIN owned' = DOMAIN owned
      BY <2>1
    <3> QED BY <1>1, <2>1, <3>1 DEF OwnedAreBlocks
  <2>2. CASE owned' = Assign(owned, ptr, b)
    <3>1. DOMAIN owned' = DOMAIN owned \cup {ptr}
      BY <2>2 DEF Assign
    <3>2. IsFiniteSet(DOMAIN owned')
      BY <1>1, <3>1, FS_AddElement DEF OwnedAreBlocks
    <3> QED BY <2>2, <3>1, <3>2 DEF Assign
  <2> QED BY <2>1, <2>2
<1>4. OwnChange(t)
  BY <1>1, <1>2, <1>3 DEF OwnedAreBlocks, OwnChange
<1>5. HeldBy(t)' \subseteq IF by = t THEN HeldBy(t) \cup {ptr} ELSE HeldBy(t) \ {ptr}
  BY <1>1, <1>2, <1>3 DEF HeldBy
<1> QED BY <1>4, <1>5

LEMMA BlockPassed ==
  ASSUME ShowInv, NEW t \in Threads, NEW ptr \in DOMAIN owned \cup {NULL}, Pass(t, ptr)
  PROVE  OwnChange(t) /\ HeldBy(t)' \subseteq HeldBy(t) \cup ({ptr} \ {NULL})
<1>1. OwnedAreBlocks
  BY DEF ShowInv
<1>2. CASE ptr = NULL
  BY <1>2, BlocksKept DEF Pass
<1>3. CASE ptr # NULL
  <2>1. owned' = [owned EXCEPT ![ptr].by = t] /\ ptr \in DOMAIN owned
    BY <1>3 DEF Pass
  <2> PICK b : b = owned[ptr]
    OBVIOUS
  <2>2. b = [by |-> b.by, size |-> b.size, tag |-> b.tag, kept |-> b.kept]
    BY <1>1, <2>1 DEF OwnedAreBlocks, IsBlock
  <2>3. [b EXCEPT !.by = t] = Block(t, b.size, b.tag, b.kept)
    BY <2>2 DEF Block
  <2>4. owned' = [owned EXCEPT ![ptr] = Block(t, b.size, b.tag, b.kept)]
    BY <2>1, <2>3
  <2>5. OwnChange(t) /\ HeldBy(t)' \subseteq HeldBy(t) \cup {ptr}
    BY <2>4, BlockAssigned
  <2> QED BY <1>3, <2>5
<1> QED BY <1>2, <1>3

LEMMA BlockTakenBack ==
  ASSUME ShowInv, NEW t \in Threads, NEW ptr, NEW left, TakeBack(ptr, left)
  PROVE  OwnChange(t) /\ HeldBy(t)' \subseteq HeldBy(t) \ {ptr}
<1>1. OwnedAreBlocks
  BY DEF ShowInv
<1>2. /\ DOMAIN owned' = DOMAIN owned \ {ptr}
      /\ owned' = [x \in DOMAIN owned' |-> owned'[x]]
      /\ \A x \in DOMAIN owned' : owned'[x] = owned[x]
  BY DEF TakeBack, Restrict
<1>3. IsFiniteSet(DOMAIN owned')
  BY <1>1, <1>2, FS_Subset DEF OwnedAreBlocks
<1> QED BY <1>1, <1>2, <1>3 DEF OwnedAreBlocks, OwnChange, HeldBy

-----------------------------------------------------------------------------
(* The steps of a dump: the heap, the blocks and the other threads stay as *)
(* they are, and without the dump nothing happens.                         *)

SeenVars == <<heapVars, SeenLock, SeenPc, SeenFrame, owned, content>>

(* A dump begins, goes on or is over.                                      *)
IsPrinting(t) ==
  /\ pc[t] \in {"idle", "return"} \cup DumpLabels
  /\ pc' = [pc EXCEPT ![t] = pc'[t]] /\ frame' = [frame EXCEPT ![t] = frame'[t]]
  /\ pc'[t] \in {"idle", "return"} \cup DumpLabels
  /\ UNCHANGED <<heapVars, owned, content>>
  /\ \/ pc[t] = "idle" /\ Showing(t)' /\ lock' = lock
     \/ pc[t] # "idle" /\ Showing(t) /\ frame' = frame
     \/ pc[t] = "return" /\ Showing(t) /\ frame'[t] = NoFrame /\ lock' = lock
  /\ IF Showing(t)' THEN pc'[t] # "idle" /\ Shows(t)' ELSE pc'[t] = "idle"
  /\ \/ lock' = lock /\ (pc'[t] \in Dumping <=> pc[t] \in Dumping)
     \/ lock = NoThread /\ lock' = t /\ pc'[t] \in Dumping
     \/ pc[t] \in Dumping /\ lock' = NoThread /\ pc'[t] \notin Dumping
  /\ IsCall(frame'[t])

LEMMA PrintingUnseen ==
  ASSUME ShowInv, NEW t \in Threads, IsPrinting(t)
  PROVE  ShowInv' /\ UNCHANGED SeenVars
<1>1. /\ DOMAIN pc = Threads /\ DOMAIN frame = Threads
      /\ \A u \in Threads : pc[u] \in Labels \cup DumpLabels
      /\ NoThread \notin Threads /\ lock \in Threads \cup {NoThread}
  BY ProgramAssumption DEF ShowInv
<1>2. \A u \in Threads \ {t} : pc'[u] = pc[u] /\ frame'[u] = frame[u]
  BY <1>1 DEF IsPrinting
<1>3. /\ Critical \cap ({"idle", "return"} \cup DumpLabels) = {}
      /\ "killed" \notin {"idle", "return"} \cup DumpLabels
      /\ {"idle", "return"} \cap DumpLabels = {} /\ "enter" \notin DumpLabels
      /\ Dumping \subseteq DumpLabels /\ "idle" \in Labels /\ "return" \in Labels
  BY DEF Critical, DumpLabels, Dumping, Labels
<1>4. pc' \in [Threads -> Labels \cup DumpLabels]
  <2>1. DOMAIN pc' = Threads /\ pc' = [u \in Threads |-> pc'[u]]
    BY <1>1 DEF IsPrinting
  <2>2. pc'[t] \in Labels \cup DumpLabels
    BY <1>3 DEF IsPrinting
  <2> QED BY <1>1, <1>2, <2>1, <2>2
<1>5. frame' = [u \in Threads |-> frame'[u]]
  BY <1>1 DEF IsPrinting
<1>6. lock' \in Threads \cup {NoThread}
  BY <1>1 DEF IsPrinting
<1>7. pc[t] \in Dumping <=> lock = t
  BY <1>3 DEF ShowInv, Locks, IsPrinting
<1>8. Locks(t)'
  BY <1>1, <1>3, <1>7 DEF Locks, IsPrinting
<1>9. /\ Showing(t) => Shows(t)
      /\ pc[t] = "idle" => frame[t] = NoFrame /\ ~ Showing(t)
      /\ pc[t] = "return" => lock # t
  BY <1>3, <1>7 DEF ShowInv, NoFrame, Showing
<1>10. ~ Showing(t)' => frame'[t] = NoFrame
  BY DEF IsPrinting, Showing
<1>11. ASSUME NEW u \in Threads
       PROVE  /\ IsCall(frame[u])' /\ Locks(u)'
              /\ Showing(u)' => Shows(u)'
              /\ (pc[u] \in DumpLabels)' => Showing(u)'
              /\ pc'[u] = "enter" => frame'[u].op \in CallsOfProgram
              /\ pc'[u] = "idle" => frame'[u] = NoFrame
              /\ HoldsItsOwn(u)'
  <2>1. CASE u = t
    <3>1. HeldBy(t)' = {}
      <4>1. HoldsItsOwn(t) /\ (pc[t] = "idle" \/ Showing(t))
        BY DEF ShowInv, IsPrinting
      <4>2. HeldBy(t) = {} /\ owned' = owned
        BY <4>1 DEF HoldsItsOwn, IsPrinting
      <4> QED BY <4>2 DEF HeldBy
    <3>2. HoldsItsOwn(t)'
      <4>1. pc'[t] \notin {"enter", "realloc", "allocate", "take"}
        BY DEF IsPrinting, DumpLabels, Dumping
      <4> QED BY <3>1, <4>1 DEF HoldsItsOwn
    <3> QED BY <1>3, <1>8, <1>10, <2>1, <3>2 DEF IsCall, IsPrinting
  <2>2. CASE u # t
    <3>1. /\ pc'[u] = pc[u] /\ frame'[u] = frame[u]
          /\ IsCall(frame[u]) /\ Locks(u) /\ (Showing(u) => Shows(u))
          /\ pc[u] \in DumpLabels => Showing(u)
          /\ pc[u] = "enter" => frame[u].op \in CallsOfProgram
          /\ pc[u] = "idle" => frame[u] = NoFrame
          /\ HoldsItsOwn(u)
      BY <1>2, <2>2 DEF ShowInv
    <3>2. Locks(u)'
      BY <1>1, <1>7, <2>2, <3>1 DEF Locks, IsPrinting
    <3>3. HeldBy(u)' = HeldBy(u)
      BY DEF IsPrinting, HeldBy
    <3>4. HoldsItsOwn(u)'
      BY <3>1, <3>3 DEF HoldsItsOwn, Showing
    <3> QED BY <3>1, <3>2, <3>4 DEF IsCall, Showing, Shows
  <2> QED BY <2>1, <2>2
<1>12. OwnedAreBlocks'
  BY BlocksKept DEF OwnChange, IsPrinting
<1>13. ShowInv'
  BY <1>4, <1>5, <1>6, <1>11, <1>12 DEF ShowInv
<1>14. \A u \in Threads : SeenPc'[u] = SeenPc[u]
  <2>1. \A u \in Threads \ {t} : (Showing(u)' <=> Showing(u))
    BY <1>2 DEF Showing
  <2>2. SeenPc[t] = "idle"
    BY <1>3, <1>9 DEF SeenPc, IsPrinting
  <2>3. SeenPc'[t] = "idle"
    BY <1>3 DEF SeenPc, IsPrinting
  <2> QED BY <1>2, <2>1, <2>2, <2>3 DEF SeenPc
<1>15. \A u \in Threads : SeenFrame'[u] = SeenFrame[u]
  <2>1. \A u \in Threads \ {t} : (Showing(u)' <=> Showing(u))
    BY <1>2 DEF Showing
  <2>2. SeenFrame[t] = NoFrame
    BY <1>9 DEF SeenFrame, IsPrinting
  <2>3. SeenFrame'[t] = NoFrame
    BY <1>10 DEF SeenFrame, IsPrinting
  <2> QED BY <1>2, <2>1, <2>2, <2>3 DEF SeenFrame
<1>16. SeenLock' = SeenLock
  <2>1. \A u \in Threads \ {t} : (Showing(u)' <=> Showing(u))
    BY <1>2 DEF Showing
  <2>2. lock = t => SeenLock = NoThread
    BY <1>3, <1>7 DEF SeenLock, ShowInv
  <2>3. lock' = t => SeenLock' = NoThread
    <3>1. (pc[t] \in DumpLabels)' => Showing(t)'
      BY <1>11
    <3>2. lock' = t => pc'[t] \in Dumping
      BY <1>1, <1>7, <1>9 DEF IsPrinting
    <3> QED BY <1>3, <3>1, <3>2 DEF SeenLock
  <2>4. lock # t => lock' = lock \/ (lock = NoThread /\ lock' = t)
    BY <1>7 DEF IsPrinting
  <2>5. lock = t => lock' = t \/ lock' = NoThread
    BY <1>1, <1>7 DEF IsPrinting
  <2>6. lock = NoThread => SeenLock = NoThread
    BY DEF SeenLock
  <2>7. lock' = NoThread => SeenLock' = NoThread
    BY DEF SeenLock
  <2>8. lock # t /\ lock' = lock => SeenLock' = SeenLock
    BY <2>1 DEF SeenLock
  <2> QED BY <2>2, <2>3, <2>4, <2>5, <2>6, <2>7, <2>8
<1>17. SeenPc' = SeenPc /\ SeenFrame' = SeenFrame
  BY <1>14, <1>15 DEF SeenPc, SeenFrame
<1> QED BY <1>13, <1>16, <1>17 DEF SeenVars, IsPrinting

(* The steps of show_alloc_mem are such steps.                             *)
StepOfDump(t) ==
  \/ CallShow(t) \/ EnterShow(t) \/ PrintPage(t) \/ NextZone(t)
  \/ PrintAllocated(t) \/ PrintFree(t) \/ ExitShow(t)

LEMMA DumpPrints ==
  ASSUME ShowInv, NEW t \in Threads, StepOfDump(t)
  PROVE  IsPrinting(t)
<1>1. /\ DOMAIN pc = Threads /\ DOMAIN frame = Threads /\ IsCall(frame[t])
      /\ frame = [u \in Threads |-> frame[u]]
      /\ Showing(t) => Shows(t)
      /\ pc[t] \in DumpLabels => Showing(t)
  BY DEF ShowInv
<1>2. \A l : Goto(t, l) => pc' = [pc EXCEPT ![t] = pc'[t]] /\ pc'[t] = l
  BY <1>1 DEF Goto
<1>3. CASE CallShow(t)
  <2>1. /\ pc[t] = "idle" /\ Goto(t, "wait")
        /\ UNCHANGED <<heapVars, lock, owned, content>>
        /\ frame' = [frame EXCEPT ![t] =
             [[[NoFrame EXCEPT !.op = "show_alloc_mem"] EXCEPT !.ptr = NULL]
                EXCEPT !.size = 0]]
    BY <1>3 DEF CallShow, Call, NoFrame
  <2>2. frame'[t] = [op |-> "show_alloc_mem", ptr |-> NULL, size |-> 0,
                     new |-> NULL, page |-> NULL, chunk |-> 0]
    BY <1>1, <2>1 DEF NoFrame
  <2>3. frame' = [frame EXCEPT ![t] = frame'[t]]
    BY <1>1, <2>1
  <2>4. IsCall(frame'[t])
    BY <2>2 DEF IsCall, FrameFields
  <2>5. Showing(t)' /\ pc'[t] = "wait"
    BY <1>2, <2>1, <2>2 DEF Showing
  <2>6. Shows(t)'
    BY <2>2, <2>5 DEF Shows, DumpLabels
  <2> QED BY <1>2, <2>1, <2>3, <2>4, <2>5, <2>6 DEF IsPrinting, DumpLabels, Dumping
<1>4. CASE ~ CallShow(t)
  <2>1. /\ frame' = frame /\ UNCHANGED <<heapVars, owned, content>>
        /\ \/ pc[t] = "wait" /\ lock = NoThread /\ lock' = t /\ Goto(t, "pages")
           \/ /\ pc[t] \in {"pages", "allocated", "freed"} /\ lock' = lock
              /\ \E l \in Dumping : Goto(t, l)
           \/ pc[t] = "printed" /\ lock' = NoThread /\ Goto(t, "return")
    BY <1>4 DEF StepOfDump, EnterShow, PrintPage, NextZone, PrintAllocated, PrintFree,
       PrintChunks, ExitShow, Show, Dumping
  <2>2. pc[t] \in DumpLabels /\ Showing(t) /\ Showing(t)' /\ Shows(t)
    BY <1>1, <2>1 DEF DumpLabels, Dumping, Showing
  <2>3. frame' = [frame EXCEPT ![t] = frame'[t]] /\ IsCall(frame'[t])
    BY <1>1, <2>1
  <2>4. pc'[t] \in Dumping \cup {"return"} /\ pc' = [pc EXCEPT ![t] = pc'[t]]
    BY <1>2, <2>1 DEF Dumping
  <2>5. Shows(t)'
    BY <2>1, <2>2, <2>4 DEF Shows, DumpLabels
  <2>6. \/ lock' = lock /\ (pc'[t] \in Dumping <=> pc[t] \in Dumping)
        \/ lock = NoThread /\ lock' = t /\ pc'[t] \in Dumping
        \/ pc[t] \in Dumping /\ lock' = NoThread /\ pc'[t] \notin Dumping
    BY <1>2, <2>1 DEF Dumping
  <2> QED BY <2>1, <2>2, <2>3, <2>4, <2>5, <2>6 DEF IsPrinting, DumpLabels, Dumping
<1> QED BY <1>3, <1>4

(* The call of show_alloc_mem returns like one that got nothing.           *)
LEMMA DumpReturns ==
  ASSUME ShowInv, NEW t \in Threads, Showing(t), Proceed(t)
  PROVE  IsPrinting(t)
<1>1. /\ DOMAIN pc = Threads /\ DOMAIN frame = Threads /\ IsCall(frame[t])
      /\ Shows(t) /\ OwnedAreBlocks /\ HeldBy(t) = {}
  BY DEF ShowInv, HoldsItsOwn
<1>2. Survives(t)
  BY <1>1 DEF Survives, Touches, Shows, DumpLabels, Dumping
<1>3. ~ Fault(t)
  BY <1>2 DEF Fault
<1>4. pc[t] \notin Critical \cup {"enter", "clear"}
  BY <1>1 DEF Shows, DumpLabels, Dumping, Critical
<1>5. /\ ~ Enter(t) /\ ~ Exit(t) /\ ~ ReallocInPlace(t) /\ ~ ReallocElsewhere(t)
      /\ ~ FindFreeChunk(t) /\ ~ AddMediumPage(t) /\ ~ TakeFoundChunk(t)
      /\ ~ AddLargePage(t) /\ ~ AllocateNothing(t) /\ ~ CopyBlock(t)
      /\ ~ FreeNull(t) /\ ~ FreePage(t) /\ ~ FreeChunk(t) /\ ~ ReleasePage(t)
      /\ ~ KeepPage(t) /\ ~ Clear(t)
  BY <1>4 DEF Enter, Exit, ReallocInPlace, ReallocElsewhere, FindFreeChunk,
     AddMediumPage, TakeFoundChunk, AddLargePage, AllocateNothing, CopyBlock,
     FreeNull, FreePage, FreeChunk, ReleasePage, KeepPage, Clear, Critical
<1>6. ~ ReturnNewBlock(t) /\ ~ ReturnReallocated(t)
  BY <1>1 DEF ReturnNewBlock, ReturnReallocated, Shows
<1>7. ReturnNull(t)
  BY <1>3, <1>5, <1>6 DEF Proceed
<1>8. /\ pc[t] = "return" /\ Goto(t, "idle") /\ UNCHANGED <<heapVars, lock, content>>
      /\ frame' = [frame EXCEPT ![t] = NoFrame]
      /\ owned' = [ptr \in DOMAIN owned |->
                     IF owned[ptr].by = t THEN [owned[ptr] EXCEPT !.by = NoThread]
                     ELSE owned[ptr]]
  BY <1>7 DEF ReturnNull, Finish
<1>9. owned' = owned
  <2>1. \A ptr \in DOMAIN owned : owned[ptr].by # t
    BY <1>1 DEF HeldBy
  <2> QED BY <1>1, <1>8, <2>1 DEF OwnedAreBlocks
<1>10. /\ pc' = [pc EXCEPT ![t] = pc'[t]] /\ pc'[t] = "idle"
       /\ frame' = [frame EXCEPT ![t] = frame'[t]] /\ frame'[t] = NoFrame
  BY <1>1, <1>8 DEF Goto
<1>11. IsCall(NoFrame) /\ NoFrame.op # "show_alloc_mem"
  BY DEF IsCall, NoFrame, FrameFields
<1> QED BY <1>8, <1>9, <1>10, <1>11 DEF IsPrinting, Showing, DumpLabels, Dumping
-----------------------------------------------------------------------------
(* The steps of the other calls are those of Malloc without dumps.         *)

(* What such a step starts from.                                           *)
LEMMA Ordinary ==
  ASSUME ShowInv, NEW t \in Threads, ~ Showing(t)
  PROVE  /\ DOMAIN pc = Threads /\ DOMAIN frame = Threads
         /\ pc[t] \in Labels /\ IsCall(frame[t]) /\ HoldsItsOwn(t)
         /\ SeenPc[t] = pc[t] /\ SeenFrame[t] = frame[t]
         /\ pc[t] # "killed" => (pc[t] \in Critical <=> lock = t)
         /\ lock = NoThread => SeenLock = NoThread
         /\ NoThread \notin Threads
<1>1. DOMAIN pc = Threads /\ DOMAIN frame = Threads
  BY DEF ShowInv
<1>2. pc[t] \in Labels /\ pc[t] \notin DumpLabels
  BY DEF ShowInv
<1>3. pc[t] # "killed" => (pc[t] \in Critical <=> lock = t)
  BY <1>2 DEF ShowInv, Locks, DumpLabels
<1>4. SeenPc[t] = pc[t] /\ SeenFrame[t] = frame[t] /\ (lock = NoThread => SeenLock = NoThread)
  BY SeenThread
<1> QED BY <1>1, <1>2, <1>3, <1>4, ProgramAssumption DEF ShowInv

(* A step that moves its thread, and its locals not at all or in one call. *)
StepsTo(t, l, f) ==
  /\ Goto(t, l) /\ f.op # "show_alloc_mem"
  /\ frame' = frame \/ frame' = [frame EXCEPT ![t] = f]
  /\ frame' = frame => f = frame[t]

LEMMA OrdinaryStep ==
  ASSUME ShowInv, NEW t \in Threads, ~ Showing(t), NEW l, NEW f, StepsTo(t, l, f)
  PROVE  /\ IsOrdinary(t) /\ pc'[t] = l /\ frame'[t] = f
         /\ Seen!Goto(t, l)
         /\ SeenFrame' = [SeenFrame EXCEPT ![t] = f]
         /\ frame' = frame => SeenFrame' = SeenFrame
         /\ lock' = t => SeenLock' = t
         /\ lock' = NoThread => SeenLock' = NoThread
         /\ lock' = lock => SeenLock' = SeenLock
<1>1. DOMAIN pc = Threads /\ DOMAIN frame = Threads /\ SeenFrame[t] = frame[t]
  BY Ordinary
<1>2. frame = [u \in Threads |-> frame[u]]
  BY DEF ShowInv
<1>3. pc'[t] = l /\ pc' = [pc EXCEPT ![t] = l]
  BY <1>1 DEF StepsTo, Goto
<1>4. frame'[t] = f /\ frame' = [frame EXCEPT ![t] = f]
  BY <1>1, <1>2 DEF StepsTo
<1>5. IsOrdinary(t)
  BY <1>3, <1>4 DEF StepsTo, IsOrdinary, Showing
<1>6. /\ SeenPc' = [SeenPc EXCEPT ![t] = pc'[t]]
      /\ SeenFrame' = [SeenFrame EXCEPT ![t] = frame'[t]]
      /\ lock' = t => SeenLock' = t
      /\ lock' = NoThread => SeenLock' = NoThread
      /\ lock' = lock => SeenLock' = SeenLock
  BY <1>5, SeenStep
<1>7. Seen!Goto(t, l)
  BY <1>3, <1>6 DEF Seen!Goto
<1>8. frame' = frame => SeenFrame' = SeenFrame
  <2>1. SeenFrame = [u \in Threads |-> SeenFrame[u]]
    BY DEF SeenFrame
  <2> QED BY <1>1, <1>4, <1>6, <2>1
<1> QED BY <1>3, <1>4, <1>5, <1>6, <1>7, <1>8

(* A local of a call is assigned.                                          *)
Gets(f, v, g) == g = [f EXCEPT !.new = v]

LEMMA NewAssigned ==
  ASSUME NEW f, IsCall(f), NEW v, NEW g, Gets(f, v, g)
  PROVE  IsCall(g) /\ g.op = f.op /\ g.ptr = f.ptr /\ g.size = f.size /\ g.new = v
<1>1. DOMAIN f = FrameFields
  BY DEF IsCall, Gets
<1>2. IsCall(g)
  BY <1>1 DEF IsCall, Gets
<1> QED BY <1>1, <1>2 DEF FrameFields, Gets

LEMMA PageAssigned ==
  ASSUME NEW f, IsCall(f), NEW v, NEW g, g = [f EXCEPT !.page = v]
  PROVE  /\ IsCall(g) /\ g.op = f.op /\ g.ptr = f.ptr /\ g.size = f.size
         /\ g.new = f.new
<1>1. DOMAIN f = FrameFields
  BY DEF IsCall
<1>2. IsCall(g)
  BY <1>1 DEF IsCall
<1> QED BY <1>1, <1>2 DEF FrameFields

Finds(f, p, c, g) == g = [f EXCEPT !.page = p, !.chunk = c]

LEMMA FoundAssigned ==
  ASSUME NEW f, IsCall(f), NEW p, NEW c, NEW g, Finds(f, p, c, g)
  PROVE  /\ IsCall(g) /\ g.op = f.op /\ g.ptr = f.ptr /\ g.size = f.size
         /\ g.new = f.new
<1> PICK h : h = [f EXCEPT !.page = p]
  OBVIOUS
<1>1. DOMAIN f = FrameFields /\ g = [h EXCEPT !.chunk = c]
  BY DEF IsCall, Finds
<1>2. IsCall(g)
  BY <1>1 DEF IsCall
<1> QED BY <1>1, <1>2 DEF FrameFields

LEMMA EnterSeen ==
  ASSUME ShowInv, NEW t \in Threads, ~ Showing(t), Enter(t)
  PROVE  ShowInv' /\ Seen!Enter(t)
<1> PICK f, l : f = frame[t] /\ l = FirstStep(f.op)
  OBVIOUS
<1>1. /\ pc[t] = "enter" /\ lock = NoThread /\ lock' = t /\ Goto(t, l)
      /\ UNCHANGED <<heapVars, frame, owned, content>>
  BY DEF Enter
<1>2. f.op \in CallsOfProgram /\ IsCall(f) /\ f.op # "show_alloc_mem" /\ HoldsItsOwn(t)
  BY <1>1 DEF ShowInv, CallsOfProgram
<1>3. l \in {"allocate", "realloc", "free"}
  BY <1>2 DEF FirstStep, CallsOfProgram
<1>4. /\ IsOrdinary(t) /\ pc'[t] = l /\ frame'[t] = f /\ Seen!Goto(t, l)
      /\ SeenFrame' = SeenFrame /\ SeenLock' = t
  BY <1>1, <1>2, OrdinaryStep DEF StepsTo
<1>5. OwnChange(t) /\ HeldBy(t)' = HeldBy(t)
  BY <1>1, BlocksKept
<1>6. HoldsItsOwn(t)'
  BY <1>1, <1>2, <1>3, <1>4, <1>5 DEF HoldsItsOwn, Showing
<1>7. LockMoves(t) /\ pc'[t] \in Labels /\ pc'[t] \notin {"enter", "idle"}
  BY <1>1, <1>3, <1>4 DEF LockMoves, Critical, Labels
<1>8. ShowInv'
  BY <1>1, <1>2, <1>4, <1>5, <1>6, <1>7, OrdinaryInv
<1>9. Seen!FirstStep(f.op) = l
  BY DEF Seen!FirstStep, FirstStep
<1> QED BY <1>1, <1>4, <1>8, <1>9, Ordinary DEF Seen!Enter, Seen!heapVars, heapVars

LEMMA ExitSeen ==
  ASSUME ShowInv, NEW t \in Threads, ~ Showing(t), Exit(t)
  PROVE  ShowInv' /\ Seen!Exit(t)
<1> PICK f, l : /\ f = frame[t]
                /\ l = IF f.op = "calloc" /\ f.new # NULL THEN "clear" ELSE "return"
  OBVIOUS
<1>1. /\ pc[t] = "exit" /\ lock' = NoThread /\ Goto(t, l)
      /\ UNCHANGED <<heapVars, frame, owned, content>>
  BY DEF Exit
<1>2. IsCall(f) /\ f.op # "show_alloc_mem" /\ HoldsItsOwn(t)
  BY DEF ShowInv, Showing
<1>3. l \in {"clear", "return"}
  OBVIOUS
<1>4. /\ IsOrdinary(t) /\ pc'[t] = l /\ frame'[t] = f /\ Seen!Goto(t, l)
      /\ SeenFrame' = SeenFrame /\ SeenLock' = NoThread
  BY <1>1, <1>2, OrdinaryStep DEF StepsTo
<1>5. OwnChange(t) /\ HeldBy(t)' = HeldBy(t)
  BY <1>1, BlocksKept
<1>6. HoldsItsOwn(t)'
  BY <1>1, <1>2, <1>3, <1>4, <1>5 DEF HoldsItsOwn, Showing
<1>7. LockMoves(t) /\ pc'[t] \in Labels /\ pc'[t] \notin {"enter", "idle"}
  BY <1>1, <1>3, <1>4 DEF LockMoves, Critical, Labels
<1>8. ShowInv'
  BY <1>1, <1>2, <1>4, <1>5, <1>6, <1>7, OrdinaryInv
<1> QED BY <1>1, <1>4, <1>8, Ordinary DEF Seen!Exit, Seen!heapVars, heapVars

(* A step in the critical section, or after it, that leaves the program's  *)
(* blocks to whom they belong.                                             *)
KeepsBlocks(t, l, f) ==
  /\ l \in Labels /\ Goto(t, l)
  /\ frame' = frame \/ frame' = [frame EXCEPT ![t] = f]
  /\ frame' = frame => f = frame[t]
  /\ IsCall(f) /\ f.op = frame[t].op /\ f.ptr = frame[t].ptr
  /\ lock' = lock /\ owned' = owned
  /\ pc[t] # "killed" /\ (l \in Critical <=> pc[t] \in Critical)
  /\ l \in {"allocate", "take", "free", "release", "exit", "return"}
  /\ l \in {"allocate", "take"} =>
       pc[t] \in {"realloc", "allocate"} /\ f.new = frame[t].new
  /\ l = "free" => pc[t] = "copy" /\ f.new = frame[t].new
  /\ l \in {"release", "exit", "return"} =>
       \/ pc[t] = "realloc" /\ f.new = f.ptr
       \/ pc[t] = "allocate" /\ f.new = frame[t].new
       \/ pc[t] = "free" /\ f.ptr = NULL /\ f.new = frame[t].new
       \/ pc[t] \in {"release", "clear"} /\ f.new = frame[t].new

LEMMA KeptStep ==
  ASSUME ShowInv, NEW t \in Threads, ~ Showing(t), NEW l, NEW f, KeepsBlocks(t, l, f)
  PROVE  /\ ShowInv' /\ Seen!Goto(t, l) /\ SeenLock' = SeenLock
         /\ SeenFrame' = [SeenFrame EXCEPT ![t] = f]
         /\ frame' = frame => SeenFrame' = SeenFrame
<1>1. f.op # "show_alloc_mem" /\ HoldsItsOwn(t)
  BY DEF Showing, ShowInv, KeepsBlocks
<1>2. /\ IsOrdinary(t) /\ pc'[t] = l /\ frame'[t] = f /\ Seen!Goto(t, l)
      /\ SeenFrame' = [SeenFrame EXCEPT ![t] = f]
      /\ frame' = frame => SeenFrame' = SeenFrame
      /\ SeenLock' = SeenLock
  BY <1>1, OrdinaryStep DEF StepsTo, KeepsBlocks
<1>3. OwnChange(t) /\ HeldBy(t)' = HeldBy(t)
  BY BlocksKept DEF KeepsBlocks
<1>4. HoldsItsOwn(t)'
  <2>1. ~ Showing(t)'
    BY <1>1, <1>2 DEF Showing, KeepsBlocks
  <2>2. l \in {"allocate", "take"} =>
          f.new = NULL /\ HeldBy(t) \subseteq {f.ptr} \ {NULL}
    BY <1>1 DEF HoldsItsOwn, KeepsBlocks
  <2>3. l = "free" => /\ HeldBy(t) \subseteq {f.ptr, f.new}
                      /\ f.ptr = NULL => HeldBy(t) \subseteq {f.new}
    BY <1>1 DEF HoldsItsOwn, KeepsBlocks
  <2>4. l \in {"release", "exit", "return"} /\ f.new # NULL =>
          HeldBy(t) \subseteq {f.new}
    BY <1>1 DEF HoldsItsOwn, KeepsBlocks
  <2> QED BY <1>2, <1>3, <2>1, <2>2, <2>3, <2>4 DEF HoldsItsOwn, KeepsBlocks
<1>5. LockMoves(t) /\ pc'[t] \in Labels
  BY <1>2 DEF LockMoves, KeepsBlocks
<1>6. ShowInv'
  BY <1>2, <1>3, <1>4, <1>5, OrdinaryInv DEF KeepsBlocks
<1> QED BY <1>2, <1>6

(* What a call computes from its locals.                                   *)
LEMMA SameCall ==
  ASSUME ShowInv, NEW t \in Threads, ~ Showing(t), NEW p, NEW ptr, NEW n
  PROVE  /\ Seen!Aligned(t) = Aligned(t) /\ Seen!Destination(t) = Destination(t)
         /\ Seen!CopySize(t) = CopySize(t) /\ Seen!Promise(t) = Promise(t)
         /\ Seen!StaysInPlace(ptr, n) = StaysInPlace(ptr, n)
         /\ Seen!FreesWholePage(ptr) = FreesWholePage(ptr)
         /\ Seen!IsSpare(p) = IsSpare(p)
         /\ Seen!MmapMayReturn(p) = MmapMayReturn(p)
         /\ Seen!ContentsWithout(p) = ContentsWithout(p)
         /\ Seen!Survives(t) = Survives(t)
<1>1. SeenPc[t] = pc[t] /\ SeenFrame[t] = frame[t]
  BY Ordinary
<1>2. Seen!Aligned(t) = Aligned(t)
  BY <1>1, SameSizes DEF Seen!Aligned, Aligned
<1>3. Seen!Destination(t) = Destination(t)
  BY <1>1, <1>2, SameSizes DEF Seen!Destination, Destination
<1>4. /\ Seen!StaysInPlace(ptr, n) = StaysInPlace(ptr, n)
      /\ Seen!FreesWholePage(ptr) = FreesWholePage(ptr)
  BY SameSizes DEF Seen!StaysInPlace, StaysInPlace, Seen!FreesWholePage, FreesWholePage
<1>5. Seen!CopySize(t) = CopySize(t)
  BY <1>1, SameSizes DEF Seen!CopySize, CopySize
<1>6. Seen!Promise(t) = Promise(t)
  BY <1>1, SameSizes DEF Seen!Promise, Promise, Seen!Block, Block
<1>7. Seen!IsSpare(p) = IsSpare(p) /\ Seen!MmapMayReturn(p) = MmapMayReturn(p)
  BY SameHeap, SameSizes DEF Seen!IsSpare, IsSpare, Seen!MmapMayReturn, MmapMayReturn
<1>8. Seen!Survives(t) = Survives(t)
  <2>1. Seen!Touches(t) = Touches(t)
    BY <1>1 DEF Seen!Touches, Touches
  <2> QED BY <2>1 DEF Seen!Survives, Survives, Seen!PageOf, PageOf
<1>9. Seen!ContentsWithout(p) = ContentsWithout(p)
  BY DEF Seen!ContentsWithout, ContentsWithout, Seen!PageOf, PageOf, Seen!Bytes, Bytes
<1> QED BY <1>2, <1>3, <1>4, <1>5, <1>6, <1>7, <1>8, <1>9

LEMMA ReallocSeen ==
  ASSUME ShowInv, NEW t \in Threads, ~ Showing(t)
  PROVE  /\ ReallocInPlace(t) => ShowInv' /\ Seen!ReallocInPlace(t)
         /\ ReallocElsewhere(t) => ShowInv' /\ Seen!ReallocElsewhere(t)
<1> PICK f, ptr, n : f = frame[t] /\ ptr = f.ptr /\ n = f.size
  OBVIOUS
<1>1. IsCall(f) /\ SeenPc[t] = pc[t] /\ SeenFrame[t] = f
  BY Ordinary
<1>2. Seen!StaysInPlace(ptr, n) = StaysInPlace(ptr, n)
  BY SameCall
<1>3. ASSUME ReallocInPlace(t) PROVE ShowInv' /\ Seen!ReallocInPlace(t)
  <2> PICK g : Gets(f, ptr, g)
    BY DEF Gets
  <2>1. /\ pc[t] = "realloc" /\ StaysInPlace(ptr, n) /\ Goto(t, "exit")
        /\ frame' = [frame EXCEPT ![t] = g]
        /\ UNCHANGED <<heapVars, lock, owned, content>>
    BY <1>3 DEF ReallocInPlace, Gets
  <2>2. IsCall(g) /\ g.op = f.op /\ g.ptr = f.ptr /\ g.new = g.ptr
    BY <1>1, NewAssigned
  <2>3. frame' = frame => g = frame[t]
    <3>1. DOMAIN frame = Threads
      BY Ordinary
    <3> QED BY <2>1, <3>1
  <2>4. /\ ShowInv' /\ Seen!Goto(t, "exit") /\ SeenLock' = SeenLock
        /\ SeenFrame' = [SeenFrame EXCEPT ![t] = g]
    <3>1. KeepsBlocks(t, "exit", g)
      BY <2>1, <2>2, <2>3 DEF KeepsBlocks, Labels, Critical
    <3> QED BY <3>1, KeptStep
  <2>5. SeenFrame' = [SeenFrame EXCEPT ![t].new = SeenFrame[t].ptr]
    BY <1>1, <2>4 DEF Gets
  <2> QED BY <1>1, <1>2, <2>1, <2>4, <2>5
          DEF Seen!ReallocInPlace, Seen!heapVars, heapVars
<1>4. ASSUME ReallocElsewhere(t) PROVE ShowInv' /\ Seen!ReallocElsewhere(t)
  <2>1. /\ pc[t] = "realloc" /\ ~ StaysInPlace(ptr, n) /\ Goto(t, "allocate")
        /\ UNCHANGED <<heapVars, lock, frame, owned, content>>
    BY <1>4 DEF ReallocElsewhere
  <2>2. KeepsBlocks(t, "allocate", f)
    BY <1>1, <2>1 DEF KeepsBlocks, Labels, Critical
  <2>3. ShowInv' /\ Seen!Goto(t, "allocate") /\ SeenLock' = SeenLock /\ SeenFrame' = SeenFrame
    BY <2>1, <2>2, KeptStep
  <2> QED BY <1>1, <1>2, <2>1, <2>3 DEF Seen!ReallocElsewhere, Seen!heapVars, heapVars
<1> QED BY <1>3, <1>4

LEMMA AllocateNothingSeen ==
  ASSUME ShowInv, NEW t \in Threads, ~ Showing(t), AllocateNothing(t)
  PROVE  ShowInv' /\ Seen!AllocateNothing(t)
<1> PICK n, z : n = Aligned(t) /\ z = Destination(t)
  OBVIOUS
<1>1. /\ pc[t] = "allocate" /\ Goto(t, "exit")
      /\ n = 0 \/ GetZoneType(n) = "LARGE_ZONE" \/ NoPageFits(z, n)
      /\ UNCHANGED <<heapVars, lock, frame, owned, content>>
  BY DEF AllocateNothing
<1>2. IsCall(frame[t]) /\ SeenPc[t] = pc[t]
  BY Ordinary
<1>3. ShowInv' /\ Seen!Goto(t, "exit") /\ SeenLock' = SeenLock /\ SeenFrame' = SeenFrame
  <2>1. KeepsBlocks(t, "exit", frame[t])
    BY <1>1, <1>2 DEF KeepsBlocks, Labels, Critical
  <2> QED BY <1>1, <1>2, <2>1, KeptStep
<1>4. Seen!Aligned(t) = n /\ Seen!Destination(t) = z
  BY SameCall
<1>5. Seen!GetZoneType(n) = GetZoneType(n) /\ Seen!NoPageFits(z, n) = NoPageFits(z, n)
  BY SameSizes, SameHeap
<1> QED BY <1>1, <1>2, <1>3, <1>4, <1>5 DEF Seen!AllocateNothing, Seen!heapVars, heapVars

LEMMA FreeNullSeen ==
  ASSUME ShowInv, NEW t \in Threads, ~ Showing(t), FreeNull(t)
  PROVE  ShowInv' /\ Seen!FreeNull(t)
<1>1. /\ pc[t] = "free" /\ frame[t].ptr = NULL /\ Goto(t, "exit")
      /\ UNCHANGED <<heapVars, lock, frame, owned, content>>
  BY DEF FreeNull
<1>2. IsCall(frame[t]) /\ SeenPc[t] = pc[t] /\ SeenFrame[t] = frame[t]
  BY Ordinary
<1>3. ShowInv' /\ Seen!Goto(t, "exit") /\ SeenLock' = SeenLock /\ SeenFrame' = SeenFrame
  <2>1. KeepsBlocks(t, "exit", frame[t])
    BY <1>1, <1>2 DEF KeepsBlocks, Labels, Critical
  <2> QED BY <1>1, <1>2, <2>1, KeptStep
<1> QED BY <1>1, <1>2, <1>3 DEF Seen!FreeNull, Seen!heapVars, heapVars

LEMMA CopySeen ==
  ASSUME ShowInv, NEW t \in Threads, ~ Showing(t), CopyBlock(t)
  PROVE  ShowInv' /\ Seen!CopyBlock(t)
<1>1. IsCall(frame[t]) /\ SeenPc[t] = pc[t] /\ SeenFrame[t] = frame[t]
  BY Ordinary
<1> PICK f, ptr, new, n : f = frame[t] /\ ptr = f.ptr /\ new = f.new /\ n = CopySize(t)
  OBVIOUS
<1>2. /\ pc[t] = "copy" /\ Goto(t, "free")
      /\ content' = [content EXCEPT ![new] =
           Bytes(content[ptr].tag, Lesser(content[ptr].len, n))]
      /\ UNCHANGED <<heapVars, lock, frame, owned>>
  BY DEF CopyBlock
<1>3. ShowInv' /\ Seen!Goto(t, "free") /\ SeenLock' = SeenLock /\ SeenFrame' = SeenFrame
  <2>1. KeepsBlocks(t, "free", frame[t])
    BY <1>1, <1>2 DEF KeepsBlocks, Labels, Critical
  <2> QED BY <1>1, <1>2, <2>1, KeptStep
<1>4. Seen!CopySize(t) = n
  BY SameCall
<1>5. \A a, b : Seen!Lesser(a, b) = Lesser(a, b) /\ Seen!Bytes(a, b) = Bytes(a, b)
  BY SameSizes
<1> QED BY <1>1, <1>2, <1>3, <1>4, <1>5 DEF Seen!CopyBlock, Seen!heapVars, heapVars

LEMMA ClearSeen ==
  ASSUME ShowInv, NEW t \in Threads, ~ Showing(t), Clear(t)
  PROVE  ShowInv' /\ Seen!Clear(t)
<1>1. IsCall(frame[t]) /\ SeenPc[t] = pc[t] /\ SeenFrame[t] = frame[t]
  BY Ordinary
<1>2. /\ pc[t] = "clear" /\ Goto(t, "return")
      /\ content' = [content EXCEPT ![frame[t].new] = Bytes(Zero, frame[t].size)]
      /\ UNCHANGED <<heapVars, lock, frame, owned>>
  BY DEF Clear
<1>3. ShowInv' /\ Seen!Goto(t, "return") /\ SeenLock' = SeenLock /\ SeenFrame' = SeenFrame
  <2>1. KeepsBlocks(t, "return", frame[t])
    BY <1>1, <1>2 DEF KeepsBlocks, Labels, Critical
  <2> QED BY <1>1, <1>2, <2>1, KeptStep
<1>4. \A a, b : Seen!Bytes(a, b) = Bytes(a, b)
  BY SameSizes
<1> QED BY <1>1, <1>2, <1>3, <1>4 DEF Seen!Clear, Seen!heapVars, heapVars
(* Where a search has found a chunk.                                       *)
LEMMA FoundSeen ==
  ASSUME ShowInv, NEW t \in Threads, ~ Showing(t), pc[t] = "allocate",
         NEW p, NEW c, Found(t, p, c)
  PROVE  ShowInv' /\ Seen!Found(t, p, c)
<1> PICK f, h : f = frame[t] /\ Finds(f, p, c, h)
  BY DEF Finds
<1>1. IsCall(f) /\ DOMAIN frame = Threads /\ SeenFrame[t] = f /\ DOMAIN SeenFrame = Threads
  BY Ordinary DEF SeenFrame
<1>2. /\ Goto(t, "take") /\ UNCHANGED <<lock, owned, content>>
      /\ frame' = [frame EXCEPT ![t] = h]
  BY <1>1 DEF Found, Finds
<1>3. IsCall(h) /\ h.op = f.op /\ h.ptr = f.ptr /\ h.new = f.new
  BY <1>1, FoundAssigned
<1>4. frame' = frame => h = frame[t]
  BY <1>1, <1>2
<1>5. KeepsBlocks(t, "take", h)
  BY <1>1, <1>2, <1>3, <1>4 DEF KeepsBlocks, Labels, Critical
<1>6. /\ ShowInv' /\ Seen!Goto(t, "take") /\ SeenLock' = SeenLock
      /\ SeenFrame' = [SeenFrame EXCEPT ![t] = h]
  BY <1>5, KeptStep
<1>7. SeenFrame' = [SeenFrame EXCEPT ![t].page = p, ![t].chunk = c]
  BY <1>1, <1>6 DEF Finds
<1> QED BY <1>2, <1>6, <1>7 DEF Seen!Found

LEMMA FindFreeChunkSeen ==
  ASSUME ShowInv, NEW t \in Threads, ~ Showing(t), FindFreeChunk(t)
  PROVE  ShowInv' /\ Seen!FindFreeChunk(t)
<1> PICK n, z : n = Aligned(t) /\ z = Destination(t)
  OBVIOUS
<1>1. /\ pc[t] = "allocate" /\ n # 0 /\ GetZoneType(n) # "LARGE_ZONE"
      /\ UNCHANGED heapVars
  BY DEF FindFreeChunk
<1>2. PICK p \in mapped : \E c \in Chunks(p) :
        IsFirstPage(z, n, p) /\ IsFirstFit(p, n, c) /\ Found(t, p, c)
  BY DEF FindFreeChunk
<1> PICK c \in Chunks(p) :
      IsFirstPage(z, n, p) /\ IsFirstFit(p, n, c) /\ Found(t, p, c)
  BY <1>2
<1>3. ShowInv' /\ Seen!Found(t, p, c)
  BY <1>1, <1>2, FoundSeen
<1>4. Seen!Aligned(t) = n /\ Seen!Destination(t) = z /\ SeenPc[t] = pc[t]
  BY SameCall, Ordinary
<1>5. /\ Seen!IsFirstPage(z, n, p) = IsFirstPage(z, n, p)
      /\ Seen!IsFirstFit(p, n, c) = IsFirstFit(p, n, c)
      /\ Seen!Chunks(p) = Chunks(p) /\ Seen!GetZoneType(n) = GetZoneType(n)
  BY SameHeap, SameSizes
<1> QED BY <1>1, <1>2, <1>3, <1>4, <1>5 DEF Seen!FindFreeChunk, Seen!heapVars, heapVars

LEMMA AddMediumPageSeen ==
  ASSUME ShowInv, NEW t \in Threads, ~ Showing(t), AddMediumPage(t)
  PROVE  ShowInv' /\ Seen!AddMediumPage(t)
<1> PICK n, z : n = Aligned(t) /\ z = Destination(t)
  OBVIOUS
<1>1. /\ pc[t] = "allocate" /\ n # 0 /\ GetZoneType(n) # "LARGE_ZONE"
      /\ NoPageFits(z, n) /\ MmapAccepts(n)
  BY DEF AddMediumPage
<1>2. PICK p \in Pages :
        MmapMayReturn(p) /\ MapMediumPage(p, n, z) /\ Found(t, p, PageHeader)
  BY DEF AddMediumPage
<1>3. ShowInv' /\ Seen!Found(t, p, PageHeader)
  BY <1>1, <1>2, FoundSeen
<1>4. /\ Seen!Aligned(t) = n /\ Seen!Destination(t) = z /\ SeenPc[t] = pc[t]
      /\ Seen!MmapMayReturn(p) = MmapMayReturn(p)
  BY SameCall, Ordinary
<1>5. /\ Seen!NoPageFits(z, n) = NoPageFits(z, n)
      /\ Seen!MapMediumPage(p, n, z) = MapMediumPage(p, n, z)
      /\ Seen!GetZoneType(n) = GetZoneType(n) /\ Seen!MmapAccepts(n) = MmapAccepts(n)
      /\ Seen!PageHeader = PageHeader
  BY SameHeap, SameSizes
<1> QED BY <1>1, <1>2, <1>3, <1>4, <1>5 DEF Seen!AddMediumPage

LEMMA ReleaseSeen ==
  ASSUME ShowInv, NEW t \in Threads, ~ Showing(t)
  PROVE  /\ ReleasePage(t) => ShowInv' /\ Seen!ReleasePage(t)
         /\ KeepPage(t) => ShowInv' /\ Seen!KeepPage(t)
<1> PICK f, g, p : f = frame[t] /\ p = f.page /\ g = [f EXCEPT !.page = NULL]
  OBVIOUS
<1>1. /\ IsCall(f) /\ DOMAIN frame = Threads /\ SeenPc[t] = pc[t]
      /\ SeenFrame[t] = f /\ DOMAIN SeenFrame = Threads
  BY Ordinary DEF SeenFrame
<1>2. IsCall(g) /\ g.op = f.op /\ g.ptr = f.ptr /\ g.new = f.new
  BY <1>1, PageAssigned
<1>3. /\ Seen!IsSpare(p) = IsSpare(p) /\ Seen!UnmapPage(p) = UnmapPage(p)
      /\ Seen!ContentsWithout(p) = ContentsWithout(p)
  BY SameCall, SameHeap
<1>4. ASSUME ReleasePage(t) \/ KeepPage(t)
      PROVE  /\ pc[t] = "release" /\ UNCHANGED <<lock, owned>>
             /\ ShowInv' /\ Seen!Goto(t, "exit") /\ SeenLock' = SeenLock
             /\ SeenFrame' = [SeenFrame EXCEPT ![t].page = NULL]
  <2>1. /\ pc[t] = "release" /\ Goto(t, "exit") /\ UNCHANGED <<lock, owned>>
        /\ frame' = [frame EXCEPT ![t] = g]
    BY <1>1, <1>4 DEF ReleasePage, KeepPage
  <2>2. frame' = frame => g = frame[t]
    BY <1>1, <2>1
  <2>3. KeepsBlocks(t, "exit", g)
    BY <1>2, <2>1, <2>2 DEF KeepsBlocks, Labels, Critical
  <2>4. /\ ShowInv' /\ Seen!Goto(t, "exit") /\ SeenLock' = SeenLock
        /\ SeenFrame' = [SeenFrame EXCEPT ![t] = g]
    BY <2>3, KeptStep
  <2> QED BY <1>1, <2>1, <2>4
<1>5. ReleasePage(t) =>
        IsSpare(p) /\ UnmapPage(p) /\ content' = ContentsWithout(p)
  BY DEF ReleasePage
<1>6. KeepPage(t) => ~ IsSpare(p) /\ UNCHANGED <<heapVars, content>>
  BY DEF KeepPage
<1> QED BY <1>1, <1>3, <1>4, <1>5, <1>6
        DEF Seen!ReleasePage, Seen!KeepPage, Seen!heapVars, heapVars

(* A block is taken for the program.                                       *)
LEMMA GiveSeen ==
  ASSUME ShowInv, NEW t \in Threads, ~ Showing(t), pc[t] \in {"allocate", "take"},
         NEW ptr, Give(t, ptr)
  PROVE  ShowInv' /\ Seen!Give(t, ptr)
<1> PICK f, h, g, l :
      /\ f = frame[t] /\ Gets(f, ptr, h) /\ Finds(h, NULL, 0, g)
      /\ l = IF f.ptr = NULL THEN "exit" ELSE "copy"
  BY DEF Finds, Gets
<1>1. /\ IsCall(f) /\ DOMAIN frame = Threads /\ SeenPc[t] = pc[t] /\ HoldsItsOwn(t)
      /\ SeenFrame[t] = f /\ DOMAIN SeenFrame = Threads
  BY Ordinary DEF SeenFrame
<1>2. /\ IsCall(g) /\ g.op = f.op /\ g.ptr = f.ptr /\ g.new = ptr
  <2>1. IsCall(h) /\ h.op = f.op /\ h.ptr = f.ptr /\ h.new = ptr
    BY <1>1, NewAssigned
  <2>2. IsCall(g) /\ g.op = h.op /\ g.ptr = h.ptr /\ g.new = h.new
    BY <2>1, FoundAssigned
  <2> QED BY <2>1, <2>2
<1>3. /\ Goto(t, l) /\ lock' = lock /\ frame' = [frame EXCEPT ![t] = g]
      /\ owned' = Assign(owned, ptr, Promise(t))
      /\ content' = Assign(content, ptr, Bytes(Junk, 0))
  BY <1>1 DEF Give, Finds, Gets
<1>4. frame' = frame => g = frame[t]
  BY <1>1, <1>3
<1>5. /\ IsOrdinary(t) /\ pc'[t] = l /\ frame'[t] = g /\ Seen!Goto(t, l)
      /\ SeenFrame' = [SeenFrame EXCEPT ![t] = g] /\ SeenLock' = SeenLock
  <2>1. g.op # "show_alloc_mem"
    BY <1>2 DEF Showing
  <2>2. StepsTo(t, l, g)
    BY <1>3, <1>4, <2>1 DEF StepsTo
  <2> QED BY <1>3, <2>2, OrdinaryStep
<1>6. OwnChange(t) /\ HeldBy(t)' \subseteq HeldBy(t) \cup {ptr}
  <2> PICK size, tag, kept : Promise(t) = Block(t, size, tag, kept)
    BY DEF Promise
  <2> QED BY <1>3, BlockAssigned
<1>7. HoldsItsOwn(t)'
  <2>1. HeldBy(t) \subseteq {f.ptr} \ {NULL} /\ ~ Showing(t)'
    BY <1>1, <1>5 DEF HoldsItsOwn, IsOrdinary
  <2> QED BY <1>2, <1>5, <1>6, <2>1 DEF HoldsItsOwn
<1>8. LockMoves(t) /\ pc'[t] \in Labels /\ pc'[t] \notin {"enter", "idle"}
  BY <1>3, <1>5 DEF LockMoves, Critical, Labels
<1>9. ShowInv'
  BY <1>2, <1>5, <1>6, <1>7, <1>8, OrdinaryInv
<1>10. SeenFrame' = [SeenFrame EXCEPT ![t].new = ptr, ![t].page = NULL, ![t].chunk = 0]
  BY <1>1, <1>5 DEF Finds, Gets
<1>11. owned' = Seen!Assign(owned, ptr, Seen!Promise(t))
  <2>1. Seen!Promise(t) = Promise(t)
    BY SameCall
  <2> QED BY <1>3, <2>1 DEF Seen!Assign, Assign
<1>12. content' = Seen!Assign(content, ptr, Seen!Bytes(Junk, 0))
  BY <1>3 DEF Seen!Assign, Assign, Seen!Bytes, Bytes
<1>13. Seen!Goto(t, IF SeenFrame[t].ptr = NULL THEN "exit" ELSE "copy")
  BY <1>1, <1>5
<1> QED BY <1>5, <1>9, <1>10, <1>11, <1>12, <1>13 DEF Seen!Give

LEMMA TakeFoundChunkSeen ==
  ASSUME ShowInv, NEW t \in Threads, ~ Showing(t), TakeFoundChunk(t)
  PROVE  ShowInv' /\ Seen!TakeFoundChunk(t)
<1> PICK p, c, n : p = frame[t].page /\ c = frame[t].chunk /\ n = Aligned(t)
  OBVIOUS
<1>1. pc[t] = "take" /\ TakeChunk(p, c, n) /\ Give(t, BlockOf(p, c))
  BY DEF TakeFoundChunk
<1>2. ShowInv' /\ Seen!Give(t, BlockOf(p, c))
  BY <1>1, GiveSeen
<1>3. /\ SeenPc[t] = pc[t] /\ SeenFrame[t] = frame[t] /\ Seen!Aligned(t) = n
      /\ Seen!BlockOf(p, c) = BlockOf(p, c) /\ Seen!TakeChunk(p, c, n) = TakeChunk(p, c, n)
  BY Ordinary, SameCall, SameSizes, SameHeap
<1> QED BY <1>1, <1>2, <1>3 DEF Seen!TakeFoundChunk

LEMMA AddLargePageSeen ==
  ASSUME ShowInv, NEW t \in Threads, ~ Showing(t), AddLargePage(t)
  PROVE  ShowInv' /\ Seen!AddLargePage(t)
<1> PICK n, z : n = Aligned(t) /\ z = Destination(t)
  OBVIOUS
<1>1. pc[t] = "allocate" /\ GetZoneType(n) = "LARGE_ZONE" /\ MmapAccepts(n)
  BY DEF AddLargePage
<1>2. PICK p \in Pages :
        MmapMayReturn(p) /\ MapLargePage(p, n, z) /\ Give(t, BlockOf(p, PageHeader))
  BY DEF AddLargePage
<1>3. ShowInv' /\ Seen!Give(t, BlockOf(p, PageHeader))
  BY <1>1, <1>2, GiveSeen
<1>4. /\ Seen!Aligned(t) = n /\ Seen!Destination(t) = z /\ SeenPc[t] = pc[t]
      /\ Seen!MmapMayReturn(p) = MmapMayReturn(p)
  BY SameCall, Ordinary
<1>5. /\ Seen!MapLargePage(p, n, z) = MapLargePage(p, n, z)
      /\ Seen!GetZoneType(n) = GetZoneType(n) /\ Seen!MmapAccepts(n) = MmapAccepts(n)
      /\ Seen!PageHeader = PageHeader
      /\ Seen!BlockOf(p, PageHeader) = BlockOf(p, PageHeader)
  BY SameHeap, SameSizes
<1> QED BY <1>1, <1>2, <1>3, <1>4, <1>5 DEF Seen!AddLargePage
(* A block is given back.                                                  *)
LEMMA FreePageSeen ==
  ASSUME ShowInv, NEW t \in Threads, ~ Showing(t), FreePage(t)
  PROVE  ShowInv' /\ Seen!FreePage(t)
<1> PICK f, ptr : f = frame[t] /\ ptr = f.ptr
  OBVIOUS
<1>1. /\ pc[t] = "free" /\ ptr # NULL /\ FreesWholePage(ptr) /\ UnmapPage(PageOf(ptr))
      /\ TakeBack(ptr, ContentsWithout(PageOf(ptr)))
      /\ Goto(t, "exit") /\ UNCHANGED <<lock, frame>>
  BY DEF FreePage
<1>2. /\ IsCall(f) /\ SeenPc[t] = pc[t] /\ SeenFrame[t] = f /\ HoldsItsOwn(t)
      /\ f.op # "show_alloc_mem"
  BY Ordinary DEF Showing
<1>3. /\ IsOrdinary(t) /\ pc'[t] = "exit" /\ frame'[t] = f /\ Seen!Goto(t, "exit")
      /\ SeenFrame' = SeenFrame /\ SeenLock' = SeenLock
  BY <1>1, <1>2, OrdinaryStep DEF StepsTo
<1>4. OwnChange(t) /\ HeldBy(t)' \subseteq HeldBy(t) \ {ptr}
  BY <1>1, BlockTakenBack
<1>5. HoldsItsOwn(t)'
  BY <1>1, <1>2, <1>3, <1>4 DEF HoldsItsOwn, Showing
<1>6. LockMoves(t) /\ pc'[t] \in Labels
  BY <1>1, <1>3 DEF LockMoves, Critical, Labels
<1>7. ShowInv'
  BY <1>1, <1>2, <1>3, <1>4, <1>5, <1>6, OrdinaryInv
<1>8. /\ Seen!FreesWholePage(ptr) = FreesWholePage(ptr) /\ Seen!PageOf(ptr) = PageOf(ptr)
      /\ Seen!UnmapPage(PageOf(ptr)) = UnmapPage(PageOf(ptr))
      /\ Seen!ContentsWithout(PageOf(ptr)) = ContentsWithout(PageOf(ptr))
      /\ \A left : Seen!TakeBack(ptr, left) = TakeBack(ptr, left)
  BY SameCall, SameSizes, SameHeap DEF Seen!TakeBack, TakeBack, Seen!Restrict, Restrict
<1> QED BY <1>1, <1>2, <1>3, <1>7, <1>8 DEF Seen!FreePage

LEMMA FreeChunkSeen ==
  ASSUME ShowInv, NEW t \in Threads, ~ Showing(t), FreeChunk(t)
  PROVE  ShowInv' /\ Seen!FreeChunk(t)
<1> PICK f, ptr, g : f = frame[t] /\ ptr = f.ptr /\ g = [f EXCEPT !.page = PageOf(ptr)]
  OBVIOUS
<1>1. /\ IsCall(f) /\ SeenPc[t] = pc[t] /\ SeenFrame[t] = f /\ HoldsItsOwn(t)
      /\ f.op # "show_alloc_mem" /\ DOMAIN frame = Threads
      /\ DOMAIN SeenFrame = Threads
  BY Ordinary DEF Showing, SeenFrame
<1>2. /\ pc[t] = "free" /\ ptr # NULL /\ ~ FreesWholePage(ptr)
      /\ PutChunk(PageOf(ptr), ChunkOf(ptr)) /\ TakeBack(ptr, content)
      /\ frame' = [frame EXCEPT ![t] = g] /\ Goto(t, "release") /\ lock' = lock
  BY <1>1 DEF FreeChunk
<1>3. IsCall(g) /\ g.op = f.op /\ g.ptr = f.ptr /\ g.new = f.new
  BY <1>1, PageAssigned
<1>4. frame' = frame => g = frame[t]
  BY <1>1, <1>2
<1>5. /\ IsOrdinary(t) /\ pc'[t] = "release" /\ frame'[t] = g /\ Seen!Goto(t, "release")
      /\ SeenFrame' = [SeenFrame EXCEPT ![t] = g] /\ SeenLock' = SeenLock
  <2>1. g.op # "show_alloc_mem"
    BY <1>1, <1>3
  <2>2. StepsTo(t, "release", g)
    BY <1>2, <1>4, <2>1 DEF StepsTo
  <2> QED BY <1>2, <2>2, OrdinaryStep
<1>6. OwnChange(t) /\ HeldBy(t)' \subseteq HeldBy(t) \ {ptr}
  BY <1>2, BlockTakenBack
<1>7. HoldsItsOwn(t)'
  <2>1. HeldBy(t) \subseteq {ptr, f.new} /\ ~ Showing(t)'
    BY <1>1, <1>2, <1>5 DEF HoldsItsOwn, IsOrdinary
  <2> QED BY <1>3, <1>5, <1>6, <2>1 DEF HoldsItsOwn
<1>8. LockMoves(t) /\ pc'[t] \in Labels
  BY <1>2, <1>5 DEF LockMoves, Critical, Labels
<1>9. ShowInv'
  BY <1>2, <1>3, <1>5, <1>6, <1>7, <1>8, OrdinaryInv
<1>10. /\ Seen!FreesWholePage(ptr) = FreesWholePage(ptr) /\ Seen!PageOf(ptr) = PageOf(ptr)
       /\ Seen!ChunkOf(ptr) = ChunkOf(ptr)
       /\ Seen!PutChunk(PageOf(ptr), ChunkOf(ptr)) = PutChunk(PageOf(ptr), ChunkOf(ptr))
       /\ Seen!TakeBack(ptr, content) = TakeBack(ptr, content)
  BY SameCall, SameSizes, SameHeap DEF Seen!TakeBack, TakeBack, Seen!Restrict, Restrict
<1>11. SeenFrame' = [SeenFrame EXCEPT ![t].page = Seen!PageOf(SeenFrame[t].ptr)]
  BY <1>1, <1>5, <1>10
<1> QED BY <1>1, <1>2, <1>5, <1>9, <1>10, <1>11 DEF Seen!FreeChunk

(* A call returns; its thread holds nothing then.                          *)
LEMMA FinishSeen ==
  ASSUME ShowInv, NEW t \in Threads, ~ Showing(t), Finish(t), OwnChange(t),
         HeldBy(t)' = {}
  PROVE  ShowInv' /\ Seen!Finish(t)
<1>1. /\ pc[t] = "return" /\ Goto(t, "idle") /\ UNCHANGED <<heapVars, lock>>
      /\ frame' = [frame EXCEPT ![t] = NoFrame]
  BY DEF Finish
<1>2. /\ DOMAIN frame = Threads /\ SeenPc[t] = pc[t]
      /\ IsCall(NoFrame) /\ NoFrame.op # "show_alloc_mem"
  BY Ordinary DEF IsCall, NoFrame, FrameFields
<1>3. frame' = frame => NoFrame = frame[t]
  BY <1>1, <1>2
<1>4. /\ IsOrdinary(t) /\ pc'[t] = "idle" /\ frame'[t] = NoFrame /\ Seen!Goto(t, "idle")
      /\ SeenFrame' = [SeenFrame EXCEPT ![t] = NoFrame] /\ SeenLock' = SeenLock
  BY <1>1, <1>2, <1>3, OrdinaryStep DEF StepsTo
<1>5. HoldsItsOwn(t)' /\ LockMoves(t) /\ pc'[t] \in Labels
  BY <1>1, <1>4 DEF HoldsItsOwn, LockMoves, Critical, Labels
<1>6. ShowInv'
  BY <1>1, <1>2, <1>4, <1>5, OrdinaryInv
<1>7. Seen!NoFrame = NoFrame
  BY DEF Seen!NoFrame, NoFrame
<1> QED BY <1>1, <1>2, <1>4, <1>6, <1>7 DEF Seen!Finish, Seen!heapVars, heapVars

LEMMA ReturnNewBlockSeen ==
  ASSUME ShowInv, NEW t \in Threads, ~ Showing(t), ReturnNewBlock(t)
  PROVE  ShowInv' /\ Seen!ReturnNewBlock(t)
<1> PICK f, new, size : f = frame[t] /\ new = f.new /\ size = f.size
  OBVIOUS
<1>1. /\ f.ptr = NULL /\ new # NULL /\ Finish(t) /\ pc[t] = "return"
      /\ IF f.op = "calloc"
         THEN /\ owned' = [owned EXCEPT ![new] = Block(NoThread, size, Zero, size)]
              /\ UNCHANGED content
         ELSE \E tag \in Tags :
                /\ owned' = [owned EXCEPT ![new] = Block(NoThread, size, tag, size)]
                /\ content' = [content EXCEPT ![new] = Bytes(tag, size)]
  BY DEF ReturnNewBlock, Finish
<1>2. SeenFrame[t] = f /\ HoldsItsOwn(t)
  BY Ordinary
<1>3. PICK tag : owned' = [owned EXCEPT ![new] = Block(NoThread, size, tag, size)]
  BY <1>1
<1>4. OwnChange(t) /\ HeldBy(t)' \subseteq HeldBy(t) \ {new}
  BY <1>3, BlockAssigned, ProgramAssumption
<1>5. HeldBy(t)' = {}
  BY <1>1, <1>2, <1>4 DEF HoldsItsOwn
<1>6. ShowInv' /\ Seen!Finish(t)
  BY <1>1, <1>4, <1>5, FinishSeen
<1>7. \A b : /\ Seen!Block(NoThread, size, b, size) = Block(NoThread, size, b, size)
             /\ Seen!Bytes(b, size) = Bytes(b, size)
  BY DEF Seen!Block, Block, Seen!Bytes, Bytes
<1> QED BY <1>1, <1>2, <1>6, <1>7 DEF Seen!ReturnNewBlock

LEMMA ReturnReallocatedSeen ==
  ASSUME ShowInv, NEW t \in Threads, ~ Showing(t), ReturnReallocated(t)
  PROVE  ShowInv' /\ Seen!ReturnReallocated(t)
<1> PICK f, new, size, tag, kept :
      /\ f = frame[t] /\ new = f.new /\ size = f.size
      /\ tag = owned[new].tag /\ kept = Lesser(owned[new].kept, size)
  OBVIOUS
<1>1. /\ f.ptr # NULL /\ new # NULL /\ Finish(t) /\ pc[t] = "return"
      /\ owned' = [owned EXCEPT ![new] = Block(NoThread, size, tag, kept)]
      /\ UNCHANGED content
  BY DEF ReturnReallocated, Finish
<1>2. SeenFrame[t] = f /\ HoldsItsOwn(t)
  BY Ordinary
<1>3. OwnChange(t) /\ HeldBy(t)' \subseteq HeldBy(t) \ {new}
  <2> PICK a, b : owned' = [owned EXCEPT ![new] = Block(NoThread, size, a, b)]
    BY <1>1
  <2> QED BY BlockAssigned, ProgramAssumption
<1>4. HeldBy(t)' = {}
  BY <1>1, <1>2, <1>3 DEF HoldsItsOwn
<1>5. ShowInv' /\ Seen!Finish(t)
  BY <1>1, <1>3, <1>4, FinishSeen
<1>6. /\ Seen!Block(NoThread, size, tag, kept) = Block(NoThread, size, tag, kept)
      /\ Seen!Lesser(owned[new].kept, size) = kept
  BY DEF Seen!Block, Block, Seen!Lesser, Lesser
<1>7. owned' = [owned EXCEPT ![new] =
        Seen!Block(NoThread, size, @.tag, Seen!Lesser(@.kept, size))]
  BY <1>1, <1>6
<1> QED BY <1>1, <1>2, <1>5, <1>7 DEF Seen!ReturnReallocated

LEMMA ReturnNullSeen ==
  ASSUME ShowInv, NEW t \in Threads, ~ Showing(t), ReturnNull(t)
  PROVE  ShowInv' /\ Seen!ReturnNull(t)
<1>1. /\ frame[t].new = NULL /\ Finish(t) /\ UNCHANGED content
      /\ owned' = [ptr \in DOMAIN owned |->
                     IF owned[ptr].by = t THEN [owned[ptr] EXCEPT !.by = NoThread]
                     ELSE owned[ptr]]
  BY DEF ReturnNull
<1>2. OwnedAreBlocks /\ NoThread # t /\ SeenFrame[t] = frame[t]
  BY Ordinary DEF ShowInv
<1>3. /\ DOMAIN owned' = DOMAIN owned
      /\ owned' = [ptr \in DOMAIN owned' |-> owned'[ptr]]
  BY <1>1
<1>4. ASSUME NEW ptr \in DOMAIN owned
      PROVE  /\ IsBlock(owned'[ptr])
             /\ owned'[ptr].by = IF owned[ptr].by = t THEN NoThread ELSE owned[ptr].by
  <2> PICK b : b = owned[ptr]
    OBVIOUS
  <2>1. IsBlock(b) /\ owned'[ptr] = IF b.by = t THEN [b EXCEPT !.by = NoThread] ELSE b
    BY <1>1, <1>2 DEF OwnedAreBlocks
  <2>2. [b EXCEPT !.by = NoThread] = Block(NoThread, b.size, b.tag, b.kept)
    BY <2>1 DEF IsBlock, Block
  <2> QED BY <2>1, <2>2 DEF IsBlock, Block
<1>5. OwnChange(t) /\ HeldBy(t)' = {}
  BY <1>2, <1>3, <1>4 DEF OwnChange, OwnedAreBlocks, HeldBy
<1>6. ShowInv' /\ Seen!Finish(t)
  BY <1>1, <1>5, FinishSeen
<1> QED BY <1>1, <1>2, <1>6 DEF Seen!ReturnNull
-----------------------------------------------------------------------------
(* A call begins; its thread holds the block it passes.                    *)
IsFrameOf(f, op, ptr, size) ==
  f = [op |-> op, ptr |-> ptr, size |-> size, new |-> NULL, page |-> NULL, chunk |-> 0]

LEMMA CallMade ==
  ASSUME NEW op, NEW ptr, NEW size, NEW f, IsFrameOf(f, op, ptr, size)
  PROVE  f = [NoFrame EXCEPT !.op = op, !.ptr = ptr, !.size = size]
<1> PICK g, h : IsFrameOf(g, op, NULL, 0) /\ IsFrameOf(h, op, ptr, 0)
  BY DEF IsFrameOf
<1>1. g = [NoFrame EXCEPT !.op = op]
  BY DEF IsFrameOf, NoFrame
<1>2. h = [g EXCEPT !.ptr = ptr]
  BY DEF IsFrameOf
<1>3. f = [h EXCEPT !.size = size]
  BY DEF IsFrameOf
<1> QED BY <1>1, <1>2, <1>3

LEMMA CallFields ==
  ASSUME NEW op, NEW ptr, NEW size, NEW f, IsFrameOf(f, op, ptr, size)
  PROVE  IsCall(f) /\ f.op = op /\ f.ptr = ptr /\ f.new = NULL
BY DEF IsFrameOf, IsCall, FrameFields

LEMMA CallSeen ==
  ASSUME ShowInv, NEW t \in Threads, NEW op \in CallsOfProgram, NEW ptr, NEW size,
         NEW l \in {"enter", "return"}, Call(t, op, ptr, size, l), OwnChange(t),
         HeldBy(t)' \subseteq HeldBy(t) \cup ({ptr} \ {NULL})
  PROVE  ShowInv' /\ Seen!Call(t, op, ptr, size, l) /\ ~ Showing(t)
<1> PICK f : IsFrameOf(f, op, ptr, size)
  BY DEF IsFrameOf
<1>1. /\ pc[t] = "idle" /\ op \in Ops /\ Goto(t, l) /\ UNCHANGED <<heapVars, lock, content>>
      /\ frame' = [frame EXCEPT ![t] = f]
  <2>1. f = [NoFrame EXCEPT !.op = op, !.ptr = ptr, !.size = size]
    BY CallMade
  <2> QED BY <2>1 DEF Call
<1>2. ~ Showing(t)
  BY <1>1 DEF ShowInv, Showing, NoFrame
<1>3. /\ DOMAIN frame = Threads /\ SeenPc[t] = pc[t] /\ HoldsItsOwn(t)
  BY <1>2, Ordinary
<1>4. frame' = frame => f = frame[t]
  BY <1>1, <1>3
<1>5. IsCall(f) /\ f.op = op /\ f.ptr = ptr /\ f.new = NULL
  BY CallFields
<1>6. f.op # "show_alloc_mem"
  BY <1>5 DEF CallsOfProgram
<1>7. /\ IsOrdinary(t) /\ pc'[t] = l /\ frame'[t] = f /\ Seen!Goto(t, l)
      /\ SeenFrame' = [SeenFrame EXCEPT ![t] = f] /\ SeenLock' = SeenLock
  BY <1>1, <1>2, <1>4, <1>6, OrdinaryStep DEF StepsTo
<1>8. HoldsItsOwn(t)'
  <2>1. HeldBy(t)' \subseteq {ptr} \ {NULL} /\ ~ Showing(t)'
    BY <1>1, <1>3, <1>7 DEF HoldsItsOwn, IsOrdinary
  <2> QED BY <1>5, <1>7, <2>1 DEF HoldsItsOwn
<1>9. LockMoves(t) /\ pc'[t] \in Labels /\ pc'[t] # "idle"
  BY <1>1, <1>7 DEF LockMoves, Critical, Labels
<1>10. ShowInv'
  BY <1>1, <1>5, <1>7, <1>8, <1>9, OrdinaryInv
<1>11. f = [Seen!NoFrame EXCEPT !.op = op, !.ptr = ptr, !.size = size]
  <2>1. Seen!NoFrame = NoFrame
    BY DEF Seen!NoFrame, NoFrame
  <2> QED BY <2>1, CallMade
<1> QED BY <1>1, <1>2, <1>3, <1>7, <1>10, <1>11 DEF Seen!Call, Seen!heapVars, heapVars

(* A dump asks for no block and returns none, so there is as much room.    *)
LEMMA RoomSeen ==
  ASSUME ShowInv, Room
  PROVE  Seen!Room
<1> PICK S, R : /\ S = {t \in Threads : pc[t] # "idle" /\ frame[t].ptr = NULL}
                /\ R = {t \in Threads : SeenPc[t] # "idle" /\ SeenFrame[t].ptr = NULL}
  OBVIOUS
<1>1. R \subseteq S
  BY DEF ShowInv, Shows, SeenPc, SeenFrame
<1>2. IsFiniteSet(S) /\ IsFiniteSet(R) /\ IsFiniteSet(DOMAIN owned)
  BY ThreadsAssumption, FS_Subset DEF ShowInv, OwnedAreBlocks
<1>3. /\ Cardinality(R) <= Cardinality(S) /\ Cardinality(R) \in Nat
      /\ Cardinality(S) \in Nat /\ Cardinality(DOMAIN owned) \in Nat
  BY <1>1, <1>2, FS_Subset, FS_CardinalityType
<1>4. Cardinality(DOMAIN owned) + Cardinality(S) < MaxBlocks
  BY DEF Room
<1>5. Cardinality(DOMAIN owned) + Cardinality(R) < MaxBlocks
  BY <1>3, <1>4, ProgramAssumption
<1>6. /\ Seen!Cardinality(DOMAIN owned) = Cardinality(DOMAIN owned)
      /\ Seen!Cardinality(R) = Cardinality(R)
  BY DEF Seen!Cardinality, Cardinality
<1> QED BY <1>5, <1>6 DEF Seen!Room

LEMMA BeginSeen ==
  ASSUME ShowInv, NEW t \in Threads, Begin(t)
  PROVE  ShowInv' /\ Seen!Begin(t)
<1>1. \A m, n : Seen!AfterCheck(m, n) = AfterCheck(m, n)
  BY SameSizes DEF Seen!AfterCheck, AfterCheck
<1>2. \A ptr : Seen!Pass(t, ptr) = Pass(t, ptr)
  BY DEF Seen!Pass, Pass
<1>3. \A m, n : AfterCheck(m, n) \in {"enter", "return"}
  BY DEF AfterCheck
<1>4. CASE CallMalloc(t)
  <2>1. PICK size \in Sizes : Room /\ Call(t, "malloc", NULL, size, "enter") /\ owned' = owned
    BY <1>4 DEF CallMalloc
  <2>2. ShowInv' /\ Seen!Call(t, "malloc", NULL, size, "enter")
    BY <2>1, CallSeen, BlocksKept DEF CallsOfProgram
  <2> QED BY <2>1, <2>2, RoomSeen DEF Seen!Begin, Seen!CallMalloc
<1>5. CASE CallFree(t)
  <2>1. PICK ptr \in DOMAIN owned \cup {NULL} : Call(t, "free", ptr, 0, "enter") /\ Pass(t, ptr)
    BY <1>5 DEF CallFree
  <2>2. ShowInv' /\ Seen!Call(t, "free", ptr, 0, "enter")
    BY <2>1, CallSeen, BlockPassed DEF CallsOfProgram
  <2> QED BY <1>2, <2>1, <2>2 DEF Seen!Begin, Seen!CallFree
<1>6. CASE CallRealloc(t)
  <2>1. PICK ptr \in DOMAIN owned \cup {NULL}, size \in Sizes :
          (ptr = NULL => Room) /\ Call(t, "realloc", ptr, size, "enter") /\ Pass(t, ptr)
    BY <1>6 DEF CallRealloc
  <2>2. ShowInv' /\ Seen!Call(t, "realloc", ptr, size, "enter")
    BY <2>1, CallSeen, BlockPassed DEF CallsOfProgram
  <2> QED BY <1>2, <2>1, <2>2, RoomSeen DEF Seen!Begin, Seen!CallRealloc
<1>7. CASE CallCalloc(t)
  <2>1. PICK nmemb \in Counts, size \in Sizes :
          /\ Room /\ owned' = owned
          /\ Call(t, "calloc", NULL, nmemb * size % (SIZE_MAX + 1), AfterCheck(nmemb, size))
    BY <1>7 DEF CallCalloc
  <2> PICK n, l : n = nmemb * size % (SIZE_MAX + 1) /\ l = AfterCheck(nmemb, size)
    OBVIOUS
  <2>2. ShowInv' /\ Seen!Call(t, "calloc", NULL, n, l)
    BY <1>3, <2>1, CallSeen, BlocksKept DEF CallsOfProgram
  <2> QED BY <1>1, <2>1, <2>2, RoomSeen DEF Seen!Begin, Seen!CallCalloc
<1>8. CASE CallReallocarray(t)
  <2>1. PICK ptr \in DOMAIN owned \cup {NULL}, nmemb \in Counts, size \in Sizes :
          /\ (ptr = NULL => Room) /\ Pass(t, ptr)
          /\ Call(t, "reallocarray", ptr, nmemb * size % (SIZE_MAX + 1),
                  AfterCheck(nmemb, size))
    BY <1>8 DEF CallReallocarray
  <2> PICK n, l : n = nmemb * size % (SIZE_MAX + 1) /\ l = AfterCheck(nmemb, size)
    OBVIOUS
  <2>2. ShowInv' /\ Seen!Call(t, "reallocarray", ptr, n, l)
    BY <1>3, <2>1, CallSeen, BlockPassed DEF CallsOfProgram
  <2> QED BY <1>1, <1>2, <2>1, <2>2, RoomSeen DEF Seen!Begin, Seen!CallReallocarray
<1> QED BY <1>4, <1>5, <1>6, <1>7, <1>8 DEF Begin

(* A fault kills the printing threads with the others.                     *)
LEMMA FaultSeen ==
  ASSUME ShowInv, NEW t \in Threads, ~ Showing(t), Fault(t)
  PROVE  ShowInv' /\ Seen!Fault(t)
<1>1. /\ ~ Survives(t) /\ pc' = [u \in Threads |-> "killed"]
      /\ UNCHANGED <<heapVars, lock, frame, owned, content>>
  BY DEF Fault
<1>2. "killed" \in Labels /\ "killed" \notin DumpLabels
  BY DEF Labels, DumpLabels, Dumping
<1>3. \A u \in Threads : HoldsItsOwn(u)'
  BY <1>1 DEF ShowInv, HoldsItsOwn, HeldBy, Showing
<1>4. OwnedAreBlocks'
  BY <1>1, BlocksKept DEF OwnChange
<1>5. ShowInv'
  BY <1>1, <1>2, <1>3, <1>4 DEF ShowInv, IsCall, Locks, Showing, Shows
<1>6. \A u \in Threads : Showing(u)' <=> Showing(u)
  BY <1>1 DEF Showing
<1>7. SeenPc' = [u \in Threads |-> "killed"]
  BY <1>1 DEF SeenPc
<1>8. SeenFrame' = SeenFrame /\ SeenLock' = SeenLock
  BY <1>1, <1>6 DEF SeenFrame, SeenLock
<1>9. Seen!Survives(t) = Survives(t)
  BY SameCall
<1> QED BY <1>1, <1>5, <1>7, <1>8, <1>9 DEF Seen!Fault, Seen!heapVars, heapVars

LEMMA ProceedSeen ==
  ASSUME ShowInv, NEW t \in Threads, ~ Showing(t), Proceed(t)
  PROVE  ShowInv' /\ Seen!Proceed(t)
<1>1. CASE Fault(t)
  BY <1>1, FaultSeen DEF Seen!Proceed
<1>2. CASE ~ Fault(t)
  <2>1. Seen!Survives(t) /\ Survives(t)
    BY <1>2, SameCall DEF Proceed
  <2>2. CASE Enter(t) \/ Exit(t) \/ ReallocInPlace(t) \/ ReallocElsewhere(t)
    BY <2>1, <2>2, EnterSeen, ExitSeen, ReallocSeen DEF Seen!Proceed
  <2>3. CASE \/ FindFreeChunk(t) \/ AddMediumPage(t) \/ TakeFoundChunk(t)
             \/ AddLargePage(t) \/ AllocateNothing(t)
    BY <2>1, <2>3, FindFreeChunkSeen, AddMediumPageSeen, TakeFoundChunkSeen,
       AddLargePageSeen, AllocateNothingSeen DEF Seen!Proceed
  <2>4. CASE \/ CopyBlock(t) \/ FreeNull(t) \/ FreePage(t) \/ FreeChunk(t)
             \/ ReleasePage(t) \/ KeepPage(t)
    BY <2>1, <2>4, CopySeen, FreeNullSeen, FreePageSeen, FreeChunkSeen, ReleaseSeen
       DEF Seen!Proceed
  <2>5. CASE Clear(t) \/ ReturnNewBlock(t) \/ ReturnReallocated(t) \/ ReturnNull(t)
    BY <2>1, <2>5, ClearSeen, ReturnNewBlockSeen, ReturnReallocatedSeen, ReturnNullSeen
       DEF Seen!Proceed
  <2> QED BY <1>2, <2>2, <2>3, <2>4, <2>5 DEF Proceed
<1> QED BY <1>1, <1>2
-----------------------------------------------------------------------------
(* The program with its dumps.                                             *)

LEMMA InitSeen ==
  ASSUME ShowInit
  PROVE  ShowInv /\ Seen!Init
<1>1. /\ HeapInit /\ lock = NoThread /\ owned = <<>> /\ content = <<>>
      /\ pc = [t \in Threads |-> "idle"]
      /\ frame = [t \in Threads |-> NoFrame]
  BY DEF ShowInit, Init
<1>2. IsCall(NoFrame) /\ NoFrame.op # "show_alloc_mem" /\ NoFrame.new = NULL
  BY DEF IsCall, NoFrame, FrameFields
<1>3. "idle" \in Labels /\ "idle" \notin DumpLabels \cup Critical \cup Dumping
  BY DEF Labels, DumpLabels, Dumping, Critical
<1>4. \A t \in Threads : ~ Showing(t) /\ HeldBy(t) = {}
  BY <1>1, <1>2 DEF Showing, HeldBy
<1>5. OwnedAreBlocks
  BY <1>1, FS_EmptySet DEF OwnedAreBlocks
<1>6. \A t \in Threads : Locks(t) /\ HoldsItsOwn(t)
  BY <1>1, <1>3, <1>4, ProgramAssumption DEF Locks, HoldsItsOwn
<1>7. ShowInv
  BY <1>1, <1>2, <1>3, <1>4, <1>5, <1>6 DEF ShowInv
<1>8. /\ SeenPc = [t \in Threads |-> "idle"] /\ SeenLock = NoThread
      /\ SeenFrame = [t \in Threads |-> NoFrame]
  BY <1>1, <1>4 DEF SeenPc, SeenLock, SeenFrame
<1>9. Seen!HeapInit /\ Seen!NoFrame = NoFrame
  BY <1>1 DEF Seen!HeapInit, HeapInit, Seen!ZoneTypes, ZoneTypes,
     Seen!NoFrame, NoFrame
<1> QED BY <1>1, <1>7, <1>8, <1>9 DEF Seen!Init

LEMMA StepSeen ==
  ASSUME ShowInv, [ShowNext]_showVars
  PROVE  ShowInv' /\ [Seen!Next]_SeenVars
<1>1. CASE UNCHANGED showVars
  <2>1. UNCHANGED <<heapVars, lock, pc, frame, owned, content>>
    BY <1>1 DEF showVars, vars
  <2>2. ShowInv'
    BY <2>1 DEF ShowInv, IsCall, Locks, Showing, Shows, HoldsItsOwn, HeldBy,
       OwnedAreBlocks, IsBlock
  <2>3. UNCHANGED SeenVars
    BY <2>1 DEF SeenVars, SeenLock, SeenPc, SeenFrame, Showing
  <2> QED BY <2>2, <2>3
<1>2. CASE ShowNext
  <2>1. PICK t \in Threads : Begin(t) \/ StepOfDump(t) \/ Proceed(t)
    BY <1>2 DEF ShowNext, ProceedShow, StepOfDump
  <2>2. CASE Begin(t)
    BY <2>2, BeginSeen DEF Seen!Next
  <2>3. CASE StepOfDump(t)
    BY <2>3, DumpPrints, PrintingUnseen
  <2>4. CASE Proceed(t) /\ Showing(t)
    BY <2>4, DumpReturns, PrintingUnseen
  <2>5. CASE Proceed(t) /\ ~ Showing(t)
    BY <2>5, ProceedSeen DEF Seen!Next
  <2> QED BY <2>1, <2>2, <2>3, <2>4, <2>5
<1> QED BY <1>1, <1>2

(* Where the threads are, what they hold and who has the lock, among dumps.*)
THEOREM ShowInvariance == ShowSpec => []ShowInv
<1>1. ShowInit => ShowInv
  BY InitSeen
<1>2. ShowInv /\ [ShowNext]_showVars => ShowInv'
  BY StepSeen
<1> QED BY <1>1, <1>2, PTL DEF ShowSpec

(* Leaving the calls of show_alloc_mem out of any run of the program gives *)
(* a run of module Malloc.  It can do so because a dump changes nothing of *)
(* the heap or of the program's blocks, asks for no block, and because its *)
(* thread, when it has the lock, is the only one that does anything under  *)
(* it: a thread that allocates or frees meanwhile would do it in Malloc    *)
(* with the lock free.                                                     *)
THEOREM DumpsGoUnseen == ShowSpec => DumpIsUnseen
<1>1. ShowInit => Seen!Init
  BY InitSeen
<1>2. ShowInv /\ [ShowNext]_showVars => [Seen!Next]_(Seen!vars)
  BY StepSeen DEF Seen!vars, SeenVars, Seen!heapVars, heapVars
<1> QED BY <1>1, <1>2, ShowInvariance, PTL DEF ShowSpec, DumpIsUnseen, Seen!Spec

(* A step of another call that changes the heap is made under the lock.    *)
LEMMA HeapIsLocked ==
  ASSUME ShowInv, NEW t \in Threads, Begin(t) \/ Proceed(t)
  PROVE  pc[t] \in Critical \/ UNCHANGED heapVars
<1>1. CASE Begin(t)
  BY <1>1 DEF Begin, CallMalloc, CallFree, CallRealloc, CallCalloc, CallReallocarray,
     Call
<1>2. CASE Fault(t) \/ Enter(t) \/ Exit(t) \/ Clear(t)
  BY <1>2 DEF Fault, Enter, Exit, Clear
<1>3. CASE ReturnNewBlock(t) \/ ReturnReallocated(t) \/ ReturnNull(t)
  BY <1>3 DEF ReturnNewBlock, ReturnReallocated, ReturnNull, Finish
<1>4. CASE \/ ReallocInPlace(t) \/ ReallocElsewhere(t) \/ FindFreeChunk(t)
           \/ AddMediumPage(t) \/ TakeFoundChunk(t) \/ AddLargePage(t)
           \/ AllocateNothing(t) \/ CopyBlock(t) \/ FreeNull(t) \/ FreePage(t)
           \/ FreeChunk(t) \/ ReleasePage(t) \/ KeepPage(t)
  BY <1>4 DEF ReallocInPlace, ReallocElsewhere, FindFreeChunk, AddMediumPage,
     TakeFoundChunk, AddLargePage, AllocateNothing, CopyBlock, FreeNull, FreePage,
     FreeChunk, ReleasePage, KeepPage, Critical
<1> QED BY <1>1, <1>2, <1>3, <1>4 DEF Proceed

(* Under a dump there is no such step.                                     *)
LEMMA HeapIsStill ==
  ASSUME ShowInv, ShowNext, NEW u \in Threads, pc[u] \in Dumping
  PROVE  UNCHANGED heapVars
<1>1. PICK t \in Threads : Begin(t) \/ StepOfDump(t) \/ Proceed(t)
  BY DEF ShowNext, ProceedShow, StepOfDump
<1>2. CASE StepOfDump(t)
  BY <1>2, DumpPrints DEF IsPrinting
<1>3. CASE Begin(t) \/ Proceed(t)
  <2>1. lock = u /\ "killed" \notin Critical \cup Dumping /\ Critical \cap Dumping = {}
    BY DEF ShowInv, Locks, Dumping, Critical
  <2>2. pc[t] \in Critical => lock = t
    BY <2>1 DEF ShowInv, Locks
  <2>3. pc[t] \notin Critical
    BY <2>1, <2>2
  <2> QED BY <1>3, <2>3, HeapIsLocked
<1> QED BY <1>1, <1>2, <1>3

(* Nothing in the heap changes from the first line of a dump to its last.  *)
THEOREM HeapStaysStill == ShowSpec => DumpedHeapIsStill
<1>1. ShowInv /\ [ShowNext]_showVars
        => [\A t \in Threads : pc[t] \in Dumping => UNCHANGED heapVars]_showVars
  BY HeapIsStill
<1> QED BY <1>1, ShowInvariance, PTL DEF ShowSpec, DumpedHeapIsStill
-----------------------------------------------------------------------------
(* What is searched for and what is to be printed: two functions that are  *)
(* defined by recursion.                                                   *)

(* A function that is defined from one number to the next exists.          *)
IsStepwise(f, n, V, base, step) ==
  /\ f \in [0 .. n -> V]
  /\ f[0] = base
  /\ \A i \in 1 .. n : f[i] = step[i][f[i - 1]]

LEMMA StepByStep ==
  ASSUME NEW V, NEW base \in V, NEW step \in [Nat -> [V -> V]], NEW m \in Nat
  PROVE  \E f : IsStepwise(f, m, V, base, step)
<1> DEFINE IsDefined(f, n) == IsStepwise(f, n, V, base, step)
           D == {n \in Nat : ~ \E f : IsDefined(f, n)}
<1> USE DEF IsStepwise
<1>1. SUFFICES ASSUME D # {} PROVE FALSE
  OBVIOUS
<1>2. PICK n \in D : \A k \in D : n <= k
  <2>1. D \in SUBSET Nat
    OBVIOUS
  <2> HIDE DEF D
  <2> QED BY <1>1, <2>1, LeastNumber
<1>3. n # 0
  <2>1. IsDefined([i \in 0 .. 0 |-> base], 0)
    OBVIOUS
  <2> QED BY <1>2, <2>1, ZenonT(60)
<1>4. n \in Nat /\ n - 1 \in Nat /\ n - 1 \notin D
  <2>1. n \in Nat
    OBVIOUS
  <2> HIDE DEF D
  <2> QED BY <1>2, <1>3, <2>1
<1>5. PICK f : IsDefined(f, n - 1)
  BY <1>4
<1> DEFINE g == [i \in 0 .. n |-> IF i = n THEN step[n][f[n - 1]] ELSE f[i]]
<1>6. f[n - 1] \in V /\ step[n] \in [V -> V]
  BY <1>4, <1>5
<1>7. g \in [0 .. n -> V] /\ g[0] = base
  BY <1>3, <1>4, <1>5, <1>6
<1>8. ASSUME NEW i \in 1 .. n PROVE g[i] = step[i][g[i - 1]]
  <2>1. i - 1 \in 0 .. n /\ i - 1 # n /\ g[i - 1] = f[i - 1]
    BY <1>4
  <2>2. CASE i = n
    BY <2>1, <2>2
  <2>3. CASE i # n
    <3>1. i \in 1 .. n - 1 /\ g[i] = f[i]
      BY <1>4, <2>3
    <3> QED BY <1>5, <2>1, <3>1
  <2> QED BY <2>2, <2>3
<1>9. IsDefined(g, n)
  BY <1>7, <1>8
<1> QED BY <1>2, <1>9

(* What the search of the dump finds.                                      *)
IsNextInOrder(next, A, after) ==
  /\ next \in Nat
  /\ next = 0 => \A a \in A : a <= after
  /\ next # 0 => /\ next \in A /\ after < next
                 /\ \A a \in A : after < a => next <= a

LEMMA SearchFindsNext ==
  ASSUME NEW list \in Seq(Nat \ {0}), NEW after \in Nat
  PROVE  IsNextInOrder(FindNextInOrder(list, after), Range(list), after)
<1> DEFINE Better(n, next) == /\ after = 0 \/ list[n] > after
                              /\ next = 0 \/ list[n] < next
           Body(f) == [n \in 0 .. Len(list) |->
                         IF n = 0 THEN 0
                         ELSE IF Better(n, f[n - 1]) THEN list[n] ELSE f[n - 1]]
           step == [n \in Nat |-> [v \in Nat |->
                      IF n \in DOMAIN list /\ Better(n, v) THEN list[n] ELSE v]]
<1>1. /\ Len(list) \in Nat /\ DOMAIN list = 1 .. Len(list)
      /\ \A i \in DOMAIN list : list[i] \in Nat \ {0}
  OBVIOUS
<1>2. \E f : f = Body(f)
  <2>1. step \in [Nat -> [Nat -> Nat]]
    BY <1>1
  <2>2. \A n \in 1 .. Len(list), v \in Nat :
          step[n][v] = IF Better(n, v) THEN list[n] ELSE v
    BY <1>1
  <2> HIDE DEF step, Better
  <2>3. PICK f : IsStepwise(f, Len(list), Nat, 0, step)
    BY <1>1, <2>1, StepByStep
  <2>4. \A n \in 0 .. Len(list) : f[n] = Body(f)[n]
    <3> TAKE n \in 0 .. Len(list)
    <3>1. CASE n = 0
      BY <2>3, <3>1 DEF IsStepwise
    <3>2. CASE n # 0
      <4>1. n \in 1 .. Len(list) /\ n - 1 \in 0 .. Len(list)
        BY <1>1, <3>2
      <4>2. f[n - 1] \in Nat /\ f[n] = step[n][f[n - 1]]
        BY <2>3, <4>1 DEF IsStepwise
      <4> QED BY <2>2, <3>2, <4>1, <4>2
    <3> QED BY <3>1, <3>2
  <2>5. f = Body(f)
    BY <2>3, <2>4 DEF IsStepwise
  <2> QED BY <2>5
<1> DEFINE next == CHOOSE f : f = Body(f)
           First(n) == {list[i] : i \in 1 .. n}
           D == {n \in 0 .. Len(list) : ~ IsNextInOrder(next[n], First(n), after)}
<1>3. next = Body(next)
  BY <1>2
<1>4. FindNextInOrder(list, after) = next[Len(list)]
  BY DEF FindNextInOrder
<1> HIDE DEF next
<1>5. D = {}
  <2>1. SUFFICES ASSUME D # {} PROVE FALSE
    OBVIOUS
  <2>2. PICK n \in D : \A k \in D : n <= k
    <3>1. D \in SUBSET Nat
      BY <1>1
    <3> HIDE DEF D
    <3> QED BY <2>1, <3>1, LeastNumber
  <2>3. n \in 0 .. Len(list)
    OBVIOUS
  <2>4. n # 0
    <3>1. next[0] = 0
      BY <1>1, <1>3
    <3>2. First(0) = {}
      OBVIOUS
    <3> QED BY <2>2, <3>1, <3>2 DEF IsNextInOrder
  <2>5. n \in 1 .. Len(list) /\ n - 1 \in 0 .. Len(list) /\ n - 1 \notin D
    <3> HIDE DEF D
    <3> QED BY <1>1, <2>2, <2>3, <2>4
  <2>6. IsNextInOrder(next[n - 1], First(n - 1), after)
    BY <2>5
  <2>7. next[n] = IF Better(n, next[n - 1]) THEN list[n] ELSE next[n - 1]
    <3>1. Body(next)[n] = IF n = 0 THEN 0
                          ELSE IF Better(n, next[n - 1]) THEN list[n] ELSE next[n - 1]
      BY <2>3
    <3> HIDE DEF Body, Better
    <3> QED BY <1>3, <2>4, <3>1
  <2>8. First(n) = First(n - 1) \cup {list[n]}
    <3>1. 1 .. n = (1 .. n - 1) \cup {n}
      BY <1>1, <2>5
    <3> QED BY <3>1
  <2>9. list[n] \in Nat \ {0} /\ \A a \in First(n - 1) : a \in Nat \ {0}
    BY <1>1, <2>5
  <2>10. IsNextInOrder(next[n], First(n), after)
    <3> HIDE DEF First
    <3> QED BY <2>6, <2>7, <2>8, <2>9 DEF IsNextInOrder
  <2> QED BY <2>2, <2>10
<1>6. IsNextInOrder(next[Len(list)], First(Len(list)), after)
  <2>1. Len(list) \notin D
    BY <1>5
  <2> QED BY <1>1, <2>1
<1>7. First(Len(list)) = Range(list)
  BY <1>1 DEF Range
<1> QED BY <1>4, <1>6, <1>7

-----------------------------------------------------------------------------
(* What LinesUpTo computes.                                                *)

(* The highest address of a list.                                          *)
LEMMA HighestFacts ==
  ASSUME NEW list \in Seq(Nat \ {0})
  PROVE  /\ Highest(list) \in Nat
         /\ \A a \in Range(list) : a \in 1 .. Highest(list)
         /\ list # <<>> => Highest(list) \in Range(list)
<1>1. /\ Len(list) \in Nat /\ DOMAIN list = 1 .. Len(list)
      /\ \A i \in DOMAIN list : list[i] \in Nat \ {0}
      /\ \A a \in Range(list) : a \in Nat \ {0}
  BY DEF Range
<1>2. CASE list = <<>>
  BY <1>2 DEF Highest, Range
<1>3. CASE list # <<>>
  <2> DEFINE Bounds(n) == {a \in Nat : \A i \in 1 .. n : list[i] <= a}
             D == {n \in 0 .. Len(list) : Bounds(n) = {}}
  <2>1. D = {}
    <3>1. SUFFICES ASSUME D # {} PROVE FALSE
      OBVIOUS
    <3>2. PICK n \in D : \A k \in D : n <= k
      <4>1. D \in SUBSET Nat
        BY <1>1
      <4> HIDE DEF D
      <4> QED BY <3>1, <4>1, LeastNumber
    <3>3. n \in 0 .. Len(list) /\ Bounds(n) = {}
      OBVIOUS
    <3>4. 0 \in Bounds(0)
      OBVIOUS
    <3>5. n \in 1 .. Len(list) /\ n - 1 \in 0 .. Len(list) /\ n - 1 \notin D
      <4>1. n # 0
        BY <3>3, <3>4
      <4> HIDE DEF D, Bounds
      <4> QED BY <1>1, <3>2, <3>3, <4>1
    <3>6. PICK a \in Nat : \A i \in 1 .. n - 1 : list[i] <= a
      BY <3>5
    <3>7. 1 .. n = (1 .. n - 1) \cup {n} /\ list[n] \in Nat
      BY <1>1, <3>5
    <3> DEFINE b == IF a < list[n] THEN list[n] ELSE a
    <3>8. b \in Nat /\ \A i \in 1 .. n : list[i] <= b
      <4>1. b \in Nat /\ a <= b /\ list[n] <= b
        BY <3>6, <3>7
      <4>2. ASSUME NEW i \in 1 .. n PROVE list[i] <= b
        <5>1. CASE i = n
          BY <4>1, <5>1
        <5>2. CASE i # n
          <6>1. i \in 1 .. n - 1 /\ list[i] \in Nat
            BY <1>1, <3>5, <5>2
          <6> QED BY <3>6, <4>1, <6>1
        <5> QED BY <5>1, <5>2
      <4> QED BY <4>1, <4>2
    <3>9. b \in Bounds(n)
      BY <3>8
    <3> QED BY <3>3, <3>9
  <2> HIDE DEF D
  <2> DEFINE Upper == {a \in Nat : \A b \in Range(list) : b <= a}
  <2>2. Upper # {}
    <3>1. PICK a \in Nat : \A i \in 1 .. Len(list) : list[i] <= a
      <4>1. Bounds(Len(list)) # {}
        <5>1. Len(list) \in 0 .. Len(list)
          BY <1>1
        <5> HIDE DEF Bounds
        <5> QED BY <2>1, <5>1 DEF D
      <4> QED BY <4>1
    <3>2. a \in Upper
      BY <1>1, <3>1 DEF Range
    <3> QED BY <3>2
  <2>3. PICK m \in Upper : \A k \in Upper : m <= k
    <3>1. Upper \in SUBSET Nat
      OBVIOUS
    <3> HIDE DEF Upper
    <3> QED BY <2>2, <3>1, LeastNumber
  <2>4. m \in Range(list)
    <3>1. SUFFICES ASSUME m \notin Range(list) PROVE FALSE
      OBVIOUS
    <3>2. m \in Nat /\ \A b \in Range(list) : b <= m /\ b # m
      BY <3>1
    <3>3. list[1] \in Range(list)
      BY <1>1, <1>3 DEF Range
    <3>4. m - 1 \in Nat
      BY <1>1, <3>2, <3>3
    <3>5. m - 1 \in Upper
      BY <1>1, <3>2, <3>4
    <3> QED BY <2>3, <3>4, <3>5
  <2>5. \E x \in Range(list) : \A y \in Range(list) : x >= y
    BY <1>1, <2>3, <2>4
  <2>6. /\ Max(Range(list)) \in Range(list)
        /\ \A y \in Range(list) : Max(Range(list)) >= y
    BY <2>5 DEF Max
  <2> QED BY <1>1, <1>3, <2>6 DEF Highest
<1> QED BY <1>2, <1>3

(* LinesUpTo is what its equation says, and what it gives are lines.       *)
LEMMA LinesUpToFacts ==
  ASSUME NEW list \in Seq(Nat \ {0}), NEW S, NEW lines \in [Range(list) -> Seq(S)]
  PROVE  LET upTo == LinesUpTo(list, lines)
         IN /\ upTo[0] = <<>>
            /\ \A a \in 0 .. Highest(list) : upTo[a] \in Seq(S)
            /\ \A a \in 1 .. Highest(list) :
                 upTo[a] = upTo[a - 1] \o (IF a \in Range(list) THEN lines[a] ELSE <<>>)
<1> DEFINE H == Highest(list)
           Lines(a) == IF a \in Range(list) THEN lines[a] ELSE <<>>
           Body(f) == [a \in 0 .. H |->
                         IF a = 0 THEN <<>> ELSE f[a - 1] \o Lines(a)]
           step == [a \in Nat |-> [v \in Seq(S) |-> v \o Lines(a)]]
<1>1. H \in Nat
  BY HighestFacts
<1>2. \A a : Lines(a) \in Seq(S)
  OBVIOUS
<1> HIDE DEF Lines, H
<1>3. PICK g : IsStepwise(g, H, Seq(S), <<>>, step)
  <2>1. step \in [Nat -> [Seq(S) -> Seq(S)]]
    BY <1>2
  <2>2. <<>> \in Seq(S)
    OBVIOUS
  <2> HIDE DEF step
  <2> QED BY <1>1, <2>1, <2>2, StepByStep
<1>4. g = Body(g)
  <2>1. g \in [0 .. H -> Seq(S)] /\ g[0] = <<>>
        /\ \A a \in 1 .. H : g[a] = step[a][g[a - 1]]
    BY <1>3 DEF IsStepwise
  <2>2. ASSUME NEW a \in 0 .. H PROVE g[a] = Body(g)[a]
    <3>1. CASE a = 0
      BY <2>1, <3>1
    <3>2. CASE a # 0
      <4>1. a \in 1 .. H /\ a - 1 \in 0 .. H /\ a \in Nat
        BY <1>1, <3>2
      <4>2. g[a - 1] \in Seq(S) /\ g[a] = step[a][g[a - 1]]
        BY <2>1, <4>1
      <4> QED BY <3>2, <4>1, <4>2
    <3> QED BY <3>1, <3>2
  <2> QED BY <2>1, <2>2
<1> DEFINE upTo == CHOOSE f : f = Body(f)
<1>5. upTo = Body(upTo)
  BY <1>4
<1>6. LinesUpTo(list, lines) = upTo
  BY DEF LinesUpTo, Lines, H
<1> HIDE DEF upTo
<1>7. upTo[0] = <<>> /\ \A a \in 1 .. H : upTo[a] = upTo[a - 1] \o Lines(a)
  <2>1. ASSUME NEW a \in 0 .. H
        PROVE  Body(upTo)[a] = IF a = 0 THEN <<>> ELSE upTo[a - 1] \o Lines(a)
    OBVIOUS
  <2> HIDE DEF Body
  <2>2. \A a \in 0 .. H : upTo[a] = IF a = 0 THEN <<>> ELSE upTo[a - 1] \o Lines(a)
    BY <1>5, <2>1
  <2>3. upTo[0] = <<>>
    BY <1>1, <2>2
  <2>4. ASSUME NEW a \in 1 .. H PROVE upTo[a] = upTo[a - 1] \o Lines(a)
    <3>1. a \in 0 .. H /\ a # 0
      BY <1>1
    <3> QED BY <2>2, <3>1
  <2> QED BY <2>3, <2>4
<1> DEFINE D == {a \in 0 .. H : upTo[a] \notin Seq(S)}
<1>8. D = {}
  <2>1. SUFFICES ASSUME D # {} PROVE FALSE
    OBVIOUS
  <2>2. PICK n \in D : \A k \in D : n <= k
    <3>1. D \in SUBSET Nat
      BY <1>1
    <3> HIDE DEF D
    <3> QED BY <2>1, <3>1, LeastNumber
  <2>3. n \in 0 .. H /\ upTo[n] \notin Seq(S)
    OBVIOUS
  <2>4. <<>> \in Seq(S)
    OBVIOUS
  <2>5. n # 0
    BY <1>7, <2>3, <2>4
  <2>6. n \in 1 .. H /\ n - 1 \in 0 .. H /\ n - 1 \notin D
    <3> HIDE DEF D
    <3> QED BY <1>1, <2>2, <2>3, <2>5
  <2>7. upTo[n - 1] \in Seq(S) /\ upTo[n] = upTo[n - 1] \o Lines(n)
    BY <1>7, <2>6
  <2>8. upTo[n] \in Seq(S)
    BY <1>2, <2>7, ConcatProperties
  <2> QED BY <2>3, <2>8
<1> QED BY <1>6, <1>7, <1>8 DEF H, Lines
-----------------------------------------------------------------------------
(* What is proved of Malloc holds of the heap with dumps: the theorems of  *)
(* MallocProofs, of the calls that are seen.                               *)
Alone ==
  INSTANCE MallocProofs WITH lock <- SeenLock, pc <- SeenPc, frame <- SeenFrame

(* What MallocProofs assumes of the constants is assumed here.             *)
LEMMA AloneAssumptions == Alone!GeometryAssumption /\ Alone!ProgramAssumption
BY GeometryAssumption, ProgramAssumption
   DEF Alone!PageHeader, PageHeader, Alone!ChunkHeader, ChunkHeader,
       Alone!AlignUp, AlignUp, Alone!AlignDown, AlignDown

(* Both are instances of one module, step by step.                         *)
LEMMA SeenIsAlone ==
  /\ Seen!Init => Alone!Init
  /\ [Seen!Next]_(Seen!vars) => [Alone!Next]_(Alone!vars)
<1> USE DEF Alone!heapVars, Seen!heapVars, Alone!vars, Seen!vars, Alone!Goto,
            Seen!Goto, Alone!AlignDown, Seen!AlignDown, Alone!AlignUp,
            Seen!AlignUp, Alone!PageHeader, Seen!PageHeader,
            Alone!ChunkHeader, Seen!ChunkHeader, Alone!GetZoneFromSize,
            Seen!GetZoneFromSize, Alone!GetZoneType, Seen!GetZoneType,
            Alone!GetZoneFullSize, Seen!GetZoneFullSize, Alone!TotalSize,
            Seen!TotalSize, Alone!FirstChunkSize, Seen!FirstChunkSize,
            Alone!MmapAccepts, Seen!MmapAccepts, Alone!RejectsProduct,
            Seen!RejectsProduct, Alone!DataOfChunk, Seen!DataOfChunk,
            Alone!GetChunkFromData, Seen!GetChunkFromData, Alone!Range,
            Seen!Range, Alone!Cons, Seen!Cons, Alone!RemoveFirst,
            Seen!RemoveFirst, Alone!RemoveAt, Seen!RemoveAt,
            Alone!SelectInSeq, Seen!SelectInSeq, Alone!Min, Seen!Min,
            Alone!Restrict, Seen!Restrict, Alone!Assign, Seen!Assign,
            Alone!Chunks, Seen!Chunks, Alone!HasChunk, Seen!HasChunk,
            Alone!IsFirstPage, Seen!IsFirstPage, Alone!IsFirstFit,
            Seen!IsFirstFit, Alone!NoPageFits, Seen!NoPageFits, Alone!MapPage,
            Seen!MapPage, Alone!MapMediumPage, Seen!MapMediumPage,
            Alone!MapLargePage, Seen!MapLargePage, Alone!Splits, Seen!Splits,
            Alone!Rest, Seen!Rest, Alone!TakeChunk, Seen!TakeChunk,
            Alone!PutChunk, Seen!PutChunk, Alone!HasNeighbour,
            Seen!HasNeighbour, Alone!UnmapPage, Seen!UnmapPage, Alone!NoFrame,
            Seen!NoFrame, Alone!PageOf, Seen!PageOf, Alone!ChunkOf,
            Seen!ChunkOf, Alone!SizeOfChunk, Seen!SizeOfChunk, Alone!BlockOf,
            Seen!BlockOf, Alone!Block, Seen!Block, Alone!Bytes, Seen!Bytes,
            Alone!Lesser, Seen!Lesser, Alone!Room, Seen!Room, Alone!Pass,
            Seen!Pass, Alone!AfterCheck, Seen!AfterCheck, Alone!FirstStep,
            Seen!FirstStep, Alone!StaysInPlace, Seen!StaysInPlace,
            Alone!Aligned, Seen!Aligned, Alone!Destination, Seen!Destination,
            Alone!Found, Seen!Found, Alone!MmapMayReturn, Seen!MmapMayReturn,
            Alone!Promise, Seen!Promise, Alone!Give, Seen!Give,
            Alone!CopySize, Seen!CopySize, Alone!TakeBack, Seen!TakeBack,
            Alone!ContentsWithout, Seen!ContentsWithout,
            Alone!FreesWholePage, Seen!FreesWholePage, Alone!IsSpare,
            Seen!IsSpare, Alone!Finish, Seen!Finish, Alone!Touches,
            Seen!Touches, Alone!Survives, Seen!Survives
<1>1. Seen!Init => Alone!Init
  BY DEF Seen!Init, Alone!Init, Seen!HeapInit, Alone!HeapInit, Seen!ZoneTypes,
     Alone!ZoneTypes
<1>2. Seen!vars = Alone!vars
  OBVIOUS
<1>3. ASSUME NEW t, Seen!Begin(t) PROVE Alone!Begin(t)
  <2>1. ASSUME NEW op, NEW ptr, NEW size, NEW l, Seen!Call(t, op, ptr, size, l)
        PROVE  Alone!Call(t, op, ptr, size, l)
    BY <2>1 DEF Seen!Call, Alone!Call
  <2>2. Seen!Room <=> Alone!Room
    BY DEF Seen!Cardinality, Alone!Cardinality, Seen!IsFiniteSet, Alone!IsFiniteSet
  <2>3. ASSUME NEW ptr PROVE Seen!Pass(t, ptr) <=> Alone!Pass(t, ptr)
    OBVIOUS
  <2>4. ASSUME NEW m, NEW n
        PROVE  Seen!AfterCheck(m, n) = Alone!AfterCheck(m, n)
    OBVIOUS
  <2> HIDE DEF Seen!Room, Alone!Room, Seen!Pass, Alone!Pass, Seen!AfterCheck,
               Alone!AfterCheck
  <2>5. Seen!CallMalloc(t) => Alone!CallMalloc(t)
    BY <2>1, <2>2, <2>3, <2>4 DEF Seen!CallMalloc, Alone!CallMalloc
  <2>6. Seen!CallFree(t) => Alone!CallFree(t)
    BY <2>1, <2>2, <2>3, <2>4 DEF Seen!CallFree, Alone!CallFree
  <2>7. Seen!CallRealloc(t) => Alone!CallRealloc(t)
    BY <2>1, <2>2, <2>3, <2>4 DEF Seen!CallRealloc, Alone!CallRealloc
  <2>8. Seen!CallCalloc(t) => Alone!CallCalloc(t)
    BY <2>1, <2>2, <2>3, <2>4 DEF Seen!CallCalloc, Alone!CallCalloc
  <2>9. Seen!CallReallocarray(t) => Alone!CallReallocarray(t)
    BY <2>1, <2>2, <2>3, <2>4 DEF Seen!CallReallocarray, Alone!CallReallocarray
  <2> QED BY <1>3, <2>5, <2>6, <2>7, <2>8, <2>9 DEF Seen!Begin, Alone!Begin
<1>4. ASSUME NEW t, Seen!Proceed(t) PROVE Alone!Proceed(t)
  <2>1. Seen!Enter(t) => Alone!Enter(t)
    BY DEF Seen!Enter, Alone!Enter
  <2>2. Seen!Exit(t) => Alone!Exit(t)
    BY DEF Seen!Exit, Alone!Exit
  <2>3. Seen!ReallocInPlace(t) => Alone!ReallocInPlace(t)
    BY DEF Seen!ReallocInPlace, Alone!ReallocInPlace
  <2>4. Seen!ReallocElsewhere(t) => Alone!ReallocElsewhere(t)
    BY DEF Seen!ReallocElsewhere, Alone!ReallocElsewhere
  <2>5. Seen!FindFreeChunk(t) => Alone!FindFreeChunk(t)
    BY Zenon DEF Seen!FindFreeChunk, Alone!FindFreeChunk
  <2>6. Seen!AddMediumPage(t) => Alone!AddMediumPage(t)
    BY Zenon DEF Seen!AddMediumPage, Alone!AddMediumPage
  <2>7. Seen!TakeFoundChunk(t) => Alone!TakeFoundChunk(t)
    BY Zenon DEF Seen!TakeFoundChunk, Alone!TakeFoundChunk
  <2>8. Seen!AddLargePage(t) => Alone!AddLargePage(t)
    BY Zenon DEF Seen!AddLargePage, Alone!AddLargePage
  <2>9. Seen!AllocateNothing(t) => Alone!AllocateNothing(t)
    BY Zenon DEF Seen!AllocateNothing, Alone!AllocateNothing
  <2>10. Seen!CopyBlock(t) => Alone!CopyBlock(t)
    BY DEF Seen!CopyBlock, Alone!CopyBlock
  <2>11. Seen!FreeNull(t) => Alone!FreeNull(t)
    BY DEF Seen!FreeNull, Alone!FreeNull
  <2>12. Seen!FreePage(t) => Alone!FreePage(t)
    BY Zenon DEF Seen!FreePage, Alone!FreePage
  <2>13. Seen!FreeChunk(t) => Alone!FreeChunk(t)
    BY Zenon DEF Seen!FreeChunk, Alone!FreeChunk
  <2>14. Seen!ReleasePage(t) => Alone!ReleasePage(t)
    BY DEF Seen!ReleasePage, Alone!ReleasePage
  <2>15. Seen!KeepPage(t) => Alone!KeepPage(t)
    BY DEF Seen!KeepPage, Alone!KeepPage
  <2>16. Seen!Clear(t) => Alone!Clear(t)
    BY DEF Seen!Clear, Alone!Clear
  <2>17. Seen!ReturnNewBlock(t) => Alone!ReturnNewBlock(t)
    BY Zenon DEF Seen!ReturnNewBlock, Alone!ReturnNewBlock
  <2>18. Seen!ReturnReallocated(t) => Alone!ReturnReallocated(t)
    BY DEF Seen!ReturnReallocated, Alone!ReturnReallocated
  <2>19. Seen!ReturnNull(t) => Alone!ReturnNull(t)
    BY DEF Seen!ReturnNull, Alone!ReturnNull
  <2>20. Seen!Fault(t) => Alone!Fault(t)
    BY DEF Seen!Fault, Alone!Fault
  <2>21. Seen!Survives(t) => Alone!Survives(t)
    OBVIOUS
  <2> HIDE DEF Seen!Survives, Alone!Survives
  <2> QED BY <1>4, <2>1, <2>2, <2>3, <2>4, <2>5, <2>6, <2>7, <2>8, <2>9, <2>10, <2>11,
          <2>12, <2>13, <2>14, <2>15, <2>16, <2>17, <2>18, <2>19, <2>20, <2>21
       DEF Seen!Proceed, Alone!Proceed
<1> QED BY <1>1, <1>2, <1>3, <1>4 DEF Seen!Next, Alone!Next

(* With dumps among the calls, every step keeps IInv of the calls.         *)
THEOREM InvarianceWithDumps == ShowSpec => []Alone!IInv
<1>1. Alone!Init => Alone!IInv
  BY Alone!InitInv, AloneAssumptions
<1>2. Alone!IInv /\ [Alone!Next]_(Alone!vars) => Alone!IInv'
  BY Alone!NextInv, AloneAssumptions
<1> QED BY <1>1, <1>2, SeenIsAlone, DumpsGoUnseen, PTL DEF DumpIsUnseen, Seen!Spec

(* So the heap is sound all the time, the lists and the chunks a dump goes *)
(* through among them.                                                     *)
THEOREM HeapIsSound == ShowSpec => []HeapInv
<1>1. Alone!IInv => HeapInv
  <2> USE DEF Alone!HeapInv, HeapInv
  <2>1. Alone!HeapTypeOK => HeapTypeOK
    BY DEF Alone!HeapTypeOK, HeapTypeOK, Alone!ZoneTypes, ZoneTypes
  <2>2. Alone!ZonesLinkMappedPages => ZonesLinkMappedPages
    BY DEF Alone!ZonesLinkMappedPages, ZonesLinkMappedPages, Alone!ZoneTypes, ZoneTypes,
       Alone!IsInjective, IsInjective, Alone!Range, Range
  <2>3. Alone!UnmappedPagesAreBlank => UnmappedPagesAreBlank
    BY DEF Alone!UnmappedPagesAreBlank, UnmappedPagesAreBlank, Alone!Chunks, Chunks
  <2>4. Alone!ChunksAreListedOnce => ChunksAreListedOnce
    BY DEF Alone!ChunksAreListedOnce, ChunksAreListedOnce, Alone!Chunks, Chunks,
       Alone!IsInjective, IsInjective, Alone!Range, Range
  <2>5. Alone!ChunksTilePage => ChunksTilePage
    BY DEF Alone!ChunksTilePage, ChunksTilePage, Alone!Chunks, Chunks,
       Alone!EndOfChunk, EndOfChunk, Alone!PageHeader, PageHeader, Alone!ChunkHeader,
       ChunkHeader, Alone!AlignUp, AlignUp, Alone!AlignDown, AlignDown
  <2> QED BY <2>1, <2>2, <2>3, <2>4, <2>5 DEF Alone!IInv
<1> QED BY <1>1, InvarianceWithDumps, PTL
-----------------------------------------------------------------------------
(* From one element of a list to the next there are no other lines.        *)
GoOn(list, S, lines, a) ==
  LET next == FindNextInOrder(list, a)
      upTo == LinesUpTo(list, lines)
  IN /\ a \in 0 .. Highest(list) /\ upTo[a] \in Seq(S)
     /\ next # 0 => /\ next \in Range(list) /\ upTo[next - 1] = upTo[a]
                    /\ upTo[next] = upTo[a] \o lines[next]
     /\ next = 0 => /\ upTo[Highest(list)] = upTo[a]
                    /\ a = 0 <=> list = <<>>

LEMMA LinesGoOn ==
  ASSUME NEW list \in Seq(Nat \ {0}), NEW S, NEW lines \in [Range(list) -> Seq(S)],
         NEW a \in {0} \cup Range(list)
  PROVE  GoOn(list, S, lines, a)
<1> USE DEF GoOn
<1> DEFINE next == FindNextInOrder(list, a)
           upTo == LinesUpTo(list, lines)
           H == Highest(list)
<1>1. /\ H \in Nat /\ \A b \in Range(list) : b \in 1 .. H
      /\ list # <<>> => H \in Range(list)
  BY HighestFacts
<1>2. /\ upTo[0] = <<>>
      /\ \A b \in 0 .. H : upTo[b] \in Seq(S)
      /\ \A b \in 1 .. H :
           upTo[b] = upTo[b - 1] \o (IF b \in Range(list) THEN lines[b] ELSE <<>>)
  BY LinesUpToFacts
<1>3. a \in 0 .. H /\ a \in Nat
  BY <1>1
<1>4. IsNextInOrder(next, Range(list), a)
  BY <1>3, SearchFindsNext
<1> HIDE DEF next, upTo, H
<1>5. CASE next # 0
  <2>1. /\ next \in Range(list) /\ a < next /\ next \in 1 .. H
        /\ \A b \in Range(list) : a < b => next <= b
    BY <1>1, <1>4, <1>5 DEF IsNextInOrder
  <2> DEFINE D == {b \in a .. next - 1 : upTo[b] # upTo[a]}
  <2>2. D = {}
    <3>1. SUFFICES ASSUME D # {} PROVE FALSE
      OBVIOUS
    <3>2. PICK b \in D : \A k \in D : b <= k
      <4>1. D \in SUBSET Nat
        BY <1>3, <2>1
      <4> HIDE DEF D
      <4> QED BY <3>1, <4>1, LeastNumber
    <3>3. b \in a .. next - 1 /\ upTo[b] # upTo[a]
      OBVIOUS
    <3>4. b - 1 \in a .. next - 1 /\ b - 1 \notin D /\ b \in 1 .. H
      <4>1. b # a
        BY <3>3
      <4> HIDE DEF D
      <4> QED BY <1>1, <1>3, <2>1, <3>2, <3>3, <4>1
    <3>5. b \notin Range(list)
      BY <1>1, <1>3, <2>1, <3>3, <3>4
    <3>6. upTo[b] = upTo[b - 1] \o <<>>
      BY <1>2, <3>4, <3>5
    <3>7. upTo[b - 1] \in Seq(S) /\ upTo[b - 1] = upTo[a]
      BY <1>1, <1>2, <3>4
    <3> QED BY <3>3, <3>6, <3>7, ConcatEmptySeq
  <2>3. next - 1 \in a .. next - 1
    BY <1>1, <1>3, <2>1
  <2>4. upTo[next - 1] = upTo[a]
    BY <2>2, <2>3
  <2>5. upTo[next] = upTo[next - 1] \o lines[next]
    BY <1>2, <2>1
  <2> QED BY <1>2, <1>3, <1>5, <2>1, <2>4, <2>5 DEF next, upTo, H
<1>6. CASE next = 0
  <2>1. \A b \in Range(list) : b <= a
    BY <1>4, <1>6 DEF IsNextInOrder
  <2>2. list = <<>> => Range(list) = {}
    BY DEF Range
  <2>3. CASE list = <<>>
    <3>1. a = 0 /\ H = 0
      BY <2>2, <2>3 DEF H, Highest
    <3> QED BY <1>2, <1>3, <1>6, <2>3, <3>1 DEF next, upTo, H
  <2>4. CASE list # <<>>
    <3>1. H \in Range(list) /\ H <= a /\ H # 0
      BY <1>1, <2>1, <2>4
    <3>2. a = H /\ a # 0
      BY <1>1, <1>3, <3>1
    <3> QED BY <1>2, <1>3, <1>6, <2>4, <3>2 DEF next, upTo, H
  <2> QED BY <2>3, <2>4
<1> QED BY <1>5, <1>6

(* A list has the type of its elements.                                    *)
LEMMA ListOfOthers ==
  ASSUME NEW S, NEW T, NEW list \in Seq(S), Range(list) \subseteq T
  PROVE  list \in Seq(T)
<1>1. /\ Len(list) \in Nat /\ list = [i \in 1 .. Len(list) |-> list[i]]
      /\ DOMAIN list = 1 .. Len(list)
  OBVIOUS
<1>2. \A i \in 1 .. Len(list) : list[i] \in T
  BY <1>1 DEF Range
<1> QED BY <1>1, <1>2, SeqDef

(* The lists of the heap and what a dump says of them.                     *)
AnyLine ==
  {"TINY_ZONE", "SMALL_ZONE", "LARGE_ZONE", "Allocation chunks", "Free chunks", "None"}
    \cup {PageLine(p) : p \in Pages}
    \cup {ChunkLine(x[1], x[2]) : x \in Pages \X Nat}

PagesOf(z) == zone[Titles[z]]

LEMMA ListsOfHeap ==
  ASSUME HeapInv
  PROVE  /\ \A z \in 1 .. 3 : /\ PagesOf(z) \in Seq(Nat \ {0})
                             /\ Range(PagesOf(z)) \subseteq Pages
         /\ \A p \in Pages : /\ allocation[p] \in Seq(Nat \ {0})
                            /\ free[p] \in Seq(Nat \ {0})
<1>1. HeapTypeOK /\ UnmappedPagesAreBlank /\ ChunksAreListedOnce /\ ChunksTilePage
  BY DEF HeapInv
<1>2. ASSUME NEW z \in 1 .. 3
      PROVE  PagesOf(z) \in Seq(Nat \ {0}) /\ Range(PagesOf(z)) \subseteq Pages
  <2>1. Titles[z] \in ZoneTypes
    BY DEF Titles, ZoneTypes
  <2>2. PagesOf(z) \in Seq(Pages)
    BY <1>1, <2>1 DEF PagesOf, HeapTypeOK
  <2>3. Range(PagesOf(z)) \subseteq Pages
    BY <2>2 DEF Range
  <2>4. Range(PagesOf(z)) \subseteq Nat \ {0}
    BY <2>3, AddressAssumption
  <2> QED BY <2>2, <2>3, <2>4, ListOfOthers
<1>3. PageHeader \in Nat \ {0}
  <2>1. SIZEOF_PAGE \in Nat \ {0} /\ SIZEOF_PAGE + (ALIGNMENT - 1) <= SIZE_MAX
        /\ ALIGNMENT \in Nat \ {0} /\ SIZE_MAX \in Nat
    BY ConstantFacts
  <2>2. SIZEOF_PAGE \in Nat /\ SIZEOF_PAGE > 0
    BY <2>1
  <2>3. SIZEOF_PAGE <= PageHeader
    BY ONLY <2>1, <2>2, AlignUpFacts DEF PageHeader
  <2> QED BY <2>2, <2>3, HeaderFacts
<1>4. ASSUME NEW p \in Pages, NEW list \in {allocation[p], free[p]}
      PROVE  list \in Seq(Nat \ {0})
  <2>1. list \in Seq(Nat)
    BY <1>1 DEF HeapTypeOK
  <2>2. CASE p \in mapped
    <3>1. \A c \in Chunks(p) : c >= PageHeader
      BY <1>1, <2>2 DEF ChunksTilePage
    <3>2. Range(list) \subseteq Chunks(p)
      BY <1>1 DEF ChunksAreListedOnce
    <3>3. Chunks(p) \subseteq Nat
      BY <1>1 DEF HeapTypeOK, Chunks
    <3>4. \A c \in Chunks(p) : c \in Nat \ {0}
      BY <1>3, <3>1, <3>3
    <3>5. Range(list) \subseteq Nat \ {0}
      BY <3>2, <3>4
    <3> QED BY <2>1, <3>5, ListOfOthers
  <2>3. CASE p \notin mapped
    <3>1. allocation[p] = <<>> /\ free[p] = <<>>
      BY <1>1, <2>3 DEF UnmappedPagesAreBlank
    <3>2. list = <<>>
      BY <3>1
    <3> QED BY <3>2
  <2> QED BY <2>2, <2>3
<1> QED BY <1>2, <1>4

(* One search further down a list of chunks: the line of the chunk that    *)
(* was found is the only one to add, and when none is found they are       *)
(* complete.                                                               *)
LEMMA LinesOfChunksFacts ==
  ASSUME HeapInv, NEW p \in Pages, NEW list \in {allocation[p], free[p]},
         NEW c \in {0} \cup Range(list)
  PROVE  LET next == FindNextInOrder(list, c)
             upTo == LinesOfChunks(p, list)
         IN /\ list \in Seq(Nat \ {0})
            /\ upTo[0] = <<>> /\ upTo[c] \in Seq(AnyLine)
            /\ ChunkLines(p, list) \in Seq(AnyLine)
            /\ next # 0 => /\ next \in Range(list)
                           /\ <<ChunkLine(p, next)>> \in Seq(AnyLine)
                           /\ upTo[next] = upTo[c] \o <<ChunkLine(p, next)>>
            /\ next = 0 =>
                 ChunkLines(p, list) = upTo[c] \o (IF c = 0 THEN <<"None">> ELSE <<>>)
<1> DEFINE next == FindNextInOrder(list, c)
           upTo == LinesOfChunks(p, list)
           lines == [d \in Range(list) |-> <<ChunkLine(p, d)>>]
           H == Highest(list)
<1>1. list \in Seq(Nat \ {0})
  BY ListsOfHeap
<1>2. \A d \in Range(list) : <<ChunkLine(p, d)>> \in Seq(AnyLine)
  <2>1. \A d \in Range(list) : d \in Nat
    BY <1>1 DEF Range
  <2>2. ASSUME NEW d \in Range(list) PROVE ChunkLine(p, d) \in AnyLine
    <3>1. <<p, d>> \in Pages \X Nat /\ <<p, d>>[1] = p /\ <<p, d>>[2] = d
      BY <2>1
    <3> HIDE DEF ChunkLine
    <3> QED BY <3>1 DEF AnyLine
  <2> QED BY <2>2
<1>3. lines \in [Range(list) -> Seq(AnyLine)]
  BY <1>2
<1>4. upTo = LinesUpTo(list, lines)
  BY DEF LinesOfChunks
<1> HIDE DEF lines, upTo, H, next
<1>5. /\ upTo[0] = <<>> /\ \A a \in 0 .. H : upTo[a] \in Seq(AnyLine)
  BY <1>1, <1>3, <1>4, LinesUpToFacts DEF H
<1>6. /\ c \in 0 .. H /\ upTo[c] \in Seq(AnyLine)
      /\ next # 0 => next \in Range(list) /\ upTo[next] = upTo[c] \o lines[next]
      /\ next = 0 => upTo[H] = upTo[c] /\ (c = 0 <=> list = <<>>)
  <2>1. GoOn(list, AnyLine, lines, c)
    BY <1>1, <1>3, LinesGoOn
  <2> QED BY <1>4, <2>1 DEF GoOn, H, next
<1>7. next # 0 => upTo[next] = upTo[c] \o <<ChunkLine(p, next)>>
  BY <1>6 DEF lines
<1>8. ChunkLines(p, list) \in Seq(AnyLine)
  <2>1. <<"None">> \in Seq(AnyLine)
    BY DEF AnyLine
  <2>2. H \in 0 .. H
    BY <1>1, HighestFacts DEF H
  <2> QED BY <1>5, <2>1, <2>2 DEF ChunkLines, H, upTo
<1>9. next = 0 => ChunkLines(p, list) = upTo[c] \o (IF c = 0 THEN <<"None">> ELSE <<>>)
  <2>1. CASE next = 0 /\ c = 0
    <3>1. upTo[c] = <<>> /\ ChunkLines(p, list) = <<"None">>
      BY <1>5, <1>6, <2>1 DEF ChunkLines, H, upTo
    <3>2. <<"None">> \in Seq(AnyLine)
      BY DEF AnyLine
    <3> QED BY <2>1, <3>1, <3>2, ConcatEmptySeq
  <2>2. CASE next = 0 /\ c # 0
    <3>1. ChunkLines(p, list) = upTo[c]
      BY <1>6, <2>2 DEF ChunkLines, H, upTo
    <3> QED BY <1>6, <2>2, <3>1, ConcatEmptySeq
  <2> QED BY <2>1, <2>2
<1> QED BY <1>1, <1>2, <1>5, <1>6, <1>7, <1>8, <1>9 DEF next, upTo

(* What is said of a page is lines.                                        *)
LEMMA PageLinesFacts ==
  ASSUME HeapInv, NEW p \in Pages
  PROVE  /\ \A list \in {allocation[p], free[p]} : ChunkLines(p, list) \in Seq(AnyLine)
         /\ <<PageLine(p), "Allocation chunks">> \in Seq(AnyLine)
         /\ <<"Free chunks">> \in Seq(AnyLine)
         /\ PageLines(p) \in Seq(AnyLine)
<1>1. ASSUME NEW list \in {allocation[p], free[p]}
      PROVE  ChunkLines(p, list) \in Seq(AnyLine)
  <2>1. 0 \in {0} \cup Range(list)
    OBVIOUS
  <2> QED BY <2>1, LinesOfChunksFacts
<1>2. /\ PageLine(p) \in AnyLine /\ "Allocation chunks" \in AnyLine
      /\ "Free chunks" \in AnyLine
  BY DEF AnyLine
<1>3. /\ <<PageLine(p), "Allocation chunks">> \in Seq(AnyLine)
      /\ <<"Free chunks">> \in Seq(AnyLine)
  <2>1. \A a, b \in AnyLine : <<a, b>> \in Seq(AnyLine) /\ <<a>> \in Seq(AnyLine)
    OBVIOUS
  <2> QED BY <1>2, <2>1
<1>4. PageLines(p) \in Seq(AnyLine)
  <2> DEFINE HA == <<PageLine(p), "Allocation chunks">>
             CA == ChunkLines(p, allocation[p])
             CF == ChunkLines(p, free[p])
             F  == <<"Free chunks">>
  <2>1. /\ HA \in Seq(AnyLine) /\ CA \in Seq(AnyLine)
        /\ CF \in Seq(AnyLine) /\ F \in Seq(AnyLine)
    BY <1>1, <1>3
  <2>2. PageLines(p) = HA \o CA \o F \o CF
    BY DEF PageLines
  <2> HIDE DEF HA, CA, CF, F
  <2>3. HA \o CA \in Seq(AnyLine)
    BY <2>1, ConcatProperties
  <2>4. HA \o CA \o F \in Seq(AnyLine)
    BY <2>1, <2>3, ConcatProperties
  <2>5. HA \o CA \o F \o CF \in Seq(AnyLine)
    BY <2>1, <2>4, ConcatProperties
  <2> QED BY <2>2, <2>5
<1> QED BY <1>1, <1>3, <1>4

(* One search further down the pages of a zone, in the same way.           *)
LEMMA LinesOfPagesFacts ==
  ASSUME HeapInv, NEW z \in 1 .. 3, NEW p \in {0} \cup Range(PagesOf(z))
  PROVE  LET next == FindNextInOrder(PagesOf(z), p)
             upTo == LinesOfPages(z)
         IN /\ upTo[0] = <<>> /\ upTo[p] \in Seq(AnyLine)
            /\ <<Titles[z]>> \in Seq(AnyLine) /\ ZoneLines(z) \in Seq(AnyLine)
            /\ next # 0 => /\ next \in Range(PagesOf(z)) /\ upTo[next - 1] = upTo[p]
                           /\ upTo[next] = upTo[p] \o PageLines(next)
            /\ next = 0 => ZoneLines(z) = <<Titles[z]>> \o upTo[p]
<1> DEFINE pages == PagesOf(z)
           next == FindNextInOrder(pages, p)
           upTo == LinesOfPages(z)
           lines == [q \in Range(pages) |-> PageLines(q)]
           H == Highest(pages)
<1>1. pages \in Seq(Nat \ {0}) /\ Range(pages) \subseteq Pages
  BY ListsOfHeap
<1>2. lines \in [Range(pages) -> Seq(AnyLine)]
  BY <1>1, PageLinesFacts
<1>3. upTo = LinesUpTo(pages, lines) /\ ZoneLines(z) = <<Titles[z]>> \o upTo[H]
  BY DEF LinesOfPages, ZoneLines, PagesOf
<1>4. <<Titles[z]>> \in Seq(AnyLine)
  <2>1. Titles[z] \in AnyLine
    <3>1. z = 1 \/ z = 2 \/ z = 3
      OBVIOUS
    <3>2. Titles[1] = "TINY_ZONE" /\ Titles[2] = "SMALL_ZONE" /\ Titles[3] = "LARGE_ZONE"
      BY DEF Titles
    <3>3. {"TINY_ZONE", "SMALL_ZONE", "LARGE_ZONE"} \subseteq AnyLine
      BY DEF AnyLine
    <3> QED BY <3>1, <3>2, <3>3
  <2> HIDE DEF Titles
  <2> QED BY <2>1
<1>5. \A q \in Range(pages) : lines[q] = PageLines(q)
  OBVIOUS
<1> HIDE DEF lines, upTo, H, next, pages
<1>6. /\ upTo[0] = <<>> /\ \A a \in 0 .. H : upTo[a] \in Seq(AnyLine)
  BY <1>1, <1>2, <1>3, LinesUpToFacts DEF H
<1>7. /\ p \in 0 .. H /\ upTo[p] \in Seq(AnyLine)
      /\ next # 0 => /\ next \in Range(pages) /\ upTo[next - 1] = upTo[p]
                     /\ upTo[next] = upTo[p] \o lines[next]
      /\ next = 0 => upTo[H] = upTo[p]
  <2>1. p \in {0} \cup Range(pages)
    BY DEF pages
  <2>2. GoOn(pages, AnyLine, lines, p)
    BY <1>1, <1>2, <2>1, LinesGoOn
  <2> QED BY <1>3, <2>2 DEF GoOn, H, next
<1>8. ZoneLines(z) \in Seq(AnyLine)
  <2>1. H \in 0 .. H
    BY <1>1, HighestFacts DEF H
  <2> QED BY <1>3, <1>4, <1>6, <2>1, ConcatProperties
<1> QED BY <1>3, <1>4, <1>5, <1>6, <1>7, <1>8 DEF next, upTo, pages

(* What is printed does not depend on how the lines are put together.      *)
LEMMA LinesAssociate ==
  \A u, v, w \in Seq(AnyLine) : (u \o v) \o w = u \o (v \o w)
BY ConcatAssociative, SMTT(30)

(* Where a dump is and what it has printed.                                *)
Before(z) ==
  IF z = 1 THEN <<>>
  ELSE IF z = 2 THEN ZoneLines(1)
  ELSE ZoneLines(1) \o ZoneLines(2)

(* The lines above the pages of zone z, and above page p of it.            *)
AbovePages(z) == Before(z) \o <<Titles[z]>>

AbovePage(z, p) == AbovePages(z) \o LinesOfPages(z)[p - 1]

AboveChunks(p) == <<PageLine(p), "Allocation chunks">>

AboveFree(p) == AboveChunks(p) \o ChunkLines(p, allocation[p]) \o <<"Free chunks">>

PrintedSoFar(t) ==
  LET z == cursor[t].zone
      p == cursor[t].page
      c == cursor[t].chunk
  IN /\ pc[t] \in {"pages", "allocated", "freed"} => z \in 1 .. 3
     /\ pc[t] = "pages" =>
          /\ p \in {0} \cup Range(PagesOf(z)) /\ c = 0
          /\ printed = AbovePages(z) \o LinesOfPages(z)[p]
     /\ pc[t] = "allocated" =>
          /\ p \in Range(PagesOf(z)) /\ c \in {0} \cup Range(allocation[p])
          /\ printed = AbovePage(z, p)
                         \o (AboveChunks(p) \o LinesOfChunks(p, allocation[p])[c])
     /\ pc[t] = "freed" =>
          /\ p \in Range(PagesOf(z)) /\ c \in {0} \cup Range(free[p])
          /\ printed = AbovePage(z, p)
                         \o (AboveFree(p) \o LinesOfChunks(p, free[p])[c])
     /\ pc[t] = "printed" =>
          printed = ZoneLines(1) \o ZoneLines(2) \o ZoneLines(3)

(* Lines are there only while somebody prints, or after a fault.           *)
DumpInv ==
  /\ cursor = [t \in Threads |-> At(cursor[t].zone, cursor[t].page, cursor[t].chunk)]
  /\ printed # <<>> => \/ \E t \in Threads : pc[t] \in Dumping
                       \/ \A t \in Threads : pc[t] = "killed"
  /\ \A t \in Threads : PrintedSoFar(t)

(* As long as the heap stands still the same is to be said of it.          *)
LEMMA SameLines ==
  ASSUME UNCHANGED heapVars
  PROVE  /\ \A z : /\ PagesOf(z)' = PagesOf(z) /\ AbovePages(z)' = AbovePages(z)
                   /\ LinesOfPages(z)' = LinesOfPages(z) /\ ZoneLines(z)' = ZoneLines(z)
         /\ \A p, z : AbovePage(z, p)' = AbovePage(z, p)
         /\ \A p : AboveChunks(p)' = AboveChunks(p) /\ AboveFree(p)' = AboveFree(p)
         /\ \A p, list : LinesOfChunks(p, list)' = LinesOfChunks(p, list)
<1> USE DEF heapVars
<1>1. ASSUME NEW p, NEW list PROVE LinesOfChunks(p, list)' = LinesOfChunks(p, list)
  BY DEF LinesOfChunks, ChunkLine
<1>2. ASSUME NEW p, NEW list PROVE ChunkLines(p, list)' = ChunkLines(p, list)
  BY <1>1 DEF ChunkLines
<1>3. ASSUME NEW p
      PROVE  /\ PageLines(p)' = PageLines(p) /\ AboveChunks(p)' = AboveChunks(p)
             /\ AboveFree(p)' = AboveFree(p)
  BY <1>2 DEF PageLines, PageLine, AboveChunks, AboveFree
<1>4. ASSUME NEW z PROVE LinesOfPages(z)' = LinesOfPages(z) /\ PagesOf(z)' = PagesOf(z)
  BY <1>3 DEF LinesOfPages, PagesOf
<1>5. ASSUME NEW z PROVE ZoneLines(z)' = ZoneLines(z)
  BY <1>4 DEF ZoneLines
<1>6. ASSUME NEW z PROVE AbovePages(z)' = AbovePages(z)
  BY <1>5 DEF AbovePages, Before
<1>7. ASSUME NEW z, NEW p PROVE AbovePage(z, p)' = AbovePage(z, p)
  BY <1>4, <1>6 DEF AbovePage
<1> QED BY <1>1, <1>3, <1>4, <1>5, <1>6, <1>7
-----------------------------------------------------------------------------
(* Only a dump takes a thread where it prints.                             *)
LEMMA OthersPrintNothing ==
  ASSUME ShowInv, NEW t \in Threads, Begin(t) \/ Proceed(t)
  PROVE  \/ \A u \in Threads : pc'[u] = "killed"
         \/ /\ pc[t] \notin Dumping \cup {"killed"}
            /\ \E l : l \notin Dumping /\ Goto(t, l)
<1> USE DEF Dumping
<1>1. CASE Begin(t)
  BY <1>1 DEF Begin, CallMalloc, CallFree, CallRealloc, CallCalloc, CallReallocarray,
     Call, AfterCheck
<1>2. CASE Fault(t)
  BY <1>2 DEF Fault
<1>3. CASE Enter(t) \/ Exit(t) \/ Clear(t)
  <2>1. Enter(t) => /\ pc[t] = "enter"
                    /\ \E l \in {"allocate", "realloc", "free"} : Goto(t, l)
    <3>1. pc[t] = "enter" => frame[t].op \in CallsOfProgram
      BY DEF ShowInv
    <3> QED BY <3>1 DEF Enter, FirstStep, CallsOfProgram
  <2>2. Exit(t) => pc[t] = "exit" /\ \E l \in {"clear", "return"} : Goto(t, l)
    BY DEF Exit
  <2>3. Clear(t) => pc[t] = "clear" /\ Goto(t, "return")
    BY DEF Clear
  <2> QED BY <1>3, <2>1, <2>2, <2>3
<1>4. CASE ReturnNewBlock(t) \/ ReturnReallocated(t) \/ ReturnNull(t)
  BY <1>4 DEF ReturnNewBlock, ReturnReallocated, ReturnNull, Finish
<1>5. CASE \/ ReallocInPlace(t) \/ ReallocElsewhere(t) \/ FindFreeChunk(t)
           \/ AddMediumPage(t) \/ AllocateNothing(t)
  BY <1>5 DEF ReallocInPlace, ReallocElsewhere, FindFreeChunk, AddMediumPage, Found,
     AllocateNothing
<1>6. CASE TakeFoundChunk(t) \/ AddLargePage(t)
  BY <1>6 DEF TakeFoundChunk, AddLargePage, Give
<1>7. CASE \/ CopyBlock(t) \/ FreeNull(t) \/ FreePage(t) \/ FreeChunk(t)
           \/ ReleasePage(t) \/ KeepPage(t)
  BY <1>7 DEF CopyBlock, FreeNull, FreePage, FreeChunk, ReleasePage, KeepPage
<1> QED BY <1>1, <1>2, <1>3, <1>4, <1>5, <1>6, <1>7 DEF Proceed

(* Where nobody prints or the printing thread stands still, so does what   *)
(* it has printed.                                                         *)
LEMMA StillPrinted ==
  ASSUME NEW t \in Threads, PrintedSoFar(t), UNCHANGED heapVars,
         cursor'[t] = cursor[t], printed' = printed, pc'[t] = pc[t]
  PROVE  PrintedSoFar(t)'
<1>0. PICK z, p, c : z = cursor[t].zone /\ p = cursor[t].page /\ c = cursor[t].chunk
  OBVIOUS
<1>1. z = cursor'[t].zone /\ p = cursor'[t].page /\ c = cursor'[t].chunk
  BY <1>0
<1>2. allocation' = allocation /\ free' = free
  BY DEF heapVars
<1>3. /\ PagesOf(z)' = PagesOf(z) /\ AbovePages(z)' = AbovePages(z)
      /\ LinesOfPages(z)' = LinesOfPages(z) /\ AbovePage(z, p)' = AbovePage(z, p)
      /\ AboveChunks(p)' = AboveChunks(p) /\ AboveFree(p)' = AboveFree(p)
      /\ \A list : LinesOfChunks(p, list)' = LinesOfChunks(p, list)
      /\ ZoneLines(1)' = ZoneLines(1) /\ ZoneLines(2)' = ZoneLines(2)
      /\ ZoneLines(3)' = ZoneLines(3)
  BY SameLines
<1>4. CASE pc[t] = "pages"
  BY <1>0, <1>1, <1>3, <1>4, Zenon DEF PrintedSoFar
<1>5. CASE pc[t] = "allocated"
  <2>1. LinesOfChunks(p, allocation[p])' = LinesOfChunks(p, allocation[p])
    BY <1>2, <1>3
  <2> QED BY <1>0, <1>1, <1>2, <1>3, <1>5, <2>1, Zenon DEF PrintedSoFar
<1>6. CASE pc[t] = "freed"
  <2>1. LinesOfChunks(p, free[p])' = LinesOfChunks(p, free[p])
    BY <1>2, <1>3
  <2> QED BY <1>0, <1>1, <1>2, <1>3, <1>6, <2>1, Zenon DEF PrintedSoFar
<1>7. CASE pc[t] = "printed"
  BY <1>0, <1>1, <1>3, <1>7 DEF PrintedSoFar
<1>8. CASE pc[t] \notin Dumping
  BY <1>8 DEF PrintedSoFar, Dumping
<1> QED BY <1>4, <1>5, <1>6, <1>7, <1>8 DEF Dumping

(* Of a thread that does not print there is nothing to say.                *)
LEMMA NotPrinting ==
  ASSUME NEW t, pc[t] \notin Dumping
  PROVE  PrintedSoFar(t)
BY DEF PrintedSoFar, Dumping

(* The steps of the other calls keep the lines: they print nothing, and    *)
(* under a dump they do not touch the heap.                                *)
LEMMA OthersKeepLines ==
  ASSUME ShowInv, DumpInv, ShowNext, NEW t \in Threads, Begin(t) \/ Proceed(t),
         UNCHANGED <<cursor, printed>>
  PROVE  DumpInv'
<1>1. "killed" \notin Dumping /\ DOMAIN pc = Threads
  BY DEF Dumping, ShowInv
<1>2. CASE \A u \in Threads : pc'[u] = "killed"
  <2>1. \A u \in Threads : PrintedSoFar(u)'
    BY <1>1, <1>2, NotPrinting DEF PrintedSoFar, Dumping
  <2> QED BY <1>2, <2>1 DEF DumpInv
<1>3. CASE pc[t] \notin Dumping \cup {"killed"} /\ \E l : l \notin Dumping /\ Goto(t, l)
  <2>1. \A u \in Threads : u # t => pc'[u] = pc[u]
    BY <1>1, <1>3 DEF Goto
  <2>2. pc'[t] \notin Dumping
    BY <1>1, <1>3 DEF Goto
  <2>3. \A u \in Threads : pc'[u] \in Dumping <=> pc[u] \in Dumping
    BY <1>3, <2>1, <2>2
  <2>4. ASSUME NEW u \in Threads PROVE PrintedSoFar(u)'
    <3>1. CASE pc[u] \in Dumping
      BY <1>3, <2>1, <3>1, HeapIsStill, StillPrinted DEF DumpInv
    <3>2. CASE pc[u] \notin Dumping
      BY <2>3, <3>2 DEF PrintedSoFar, Dumping
    <3> QED BY <3>1, <3>2
  <2>5. ~ \A u \in Threads : pc[u] = "killed"
    BY <1>3
  <2> QED BY <2>3, <2>4, <2>5 DEF DumpInv
<1> QED BY <1>2, <1>3, OthersPrintNothing

(* A step of the dump itself.                                              *)
LEMMA PrintingStep ==
  ASSUME ShowInv, DumpInv, NEW t \in Threads, StepOfDump(t), PrintedSoFar(t)'
  PROVE  DumpInv'
<1>1. /\ IsPrinting(t) /\ DOMAIN pc = Threads /\ "killed" \notin Dumping
      /\ UNCHANGED heapVars
  BY DumpPrints DEF ShowInv, IsPrinting, Dumping
<1>2. cursor' = [u \in Threads |->
                   At(cursor'[u].zone, cursor'[u].page, cursor'[u].chunk)]
  <2>1. cursor = [u \in Threads |-> At(cursor[u].zone, cursor[u].page, cursor[u].chunk)]
    BY DEF DumpInv
  <2>2. \/ cursor' = cursor
        \/ \E z, p, c : cursor' = [cursor EXCEPT ![t] = At(z, p, c)]
        \/ \E c : cursor' = [cursor EXCEPT ![t] = [cursor[t] EXCEPT !.chunk = c]]
    BY DEF StepOfDump, CallShow, EnterShow, PrintPage, NextZone, PrintAllocated,
       PrintFree, PrintChunks, ExitShow, Show
  <2>3. \/ cursor' = cursor
        \/ \E z, p, c : cursor' = [cursor EXCEPT ![t] = At(z, p, c)]
    BY <2>1, <2>2 DEF At
  <2> QED BY <2>1, <2>3 DEF At
<1>3. ASSUME NEW u \in Threads PROVE PrintedSoFar(u)'
  <2>1. CASE u = t
    BY <2>1
  <2>2. CASE u # t /\ pc[u] \notin Dumping
    BY <1>1, <2>2, NotPrinting DEF IsPrinting, PrintedSoFar, Dumping
  <2>3. CASE u # t /\ pc[u] \in Dumping
    <3>1. lock = u /\ pc[t] \notin Dumping /\ u # NoThread
      BY <1>1, <2>3, ProgramAssumption DEF ShowInv, Locks
    <3>2. CallShow(t)
      BY <3>1 DEF StepOfDump, EnterShow, PrintPage, NextZone, PrintAllocated, PrintFree,
         ExitShow, Dumping
    <3>3. UNCHANGED <<cursor, printed>> /\ pc'[u] = pc[u]
      BY <1>1, <2>3, <3>2 DEF CallShow, IsPrinting
    <3> QED BY <1>1, <3>3, StillPrinted DEF DumpInv
  <2> QED BY <2>1, <2>2, <2>3
<1>4. printed' # <<>> => \E u \in Threads : pc'[u] \in Dumping
  <2>1. CASE CallShow(t)
    <3>1. printed' = printed /\ pc[t] = "idle" /\ pc' = [pc EXCEPT ![t] = "wait"]
      BY <2>1 DEF CallShow, Call, Goto
    <3>2. ASSUME NEW u \in Threads, pc[u] \in Dumping PROVE pc'[u] \in Dumping
      BY <1>1, <3>1, <3>2 DEF Dumping
    <3> QED BY <3>1, <3>2 DEF DumpInv
  <2>2. CASE ExitShow(t)
    BY <2>2 DEF ExitShow
  <2>3. CASE ~ CallShow(t) /\ ~ ExitShow(t)
    <3>1. \E l \in Dumping : Goto(t, l)
      BY <2>3 DEF StepOfDump, EnterShow, PrintPage, NextZone, PrintAllocated,
         PrintFree, PrintChunks, Show, Dumping
    <3> QED BY <1>1, <3>1 DEF Goto
  <2> QED BY <2>1, <2>2, <2>3
<1> QED BY <1>2, <1>3, <1>4 DEF DumpInv

(* A dump starts with nothing printed: whoever has printed lines and not   *)
(* forgotten them holds the lock, or every thread is killed.               *)
LEMMA EnterPrints ==
  ASSUME ShowInv, HeapInv, DumpInv, NEW t \in Threads, EnterShow(t)
  PROVE  PrintedSoFar(t)'
<1>1. DOMAIN pc = Threads /\ DOMAIN cursor = Threads
  BY DEF ShowInv, DumpInv
<1>2. /\ lock = NoThread /\ pc[t] = "wait" /\ pc'[t] = "pages" /\ cursor'[t] = At(1, 0, 0)
      /\ printed' = printed \o <<Titles[1]>> /\ UNCHANGED heapVars
  BY <1>1 DEF EnterShow, Show, Goto
<1>3. printed = <<>>
  <2>1. \A u \in Threads : pc[u] \notin Dumping
    BY <1>2, ProgramAssumption DEF ShowInv, Locks, Dumping
  <2> QED BY <1>2, <2>1 DEF DumpInv
<1>4. <<Titles[1]>> \in Seq(AnyLine) /\ LinesOfPages(1)[0] = <<>>
  BY LinesOfPagesFacts, 1 \in 1 .. 3, 0 \in {0} \cup Range(PagesOf(1))
<1>5. printed' = AbovePages(1) \o LinesOfPages(1)[0]
  <2>1. AbovePages(1) = <<>> \o <<Titles[1]>>
    BY DEF AbovePages, Before
  <2> HIDE DEF Titles
  <2>2. AbovePages(1) = <<Titles[1]>> /\ printed' = <<Titles[1]>>
    BY <1>2, <1>3, <1>4, <2>1, ConcatEmptySeq
  <2> QED BY <1>4, <2>2, ConcatEmptySeq
<1>6. AbovePages(1)' = AbovePages(1) /\ LinesOfPages(1)' = LinesOfPages(1)
  BY <1>2, SameLines
<1> QED BY <1>2, <1>5, <1>6, SMTT(30) DEF PrintedSoFar, At

(* The lines above the pages of a zone are lines.                          *)
LEMMA BeforeFacts ==
  ASSUME HeapInv, NEW z \in 1 .. 3
  PROVE  Before(z) \in Seq(AnyLine) /\ AbovePages(z) \in Seq(AnyLine)
<1>1. \A y \in 1 .. 3 : ZoneLines(y) \in Seq(AnyLine) /\ <<Titles[y]>> \in Seq(AnyLine)
  <2> TAKE y \in 1 .. 3
  <2>1. 0 \in {0} \cup Range(PagesOf(y))
    OBVIOUS
  <2> QED BY <2>1, LinesOfPagesFacts
<1>2. /\ <<>> \in Seq(AnyLine) /\ ZoneLines(1) \in Seq(AnyLine)
      /\ ZoneLines(1) \o ZoneLines(2) \in Seq(AnyLine)
  BY <1>1, ConcatProperties
<1>3. Before(z) \in Seq(AnyLine)
  BY <1>2 DEF Before
<1> HIDE DEF Before, Titles
<1>4. Before(z) \o <<Titles[z]>> \in Seq(AnyLine)
  BY <1>1, <1>3, ConcatProperties
<1> QED BY <1>3, <1>4 DEF AbovePages

(* The lines down to a page are those above it and its own.                *)
LEMMA PageBefore ==
  ASSUME HeapInv, NEW z \in 1 .. 3, NEW p \in Range(PagesOf(z))
  PROVE  /\ LinesOfPages(z)[p - 1] \in Seq(AnyLine)
         /\ LinesOfPages(z)[p] = LinesOfPages(z)[p - 1] \o PageLines(p)
<1> DEFINE pages == PagesOf(z)
           lines == [q \in Range(pages) |-> PageLines(q)]
<1>1. pages \in Seq(Nat \ {0}) /\ Range(pages) \subseteq Pages
  BY ListsOfHeap
<1>2. lines \in [Range(pages) -> Seq(AnyLine)] /\ lines[p] = PageLines(p)
  BY <1>1, PageLinesFacts
<1>3. LinesOfPages(z) = LinesUpTo(pages, lines)
  BY DEF LinesOfPages, PagesOf
<1>4. p \in Range(pages)
  OBVIOUS
<1> HIDE DEF pages, lines
<1>5. Highest(pages) \in Nat /\ p \in 1 .. Highest(pages)
  BY <1>1, <1>4, HighestFacts
<1>6. p - 1 \in 0 .. Highest(pages)
  BY <1>5
<1>7. /\ LinesUpTo(pages, lines)[p - 1] \in Seq(AnyLine)
      /\ LinesUpTo(pages, lines)[p] = LinesUpTo(pages, lines)[p - 1] \o lines[p]
  BY <1>1, <1>2, <1>4, <1>5, <1>6, LinesUpToFacts
<1> QED BY <1>2, <1>3, <1>7

(* What is above a page and above its chunks is lines.                     *)
LEMMA AboveFacts ==
  ASSUME HeapInv, NEW z \in 1 .. 3, NEW p \in Range(PagesOf(z))
  PROVE  /\ AbovePages(z) \in Seq(AnyLine) /\ AbovePage(z, p) \in Seq(AnyLine)
         /\ AboveChunks(p) \in Seq(AnyLine) /\ AboveFree(p) \in Seq(AnyLine)
         /\ p \in Pages
<1>1. p \in Pages /\ p \in {0} \cup Range(PagesOf(z))
  BY ListsOfHeap
<1>2. AbovePages(z) \in Seq(AnyLine)
  BY BeforeFacts
<1>3. LinesOfPages(z)[p - 1] \in Seq(AnyLine)
  BY PageBefore
<1>4. AbovePage(z, p) \in Seq(AnyLine)
  BY <1>2, <1>3, ConcatProperties DEF AbovePage
<1>5. AboveChunks(p) \in Seq(AnyLine)
  BY <1>1, PageLinesFacts DEF AboveChunks
<1>6. AboveFree(p) \in Seq(AnyLine)
  <2>1. /\ ChunkLines(p, allocation[p]) \in Seq(AnyLine)
        /\ <<"Free chunks">> \in Seq(AnyLine)
    BY <1>1, PageLinesFacts
  <2>2. AboveChunks(p) \o ChunkLines(p, allocation[p]) \in Seq(AnyLine)
    BY <1>5, <2>1, ConcatProperties
  <2> QED BY <2>1, <2>2, ConcatProperties DEF AboveFree
<1> QED BY <1>1, <1>2, <1>4, <1>5, <1>6

(* print_zone has found a page: above it are all the pages before it.      *)
LEMMA PagePrints ==
  ASSUME ShowInv, HeapInv, DumpInv, NEW t \in Threads, PrintPage(t)
  PROVE  PrintedSoFar(t)'
<1>0. PICK z, p : z = cursor[t].zone /\ p = cursor[t].page
  OBVIOUS
<1>1. DOMAIN pc = Threads /\ DOMAIN cursor = Threads /\ pc[t] = "pages"
  BY DEF ShowInv, DumpInv, PrintPage
<1>2. /\ z \in 1 .. 3 /\ p \in {0} \cup Range(PagesOf(z))
      /\ printed = AbovePages(z) \o LinesOfPages(z)[p]
  BY <1>0, <1>1, Zenon DEF DumpInv, PrintedSoFar
<1>3. PICK next : next = FindNextInOrder(PagesOf(z), p) /\ NextPage(t) = next
  BY <1>0 DEF NextPage, PagesOf
<1>4. /\ next # 0 /\ pc'[t] = "allocated" /\ cursor'[t] = At(z, next, 0)
      /\ printed' = printed \o AboveChunks(next) /\ UNCHANGED heapVars
  BY <1>0, <1>1, <1>3 DEF PrintPage, Show, Goto, AboveChunks
<1>5. /\ next \in Range(PagesOf(z))
      /\ LinesOfPages(z)[next - 1] = LinesOfPages(z)[p]
  BY <1>2, <1>3, <1>4, LinesOfPagesFacts
<1>6. printed' = AbovePage(z, next) \o AboveChunks(next)
  BY <1>2, <1>4, <1>5 DEF AbovePage
<1>7. AboveChunks(next) \in Seq(AnyLine) /\ next \in Pages
  BY <1>2, <1>5, AboveFacts
<1>8. LinesOfChunks(next, allocation[next])[0] = <<>>
  <2>1. 0 \in {0} \cup Range(allocation[next])
    OBVIOUS
  <2> QED BY <1>7, <2>1, LinesOfChunksFacts
<1>9. printed' = AbovePage(z, next)
                   \o (AboveChunks(next) \o LinesOfChunks(next, allocation[next])[0])
  BY <1>6, <1>7, <1>8, ConcatEmptySeq
<1>10. /\ PagesOf(z)' = PagesOf(z) /\ AbovePage(z, next)' = AbovePage(z, next)
       /\ AboveChunks(next)' = AboveChunks(next) /\ allocation' = allocation
       /\ LinesOfChunks(next, allocation[next])' = LinesOfChunks(next, allocation[next])
  <2>1. allocation' = allocation
    BY <1>4 DEF heapVars
  <2>2. \A q, list : LinesOfChunks(q, list)' = LinesOfChunks(q, list)
    BY <1>4, SameLines
  <2> QED BY <1>4, <2>1, <2>2, SameLines
<1>11. cursor'[t].zone = z /\ cursor'[t].page = next /\ cursor'[t].chunk = 0
  BY <1>4 DEF At
<1> QED BY <1>2, <1>4, <1>5, <1>9, <1>10, <1>11, Zenon DEF PrintedSoFar

(* print_zone has found no page: the lines of the zone are complete.       *)
LEMMA ZonePrints ==
  ASSUME ShowInv, HeapInv, DumpInv, NEW t \in Threads, NextZone(t)
  PROVE  PrintedSoFar(t)'
<1>0. PICK z, p : z = cursor[t].zone /\ p = cursor[t].page
  OBVIOUS
<1>1. DOMAIN pc = Threads /\ DOMAIN cursor = Threads /\ pc[t] = "pages"
  BY DEF ShowInv, DumpInv, NextZone
<1>2. /\ z \in 1 .. 3 /\ p \in {0} \cup Range(PagesOf(z))
      /\ printed = AbovePages(z) \o LinesOfPages(z)[p]
  BY <1>0, <1>1, Zenon DEF DumpInv, PrintedSoFar
<1>3. FindNextInOrder(PagesOf(z), p) = 0 /\ UNCHANGED heapVars
  BY <1>0 DEF NextZone, NextPage, PagesOf, Show
<1>4. /\ ZoneLines(z) = <<Titles[z]>> \o LinesOfPages(z)[p]
      /\ <<Titles[z]>> \in Seq(AnyLine) /\ LinesOfPages(z)[p] \in Seq(AnyLine)
      /\ ZoneLines(z) \in Seq(AnyLine)
  BY <1>2, <1>3, LinesOfPagesFacts
<1>5. printed = Before(z) \o ZoneLines(z) /\ printed \in Seq(AnyLine)
  <2>1. Before(z) \in Seq(AnyLine)
    BY <1>2, BeforeFacts
  <2>2. printed = (Before(z) \o <<Titles[z]>>) \o LinesOfPages(z)[p]
    BY <1>2 DEF AbovePages
  <2> HIDE DEF Before, Titles
  <2>3. printed = Before(z) \o ZoneLines(z)
    <3>0. PICK r, u, v : r = Before(z) /\ u = <<Titles[z]>> /\ v = LinesOfPages(z)[p]
      OBVIOUS
    <3>1. r \in Seq(AnyLine) /\ u \in Seq(AnyLine) /\ v \in Seq(AnyLine)
      BY <1>4, <2>1, <3>0
    <3>2. (r \o u) \o v = r \o (u \o v)
      BY ONLY <3>1, LinesAssociate, Zenon
    <3> QED BY <1>4, <2>2, <3>0, <3>2, Zenon
  <2> QED BY <1>4, <2>1, <2>3, ConcatProperties
<1>6. CASE z = 3
  <2>1. pc'[t] = "printed" /\ printed' = printed \o <<>>
    BY <1>0, <1>1, <1>6 DEF NextZone, Show, Goto, Titles
  <2>2. printed' = ZoneLines(1) \o ZoneLines(2) \o ZoneLines(3)
    <3>1. printed' = printed
      BY <1>5, <2>1, ConcatEmptySeq
    <3>2. Before(3) = ZoneLines(1) \o ZoneLines(2)
      BY DEF Before
    <3> QED BY <1>5, <1>6, <3>1, <3>2
  <2>3. /\ ZoneLines(1)' = ZoneLines(1) /\ ZoneLines(2)' = ZoneLines(2)
        /\ ZoneLines(3)' = ZoneLines(3)
    BY <1>3, SameLines
  <2> QED BY <2>1, <2>2, <2>3 DEF PrintedSoFar
<1>7. CASE z # 3
  <2>1. PICK y \in 1 .. 3 : y = z + 1 /\ y # 1
    <3>1. z + 1 \in 1 .. 3 /\ z + 1 # 1
      BY <1>2, <1>7
    <3> QED BY <3>1
  <2>2. /\ pc'[t] = "pages" /\ cursor'[t] = At(y, 0, 0)
        /\ printed' = printed \o <<Titles[y]>>
    <3>1. Len(Titles) = 3
      BY DEF Titles
    <3> HIDE DEF Titles
    <3> QED BY <1>0, <1>1, <1>7, <2>1, <3>1 DEF NextZone, Show, Goto
  <2>3. printed = Before(y)
    <3>1. CASE z = 1
      <4>1. Before(1) = <<>> /\ Before(2) = ZoneLines(1) /\ y = 2
        BY <2>1, <3>1 DEF Before
      <4> QED BY <1>4, <1>5, <3>1, <4>1, ConcatEmptySeq
    <3>2. CASE z = 2
      <4>1. Before(2) = ZoneLines(1) /\ Before(3) = ZoneLines(1) \o ZoneLines(2) /\ y = 3
        BY <2>1, <3>2 DEF Before
      <4> QED BY <1>5, <3>2, <4>1
    <3>3. z = 1 \/ z = 2
      BY <1>2, <1>7
    <3> QED BY <3>1, <3>2, <3>3
  <2>4. printed' = AbovePages(y)
    BY <2>2, <2>3 DEF AbovePages
  <2>5. LinesOfPages(y)[0] = <<>> /\ AbovePages(y) \in Seq(AnyLine)
    <3>1. 0 \in {0} \cup Range(PagesOf(y))
      OBVIOUS
    <3> QED BY <2>1, <3>1, LinesOfPagesFacts, BeforeFacts
  <2>6. printed' = AbovePages(y) \o LinesOfPages(y)[0]
    BY <2>4, <2>5, ConcatEmptySeq
  <2>7. AbovePages(y)' = AbovePages(y) /\ LinesOfPages(y)' = LinesOfPages(y)
    BY <1>3, SameLines
  <2>8. cursor'[t].zone = y /\ cursor'[t].page = 0 /\ cursor'[t].chunk = 0
    BY <2>2 DEF At
  <2> QED BY <2>1, <2>2, <2>6, <2>7, <2>8, Zenon DEF PrintedSoFar
<1> QED BY <1>6, <1>7

(* The next chunk of a list, or the end of it: what is below the lines     *)
(* above the list, then.                                                   *)
PrintsNext(t, z, p, list, above) ==
  \E c \in Range(list) :
    /\ pc'[t] = pc[t] /\ cursor'[t] = At(z, p, c)
    /\ printed' = AbovePage(z, p) \o (above \o LinesOfChunks(p, list)[c])

PrintsHeading(t, z, p, list, above, heading, after) ==
  /\ pc'[t] = after /\ cursor'[t] = At(z, p, 0)
  /\ printed' = AbovePage(z, p) \o (above \o (ChunkLines(p, list) \o heading))

LEMMA ChunksPrinted ==
  ASSUME ShowInv, HeapInv, DumpInv, NEW t \in Threads,
         NEW z \in 1 .. 3, NEW p \in Range(PagesOf(z)),
         NEW list, list \in {allocation[p], free[p]},
         NEW c, c \in {0} \cup Range(list), cursor[t] = At(z, p, c),
         NEW above, above \in Seq(AnyLine),
         NEW heading, heading \in Seq(AnyLine), NEW after,
         printed = AbovePage(z, p) \o (above \o LinesOfChunks(p, list)[c]),
         PrintChunks(t, list, after, heading)
  PROVE  /\ UNCHANGED heapVars
         /\ \/ PrintsNext(t, z, p, list, above)
            \/ PrintsHeading(t, z, p, list, above, heading, after)
<1> PICK next, done, above1 :
      /\ next = FindNextInOrder(list, c) /\ done = LinesOfChunks(p, list)[c]
      /\ above1 = AbovePage(z, p)
  OBVIOUS
<1>1. DOMAIN pc = Threads /\ DOMAIN cursor = Threads
  BY DEF ShowInv, DumpInv
<1>2. p \in Pages /\ above1 \in Seq(AnyLine)
  BY AboveFacts
<1>3. /\ done \in Seq(AnyLine)
      /\ next # 0 => /\ next \in Range(list)
                     /\ <<ChunkLine(p, next)>> \in Seq(AnyLine)
                     /\ LinesOfChunks(p, list)[next] = done \o <<ChunkLine(p, next)>>
      /\ next = 0 => ChunkLines(p, list) = done \o (IF c = 0 THEN <<"None">> ELSE <<>>)
  BY <1>2, LinesOfChunksFacts
<1>4. ASSUME NEW v, v \in Seq(AnyLine)
      PROVE  (above1 \o (above \o done)) \o v = above1 \o (above \o (done \o v))
  <2>1. PICK r : r = above \o done /\ r \in Seq(AnyLine)
    BY <1>3, ConcatProperties
  <2>2. above1 \in Seq(AnyLine) /\ r \in Seq(AnyLine) /\ v \in Seq(AnyLine)
    BY <1>2, <1>4, <2>1
  <2>3. (above1 \o r) \o v = above1 \o (r \o v)
    BY ONLY <2>2, LinesAssociate, Zenon
  <2>4. above \in Seq(AnyLine) /\ done \in Seq(AnyLine)
    BY <1>3
  <2>5. (above \o done) \o v = above \o (done \o v)
    BY ONLY <1>4, <2>4, LinesAssociate, Zenon
  <2> QED BY <2>1, <2>3, <2>5, Zenon
<1>5. /\ cursor[t].zone = z /\ cursor[t].page = p /\ cursor[t].chunk = c
      /\ \A d : [cursor[t] EXCEPT !.chunk = d] = At(z, p, d)
  BY DEF At
<1>6. UNCHANGED heapVars
  BY DEF PrintChunks, Show
<1>7. CASE next # 0
  <2>1. /\ pc'[t] = pc[t] /\ cursor'[t] = At(z, p, next)
        /\ printed' = printed \o <<ChunkLine(p, next)>>
    BY <1>1, <1>5, <1>7 DEF PrintChunks, Show, Goto
  <2> PICK line : line = <<ChunkLine(p, next)>>
    OBVIOUS
  <2>2. printed' = above1 \o (above \o (done \o line))
    BY <1>3, <1>4, <1>7, <2>1
  <2> QED BY <1>3, <1>6, <1>7, <2>1, <2>2 DEF PrintsNext
<1>8. CASE next = 0
  <2> PICK none : none = IF c = 0 THEN <<"None">> ELSE <<>>
    OBVIOUS
  <2>1. none \in Seq(AnyLine)
    <3>1. "None" \in AnyLine
      BY DEF AnyLine
    <3> QED BY <3>1
  <2>2. none \o heading \in Seq(AnyLine)
    BY <2>1, ConcatProperties
  <2>3. /\ pc'[t] = after /\ cursor'[t] = At(z, p, 0)
        /\ printed' = printed \o (none \o heading)
    BY <1>1, <1>5, <1>8 DEF PrintChunks, Show, Goto
  <2>4. done \o (none \o heading) = (done \o none) \o heading
    <3>1. done \in Seq(AnyLine) /\ heading \in Seq(AnyLine)
      BY <1>3
    <3> QED BY ONLY <2>1, <3>1, LinesAssociate, Zenon
  <2>5. ChunkLines(p, list) = done \o none
    BY <1>3, <1>8
  <2>6. printed' = above1 \o (above \o (ChunkLines(p, list) \o heading))
    <3>1. printed' = (above1 \o (above \o done)) \o (none \o heading)
      BY <2>3
    <3>2. printed' = above1 \o (above \o (done \o (none \o heading)))
      BY <1>4, <2>2, <3>1
    <3> QED BY <2>4, <2>5, <3>2
  <2> QED BY <1>6, <2>3, <2>6 DEF PrintsHeading
<1> QED BY <1>7, <1>8

(* print_page goes down the allocation list, and says what comes next.     *)
LEMMA AllocatedPrints ==
  ASSUME ShowInv, HeapInv, DumpInv, NEW t \in Threads, PrintAllocated(t)
  PROVE  PrintedSoFar(t)'
<1>0. PICK z, p, c, list :
      /\ z = cursor[t].zone /\ p = cursor[t].page /\ c = cursor[t].chunk
      /\ list = allocation[p]
  OBVIOUS
<1>1. pc[t] = "allocated" /\ cursor[t] = At(z, p, c)
  BY <1>0 DEF PrintAllocated, DumpInv
<1>2. /\ z \in 1 .. 3 /\ p \in Range(PagesOf(z)) /\ c \in {0} \cup Range(list)
      /\ printed = AbovePage(z, p) \o (AboveChunks(p) \o LinesOfChunks(p, list)[c])
  BY <1>0, <1>1, Zenon DEF DumpInv, PrintedSoFar
<1>3. PrintChunks(t, list, "freed", <<"Free chunks">>)
  BY <1>0 DEF PrintAllocated
<1>4. /\ p \in Pages /\ AboveChunks(p) \in Seq(AnyLine) /\ AboveFree(p) \in Seq(AnyLine)
      /\ <<"Free chunks">> \in Seq(AnyLine) /\ ChunkLines(p, list) \in Seq(AnyLine)
  BY <1>0, <1>2, AboveFacts, PageLinesFacts
<1>5. /\ UNCHANGED heapVars
      /\ \/ PrintsNext(t, z, p, list, AboveChunks(p))
         \/ PrintsHeading(t, z, p, list, AboveChunks(p), <<"Free chunks">>, "freed")
  <2>1. PICK above, heading, after :
        above = AboveChunks(p) /\ heading = <<"Free chunks">> /\ after = "freed"
    OBVIOUS
  <2>2. /\ above \in Seq(AnyLine) /\ heading \in Seq(AnyLine)
        /\ list \in {allocation[p], free[p]}
    BY <1>0, <1>4, <2>1
  <2>3. /\ printed = AbovePage(z, p) \o (above \o LinesOfChunks(p, list)[c])
        /\ PrintChunks(t, list, after, heading)
    BY <1>2, <1>3, <2>1
  <2>4. z \in 1 .. 3 /\ p \in Range(PagesOf(z)) /\ c \in {0} \cup Range(list)
    BY <1>2
  <2>5. cursor[t] = At(z, p, c)
    BY <1>1
  <2>6. /\ UNCHANGED heapVars
        /\ \/ PrintsNext(t, z, p, list, above)
           \/ PrintsHeading(t, z, p, list, above, heading, after)
    BY <2>2, <2>3, <2>4, <2>5, ChunksPrinted, Zenon
  <2> QED BY <2>1, <2>6
<1>6. /\ PagesOf(z)' = PagesOf(z) /\ AbovePage(z, p)' = AbovePage(z, p)
      /\ AboveChunks(p)' = AboveChunks(p) /\ AboveFree(p)' = AboveFree(p)
      /\ allocation'[p] = list /\ free' = free
      /\ \A l : LinesOfChunks(p, l)' = LinesOfChunks(p, l)
  BY <1>0, <1>5, SameLines DEF heapVars
<1>7. ASSUME NEW d \in Range(list), pc'[t] = pc[t], cursor'[t] = At(z, p, d),
             printed' = AbovePage(z, p) \o (AboveChunks(p) \o LinesOfChunks(p, list)[d])
      PROVE  PrintedSoFar(t)'
  <2>1. cursor'[t].zone = z /\ cursor'[t].page = p /\ cursor'[t].chunk = d
    BY <1>7 DEF At
  <2>2. LinesOfChunks(p, allocation[p])' = LinesOfChunks(p, list)
    BY <1>6
  <2> QED BY <1>0, <1>1, <1>2, <1>6, <1>7, <2>1, <2>2, Zenon DEF PrintedSoFar
<1>8. ASSUME pc'[t] = "freed", cursor'[t] = At(z, p, 0),
             printed' = AbovePage(z, p)
                  \o (AboveChunks(p) \o (ChunkLines(p, list) \o <<"Free chunks">>))
      PROVE  PrintedSoFar(t)'
  <2>1. cursor'[t].zone = z /\ cursor'[t].page = p /\ cursor'[t].chunk = 0
    <3>1. cursor'[t] = At(z, p, 0)
      BY <1>8
    <3> QED BY <3>1 DEF At
  <2>2. LinesOfChunks(p, free[p])' = LinesOfChunks(p, free[p])
    BY <1>6
  <2>3. AboveFree(p) = AboveChunks(p) \o (ChunkLines(p, list) \o <<"Free chunks">>)
    <3>0. PICK r, u, v : /\ r = AboveChunks(p) /\ u = ChunkLines(p, list)
                       /\ v = <<"Free chunks">>
      OBVIOUS
    <3>1. AboveFree(p) = (r \o u) \o v
      BY <1>0, <3>0 DEF AboveFree
    <3>2. r \in Seq(AnyLine) /\ u \in Seq(AnyLine) /\ v \in Seq(AnyLine)
      BY <1>4, <3>0
    <3>3. (r \o u) \o v = r \o (u \o v)
      BY ONLY <3>2, LinesAssociate, Zenon
    <3> QED BY <3>0, <3>1, <3>3, Zenon
  <2>4. LinesOfChunks(p, free[p])[0] = <<>>
    <3>1. 0 \in {0} \cup Range(free[p])
      OBVIOUS
    <3> QED BY <1>4, <3>1, LinesOfChunksFacts
  <2>5. printed' = AbovePage(z, p) \o (AboveFree(p) \o LinesOfChunks(p, free[p])[0])
    BY <1>4, <1>8, <2>3, <2>4, ConcatEmptySeq
  <2> QED BY <1>0, <1>2, <1>6, <1>8, <2>1, <2>2, <2>5, Zenon DEF PrintedSoFar
<1> QED BY <1>5, <1>7, <1>8, Zenon DEF PrintsNext, PrintsHeading

(* print_page goes down the free list; at its end the page is complete.    *)
LEMMA FreePrints ==
  ASSUME ShowInv, HeapInv, DumpInv, NEW t \in Threads, PrintFree(t)
  PROVE  PrintedSoFar(t)'
<1>0. PICK z, p, c, list :
      /\ z = cursor[t].zone /\ p = cursor[t].page /\ c = cursor[t].chunk
      /\ list = free[p]
  OBVIOUS
<1>1. pc[t] = "freed" /\ cursor[t] = At(z, p, c)
  BY <1>0 DEF PrintFree, DumpInv
<1>2. /\ z \in 1 .. 3 /\ p \in Range(PagesOf(z)) /\ c \in {0} \cup Range(list)
      /\ printed = AbovePage(z, p) \o (AboveFree(p) \o LinesOfChunks(p, list)[c])
  BY <1>0, <1>1, Zenon DEF DumpInv, PrintedSoFar
<1>3. PrintChunks(t, list, "pages", <<>>)
  BY <1>0 DEF PrintFree
<1>4. /\ p \in Pages /\ AboveFree(p) \in Seq(AnyLine) /\ <<>> \in Seq(AnyLine)
      /\ ChunkLines(p, list) \in Seq(AnyLine) /\ PageLines(p) \in Seq(AnyLine)
      /\ AbovePages(z) \in Seq(AnyLine)
  <2>1. <<>> \in Seq(AnyLine)
    OBVIOUS
  <2> QED BY <1>0, <1>2, <2>1, AboveFacts, PageLinesFacts
<1>5. /\ UNCHANGED heapVars
      /\ \/ PrintsNext(t, z, p, list, AboveFree(p))
         \/ PrintsHeading(t, z, p, list, AboveFree(p), <<>>, "pages")
  <2>1. PICK above, heading, after :
        above = AboveFree(p) /\ heading = <<>> /\ after = "pages"
    OBVIOUS
  <2>2. /\ above \in Seq(AnyLine) /\ heading \in Seq(AnyLine)
        /\ list \in {allocation[p], free[p]}
    BY <1>0, <1>4, <2>1
  <2>3. /\ printed = AbovePage(z, p) \o (above \o LinesOfChunks(p, list)[c])
        /\ PrintChunks(t, list, after, heading)
    BY <1>2, <1>3, <2>1
  <2>4. z \in 1 .. 3 /\ p \in Range(PagesOf(z)) /\ c \in {0} \cup Range(list)
    BY <1>2
  <2>5. cursor[t] = At(z, p, c)
    BY <1>1
  <2>6. /\ UNCHANGED heapVars
        /\ \/ PrintsNext(t, z, p, list, above)
           \/ PrintsHeading(t, z, p, list, above, heading, after)
    BY <2>2, <2>3, <2>4, <2>5, ChunksPrinted, Zenon
  <2> QED BY <2>1, <2>6
<1>6. /\ PagesOf(z)' = PagesOf(z) /\ AbovePage(z, p)' = AbovePage(z, p)
      /\ AboveFree(p)' = AboveFree(p) /\ free'[p] = list
      /\ AbovePages(z)' = AbovePages(z) /\ LinesOfPages(z)' = LinesOfPages(z)
      /\ \A l : LinesOfChunks(p, l)' = LinesOfChunks(p, l)
  BY <1>0, <1>5, SameLines DEF heapVars
<1>7. ASSUME NEW d \in Range(list), pc'[t] = pc[t], cursor'[t] = At(z, p, d),
             printed' = AbovePage(z, p) \o (AboveFree(p) \o LinesOfChunks(p, list)[d])
      PROVE  PrintedSoFar(t)'
  <2>1. cursor'[t].zone = z /\ cursor'[t].page = p /\ cursor'[t].chunk = d
    BY <1>7 DEF At
  <2>2. LinesOfChunks(p, free[p])' = LinesOfChunks(p, list)
    BY <1>6
  <2> QED BY <1>0, <1>1, <1>2, <1>6, <1>7, <2>1, <2>2, Zenon DEF PrintedSoFar
<1>8. ASSUME pc'[t] = "pages", cursor'[t] = At(z, p, 0),
             printed' = AbovePage(z, p) \o (AboveFree(p) \o (ChunkLines(p, list) \o <<>>))
      PROVE  PrintedSoFar(t)'
  <2>1. cursor'[t].zone = z /\ cursor'[t].page = p /\ cursor'[t].chunk = 0
    <3>1. cursor'[t] = At(z, p, 0)
      BY <1>8
    <3> QED BY <3>1 DEF At
  <2>2. PageLines(p) = AboveFree(p) \o ChunkLines(p, list)
    BY <1>0 DEF PageLines, AboveFree, AboveChunks
  <2>3. printed' = AbovePage(z, p) \o PageLines(p)
    BY <1>4, <1>8, <2>2, ConcatEmptySeq
  <2>4. LinesOfPages(z)[p] = LinesOfPages(z)[p - 1] \o PageLines(p)
        /\ LinesOfPages(z)[p - 1] \in Seq(AnyLine)
    BY <1>2, PageBefore, Zenon
  <2>5. printed' = AbovePages(z) \o LinesOfPages(z)[p]
    <3>0. PICK r, u, v : /\ r = AbovePages(z) /\ u = LinesOfPages(z)[p - 1]
                       /\ v = PageLines(p)
      OBVIOUS
    <3>1. printed' = (r \o u) \o v /\ LinesOfPages(z)[p] = u \o v
      BY <2>3, <2>4, <3>0 DEF AbovePage
    <3>2. r \in Seq(AnyLine) /\ u \in Seq(AnyLine) /\ v \in Seq(AnyLine)
      BY <1>4, <2>4, <3>0
    <3>3. (r \o u) \o v = r \o (u \o v)
      BY ONLY <3>2, LinesAssociate, Zenon
    <3> QED BY <3>0, <3>1, <3>3, Zenon
  <2> QED BY <1>0, <1>2, <1>6, <1>8, <2>1, <2>5, Zenon DEF PrintedSoFar
<1> QED BY <1>5, <1>7, <1>8, Zenon DEF PrintsNext, PrintsHeading

(* Every step of a dump keeps the lines.                                   *)
LEMMA PrintingKeepsLines ==
  ASSUME ShowInv, HeapInv, DumpInv, NEW t \in Threads, StepOfDump(t)
  PROVE  DumpInv'
<1>1. DOMAIN pc = Threads
  BY DEF ShowInv
<1>2. CASE CallShow(t)
  <2>1. pc'[t] = "wait"
    BY <1>1, <1>2 DEF CallShow, Call, Goto
  <2> QED BY <2>1, PrintingStep DEF PrintedSoFar
<1>3. CASE ExitShow(t)
  <2>1. pc'[t] = "return"
    BY <1>1, <1>3 DEF ExitShow, Goto
  <2> QED BY <2>1, PrintingStep DEF PrintedSoFar
<1>4. CASE ~ CallShow(t) /\ ~ ExitShow(t)
  <2>1. PrintedSoFar(t)'
    BY <1>4, EnterPrints, PagePrints, ZonePrints, AllocatedPrints, FreePrints
       DEF StepOfDump
  <2> QED BY <2>1, PrintingStep
<1> QED BY <1>2, <1>3, <1>4

(* Every dump that comes to its end shows all pages and chunks there are,  *)
(* each once and in the order of their addresses: with DumpInv it has shown*)
(* so far what is up to its cursor in this order, because the search finds *)
(* the next address whatever the order of the list (SearchFindsNext), the  *)
(* lists hold every chunk once (HeapIsSound), and no other step changes    *)
(* what was found (HeapIsStill).                                           *)
THEOREM DumpsAreComplete == ShowSpec => []DumpIsComplete
<1>1. ShowInit => DumpInv
  <2> SUFFICES ASSUME ShowInit PROVE DumpInv
    OBVIOUS
  <2>1. /\ cursor = [t \in Threads |-> At(1, 0, 0)] /\ printed = <<>>
        /\ \A t \in Threads : pc[t] = "idle"
    BY DEF ShowInit, Init
  <2>2. \A t \in Threads : PrintedSoFar(t)
    BY <2>1, NotPrinting DEF Dumping
  <2> QED BY <2>1, <2>2 DEF DumpInv, At
<1>2. ShowInv /\ HeapInv /\ DumpInv /\ [ShowNext]_showVars => DumpInv'
  <2> SUFFICES ASSUME ShowInv, HeapInv, DumpInv, [ShowNext]_showVars PROVE DumpInv'
    OBVIOUS
  <2>1. CASE UNCHANGED showVars
    <3>1. UNCHANGED <<cursor, printed, pc>> /\ UNCHANGED heapVars
      BY <2>1 DEF showVars, vars
    <3>2. \A t \in Threads : PrintedSoFar(t)'
      BY <3>1, StillPrinted DEF DumpInv
    <3> QED BY <3>1, <3>2 DEF DumpInv
  <2>2. CASE ShowNext
    <3>1. PICK t \in Threads :
            \/ StepOfDump(t)
            \/ (Begin(t) \/ Proceed(t)) /\ UNCHANGED <<cursor, printed>>
      BY <2>2 DEF ShowNext, ProceedShow, StepOfDump
    <3> QED BY <2>2, <3>1, PrintingKeepsLines, OthersKeepLines
  <2> QED BY <2>1, <2>2
<1>3. DumpInv => DumpIsComplete
  BY DEF DumpInv, PrintedSoFar, DumpIsComplete
<1> QED BY <1>1, <1>2, <1>3, ShowInvariance, HeapIsSound, PTL DEF ShowSpec
=============================================================================
