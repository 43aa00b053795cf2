-------------------------- MODULE RefinementProofs --------------------------
(***************************************************************************)
(* Malloc implements Allocator, for every program that stays away from the *)
(* limit of the SMALL zone and from SIZE_MAX, and every value of the other *)
(* constants: each step of each thread is a step of the service, or one    *)
(* that the program does not see.                                          *)
(***************************************************************************)
EXTENDS BlockProofs, MallocRefinement

-----------------------------------------------------------------------------
(* The blocks of the program are apart.                                    *)

Apart(x, y) ==
  PageOf(x) \in mapped =>
    ~ Service!Overlap(x, owned[x].size, y, owned[y].size)

BlocksAreApart == \A x, y \in DOMAIN owned : x # y => Apart(x, y)

(* Where the blocks of mapped pages are.                                   *)
BlocksAreInPages ==
  \A x \in DOMAIN owned :
    PageOf(x) \in mapped =>
      x \in Pages \X (0 .. MMAP_MAX + PAGE_SIZE) /\ x[2] % ALIGNMENT = 0

LEMMA DisjointBlocks == IInv /\ SizesInv => BlocksAreApart
<1>1. SUFFICES ASSUME IInv, SizesInv, NEW x \in DOMAIN owned, NEW y \in DOMAIN owned,
                      x # y, PageOf(x) \in mapped, PageOf(y) = PageOf(x)
               PROVE  ~ (x[2] < y[2] + owned[y].size /\ y[2] < x[2] + owned[x].size)
  BY DEF BlocksAreApart, Apart, Service!Overlap, PageOf
<1> PICK p, c, d : p = PageOf(x) /\ c = ChunkOf(x) /\ d = ChunkOf(y)
  OBVIOUS
<1>2. /\ HeapInv /\ BlocksAreAllocated /\ OwnedType /\ p \in Pages
  BY <1>1, Parts, PageFacts
<1>3. /\ x = BlockOf(p, c) /\ y = BlockOf(p, d) /\ c \in Chunks(p) /\ d \in Chunks(p)
  BY <1>1, <1>2, OwnedChunkFacts
<1>4. c # d /\ c \in Nat /\ d \in Nat /\ Tiled(p)
  BY <1>1, <1>2, <1>3, PageFacts DEF ChunkTypes
<1>5. (c < d => EndOfChunk(p, c) <= d) /\ (d < c => EndOfChunk(p, d) <= c)
  BY <1>3, <1>4 DEF Tiled
<1> PICK xo, yo, xs, ys, xn, yn :
      /\ xo = x[2] /\ yo = y[2] /\ xs = SizeOfChunk(x) /\ ys = SizeOfChunk(y)
      /\ xn = owned[x].size /\ yn = owned[y].size
  OBVIOUS
<1>6. /\ xo = c + ChunkHeader /\ xo + xs = EndOfChunk(p, c) /\ xs \in Nat
      /\ yo = d + ChunkHeader /\ yo + ys = EndOfChunk(p, d) /\ ys \in Nat
  BY <1>1, <1>2, BlockSpan
<1>7. xn <= xs /\ yn <= ys /\ xn \in Nat /\ yn \in Nat
  BY <1>1, <1>2, ConstantFacts DEF SizesInv, Holds, OwnedType
<1> QED BY <1>4, <1>5, <1>6, <1>7, HeaderFacts

LEMMA BlockPlaces == IInv => BlocksAreInPages
<1>1. SUFFICES ASSUME IInv, NEW x \in DOMAIN owned, PageOf(x) \in mapped
               PROVE  x \in Pages \X (0 .. MMAP_MAX + PAGE_SIZE) /\ x[2] % ALIGNMENT = 0
  BY DEF BlocksAreInPages
<1>2. /\ HeapInv /\ BlocksAreAllocated /\ OwnedType /\ PageOf(x) \in Pages
      /\ x \in Blocks
  BY <1>1, Parts, PageFacts DEF OwnedType
<1>3. pageSize[PageOf(x)] \in 0 .. MMAP_MAX + PAGE_SIZE
  BY <1>1, <1>2, PageFacts
<1> PICK o, s, n : o = x[2] /\ s = SizeOfChunk(x) /\ n = pageSize[PageOf(x)]
  OBVIOUS
<1>4. o \in Nat /\ o % ALIGNMENT = 0 /\ s \in Nat /\ o + s <= n
  BY <1>1, <1>2, BlockSpan
<1>5. o \in 0 .. MMAP_MAX + PAGE_SIZE
  BY <1>3, <1>4, ConstantFacts
<1> QED BY <1>2, <1>4, <1>5 DEF Blocks, PageOf

(* The same, after a step.                                                 *)
LEMMA DisjointAfter == (IInv /\ SizesInv)' => BlocksAreApart'
BY DisjointBlocks, PTL

LEMMA PlacesAfter == IInv' => BlocksAreInPages'
BY BlockPlaces, PTL
-----------------------------------------------------------------------------
(* What the mapping relies on.                                             *)

LEMMA IdleBegins ==
  ASSUME IInv, NEW t \in Threads, Act(t), pc[t] = "idle"
  PROVE  Begin(t)
<1>1. ~ (Enter(t) \/ Exit(t) \/ ReallocInPlace(t) \/ ReallocElsewhere(t)
           \/ FindFreeChunk(t) \/ AddMediumPage(t) \/ TakeFoundChunk(t))
  BY DEF Enter, Exit, ReallocInPlace, ReallocElsewhere, FindFreeChunk,
     AddMediumPage, TakeFoundChunk
<1>2. ~ (AddLargePage(t) \/ AllocateNothing(t) \/ CopyBlock(t) \/ FreeNull(t)
           \/ FreePage(t) \/ FreeChunk(t) \/ ReleasePage(t) \/ KeepPage(t) \/ Clear(t))
  BY DEF AddLargePage, AllocateNothing, CopyBlock, FreeNull, FreePage, FreeChunk,
     ReleasePage, KeepPage, Clear
<1>3. ~ (ReturnNewBlock(t) \/ ReturnReallocated(t) \/ ReturnNull(t))
  BY DEF ReturnNewBlock, ReturnReallocated, ReturnNull, Finish
<1> QED BY <1>1, <1>2, <1>3 DEF Act, Proceed

(* A block is given only for a size that is not 0.                         *)
LEMMA GivenIsNotEmpty ==
  ASSUME IInv, ZoneInv, NEW t \in Threads, TakeFoundChunk(t) \/ AddLargePage(t)
  PROVE  frame[t].size # 0
<1>1. Aligned(t) # 0
  <2>1. CASE TakeFoundChunk(t)
    <3>1. pc[t] = "take"
      BY <2>1 DEF TakeFoundChunk
    <3> QED BY <3>1 DEF ZoneInv, FindingSuitsRequest
  <2>2. CASE AddLargePage(t)
    <3>1. GetZoneType(Aligned(t)) = "LARGE_ZONE"
      BY <2>2 DEF AddLargePage
    <3> QED BY <3>1, ConstantFacts DEF GetZoneType
  <2> QED BY <2>1, <2>2
<1>2. AlignUp(0, ALIGNMENT) = 0
  <2>1. /\ ALIGNMENT \in Nat \ {0} /\ SIZE_MAX \in Nat /\ 0 \in Nat
        /\ 0 + (ALIGNMENT - 1) <= SIZE_MAX /\ 0 + ALIGNMENT = ALIGNMENT
    BY ConstantFacts
  <2>2. /\ AlignUp(0, ALIGNMENT) \in Nat /\ AlignUp(0, ALIGNMENT) % ALIGNMENT = 0
        /\ AlignUp(0, ALIGNMENT) < 0 + ALIGNMENT
    BY <2>1, AlignUpFacts, Zenon
  <2>3. ASSUME NEW n \in Nat, n % ALIGNMENT = 0, n < 0 + ALIGNMENT PROVE n = 0
    BY <2>1, <2>3, SmallRemainder
  <2> QED BY <2>2, <2>3, Zenon
<1> QED BY <1>1, <1>2 DEF Aligned

LEMMA CallsStayClear ==
  ASSUME IInv, ZoneInv, MappingInv, NEW t \in Threads, Act(t), NEW u \in Threads
  PROVE  CallIsClear(u)'
<1>1. \A v \in Threads : pc'[v] # "killed"
  <2>1. pc[t] # "killed" /\ pc'[t] # "killed"
    BY OthersWait
  <2>2. ASSUME NEW v \in Threads PROVE pc[v] # "killed"
    BY <2>1 DEF MappingInv, CallIsClear
  <2> QED BY <2>1, <2>2, OthersWait
<1>2. CASE u # t
  <2>1. pc'[u] = pc[u] /\ frame'[u] = frame[u]
    BY <1>2, OthersWait
  <2> QED BY <1>1, <2>1 DEF MappingInv, CallIsClear
<1>3. CASE u = t
  <2>0. CallIsClear(t) /\ InStep(t)
    BY InCall DEF MappingInv
  <2>1. pc'[t] = "idle" => frame'[t] = NoFrame
    <3>1. ASSUME pc'[t] = "idle" PROVE frame'[t] = NoFrame
      <4>1. ReturnNewBlock(t) \/ ReturnReallocated(t) \/ ReturnNull(t)
        BY <3>1, WhereStepsLead
      <4> PICK new, size : new = frame[t].new /\ size = frame[t].size
        OBVIOUS
      <4> QED BY <4>1, ReturnFacts
    <3> QED BY <3>1
  <2>2. CASE Begin(t)
    <3>1. PICK op \in Ops, ptr \in DOMAIN owned \cup {NULL}, size \in AskedSizes,
               l \in {"enter", "return"} :
            /\ Call(t, op, ptr, size, l) /\ Pass(t, ptr)
            /\ RequestsFit /\ l = "enter" => MappingFits(size)
            /\ frame'[t] = [op |-> op, ptr |-> ptr, size |-> size, new |-> NULL,
                            page |-> NULL, chunk |-> 0]
            /\ pc[t] = "idle" /\ pc'[t] = l
            /\ op = "calloc" => ptr = NULL
            /\ op \in CallsOfProgram
      BY <2>2, BeginFacts
    <3> QED BY <1>1, <1>3, <3>1 DEF CallIsClear
  <2>3. CASE frame'[t] = NoFrame /\ pc'[t] = "idle"
    BY <1>1, <1>3, <2>3 DEF CallIsClear, NoFrame
  <2>4. CASE /\ ~ Begin(t)
             /\ frame'[t].op = frame[t].op /\ frame'[t].ptr = frame[t].ptr
             /\ frame'[t].size = frame[t].size
             /\ \/ frame'[t].new = frame[t].new
                \/ TakeFoundChunk(t) \/ AddLargePage(t) \/ ReallocInPlace(t)
    <3>1. pc[t] \notin {"idle", "killed"}
      BY <2>4, IdleBegins, OthersWait
    <3>2. frame'[t].op \in CallsOfProgram
      BY <2>0, <2>4, <3>1 DEF CallIsClear
    <3>3. ASSUME frame'[t].ptr = NULL, frame'[t].new # NULL PROVE frame'[t].size # 0
      <4>1. ~ ReallocInPlace(t)
        BY <2>4, <3>3 DEF ReallocInPlace, StaysInPlace
      <4> QED BY <2>0, <2>4, <3>3, <4>1, GivenIsNotEmpty DEF CallIsClear
    <3> QED BY <1>1, <1>3, <2>1, <3>2, <3>3 DEF CallIsClear
  <2> QED BY <2>2, <2>3, <2>4, ArgumentsStay
<1> QED BY <1>2, <1>3
(* What realloc copies is what it was to move.                             *)
LEMMA CopyMovesData ==
  ASSUME IInv, SizesInv, ContentInv, NEW t \in Threads, CopyBlock(t),
         NEW ptr, ptr = frame[t].ptr, NEW new, new = frame[t].new
  PROVE  DataOf(new)' = Service!Prefix(DataOf(ptr), frame[t].size)'
<1> PICK size : size = frame[t].size
  OBVIOUS
<1>1. /\ pc[t] = "copy" /\ UNCHANGED <<owned, heapVars, frame>>
      /\ content' = [content EXCEPT ![new] =
           Bytes(content[ptr].tag, Lesser(content[ptr].len, CopySize(t)))]
  BY DEF CopyBlock
<1>2. /\ OwnedType /\ HeapInv /\ BlocksAreAllocated /\ size \in 0 .. SIZE_MAX
      /\ Found1(t) /\ InStep(t) /\ Holding(t)
  BY InCall, Parts DEF FrameType
<1>3. /\ ptr \in DOMAIN owned /\ new \in DOMAIN owned /\ new # ptr /\ ptr # NULL
      /\ PageOf(ptr) \in mapped
  BY <1>1, <1>2 DEF InStep, Found1, Holding, Answers, HeldBy
<1>4. owned[new] = Promise(t) /\ owned[ptr].kept <= owned[ptr].size
  BY <1>1, <1>3 DEF ContentInv, CallKeeps
<1> PICK k, l, s : /\ k = owned[ptr].kept /\ l = content[ptr].len
                   /\ s = SizeOfChunk(ptr)
  OBVIOUS
<1>5. k \in Nat /\ l \in Nat /\ s \in Nat /\ size \in Nat /\ k <= s
  <2>1. owned[ptr].size \in Nat /\ owned[ptr].size <= s /\ s \in Nat
    BY <1>2, <1>3, ConstantFacts, OwnedChunkFacts DEF SizesInv, Holds, OwnedType
  <2> QED BY <1>2, <1>3, <1>4, <2>1, ConstantFacts DEF OwnedType
<1>6. owned'[new].kept = Lesser(k, size)
  BY <1>1, <1>3, <1>4 DEF Promise, Block
<1>7. /\ content'[new] = Bytes(content[ptr].tag, Lesser(l, Lesser(s, size)))
      /\ content'[ptr] = content[ptr]
  BY <1>1, <1>2, <1>3 DEF OwnedType, CopySize
<1> DEFINE m == Lesser(l, k)
           n == Lesser(Lesser(l, Lesser(s, size)), Lesser(k, size))
<1>8. /\ DataOf(new)' = IF n = 0 THEN Bytes(Junk, 0) ELSE Bytes(content[ptr].tag, n)
      /\ DataOf(ptr)' = IF m = 0 THEN Bytes(Junk, 0) ELSE Bytes(content[ptr].tag, m)
  BY <1>1, <1>6, <1>7 DEF DataOf, Bytes
<1>9. /\ m \in Nat /\ n \in Nat
      /\ n = IF size = 0 THEN 0 ELSE IF m < size THEN m ELSE size
  BY <1>5 DEF Lesser
<1> HIDE DEF m, n
<1>10. Service!Prefix(DataOf(ptr), frame[t].size)'
         = IF size = 0 THEN [tag |-> Junk, len |-> 0]
           ELSE [(DataOf(ptr)') EXCEPT !.len = IF @ < size THEN @ ELSE size]
  BY <1>1 DEF Service!Prefix, Service!Nothing
<1>11. CASE size = 0
  BY <1>8, <1>9, <1>10, <1>11 DEF Bytes
<1>12. CASE size # 0 /\ m = 0
  BY <1>5, <1>8, <1>9, <1>10, <1>12 DEF Bytes
<1>13. CASE size # 0 /\ m # 0
  BY <1>5, <1>8, <1>9, <1>10, <1>13 DEF Bytes
<1> QED BY <1>11, <1>12, <1>13

LEMMA MovesStayReady ==
  ASSUME IInv, SizesInv, ContentInv, MappingInv, NEW t \in Threads, Act(t),
         NEW u \in Threads
  PROVE  MoveIsReady(u)'
<1>1. CASE u # t
  <2> PICK ptr, new : ptr = frame[u].ptr /\ new = frame[u].new
    OBVIOUS
  <2>1. pc'[u] = pc[u] /\ frame'[u] = frame[u] /\ MoveIsReady(u)
    BY <1>1, OthersWait DEF MappingInv
  <2>2. SUFFICES ASSUME pc[u] \in {"copy", "free"}, new # NULL
                 PROVE  MoveIsReady(u)'
    BY <2>1 DEF MoveIsReady
  <2>3. ptr \in HeldBy(u) /\ new \in HeldBy(u) /\ u # NoThread /\ ptr # NULL
    BY <2>1, <2>2, InCall DEF MoveIsReady, Holding, Answers
  <2>4. mapped' = mapped
    <3>1. ~ HeapAct(t)
      BY <1>1, <2>2, HeapChangesLocked DEF Critical
    <3> QED BY <3>1, HeapChangesHere DEF heapVars
  <2>5. /\ owned'[ptr] = owned[ptr] /\ content'[ptr] = content[ptr]
        /\ owned'[new] = owned[new] /\ content'[new] = content[new]
    BY <1>1, <2>3, <2>4, OthersBlocksStay DEF HeldBy
  <2>6. DataOf(ptr)' = DataOf(ptr) /\ DataOf(new)' = DataOf(new)
    BY <2>5 DEF DataOf
  <2>7. Service!Prefix(DataOf(ptr), frame[u].size)'
          = Service!Prefix(DataOf(ptr), frame[u].size)
    BY <2>1, <2>6 DEF Service!Prefix, Service!Nothing
  <2> QED BY <2>1, <2>3, <2>4, <2>5, <2>6, <2>7 DEF MoveIsReady
<1>2. CASE pc'[t] = "copy"
  <2>1. TakeFoundChunk(t) \/ AddLargePage(t)
    BY <1>2, WhereStepsLead
  <2>2. PICK new \in Blocks \ DOMAIN owned : Give(t, new) /\ PageOf(new) \in mapped'
    <3>1. CASE TakeFoundChunk(t)
      <4> PICK p, c : p = frame[t].page /\ c = frame[t].chunk
        OBVIOUS
      <4> QED BY <3>1, TakeFoundChunkEffect
    <3> QED BY <2>1, <3>1, AddLargePageEffect
  <2>3. /\ owned'[new] = Promise(t) /\ frame[t] \in FrameType
        /\ frame'[t] = [frame[t] EXCEPT !.new = new, !.page = NULL, !.chunk = 0]
        /\ pc'[t] = IF frame[t].ptr = NULL THEN "exit" ELSE "copy"
    BY <2>2, GiveEffect, InCall
  <2>4. /\ frame'[t].new = new /\ frame'[t].ptr = frame[t].ptr
        /\ frame'[t].size = frame[t].size /\ frame[t].ptr # NULL
        /\ frame'[t].op = frame[t].op
    BY <1>2, <2>3 DEF FrameType
  <2>6. frame[t].op # "free"
    <3>1. pc[t] \in {"take", "allocate"} /\ InStep(t)
      BY <2>1, InCall DEF TakeFoundChunk, AddLargePage
    <3> QED BY <3>1 DEF InStep
  <2>5. owned'[new].size = frame[t].size
    BY <2>3, <2>4 DEF Promise, Block
  <2> QED BY <1>1, <1>2, <2>2, <2>4, <2>5, <2>6 DEF MoveIsReady
<1>3. CASE pc'[t] = "free"
  <2>1. CASE Enter(t)
    <3>1. frame'[t].new = NULL
      BY <2>1, InCall DEF Enter, InStep
    <3> QED BY <1>1, <3>1 DEF MoveIsReady
  <2>2. CASE CopyBlock(t)
    <3> PICK ptr, new : ptr = frame[t].ptr /\ new = frame[t].new
      OBVIOUS
    <3>1. pc[t] = "copy" /\ UNCHANGED <<heapVars, frame, owned>> /\ InStep(t)
          /\ MoveIsReady(t)
      BY <2>2, InCall DEF CopyBlock, MappingInv
    <3>2. DataOf(new)' = Service!Prefix(DataOf(ptr), frame[t].size)'
      BY <2>2, CopyMovesData
    <3>3. /\ ptr # NULL /\ new # NULL /\ PageOf(new) \in mapped
          /\ owned[new].size = frame[t].size
      BY <3>1 DEF MoveIsReady, InStep
    <3> QED BY <1>1, <3>1, <3>2, <3>3 DEF MoveIsReady, InStep, heapVars
  <2> QED BY <1>3, <2>1, <2>2, WhereStepsLead
<1> QED BY <1>1, <1>2, <1>3 DEF MoveIsReady

LEMMA MappingStep ==
  ASSUME IInv, BlocksInv, MappingInv, [Next]_vars
  PROVE  MappingInv'
<1>1. CASE UNCHANGED vars
  <2>1. UNCHANGED <<mapped, pc, frame, owned, content>>
    BY <1>1 DEF vars, heapVars
  <2>2. \A x : DataOf(x)' = DataOf(x)
    BY <2>1 DEF DataOf
  <2> QED BY <2>1, <2>2 DEF MappingInv, CallIsClear, MoveIsReady, Service!Prefix,
             Service!Nothing
<1>2. ASSUME NEW t \in Threads, Fault(t) PROVE MappingInv'
  BY <1>2 DEF Fault, MappingInv, CallIsClear, MoveIsReady
<1>3. ASSUME NEW t \in Threads, Act(t) PROVE MappingInv'
  BY <1>3, CallsStayClear, MovesStayReady DEF MappingInv, BlocksInv
<1> QED BY <1>1, <1>2, <1>3, StepIsAct

(* What the refinement mapping reads of a call is ready when it is read.   *)
THEOREM MappingInvariance ==
  ASSUME RequestsFit
  PROVE  Spec => [](IInv /\ BlocksInv /\ MappingInv)
<1>1. Init => MappingInv
  BY DEF Init, MappingInv, CallIsClear, MoveIsReady, NoFrame
<1>2. IInv /\ BlocksInv /\ MappingInv /\ [Next]_vars => MappingInv'
  BY MappingStep
<1> QED BY <1>1, <1>2, BlocksInvariance, PTL DEF Spec
-----------------------------------------------------------------------------
(* What the program sees, and what a step changes of it.                   *)

Seen(x) == [by |-> owned[x].by, size |-> owned[x].size, data |-> DataOf(x)]

CallSeen(t) ==
  [op |-> frame[t].op, ptr |-> frame[t].ptr, size |-> frame[t].size,
   new |-> IF Moving(t) THEN NULL ELSE frame[t].new]

LEMMA View ==
  /\ VisibleBlocks = [x \in Visible |-> Seen(x)]
  /\ VisibleCalls = [t \in Threads |-> CallSeen(t)]
BY DEF VisibleBlocks, VisibleCalls, Seen, CallSeen

LEMMA ViewAfter ==
  /\ VisibleBlocks' = [x \in Visible' |-> Seen(x)']
  /\ VisibleCalls' = [t \in Threads |-> CallSeen(t)']
BY DEF VisibleBlocks, VisibleCalls, Seen, CallSeen

(* A call that has the block it was passed and the one it will return.     *)
InMove(t) ==
  pc[t] \in {"copy", "free"} /\ frame[t].ptr # NULL /\ frame[t].new # NULL

MovesAreInMove ==
  \A t \in Threads : pc[t] # "killed" => (Moving(t) <=> InMove(t))

LEMMA MovesInMove == IInv => MovesAreInMove
<1>1. SUFFICES ASSUME IInv, NEW t \in Threads, pc[t] # "killed"
               PROVE  Moving(t) <=> InMove(t)
  BY DEF MovesAreInMove
<1> PICK ptr, new : ptr = frame[t].ptr /\ new = frame[t].new
  OBVIOUS
<1>2. /\ Holding(t) /\ InStep(t) /\ pc[t] \in Labels
  BY <1>1, InCall
<1>3. Moving(t) <=> /\ ptr # NULL /\ new \notin {NULL, ptr}
                    /\ ptr \in HeldBy(t)
  BY DEF Moving, HeldBy
<1>4. HeldBy(t) = Answers(t)
  BY <1>1, <1>2 DEF Holding
<1>5. CASE InMove(t)
  BY <1>2, <1>3, <1>4, <1>5 DEF InMove, InStep, Answers
<1>6. CASE ~ InMove(t)
  <2>1. SUFFICES ASSUME ptr # NULL, new \notin {NULL, ptr}, ptr \in HeldBy(t)
                 PROVE  FALSE
    BY <1>3, <1>6
  <2>2. pc[t] \notin {"copy", "free", "enter", "realloc", "allocate", "take"}
    BY <1>2, <1>6, <2>1 DEF InMove, InStep
  <2> QED BY <1>1, <1>2, <1>4, <2>1, <2>2 DEF Answers, Labels
<1> QED BY <1>5, <1>6

LEMMA MovesInMoveAfter == IInv' => MovesAreInMove'
BY MovesInMove, PTL

(* What is hidden because other threads are moving it.                     *)
Hidden(t) == {frame[u].new : u \in {v \in Threads \ {t} : InMove(v)}}

OwnHidden(t) == IF InMove(t) THEN {frame[t].new} ELSE {}

LEMMA StepView ==
  ASSUME IInv, MappingInv, NEW t \in Threads, Act(t)
  PROVE  /\ IInv'
         /\ \A u \in Threads : Moving(u) <=> InMove(u)
         /\ Moving(t)' <=> InMove(t)'
         /\ \A u \in Threads \ {t} : CallSeen(u)' = CallSeen(u)
         /\ Hidden(t)' = Hidden(t)
         /\ \A x \in Hidden(t) :
              x \in DOMAIN owned /\ owned[x].by \notin {t, NoThread}
         /\ Visible = (DOMAIN owned \ Hidden(t)) \ OwnHidden(t)
         /\ Visible' = (DOMAIN owned' \ Hidden(t)) \ OwnHidden(t)'
<1>1. IInv'
  BY NextInv DEF Act, Next
<1>2. /\ \A u \in Threads \ {t} : pc'[u] = pc[u] /\ frame'[u] = frame[u]
      /\ \A u \in Threads : pc[u] # "killed" /\ pc'[u] # "killed"
  <2>1. /\ \A u \in Threads \ {t} : pc'[u] = pc[u] /\ frame'[u] = frame[u]
        /\ pc[t] # "killed" /\ pc'[t] # "killed"
    BY OthersWait
  <2>2. \A u \in Threads : pc[u] = "killed" => pc[t] = "killed"
    BY DEF MappingInv, CallIsClear
  <2> QED BY <2>1, <2>2
<1>3. /\ \A u \in Threads : Moving(u) <=> InMove(u)
      /\ \A u \in Threads : Moving(u)' <=> InMove(u)'
  BY <1>1, <1>2, MovesInMove, MovesInMoveAfter DEF MovesAreInMove
<1>4. \A u \in Threads \ {t} : InMove(u)' <=> InMove(u)
  BY <1>2 DEF InMove
<1>5. \A u \in Threads \ {t} : CallSeen(u)' = CallSeen(u)
  BY <1>2, <1>3, <1>4 DEF CallSeen
<1>6. Hidden(t)' = Hidden(t)
  BY <1>2, <1>4 DEF Hidden
<1>7. ASSUME NEW x \in Hidden(t)
      PROVE  x \in DOMAIN owned /\ owned[x].by \notin {t, NoThread}
  <2>1. PICK u \in Threads \ {t} : InMove(u) /\ x = frame[u].new
    BY DEF Hidden
  <2>2. x \in HeldBy(u) /\ u # NoThread
    BY <1>2, <2>1, InCall DEF InMove, Holding, Answers
  <2> QED BY <2>1, <2>2 DEF HeldBy
<1>8. Visible = (DOMAIN owned \ Hidden(t)) \ OwnHidden(t)
  BY <1>3 DEF Visible, Hidden, OwnHidden
<1>9. Visible' = (DOMAIN owned' \ Hidden(t)') \ OwnHidden(t)'
  BY <1>3 DEF Visible, Hidden, OwnHidden
<1> QED BY <1>1, <1>3, <1>5, <1>6, <1>7, <1>8, <1>9

(* A step that the program does not see.                                   *)
LEMMA UnseenStep ==
  ASSUME IInv, MappingInv, NEW t \in Threads, Act(t),
         CallSeen(t)' = CallSeen(t), Visible' = Visible,
         \A x \in Visible : Seen(x)' = Seen(x)
  PROVE  UNCHANGED <<VisibleBlocks, VisibleCalls>>
<1>1. \A u \in Threads : CallSeen(u)' = CallSeen(u)
  BY StepView
<1>2. VisibleCalls' = VisibleCalls
  BY <1>1, View, ViewAfter
<1>3. VisibleBlocks' = VisibleBlocks
  BY View, ViewAfter
<1> QED BY <1>2, <1>3

(* The call of the thread that takes a step, and those of the others.      *)
LEMMA CallsAfter ==
  ASSUME IInv, MappingInv, NEW t \in Threads, Act(t)
  PROVE  VisibleCalls' = [VisibleCalls EXCEPT ![t] = CallSeen(t)']
<1>1. \A u \in Threads \ {t} : CallSeen(u)' = CallSeen(u)
  BY StepView
<1> QED BY <1>1, View, ViewAfter
-----------------------------------------------------------------------------
(* The steps that the program does not see.                                *)

LEMMA QuietIsUnseen ==
  ASSUME IInv, MappingInv, NEW t \in Threads, Act(t),
         UNCHANGED <<owned, content>>, InMove(t)' <=> InMove(t),
         frame'[t].op = frame[t].op, frame'[t].ptr = frame[t].ptr,
         frame'[t].size = frame[t].size, frame'[t].new = frame[t].new
  PROVE  UNCHANGED <<VisibleBlocks, VisibleCalls>>
<1>1. CallSeen(t)' = CallSeen(t)
  BY StepView DEF CallSeen
<1>2. Visible' = Visible
  <2>1. OwnHidden(t)' = OwnHidden(t)
    BY DEF OwnHidden
  <2> QED BY <2>1, StepView
<1>3. \A x \in Visible : Seen(x)' = Seen(x)
  BY DEF Seen, DataOf
<1> QED BY <1>1, <1>2, <1>3, UnseenStep

QuietAct(t) ==
  \/ Enter(t) \/ Exit(t) \/ ReallocElsewhere(t) \/ FindFreeChunk(t)
  \/ AddMediumPage(t) \/ AllocateNothing(t) \/ FreeNull(t) \/ ReleasePage(t)
  \/ KeepPage(t)

LEMMA QuietActIsUnseen ==
  ASSUME IInv, MappingInv, NEW t \in Threads, Act(t), QuietAct(t)
  PROVE  UNCHANGED <<VisibleBlocks, VisibleCalls>>
<1>1. /\ InStep(t) /\ frame \in [Threads -> FrameType]
      /\ \A l : Goto(t, l) => pc'[t] = l
  BY InCall
<1>2. UNCHANGED <<owned, content>>
  BY ReleasePageEffect DEF QuietAct, Enter, Exit, ReallocElsewhere, FindFreeChunk,
     AddMediumPage, Found, AllocateNothing, FreeNull, KeepPage
<1>3. /\ frame'[t].op = frame[t].op /\ frame'[t].ptr = frame[t].ptr
      /\ frame'[t].size = frame[t].size /\ frame'[t].new = frame[t].new
  <2>1. ~ Begin(t) /\ pc'[t] # "idle" /\ ~ ReallocInPlace(t)
    <3>1. CASE Enter(t) \/ Exit(t)
      BY <1>1, <3>1, BeginFacts DEF Enter, Exit, ReallocInPlace, FirstStep, InStep
    <3>2. CASE ReallocElsewhere(t) \/ FindFreeChunk(t) \/ AddMediumPage(t)
      BY <1>1, <3>2, BeginFacts DEF ReallocElsewhere, FindFreeChunk, AddMediumPage,
         Found, ReallocInPlace
    <3>3. CASE AllocateNothing(t) \/ FreeNull(t) \/ ReleasePage(t) \/ KeepPage(t)
      BY <1>1, <3>3, BeginFacts DEF AllocateNothing, FreeNull, ReleasePage, KeepPage,
         ReallocInPlace
    <3> QED BY <3>1, <3>2, <3>3 DEF QuietAct
  <2>2. ~ (TakeFoundChunk(t) \/ AddLargePage(t))
    <3>1. ASSUME TakeFoundChunk(t) \/ AddLargePage(t) PROVE FALSE
      <4>1. PICK new \in Blocks \ DOMAIN owned : Give(t, new)
        <5>1. CASE TakeFoundChunk(t)
          <6> PICK p, c : p = frame[t].page /\ c = frame[t].chunk
            OBVIOUS
          <6> QED BY <5>1, TakeFoundChunkEffect
        <5> QED BY <3>1, <5>1, AddLargePageEffect
      <4>2. DOMAIN owned' = DOMAIN owned \cup {new}
        BY <4>1, GiveEffect
      <4> QED BY <1>2, <4>1, <4>2
    <3> QED BY <3>1
  <2> QED BY <2>1, <2>2, ArgumentsStay
<1>4. ~ InMove(t) /\ ~ InMove(t)'
  <2>1. CASE Enter(t) \/ Exit(t)
    BY <1>1, <2>1 DEF InMove, Enter, Exit, InStep
  <2>2. CASE ReallocElsewhere(t) \/ FindFreeChunk(t) \/ AddMediumPage(t)
    BY <1>1, <2>2 DEF InMove, ReallocElsewhere, FindFreeChunk, AddMediumPage, Found
  <2>3. CASE AllocateNothing(t) \/ FreeNull(t) \/ ReleasePage(t) \/ KeepPage(t)
    BY <1>1, <2>3 DEF InMove, AllocateNothing, FreeNull, ReleasePage, KeepPage
  <2> QED BY <2>1, <2>2, <2>3 DEF QuietAct
<1> QED BY <1>2, <1>3, <1>4, QuietIsUnseen

(* Realloc copies into a block that the program does not have yet.         *)
LEMMA CopyIsUnseen ==
  ASSUME IInv, MappingInv, NEW t \in Threads, Act(t), CopyBlock(t)
  PROVE  UNCHANGED <<VisibleBlocks, VisibleCalls>>
<1> PICK new : new = frame[t].new
  OBVIOUS
<1>1. /\ pc[t] = "copy" /\ pc'[t] = "free" /\ UNCHANGED <<frame, owned>>
      /\ \E v : content' = [content EXCEPT ![new] = v]
      /\ InStep(t) /\ OwnedType
  BY InCall DEF CopyBlock
<1>2. InMove(t) /\ InMove(t)'
  BY <1>1 DEF InMove, InStep
<1>3. CallSeen(t)' = CallSeen(t)
  BY <1>1, <1>2, StepView DEF CallSeen
<1>4. Visible' = Visible /\ new \notin Visible /\ Visible \subseteq DOMAIN owned
  <2>1. OwnHidden(t)' = OwnHidden(t) /\ OwnHidden(t) = {new}
    BY <1>1, <1>2 DEF OwnHidden
  <2>2. /\ Visible = (DOMAIN owned \ Hidden(t)) \ OwnHidden(t)
        /\ Visible' = (DOMAIN owned' \ Hidden(t)) \ OwnHidden(t)'
    BY StepView
  <2> QED BY <1>1, <2>1, <2>2
<1>5. \A x \in Visible : Seen(x)' = Seen(x)
  BY <1>1, <1>4 DEF Seen, DataOf, OwnedType
<1> QED BY <1>3, <1>4, <1>5, UnseenStep

(* Of the block that calloc clears nothing was expected yet.               *)
LEMMA ClearIsUnseen ==
  ASSUME IInv, ContentInv, MappingInv, NEW t \in Threads, Act(t), Clear(t)
  PROVE  UNCHANGED <<VisibleBlocks, VisibleCalls>>
<1> PICK new : new = frame[t].new
  OBVIOUS
<1>1. /\ pc[t] = "clear" /\ pc'[t] = "return" /\ UNCHANGED <<frame, owned>>
      /\ content' = [content EXCEPT ![new] = Bytes(Zero, frame[t].size)]
      /\ OwnedType /\ frame[t] \in FrameType /\ NULL \notin DOMAIN owned
  BY InCall, ProgramAssumption DEF Clear, OwnedType, Blocks
<1>2. ~ InMove(t) /\ ~ InMove(t)'
  BY <1>1 DEF InMove
<1>3. CallSeen(t)' = CallSeen(t)
  BY <1>1, <1>2, StepView DEF CallSeen
<1>4. Visible' = Visible /\ Visible \subseteq DOMAIN owned
  BY <1>1, <1>2, StepView DEF OwnHidden
<1>5. ASSUME NEW x \in Visible PROVE DataOf(x)' = DataOf(x)
  <2>1. CASE x # new
    BY <1>1, <1>4, <2>1 DEF DataOf, OwnedType
  <2>2. CASE x = new
    <3>1. owned[x].kept = 0
      BY <1>1, <1>4, <2>2 DEF ContentInv, CallKeeps
    <3>2. content[x].len \in Nat /\ content'[x].len \in Nat
      BY <1>1, <1>4, <2>2, ConstantFacts DEF OwnedType, FrameType, Bytes
    <3> QED BY <1>1, <3>1, <3>2 DEF DataOf, Lesser
  <2> QED BY <2>1, <2>2
<1>6. \A x \in Visible : Seen(x)' = Seen(x)
  BY <1>1, <1>5 DEF Seen
<1> QED BY <1>3, <1>4, <1>6, UnseenStep
-----------------------------------------------------------------------------
(* The steps that the program sees.                                        *)

LEMMA NoCallMade ==
  ASSUME NEW op, NEW ptr, NEW size
  PROVE  [Service!NoCall EXCEPT !.op = op, !.ptr = ptr, !.size = size]
           = [op |-> op, ptr |-> ptr, size |-> size, new |-> NULL]
<1>1. [Service!NoCall EXCEPT !.op = op]
        = [op |-> op, ptr |-> NULL, size |-> 0, new |-> NULL]
  BY DEF Service!NoCall
<1>2. [[op |-> op, ptr |-> NULL, size |-> 0, new |-> NULL] EXCEPT !.ptr = ptr]
        = [op |-> op, ptr |-> ptr, size |-> 0, new |-> NULL]
  OBVIOUS
<1>3. [[op |-> op, ptr |-> ptr, size |-> 0, new |-> NULL] EXCEPT !.size = size]
        = [op |-> op, ptr |-> ptr, size |-> size, new |-> NULL]
  OBVIOUS
<1> QED BY <1>1, <1>2, <1>3

LEMMA BeginInvokes ==
  ASSUME IInv, MappingInv, NEW t \in Threads, Act(t), Begin(t)
  PROVE  Service!Invoke(t)
<1>1. PICK op \in Ops, ptr \in DOMAIN owned \cup {NULL}, size \in AskedSizes,
           l \in {"enter", "return"} :
        /\ Call(t, op, ptr, size, l) /\ Pass(t, ptr)
        /\ RequestsFit /\ l = "enter" => MappingFits(size)
        /\ frame'[t] = [op |-> op, ptr |-> ptr, size |-> size, new |-> NULL,
                        page |-> NULL, chunk |-> 0]
        /\ pc[t] = "idle" /\ pc'[t] = l
        /\ op = "calloc" => ptr = NULL
        /\ op \in CallsOfProgram
  BY BeginFacts
<1>2. frame[t] = NoFrame
  BY <1>1 DEF MappingInv, CallIsClear
<1>3. ~ InMove(t) /\ ~ InMove(t)'
  BY <1>1 DEF InMove
<1>4. VisibleCalls[t] = Service!NoCall
  <2>1. CallSeen(t) = Service!NoCall
    BY <1>2, <1>3, StepView DEF CallSeen, Service!NoCall, NoFrame
  <2> QED BY <2>1, View
<1>5. VisibleCalls' = [VisibleCalls EXCEPT ![t] =
        [Service!NoCall EXCEPT !.op = op, !.ptr = ptr, !.size = size]]
  <2>1. CallSeen(t)' = [op |-> op, ptr |-> ptr, size |-> size, new |-> NULL]
    BY <1>1, <1>3, StepView DEF CallSeen
  <2>2. [Service!NoCall EXCEPT !.op = op, !.ptr = ptr, !.size = size]
          = [op |-> op, ptr |-> ptr, size |-> size, new |-> NULL]
    BY NoCallMade
  <2>3. VisibleCalls' = [VisibleCalls EXCEPT ![t] = CallSeen(t)']
    BY CallsAfter
  <2> QED BY <2>1, <2>2, <2>3
<1>6. /\ OwnedType /\ UNCHANGED content /\ DOMAIN owned' = DOMAIN owned
      /\ NULL \notin DOMAIN owned
  BY <1>1, PassFacts, InCall, ProgramAssumption DEF OwnedType, Blocks
<1>7. Visible' = Visible /\ Visible = DOMAIN owned \ Hidden(t)
  <2>1. OwnHidden(t) = {} /\ OwnHidden(t)' = {}
    BY <1>3 DEF OwnHidden
  <2>2. /\ Visible = (DOMAIN owned \ Hidden(t)) \ OwnHidden(t)
        /\ Visible' = (DOMAIN owned' \ Hidden(t)) \ OwnHidden(t)'
    BY StepView
  <2> QED BY <1>6, <2>1, <2>2
<1>8. CASE ptr = NULL
  <2>1. UNCHANGED owned
    BY <1>1, <1>8 DEF Pass
  <2>2. \A x \in Visible : Seen(x)' = Seen(x)
    BY <1>6, <2>1 DEF Seen, DataOf
  <2>3. VisibleBlocks' = VisibleBlocks
    BY <1>7, <2>2, View, ViewAfter
  <2> QED BY <1>1, <1>4, <1>5, <1>8, <2>3 DEF Service!Invoke
<1>9. CASE ptr # NULL
  <2>1. /\ ptr \in DOMAIN owned /\ owned[ptr].by = NoThread
        /\ owned' = [owned EXCEPT ![ptr].by = t]
    BY <1>1, <1>9 DEF Pass
  <2>2. owned[ptr] \in [by: Threads \cup {NoThread}, size: 0 .. SIZE_MAX,
                        tag: Tags \cup {Zero, Junk}, kept: 0 .. SIZE_MAX]
    BY <1>6, <2>1 DEF OwnedType
  <2>3. ptr \in Visible
    BY <1>7, <2>1, StepView
  <2>4. \A x \in Visible \ {ptr} : Seen(x)' = Seen(x)
    BY <1>6, <1>7, <2>1 DEF Seen, DataOf
  <2>5. owned'[ptr] = [owned[ptr] EXCEPT !.by = t]
    BY <2>1
  <2>6. Seen(ptr)' = [Seen(ptr) EXCEPT !.by = t]
    BY <1>6, <2>2, <2>5 DEF Seen, DataOf
  <2>7. VisibleBlocks' = [VisibleBlocks EXCEPT ![ptr].by = t]
    BY <1>7, <2>3, <2>4, <2>6, View, ViewAfter
  <2>8. ptr \in DOMAIN VisibleBlocks /\ VisibleBlocks[ptr].by = NoThread
    BY <2>1, <2>3, View DEF Seen
  <2> QED BY <1>1, <1>4, <1>5, <1>9, <2>7, <2>8 DEF Service!Invoke
<1> QED BY <1>8, <1>9

(* A block that a call was passed, as the service sees it.                 *)
LEMMA PassedBlock ==
  ASSUME IInv, MappingInv, NEW t \in Threads, Act(t), NEW ptr,
         ptr = frame[t].ptr, ptr # NULL, ptr \in DOMAIN owned, owned[ptr].by = t
  PROVE  /\ ptr \in Visible /\ VisibleBlocks[ptr] = Seen(ptr)
         /\ Service!HasBlock(t)
         /\ VisibleCalls[t].ptr = ptr
<1>1. /\ Visible = (DOMAIN owned \ Hidden(t)) \ OwnHidden(t)
      /\ ptr \notin Hidden(t)
  BY StepView
<1>2. ptr \notin OwnHidden(t)
  <2>1. CASE InMove(t)
    <3>1. Moving(t)
      BY <2>1, StepView
    <3> QED BY <3>1 DEF OwnHidden, Moving
  <2> QED BY <2>1 DEF OwnHidden
<1>3. ptr \in Visible
  BY <1>1, <1>2
<1>4. VisibleBlocks[ptr] = Seen(ptr) /\ ptr \in DOMAIN VisibleBlocks
  BY <1>3, View
<1>5. VisibleCalls[t].ptr = ptr
  BY View DEF CallSeen
<1>6. VisibleBlocks[ptr].by = t
  BY <1>4 DEF Seen
<1> QED BY <1>3, <1>4, <1>5, <1>6 DEF Service!HasBlock

LEMMA InPlaceStays ==
  ASSUME IInv, MappingInv, NEW t \in Threads, Act(t), ReallocInPlace(t)
  PROVE  Service!Stay(t)
<1> PICK ptr : ptr = frame[t].ptr
  OBVIOUS
<1>1. /\ pc[t] = "realloc" /\ pc'[t] = "exit" /\ ptr # NULL
      /\ UNCHANGED <<owned, content>>
      /\ frame' = [frame EXCEPT ![t].new = ptr]
      /\ InStep(t) /\ Holding(t) /\ frame \in [Threads -> FrameType]
      /\ CallIsClear(t)
  BY InCall DEF ReallocInPlace, StaysInPlace, MappingInv
<1>2. frame[t].new = NULL /\ frame[t].op \notin {"none", "free"}
  BY <1>1 DEF InStep, CallIsClear, CallsOfProgram
<1>3. ptr \in DOMAIN owned /\ owned[ptr].by = t
  BY <1>1 DEF Holding, Answers, HeldBy
<1>4. ~ InMove(t) /\ ~ InMove(t)'
  BY <1>1 DEF InMove
<1>5. CallSeen(t) = [op |-> frame[t].op, ptr |-> ptr, size |-> frame[t].size,
                     new |-> NULL]
  BY <1>2, <1>4, StepView DEF CallSeen
<1>6. CallSeen(t)' = [op |-> frame[t].op, ptr |-> ptr, size |-> frame[t].size,
                      new |-> ptr]
  <2>1. frame'[t] = [frame[t] EXCEPT !.new = ptr]
    BY <1>1
  <2>2. /\ frame'[t].op = frame[t].op /\ frame'[t].ptr = ptr
        /\ frame'[t].size = frame[t].size /\ frame'[t].new = ptr
    BY <1>1, <2>1 DEF FrameType
  <2> QED BY <1>4, <2>2, StepView DEF CallSeen
<1>7. VisibleCalls[t] = CallSeen(t)
  BY View
<1>8. VisibleCalls' = [VisibleCalls EXCEPT ![t].new = ptr]
  BY <1>5, <1>6, <1>7, CallsAfter
<1>9. UNCHANGED VisibleBlocks
  <2>1. OwnHidden(t) = {} /\ OwnHidden(t)' = {}
    BY <1>4 DEF OwnHidden
  <2>2. /\ Visible = (DOMAIN owned \ Hidden(t)) \ OwnHidden(t)
        /\ Visible' = (DOMAIN owned' \ Hidden(t)) \ OwnHidden(t)'
    BY StepView
  <2>3. Visible' = Visible /\ \A x \in Visible : Seen(x)' = Seen(x)
    BY <1>1, <2>1, <2>2 DEF Seen, DataOf
  <2> QED BY <2>3, View, ViewAfter
<1>10. VisibleCalls[t].op = frame[t].op /\ VisibleCalls[t].new = NULL
  BY <1>5, <1>7
<1>11. Service!Asks(t)
  BY <1>2, <1>10 DEF Service!Asks
<1>12. Service!HasBlock(t) /\ VisibleCalls[t].ptr = ptr
  BY <1>1, <1>3, PassedBlock
<1> QED BY <1>8, <1>9, <1>11, <1>12 DEF Service!Stay, Service!Gets
(* malloc gets its block when a chunk is taken or a page mapped for it;    *)
(* what realloc gets then is not seen before the old block is freed.       *)
LEMMA GiveAllocates ==
  ASSUME IInv, BlocksInv, MappingInv, NEW t \in Threads, Act(t),
         TakeFoundChunk(t) \/ AddLargePage(t)
  PROVE  UNCHANGED <<VisibleBlocks, VisibleCalls>> \/ Service!Allocate(t)
<1> PICK ptr, size : ptr = frame[t].ptr /\ size = frame[t].size
  OBVIOUS
<1>1. PICK new \in Blocks \ DOMAIN owned : Give(t, new) /\ PageOf(new) \in mapped'
  <2>1. CASE TakeFoundChunk(t)
    <3> PICK p, c : p = frame[t].page /\ c = frame[t].chunk
      OBVIOUS
    <3> QED BY <2>1, TakeFoundChunkEffect
  <2> QED BY <2>1, AddLargePageEffect
<1>2. /\ DOMAIN owned' = DOMAIN owned \cup {new}
      /\ owned'[new] = Promise(t)
      /\ \A x \in DOMAIN owned : owned'[x] = owned[x]
      /\ content'[new] = Bytes(Junk, 0)
      /\ \A x \in DOMAIN owned : content'[x] = content[x]
      /\ frame'[t] = [frame[t] EXCEPT !.new = new, !.page = NULL, !.chunk = 0]
      /\ pc'[t] = IF frame[t].ptr = NULL THEN "exit" ELSE "copy"
  BY <1>1, GiveEffect
<1>3. /\ pc[t] \in {"take", "allocate"} /\ frame[t].new = NULL
      /\ frame[t].op \notin {"none", "free"} /\ frame[t] \in FrameType
      /\ new # NULL
  <2>1. pc[t] \in {"take", "allocate"} /\ InStep(t) /\ CallIsClear(t)
    BY InCall DEF TakeFoundChunk, AddLargePage, MappingInv
  <2> QED BY <2>1, InCall, ProgramAssumption
          DEF InStep, CallIsClear, CallsOfProgram, Blocks
<1>4. /\ frame'[t].op = frame[t].op /\ frame'[t].ptr = ptr
      /\ frame'[t].size = size /\ frame'[t].new = new
  BY <1>2, <1>3 DEF FrameType
<1>5. ~ InMove(t) /\ OwnHidden(t) = {}
  BY <1>3 DEF InMove, OwnHidden
<1>6. CallSeen(t) = [op |-> frame[t].op, ptr |-> ptr, size |-> size, new |-> NULL]
  BY <1>3, <1>5, StepView DEF CallSeen
<1>7. /\ Visible = (DOMAIN owned \ Hidden(t)) \ OwnHidden(t)
      /\ Visible' = (DOMAIN owned' \ Hidden(t)) \ OwnHidden(t)'
      /\ Hidden(t) \subseteq DOMAIN owned
  BY StepView
<1>8. \A x \in Visible : Seen(x)' = Seen(x)
  BY <1>2, <1>7 DEF Seen, DataOf
<1>9. CASE ptr # NULL
  <2>1. InMove(t)' /\ OwnHidden(t)' = {new}
    BY <1>2, <1>3, <1>4, <1>9 DEF InMove, OwnHidden
  <2>2. Visible' = Visible
    BY <1>1, <1>2, <1>5, <1>7, <2>1
  <2>3. CallSeen(t)' = CallSeen(t)
    BY <1>4, <1>6, <2>1, StepView DEF CallSeen
  <2> QED BY <1>8, <2>2, <2>3, UnseenStep
<1>10. CASE ptr = NULL
  <2>1. ~ InMove(t)' /\ OwnHidden(t)' = {}
    BY <1>2, <1>10 DEF InMove, OwnHidden
  <2>2. Visible' = Visible \cup {new} /\ new \notin Visible
    BY <1>1, <1>2, <1>5, <1>7, <2>1
  <2>3. CallSeen(t)' = [op |-> frame[t].op, ptr |-> ptr, size |-> size, new |-> new]
    BY <1>4, <2>1, StepView DEF CallSeen
  <2>4. VisibleCalls' = [VisibleCalls EXCEPT ![t].new = new]
    <3>1. VisibleCalls[t] = CallSeen(t)
      BY View
    <3>2. VisibleCalls' = [VisibleCalls EXCEPT ![t] = CallSeen(t)']
      BY CallsAfter
    <3>3. CallSeen(t)' = [CallSeen(t) EXCEPT !.new = new]
      BY <1>6, <2>3
    <3> QED BY <3>1, <3>2, <3>3
  <2>5. Seen(new)' = Service!Block(t, size, Service!Nothing)
    <3>1. owned'[new] = Block(t, size, Junk, 0)
      BY <1>2, <1>10 DEF Promise
    <3> QED BY <1>2, <3>1 DEF Seen, DataOf, Service!Block, Service!Nothing, Block,
               Bytes, Lesser
  <2>6. VisibleBlocks' = Service!With(VisibleBlocks, new,
                                      Service!Block(t, size, Service!Nothing))
    BY <1>8, <2>2, <2>5, View, ViewAfter DEF Service!With
  <2>7. IInv' /\ SizesInv'
    <3>1. [Next]_vars
      BY DEF Act, Next
    <3> QED BY <3>1, StepView, SizesStep DEF BlocksInv
  <2>8. BlocksAreApart' /\ BlocksAreInPages'
    BY <2>7, DisjointAfter, PlacesAfter
  <2>9. /\ new \in Pages \X (0 .. MMAP_MAX + PAGE_SIZE)
        /\ new[2] % ALIGNMENT = 0
    BY <1>1, <1>2, <2>8 DEF BlocksAreInPages
  <2>10. ASSUME NEW q \in Visible
         PROVE  ~ Service!Overlap(new, size, q, VisibleBlocks[q].size)
    <3>1. q \in DOMAIN owned' /\ q # new /\ owned'[q] = owned[q]
      BY <1>2, <1>7, <2>2
    <3>2. VisibleBlocks[q].size = owned'[q].size
      BY <3>1, View DEF Seen
    <3>3. owned'[new].size = size
      BY <1>2, <1>10 DEF Promise, Block
    <3> QED BY <1>1, <1>2, <2>8, <3>1, <3>2, <3>3
            DEF BlocksAreApart, Apart, Service!Overlap
  <2>11. Service!IsFree(new, size)
    BY <2>2, <2>9, <2>10, View DEF Service!IsFree
  <2>12. /\ VisibleCalls[t].op = frame[t].op /\ VisibleCalls[t].new = NULL
         /\ VisibleCalls[t].size = size /\ VisibleCalls[t].ptr = NULL
    BY <1>6, <1>10, View
  <2> QED BY <1>3, <2>4, <2>6, <2>9, <2>11, <2>12
          DEF Service!Allocate, Service!Asks, Service!Gets
<1> QED BY <1>9, <1>10
(* free gives its block back, realloc the old one: the new one takes its   *)
(* place in the same step.                                                 *)
LEMMA FreeReleases ==
  ASSUME IInv, BlocksInv, MappedInv, MappingInv, NEW t \in Threads, Act(t), Survives(t),
         FreePage(t) \/ FreeChunk(t)
  PROVE  Service!Release(t) \/ Service!Move(t)
<1> PICK ptr, new, size :
      ptr = frame[t].ptr /\ new = frame[t].new /\ size = frame[t].size
  OBVIOUS
<1>1. /\ pc[t] = "free" /\ ptr # NULL /\ pc'[t] \in {"exit", "release"}
  BY InCall DEF FreePage, FreeChunk
<1>2. /\ frame'[t].op = frame[t].op /\ frame'[t].ptr = ptr
      /\ frame'[t].size = size /\ frame'[t].new = new
  <2>1. CASE FreePage(t)
    BY <2>1 DEF FreePage
  <2>2. CASE FreeChunk(t)
    <3>1. PICK p : frame' = [frame EXCEPT ![t].page = p]
      BY <2>2 DEF FreeChunk
    <3>2. frame'[t] = [frame[t] EXCEPT !.page = p] /\ frame[t] \in FrameType
      BY <3>1, InCall
    <3> QED BY <3>2 DEF FrameType
  <2> QED BY <2>1, <2>2
<1>3. ptr \in DOMAIN owned /\ owned[ptr].by = t
  BY <1>1, FreedBlockFacts
<1>4. /\ DOMAIN owned' = DOMAIN owned \ {ptr}
      /\ \A x \in DOMAIN owned \ {ptr} :
           owned'[x] = owned[x] /\ content'[x] = content[x]
  <2>1. /\ DOMAIN owned' = DOMAIN owned \ {ptr}
        /\ \A x \in DOMAIN owned' :
             /\ owned'[x] = owned[x]
             /\ PageOf(x) \notin mapped \ mapped' => content'[x] = content[x]
    BY FreedContents
  <2>2. \A x \in DOMAIN owned' : PageOf(x) \notin mapped \ mapped'
    BY NothingIsLost DEF MappedInv, BlocksInv, Act, Next
  <2> QED BY <2>1, <2>2
<1>5. ~ InMove(t)' /\ OwnHidden(t)' = {}
  BY <1>1 DEF InMove, OwnHidden
<1>6. /\ Visible = (DOMAIN owned \ Hidden(t)) \ OwnHidden(t)
      /\ Visible' = (DOMAIN owned' \ Hidden(t)) \ OwnHidden(t)'
      /\ \A x \in Hidden(t) : owned[x].by # t
  BY StepView
<1>7. /\ ptr \in Visible /\ VisibleBlocks[ptr] = Seen(ptr)
      /\ Service!HasBlock(t) /\ VisibleCalls[t].ptr = ptr
  BY <1>1, <1>3, PassedBlock
<1>8. \A x \in DOMAIN owned \ {ptr} : Seen(x)' = Seen(x)
  BY <1>4 DEF Seen, DataOf
<1>9. CallSeen(t)' = [op |-> frame[t].op, ptr |-> ptr, size |-> size, new |-> new]
  BY <1>2, <1>5, StepView DEF CallSeen
<1>10. VisibleCalls[t] = CallSeen(t)
  BY View
<1>11. VisibleCalls' = [VisibleCalls EXCEPT ![t] = CallSeen(t)']
  BY CallsAfter
<1>12. DOMAIN VisibleCalls = Threads
  BY View
<1>13. CASE new = NULL
  <2>1. ~ InMove(t) /\ OwnHidden(t) = {}
    BY <1>13 DEF InMove, OwnHidden
  <2>2. Visible' = Visible \ {ptr} /\ Visible \subseteq DOMAIN owned
    BY <1>4, <1>5, <1>6, <2>1
  <2>3. VisibleBlocks' = Service!Without(ptr)
    BY <1>8, <2>2, View, ViewAfter DEF Service!Without, Service!Restrict
  <2>4. CallSeen(t) = [op |-> frame[t].op, ptr |-> ptr, size |-> size, new |-> new]
    BY <1>13, <2>1, StepView DEF CallSeen
  <2>5. VisibleCalls' = VisibleCalls
    <3>1. CallSeen(t)' = CallSeen(t)
      BY <1>9, <2>4
    <3>2. \A u \in Threads : CallSeen(u)' = CallSeen(u)
      BY <3>1, StepView
    <3> QED BY <3>2, View, ViewAfter
  <2>6. VisibleCalls[t].op = "free"
    <3>1. frame[t].op = "free"
      BY <1>1, <1>13, InCall DEF InStep
    <3> QED BY <1>10, <2>4, <3>1
  <2> QED BY <1>7, <2>3, <2>5, <2>6 DEF Service!Release
<1>14. CASE new # NULL
  <2>1. /\ PageOf(new) \in mapped /\ owned[new].size = size
        /\ DataOf(new) = Service!Prefix(DataOf(ptr), size)
        /\ frame[t].op \notin {"none", "free"}
    <3>1. MoveIsReady(t) /\ CallIsClear(t)
      BY DEF MappingInv
    <3> QED BY <1>1, <1>14, <3>1 DEF MoveIsReady, CallIsClear, CallsOfProgram
  <2>2. new \in DOMAIN owned /\ owned[new].by = t /\ new # ptr
    BY <1>1, <1>14, ResultIsHeld, InCall DEF InStep
  <2>3. InMove(t) /\ OwnHidden(t) = {new}
    BY <1>1, <1>14 DEF InMove, OwnHidden
  <2>4. new \notin Visible /\ Visible \subseteq DOMAIN owned
    BY <1>6, <2>3
  <2>5. Visible' = (Visible \ {ptr}) \cup {new}
    BY <1>4, <1>5, <1>6, <2>2, <2>3
  <2>6. Seen(new)' = Service!Block(t, size, Service!Prefix(DataOf(ptr), size))
    BY <1>8, <2>1, <2>2 DEF Seen, Service!Block
  <2> DEFINE B == Service!Block(t, size, Service!Prefix(DataOf(ptr), size))
  <2>7. VisibleBlocks' = Service!With(Service!Without(ptr), new, B)
    <3> HIDE DEF B
    <3>1. /\ DOMAIN Service!Without(ptr) = Visible \ {ptr}
          /\ \A x \in Visible \ {ptr} : Service!Without(ptr)[x] = Seen(x)
      BY View DEF Service!Without, Service!Restrict
    <3>2. \A x \in Visible \ {ptr} : Seen(x)' = Seen(x)
      BY <1>8, <2>4
    <3>3. Seen(new)' = B /\ new \notin Visible \ {ptr}
      BY <2>4, <2>6 DEF B
    <3> QED BY <2>5, <3>1, <3>2, <3>3, ViewAfter DEF Service!With
  <2>8. CallSeen(t) = [op |-> frame[t].op, ptr |-> ptr, size |-> size, new |-> NULL]
    BY <2>3, StepView DEF CallSeen
  <2>9. VisibleCalls' = [VisibleCalls EXCEPT ![t].new = new]
    <3>1. CallSeen(t)' = [CallSeen(t) EXCEPT !.new = new]
      BY <1>9, <2>8
    <3> QED BY <1>10, <1>11, <3>1
  <2>10. BlocksAreApart /\ BlocksAreInPages
    BY DisjointBlocks, BlockPlaces DEF BlocksInv
  <2>11. /\ new \in Pages \X (0 .. MMAP_MAX + PAGE_SIZE)
         /\ new[2] % ALIGNMENT = 0
    BY <2>1, <2>2, <2>10 DEF BlocksAreInPages
  <2>12. ASSUME NEW q \in Visible
         PROVE  ~ Service!Overlap(new, size, q, VisibleBlocks[q].size)
    <3>1. q \in DOMAIN owned /\ q # new /\ VisibleBlocks[q].size = owned[q].size
      BY <2>4, View DEF Seen
    <3> QED BY <2>1, <2>2, <2>10, <3>1 DEF BlocksAreApart, Apart
  <2>13. Service!IsFree(new, size)
    BY <2>4, <2>11, <2>12, View DEF Service!IsFree
  <2>14. /\ VisibleCalls[t].op = frame[t].op /\ VisibleCalls[t].new = NULL
         /\ VisibleCalls[t].size = size
    BY <1>10, <2>8
  <2>15. VisibleBlocks[ptr].data = DataOf(ptr)
    BY <1>7 DEF Seen
  <2> HIDE DEF B
  <2>16. B = Service!Block(t, VisibleCalls[t].size,
               Service!Prefix(VisibleBlocks[VisibleCalls[t].ptr].data,
                              VisibleCalls[t].size))
    BY <1>7, <2>14, <2>15 DEF B
  <2> QED BY <1>7, <2>1, <2>7, <2>9, <2>11, <2>13, <2>14, <2>16
          DEF Service!Move, Service!Asks, Service!Gets
<1> QED BY <1>13, <1>14
(* What a returning call looks like, before and after.                     *)
LEMMA ReturningView ==
  ASSUME IInv, MappingInv, NEW t \in Threads, Act(t),
         ReturnNewBlock(t) \/ ReturnReallocated(t) \/ ReturnNull(t),
         NEW ptr, ptr = frame[t].ptr, NEW new, new = frame[t].new,
         NEW size, size = frame[t].size
  PROVE  /\ pc[t] = "return" /\ frame[t].op # "none"
         /\ VisibleCalls[t] = [op |-> frame[t].op, ptr |-> ptr, size |-> size,
                               new |-> new]
         /\ VisibleCalls' = [VisibleCalls EXCEPT ![t] = Service!NoCall]
         /\ Visible' = Visible /\ Visible = DOMAIN owned \ Hidden(t)
         /\ \A x \in Hidden(t) : owned[x].by # t
<1>1. /\ pc[t] = "return" /\ pc'[t] = "idle" /\ frame'[t] = NoFrame
      /\ DOMAIN owned' = DOMAIN owned
  BY ReturnFacts
<1>2. ~ InMove(t) /\ OwnHidden(t) = {} /\ ~ InMove(t)' /\ OwnHidden(t)' = {}
  BY <1>1 DEF InMove, OwnHidden
<1>3. frame[t].op # "none"
  BY <1>1 DEF MappingInv, CallIsClear, CallsOfProgram
<1>4. CallSeen(t) = [op |-> frame[t].op, ptr |-> ptr, size |-> size, new |-> new]
  BY <1>2, StepView DEF CallSeen
<1>5. CallSeen(t)' = Service!NoCall
  BY <1>1, <1>2, StepView DEF CallSeen, Service!NoCall, NoFrame
<1>6. VisibleCalls[t] = CallSeen(t)
  BY View
<1>7. VisibleCalls' = [VisibleCalls EXCEPT ![t] = CallSeen(t)']
  BY CallsAfter
<1>8. /\ Visible = (DOMAIN owned \ Hidden(t)) \ OwnHidden(t)
      /\ Visible' = (DOMAIN owned' \ Hidden(t)) \ OwnHidden(t)'
      /\ \A x \in Hidden(t) : owned[x].by # t
  BY StepView
<1> QED BY <1>1, <1>2, <1>3, <1>4, <1>5, <1>6, <1>7, <1>8

(* The program gets back a block, with its data in it.                     *)
LEMMA ReturnDelivers ==
  ASSUME IInv, BlocksInv, MappedInv, MappingInv, NEW t \in Threads, Act(t),
         ReturnNewBlock(t) \/ ReturnReallocated(t) \/ ReturnNull(t),
         frame[t].new # NULL
  PROVE  Service!ReturnNew(t) \/ Service!ReturnOld(t)
<1> PICK ptr, new, size :
      ptr = frame[t].ptr /\ new = frame[t].new /\ size = frame[t].size
  OBVIOUS
<1>1. /\ pc[t] = "return" /\ Visible' = Visible /\ Visible = DOMAIN owned \ Hidden(t)
      /\ VisibleCalls[t] = [op |-> frame[t].op, ptr |-> ptr, size |-> size,
                            new |-> new]
      /\ VisibleCalls' = [VisibleCalls EXCEPT ![t] = Service!NoCall]
      /\ \A x \in Hidden(t) : owned[x].by # t
  BY ReturningView
<1>2. /\ DOMAIN owned' = DOMAIN owned
      /\ \A x \in DOMAIN owned \ {new} :
           /\ owned'[x].size = owned[x].size /\ owned'[x].kept = owned[x].kept
           /\ content'[x] = content[x]
           /\ owned'[x] = owned[x] \/ owned[x].by = t
      /\ owned'[new].size = size /\ owned'[new].by = NoThread
      /\ \/ /\ frame[t].op = "calloc" /\ ptr = NULL
            /\ owned'[new].kept = size /\ owned'[new].tag = Zero
            /\ content'[new] = content[new]
         \/ /\ frame[t].op # "calloc" /\ ptr = NULL
            /\ owned'[new].kept = size /\ owned'[new].tag \in Tags
            /\ content'[new] = Bytes(owned'[new].tag, size)
         \/ /\ ptr # NULL
            /\ owned'[new].kept = Lesser(owned[new].kept, size)
            /\ content'[new] = content[new]
  BY ReturnFacts
<1>3. /\ new \in DOMAIN owned /\ owned[new].by = t
      /\ \A x \in DOMAIN owned : owned[x].by = t => x = new
  <2>1. Holding(t) /\ HeldBy(t) = {new}
    BY <1>1, InCall DEF Holding, Answers
  <2> QED BY <2>1 DEF HeldBy
<1>4. new \in Visible
  BY <1>1, <1>3
<1>5. \A x \in Visible \ {new} : Seen(x)' = Seen(x)
  BY <1>1, <1>2, <1>3 DEF Seen, DataOf
<1>6. /\ owned[new].kept \in Nat /\ content[new].len \in Nat /\ size \in Nat
      /\ CallKeeps(t) /\ CallIsClear(t)
  <2>1. /\ OwnedType /\ frame[t] \in FrameType /\ SIZE_MAX \in Nat
        /\ CallKeeps(t) /\ CallIsClear(t)
    BY InCall, ConstantFacts DEF BlocksInv, ContentInv, MappingInv
  <2> QED BY <1>3, <2>1 DEF OwnedType, FrameType
<1>7. ASSUME NEW data, DataOf(new)' = data PROVE Service!Deliver(t, data)
  <2>1. Seen(new)' = Service!Block(NoThread, size, data)
    BY <1>2, <1>7 DEF Seen, Service!Block
  <2>2. VisibleBlocks' = [VisibleBlocks EXCEPT ![new] =
                            Service!Block(NoThread, size, data)]
    BY <1>1, <1>4, <1>5, <2>1, View, ViewAfter
  <2> QED BY <1>1, <2>2 DEF Service!Deliver
<1>8. CASE ptr = NULL
  <2>1. size # 0
    BY <1>6, <1>8 DEF CallIsClear
  <2>2. PICK tag \in IF frame[t].op = "calloc" THEN {Zero} ELSE Tags :
          owned'[new].kept = size /\ content'[new] = Bytes(tag, size)
    <3>1. frame[t].op = "calloc" => content[new] = Bytes(Zero, size)
      BY <1>1, <1>3, <1>6 DEF CallKeeps, MappedInv, BlocksAreMapped
    <3> QED BY <1>2, <1>8, <3>1
  <2>3. DataOf(new)' = [tag |-> tag, len |-> size]
    BY <1>6, <2>1, <2>2 DEF DataOf, Bytes, Lesser
  <2>4. Service!Deliver(t, [tag |-> tag, len |-> size])
    BY <1>7, <2>3
  <2>5. /\ VisibleCalls[t].op = frame[t].op /\ VisibleCalls[t].size = size
        /\ VisibleCalls[t].ptr = NULL
    BY <1>1, <1>8
  <2> QED BY <2>2, <2>4, <2>5 DEF Service!ReturnNew
<1>9. CASE ptr # NULL
  <2> PICK k, l, g : k = owned[new].kept /\ l = content[new].len /\ g = content[new].tag
    OBVIOUS
  <2>1. /\ owned'[new].kept = Lesser(k, size) /\ content'[new].len = l
        /\ content'[new].tag = g
    BY <1>2, <1>9
  <2> DEFINE m == Lesser(l, k)
             n == Lesser(l, Lesser(k, size))
  <2>2. /\ DataOf(new) = IF m = 0 THEN Bytes(Junk, 0) ELSE Bytes(g, m)
        /\ DataOf(new)' = IF n = 0 THEN Bytes(Junk, 0) ELSE Bytes(g, n)
    BY <2>1 DEF DataOf
  <2>3. /\ m \in Nat /\ n \in Nat
        /\ n = IF size = 0 THEN 0 ELSE IF m < size THEN m ELSE size
    BY <1>6 DEF Lesser
  <2> HIDE DEF m, n
  <2>4. Service!Prefix(DataOf(new), size)
          = IF size = 0 THEN [tag |-> Junk, len |-> 0]
            ELSE [DataOf(new) EXCEPT !.len = IF @ < size THEN @ ELSE size]
    BY DEF Service!Prefix, Service!Nothing
  <2>5. DataOf(new)' = Service!Prefix(DataOf(new), size)
    <3>1. CASE size = 0
      BY <2>2, <2>3, <2>4, <3>1 DEF Bytes
    <3>2. CASE size # 0 /\ m = 0
      BY <1>6, <2>2, <2>3, <2>4, <3>2 DEF Bytes
    <3>3. CASE size # 0 /\ m # 0
      BY <1>6, <2>2, <2>3, <2>4, <3>3 DEF Bytes
    <3> QED BY <3>1, <3>2, <3>3
  <2>6. Service!Deliver(t, Service!Prefix(DataOf(new), size))
    BY <1>7, <2>5
  <2>7. VisibleBlocks[new].data = DataOf(new)
    BY <1>4, View DEF Seen
  <2> QED BY <1>1, <1>9, <2>6, <2>7 DEF Service!ReturnOld
<1> QED BY <1>8, <1>9
(* NULL: what was passed is the program's again, as it was.                *)
LEMMA ReturnNullReturns ==
  ASSUME IInv, MappingInv, NEW t \in Threads, Act(t), ReturnNull(t)
  PROVE  Service!ReturnNull(t)
<1> PICK ptr, new, size :
      ptr = frame[t].ptr /\ new = frame[t].new /\ size = frame[t].size
  OBVIOUS
<1>1. /\ pc[t] = "return" /\ frame[t].op # "none"
      /\ VisibleCalls[t] = [op |-> frame[t].op, ptr |-> ptr, size |-> size,
                            new |-> new]
      /\ VisibleCalls' = [VisibleCalls EXCEPT ![t] = Service!NoCall]
      /\ Visible' = Visible /\ Visible = DOMAIN owned \ Hidden(t)
      /\ \A x \in Hidden(t) : owned[x].by # t
  BY ReturningView
<1>2. /\ new = NULL /\ UNCHANGED content
      /\ owned' = [x \in DOMAIN owned |->
                     IF owned[x].by = t THEN [owned[x] EXCEPT !.by = NoThread]
                     ELSE owned[x]]
  BY DEF ReturnNull
<1>3. HeldBy(t) = IF frame[t].op = "free" THEN {} ELSE {ptr} \ {NULL}
  BY <1>1, <1>2, InCall DEF Holding, Answers
<1>4. \A x \in DOMAIN owned :
        owned[x].by = t => x = ptr /\ ptr # NULL /\ frame[t].op # "free"
  BY <1>3 DEF HeldBy
<1>5. OwnedType /\ Visible \subseteq DOMAIN owned
  BY <1>1, InCall
<1>6. \A x \in Visible : owned[x].by # t => Seen(x)' = Seen(x)
  BY <1>2, <1>5 DEF Seen, DataOf
<1>7. VisibleCalls[t].op # "none" /\ VisibleCalls[t].new = NULL
  BY <1>1, <1>2
<1>8. CASE ptr \in DOMAIN owned /\ owned[ptr].by = t
  <2>1. /\ ptr \in Visible /\ VisibleBlocks[ptr] = Seen(ptr)
        /\ Service!HasBlock(t) /\ VisibleCalls[t].ptr = ptr
        /\ VisibleCalls[t].op # "free"
    BY <1>1, <1>4, <1>8, PassedBlock
  <2>2. owned[ptr] \in [by: Threads \cup {NoThread}, size: 0 .. SIZE_MAX,
                        tag: Tags \cup {Zero, Junk}, kept: 0 .. SIZE_MAX]
    BY <1>5, <1>8 DEF OwnedType
  <2>3. owned'[ptr] = [owned[ptr] EXCEPT !.by = NoThread]
    BY <1>2, <1>8
  <2>4. Seen(ptr)' = [Seen(ptr) EXCEPT !.by = NoThread]
    BY <1>2, <2>2, <2>3 DEF Seen, DataOf
  <2>5. \A x \in Visible \ {ptr} : Seen(x)' = Seen(x)
    BY <1>4, <1>5, <1>6
  <2>6. VisibleBlocks' = [VisibleBlocks EXCEPT ![ptr].by = NoThread]
    BY <1>1, <2>1, <2>4, <2>5, View, ViewAfter
  <2> QED BY <1>1, <1>7, <2>1, <2>6 DEF Service!ReturnNull
<1>9. CASE ~ (ptr \in DOMAIN owned /\ owned[ptr].by = t)
  <2>1. VisibleBlocks' = VisibleBlocks
    <3>1. \A x \in Visible : Seen(x)' = Seen(x)
      BY <1>4, <1>5, <1>6, <1>9
    <3> QED BY <1>1, <3>1, View, ViewAfter
  <2>2. ~ Service!HasBlock(t)
    <3>1. VisibleCalls[t].ptr = ptr
      BY <1>1
    <3>2. ASSUME ptr \in Visible PROVE VisibleBlocks[ptr].by # t
      BY <1>5, <1>9, <3>2, View DEF Seen
    <3>3. DOMAIN VisibleBlocks = Visible
      BY View
    <3> QED BY <3>1, <3>2, <3>3 DEF Service!HasBlock
  <2> QED BY <1>1, <1>7, <2>1, <2>2 DEF Service!ReturnNull
<1> QED BY <1>8, <1>9
-----------------------------------------------------------------------------
(* Every step is one of the service or is not seen.                        *)

LEMMA ActIsServed ==
  ASSUME IInv, BlocksInv, MappedInv, MappingInv, NEW t \in Threads, Act(t)
  PROVE  \/ UNCHANGED <<VisibleBlocks, VisibleCalls>>
         \/ \/ Service!Invoke(t) \/ Service!Allocate(t) \/ Service!Move(t)
            \/ Service!Stay(t) \/ Service!Release(t)
            \/ Service!ReturnNew(t) \/ Service!ReturnOld(t)
            \/ Service!ReturnNull(t)
<1>1. CASE Begin(t)
  BY <1>1, BeginInvokes
<1>2. CASE QuietAct(t)
  BY <1>2, QuietActIsUnseen
<1>3. CASE CopyBlock(t)
  BY <1>3, CopyIsUnseen
<1>4. CASE Clear(t)
  BY <1>4, ClearIsUnseen DEF BlocksInv
<1>5. CASE ReallocInPlace(t)
  BY <1>5, InPlaceStays
<1>6. CASE TakeFoundChunk(t) \/ AddLargePage(t)
  BY <1>6, GiveAllocates
<1>7. CASE Survives(t) /\ (FreePage(t) \/ FreeChunk(t))
  BY <1>7, FreeReleases
<1>8. CASE ReturnNewBlock(t) \/ ReturnReallocated(t) \/ ReturnNull(t)
  <2>1. CASE frame[t].new # NULL
    BY <1>8, <2>1, ReturnDelivers
  <2>2. CASE frame[t].new = NULL
    <3>1. ReturnNull(t)
      BY <1>8, <2>2 DEF ReturnNewBlock, ReturnReallocated
    <3> QED BY <3>1, ReturnNullReturns
  <2> QED BY <2>1, <2>2
<1>9. \/ Begin(t) \/ QuietAct(t) \/ CopyBlock(t) \/ Clear(t) \/ ReallocInPlace(t)
      \/ TakeFoundChunk(t) \/ AddLargePage(t)
      \/ Survives(t) /\ (FreePage(t) \/ FreeChunk(t))
      \/ ReturnNewBlock(t) \/ ReturnReallocated(t) \/ ReturnNull(t)
  BY DEF Act, Proceed, QuietAct
<1> QED BY <1>1, <1>2, <1>3, <1>4, <1>5, <1>6, <1>7, <1>8, <1>9

(* A segmentation fault, or no step at all.                                *)
LEMMA StutterIsUnseen ==
  ASSUME UNCHANGED <<frame, owned, content>>
  PROVE  UNCHANGED <<VisibleBlocks, VisibleCalls>>
<1>1. \A t \in Threads : CallSeen(t)' = CallSeen(t)
  BY DEF CallSeen, Moving
<1>2. Visible' = Visible
  BY DEF Visible, Moving
<1>3. \A x \in Visible : Seen(x)' = Seen(x)
  BY DEF Seen, DataOf
<1>4. VisibleCalls' = VisibleCalls
  BY <1>1, View, ViewAfter
<1>5. VisibleBlocks' = VisibleBlocks
  BY <1>2, <1>3, View, ViewAfter
<1> QED BY <1>4, <1>5

LEMMA StepIsServed ==
  ASSUME IInv, BlocksInv, MappedInv, MappingInv, [Next]_vars
  PROVE  [Service!Next]_<<VisibleBlocks, VisibleCalls>>
<1>1. CASE UNCHANGED vars
  <2>1. UNCHANGED <<frame, owned, content>>
    BY <1>1 DEF vars
  <2> QED BY <2>1, StutterIsUnseen
<1>2. CASE \E t \in Threads : Fault(t)
  <2>1. UNCHANGED <<frame, owned, content>>
    BY <1>2 DEF Fault
  <2> QED BY <2>1, StutterIsUnseen
<1>3. CASE \E t \in Threads : Act(t)
  BY <1>3, ActIsServed DEF Service!Next
<1> QED BY <1>1, <1>2, <1>3, StepIsAct

LEMMA StartIsServed == Init => Service!Init
<1>1. SUFFICES ASSUME Init PROVE Service!Init
  OBVIOUS
<1>2. /\ owned = <<>> /\ \A t \in Threads : frame[t] = NoFrame
  BY <1>1 DEF Init
<1>3. Visible = {}
  BY <1>2 DEF Visible
<1>4. VisibleBlocks = <<>>
  BY <1>3, View
<1>5. \A t \in Threads : CallSeen(t) = Service!NoCall
  BY <1>2 DEF CallSeen, Moving, NoFrame, Service!NoCall
<1>6. VisibleCalls = [t \in Threads |-> Service!NoCall]
  BY <1>5, View
<1> QED BY <1>4, <1>6 DEF Service!Init

(* The functions of src/src/malloc.c, realloc.c and free.c, whatever pages *)
(* and lists are behind them, do what Allocator promises: every call takes *)
(* effect in one step, in whatever order threads run and whichever mmap    *)
(* fails, if the program asks for nothing within a header of SIZE_MAX or of*)
(* the limit of the SMALL zone.                                            *)
THEOREM MallocImplementsAllocator ==
  ASSUME RequestsFit, StaysBelowLimit
  PROVE  Spec => ImplementsAllocator
<1>1. Init => Service!Init
  BY StartIsServed
<1>2. IInv /\ BlocksInv /\ MappedInv /\ MappingInv /\ [Next]_vars
        => [Service!Next]_<<VisibleBlocks, VisibleCalls>>
  BY StepIsServed
<1> QED BY <1>1, <1>2, MappingInvariance, BlocksStayMapped, PTL
        DEF Spec, ImplementsAllocator, Service!Spec
=============================================================================
