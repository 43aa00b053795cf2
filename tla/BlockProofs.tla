----------------------------- MODULE BlockProofs -----------------------------
(***************************************************************************)
(* What the blocks owe the program, proved on top of IInv: how large they  *)
(* are, what is in them, which pages are kept and which are lost.          *)
(***************************************************************************)
EXTENDS MallocProofs, FiniteSetTheorems

-----------------------------------------------------------------------------
(* What the operations do to the pages and to the sizes of the chunks.     *)

OtherPagesStay(p) ==
  \A q \in Pages \ {p} :
    /\ zoneType'[q] = zoneType[q] /\ chunkSize'[q] = chunkSize[q]
    /\ allocation'[q] = allocation[q] /\ free'[q] = free[q]
    /\ pageSize'[q] = pageSize[q]

LEMMA MapPageFacts ==
  ASSUME HeapInv, NEW p \in Pages \ mapped, NEW n \in Nat, NEW z,
         MapMediumPage(p, n, z) \/ MapLargePage(p, n, z)
  PROVE  /\ OtherPagesStay(p)
         /\ mapped' = mapped \cup {p}
         /\ zoneType'[p] = GetZoneType(n)
         /\ Chunks(p)' = {PageHeader}
         /\ chunkSize'[p][PageHeader] = FirstChunkSize(n)
         /\ pageSize'[p] = TotalSize(n)
         /\ MapMediumPage(p, n, z) =>
              allocation'[p] = <<>> /\ free'[p] = <<PageHeader>>
         /\ MapLargePage(p, n, z) =>
              allocation'[p] = <<PageHeader>> /\ free'[p] = <<>>
<1>1. HeapTypeOK /\ UnmappedPagesAreBlank
  BY DEF HeapInv
<1>2. allocation[p] = <<>> /\ free[p] = <<>>
  BY <1>1 DEF UnmappedPagesAreBlank
<1>3. /\ mapped' = mapped \cup {p}
      /\ zoneType' = [zoneType EXCEPT ![p] = GetZoneType(n)]
      /\ pageSize' = [pageSize EXCEPT ![p] = TotalSize(n)]
      /\ chunkSize' = [chunkSize EXCEPT ![p] =
                                    [c \in {PageHeader} |-> FirstChunkSize(n)]]
  BY DEF MapMediumPage, MapLargePage, MapPage
<1>4. /\ chunkSize'[p] = [c \in {PageHeader} |-> FirstChunkSize(n)]
      /\ zoneType'[p] = GetZoneType(n)
      /\ pageSize'[p] = TotalSize(n)
      /\ \A q \in Pages \ {p} : /\ zoneType'[q] = zoneType[q]
                                /\ chunkSize'[q] = chunkSize[q]
                                /\ pageSize'[q] = pageSize[q]
  BY <1>1, <1>3 DEF HeapTypeOK
<1>5. CASE MapMediumPage(p, n, z)
  <2>1. allocation' = allocation /\ free' = [free EXCEPT ![p] = <<PageHeader>>]
    BY <1>5 DEF MapMediumPage
  <2>2. free'[p] = <<PageHeader>> /\ \A q \in Pages \ {p} : free'[q] = free[q]
    BY <1>1, <2>1 DEF HeapTypeOK
  <2>3. <<PageHeader>> # <<>>
    OBVIOUS
  <2> QED BY <1>2, <1>3, <1>4, <1>5, <2>1, <2>2, <2>3
          DEF OtherPagesStay, Chunks, MapLargePage
<1>6. CASE MapLargePage(p, n, z)
  <2>1. free' = free /\ allocation' = [allocation EXCEPT ![p] = <<PageHeader>>]
    BY <1>6 DEF MapLargePage
  <2>2. /\ allocation'[p] = <<PageHeader>>
        /\ \A q \in Pages \ {p} : allocation'[q] = allocation[q]
    BY <1>1, <2>1 DEF HeapTypeOK
  <2>3. <<PageHeader>> # <<>>
    OBVIOUS
  <2> QED BY <1>2, <1>3, <1>4, <1>6, <2>1, <2>2, <2>3
          DEF OtherPagesStay, Chunks, MapMediumPage
<1> QED BY <1>5, <1>6

(* The chunk that is taken is cut to the request, or keeps a rest too small*)
(* for a header; the chunks beside it keep their sizes.                    *)
LEMMA TakeChunkFacts ==
  ASSUME HeapInv, NEW p \in mapped, NEW c \in Range(free[p]), NEW n \in Nat,
         n % ALIGNMENT = 0, n <= chunkSize[p][c], TakeChunk(p, c, n)
  PROVE  /\ OtherPagesStay(p)
         /\ mapped' = mapped /\ zoneType' = zoneType
         /\ c \notin Range(allocation[p])
         /\ Range(allocation'[p]) = Range(allocation[p]) \cup {c}
         /\ chunkSize'[p][c] \in n .. n + ChunkHeader
         /\ \A d \in Chunks(p) \ {c} : chunkSize'[p][d] = chunkSize[p][d]
<1> DEFINE r == Rest(c, n)
           S == chunkSize[p]
           m == S[c] - n - ChunkHeader
           T == Assign([S EXCEPT ![c] = n], r, m)
<1>1. /\ p \in Pages /\ ChunkTypes(p) /\ ListedOnce(p) /\ Tiled(p)
      /\ DOMAIN chunkSize = Pages /\ zoneType \in [Pages -> ZoneTypes]
      /\ allocation \in [Pages -> Seq(Nat)] /\ free \in [Pages -> Seq(Nat)]
  BY PageFacts DEF HeapInv, HeapTypeOK
<1>2. /\ c \in Chunks(p) /\ c \in Nat /\ S[c] \in Nat /\ n <= S[c]
      /\ c \notin Range(allocation[p])
      /\ allocation[p] \in Seq(Nat) /\ IsInjective(allocation[p])
  BY <1>1 DEF ListedOnce, ChunkTypes
<1>3. /\ UNCHANGED <<mapped, zone, zoneType, pageSize>>
      /\ allocation' = [allocation EXCEPT ![p] = Cons(c, @)]
  BY DEF TakeChunk
<1>4. Range(allocation'[p]) = Range(allocation[p]) \cup {c}
  <2>1. allocation'[p] = Cons(c, allocation[p])
    BY <1>1, <1>3
  <2> QED BY <1>2, <2>1, ConsOfChunks
<1>5. ChunkHeader \in Nat
  BY HeaderFacts
<1>6. CASE ~ Splits(p, c, n)
  <2>1. chunkSize' = chunkSize /\ \E F : free' = [free EXCEPT ![p] = F]
    BY <1>6 DEF TakeChunk
  <2>2. S[c] - n <= ChunkHeader
    BY <1>2, <1>5, <1>6 DEF Splits
  <2>3. chunkSize'[p][c] \in n .. n + ChunkHeader
    BY <1>2, <1>5, <2>1, <2>2
  <2> HIDE DEF S, T
  <2> QED BY <1>1, <1>2, <1>3, <1>4, <2>1, <2>3 DEF OtherPagesStay
<1>7. CASE Splits(p, c, n)
  <2>1. /\ chunkSize' = [chunkSize EXCEPT ![p] = T]
        /\ \E F : free' = [free EXCEPT ![p] = F]
    BY <1>7 DEF TakeChunk
  <2>2. c < r /\ r < EndOfChunk(p, c) /\ r \in Nat
    <3>1. c % ALIGNMENT = 0 /\ S[c] - n > ChunkHeader
      BY <1>1, <1>2, <1>7 DEF Tiled, Splits
    <3> QED BY <3>1, <1>2, RestFacts DEF EndOfChunk
  <2>3. \A d \in Chunks(p) : d \in Nat /\ (d > c => d >= EndOfChunk(p, c))
    BY <1>1, <1>2 DEF Tiled, ChunkTypes
  <2> HIDE DEF r, m
  <2>4. r \notin Chunks(p) /\ r # c
    <3>1. EndOfChunk(p, c) \in Nat
      BY <1>2, <1>5 DEF EndOfChunk
    <3> QED BY <3>1, <1>2, <2>2, <2>3
  <2>5. T[c] = n /\ \A x \in Chunks(p) \ {c} : T[x] = S[x]
    BY <1>2, <2>4 DEF Chunks, Assign
  <2> HIDE DEF T
  <2>6. /\ chunkSize'[p] = T /\ \A q \in Pages \ {p} : chunkSize'[q] = chunkSize[q]
        /\ \A q \in Pages \ {p} : /\ free'[q] = free[q]
                                  /\ allocation'[q] = allocation[q]
    BY <1>1, <1>3, <2>1
  <2>7. n \in n .. n + ChunkHeader
    BY <1>5
  <2> QED BY <1>2, <1>3, <1>4, <2>5, <2>6, <2>7 DEF OtherPagesStay
<1> QED BY <1>6, <1>7

LEMMA PutChunkFacts ==
  ASSUME HeapInv, NEW p \in mapped, NEW c \in Range(allocation[p]), PutChunk(p, c)
  PROVE  /\ OtherPagesStay(p)
         /\ UNCHANGED <<mapped, zoneType, pageSize, chunkSize>>
         /\ Range(allocation'[p]) = Range(allocation[p]) \ {c}
<1>1. /\ p \in Pages /\ ListedOnce(p) /\ allocation[p] \in Seq(Nat)
      /\ allocation \in [Pages -> Seq(Nat)] /\ free \in [Pages -> Seq(Nat)]
  BY PageFacts DEF HeapInv, HeapTypeOK
<1>2. /\ UNCHANGED <<mapped, zoneType, pageSize, chunkSize>>
      /\ allocation' = [allocation EXCEPT ![p] = RemoveFirst(@, c)]
      /\ free' = [free EXCEPT ![p] = Cons(c, @)]
  BY DEF PutChunk
<1>3. Range(RemoveFirst(allocation[p], c)) = Range(allocation[p]) \ {c}
  BY <1>1, RemoveFirstUnlinks DEF ListedOnce
<1> QED BY <1>1, <1>2, <1>3 DEF OtherPagesStay

LEMMA UnmapPageFacts ==
  ASSUME HeapInv, NEW p \in mapped, UnmapPage(p)
  PROVE  OtherPagesStay(p) /\ mapped' = mapped \ {p}
<1>1. HeapTypeOK /\ p \in Pages
  BY DEF HeapInv, HeapTypeOK
<1> QED BY <1>1 DEF UnmapPage, OtherPagesStay, HeapTypeOK

-----------------------------------------------------------------------------
(* What each step does to its thread and to the others.                    *)

(* The steps of a thread that is not killed.                               *)
Act(t) == (Begin(t) \/ Proceed(t)) /\ ~ Fault(t)

LEMMA StepIsAct ==
  ASSUME [Next]_vars
  PROVE  \/ UNCHANGED vars
         \/ \E t \in Threads : Fault(t)
         \/ \E t \in Threads : Act(t)
BY DEF Next, Act

LEMMA OthersWait ==
  ASSUME IInv, NEW t \in Threads, Act(t)
  PROVE  /\ \A u \in Threads \ {t} : pc'[u] = pc[u] /\ frame'[u] = frame[u]
         /\ pc[t] # "killed" /\ pc'[t] # "killed"
<1>1. /\ pc \in [Threads -> Labels] /\ frame \in [Threads -> FrameType]
      /\ InStep(t)
  BY InCall
<1> USE <1>1
<1>2. CASE Begin(t)
  BY <1>2 DEF Begin, CallMalloc, CallFree, CallRealloc, CallCalloc,
     CallReallocarray, Call, Goto, AfterCheck
<1>3. CASE Enter(t) \/ Exit(t) \/ Clear(t)
  BY <1>3 DEF Enter, Exit, Clear, Goto, FirstStep, InStep
<1>4. CASE ReallocInPlace(t) \/ ReallocElsewhere(t) \/ CopyBlock(t)
  BY <1>4 DEF ReallocInPlace, ReallocElsewhere, CopyBlock, Goto
<1>5. CASE FindFreeChunk(t) \/ AddMediumPage(t)
  BY <1>5 DEF FindFreeChunk, AddMediumPage, Found, Goto
<1>6. CASE TakeFoundChunk(t) \/ AddLargePage(t) \/ AllocateNothing(t)
  BY <1>6 DEF TakeFoundChunk, AddLargePage, AllocateNothing, Give, Goto
<1>7. CASE FreeNull(t) \/ FreePage(t) \/ FreeChunk(t) \/ ReleasePage(t) \/ KeepPage(t)
  BY <1>7 DEF FreeNull, FreePage, FreeChunk, ReleasePage, KeepPage, Goto
<1>8. CASE ReturnNewBlock(t) \/ ReturnReallocated(t) \/ ReturnNull(t)
  BY <1>8 DEF ReturnNewBlock, ReturnReallocated, ReturnNull, Finish, Goto
<1> QED BY <1>2, <1>3, <1>4, <1>5, <1>6, <1>7, <1>8 DEF Act, Proceed

(* A call, whichever: what it starts with.                                 *)
LEMMA BeginFacts ==
  ASSUME IInv, NEW t \in Threads, Begin(t)
  PROVE  \E op \in Ops, ptr \in DOMAIN owned \cup {NULL},
            size \in AskedSizes, l \in {"enter", "return"} :
           /\ Call(t, op, ptr, size, l) /\ Pass(t, ptr)
           /\ RequestsFit /\ l = "enter" => MappingFits(size)
           /\ l = "enter" => size \in ServedSizes
           /\ frame'[t] = [op |-> op, ptr |-> ptr, size |-> size, new |-> NULL,
                         page |-> NULL, chunk |-> 0]
           /\ pc[t] = "idle" /\ pc'[t] = l
           /\ op = "calloc" => ptr = NULL
           /\ op \in CallsOfProgram
<1>1. /\ frame \in [Threads -> FrameType] /\ \A l : Goto(t, l) => pc'[t] = l
      /\ Pass(t, NULL) <=> UNCHANGED owned
  BY InCall DEF Pass
<1>2. MappingFits(0)
  <2>1. ASSUME NEW x \in Nat, x + (ALIGNMENT - 1) <= SIZE_MAX
        PROVE  /\ AlignUp(x, ALIGNMENT) \in Nat
               /\ AlignUp(x, ALIGNMENT) < x + ALIGNMENT
    BY <2>1, ConstantFacts, AlignUpFacts
  <2>2. 0 \in Nat /\ 0 + (ALIGNMENT - 1) <= SIZE_MAX /\ 0 + ALIGNMENT = ALIGNMENT
    BY ConstantFacts
  <2>3. AlignUp(0, ALIGNMENT) \in Nat /\ AlignUp(0, ALIGNMENT) < 0 + ALIGNMENT
    BY <2>1, <2>2, Zenon
  <2> QED BY <2>2, <2>3, ConstantFacts, HeaderFacts DEF MappingFits
<1>3. ASSUME NEW op, NEW ptr, NEW size, NEW l, Call(t, op, ptr, size, l)
      PROVE  /\ op \in Ops /\ pc[t] = "idle" /\ pc'[t] = l
             /\ frame'[t] = [op |-> op, ptr |-> ptr, size |-> size, new |-> NULL,
                         page |-> NULL, chunk |-> 0]
  BY <1>1, <1>3 DEF Call, NoFrame
<1>0. 0 \in AskedSizes /\ Sizes \subseteq AskedSizes
  BY DEF AskedSizes
<1>10. 0 \in ServedSizes /\ Sizes \subseteq ServedSizes
  BY DEF ServedSizes
<1>4. ASSUME NEW nmemb \in Counts, NEW size \in Sizes
      PROVE  /\ AfterCheck(nmemb, size) \in {"enter", "return"}
             /\ RequestsFit /\ AfterCheck(nmemb, size) = "enter" =>
                  MappingFits(nmemb * size % (SIZE_MAX + 1))
             /\ AfterCheck(nmemb, size) = "enter" =>
                  nmemb * size % (SIZE_MAX + 1) \in ServedSizes
  <2>1. SUFFICES ASSUME ~ RejectsProduct(nmemb, size)
                 PROVE  nmemb * size % (SIZE_MAX + 1) \in ServedSizes
    BY DEF AfterCheck, RequestsFit
  <2> DEFINE x == <<nmemb, size>>
  <2>2. x \in {y \in Counts \X Sizes : ~ RejectsProduct(y[1], y[2])}
    BY <2>1
  <2>3. x[1] = nmemb /\ x[2] = size
    OBVIOUS
  <2> HIDE DEF x
  <2> QED BY <2>2, <2>3 DEF ServedSizes
<1>5. CASE CallMalloc(t)
  BY <1>0, <1>10, <1>1, <1>3, <1>5 DEF CallMalloc, RequestsFit, CallsOfProgram
<1>6. CASE CallFree(t)
  BY <1>0, <1>10, <1>2, <1>3, <1>6 DEF CallFree, CallsOfProgram
<1>7. CASE CallRealloc(t)
  BY <1>0, <1>10, <1>3, <1>7 DEF CallRealloc, RequestsFit, CallsOfProgram
<1>8. CASE CallCalloc(t)
  <2>1. PICK nmemb \in Counts, size \in Sizes :
          Call(t, "calloc", NULL, nmemb * size % (SIZE_MAX + 1),
               AfterCheck(nmemb, size)) /\ UNCHANGED owned
    BY <1>8 DEF CallCalloc
  <2> DEFINE n == nmemb * size % (SIZE_MAX + 1)
  <2> HIDE DEF n
  <2>2. n \in AskedSizes
    BY DEF n, AskedSizes
  <2>3. /\ Call(t, "calloc", NULL, n, AfterCheck(nmemb, size))
        /\ RequestsFit /\ AfterCheck(nmemb, size) = "enter" => MappingFits(n)
        /\ AfterCheck(nmemb, size) = "enter" => n \in ServedSizes
    BY <1>4, <2>1 DEF n
  <2> QED BY <1>1, <1>3, <1>4, <2>1, <2>2, <2>3 DEF CallsOfProgram
<1>9. CASE CallReallocarray(t)
  <2>1. PICK ptr \in DOMAIN owned \cup {NULL}, nmemb \in Counts, size \in Sizes :
          Call(t, "reallocarray", ptr, nmemb * size % (SIZE_MAX + 1),
               AfterCheck(nmemb, size)) /\ Pass(t, ptr)
    BY <1>9 DEF CallReallocarray
  <2> DEFINE n == nmemb * size % (SIZE_MAX + 1)
  <2> HIDE DEF n
  <2>2. n \in AskedSizes
    BY DEF n, AskedSizes
  <2>3. /\ Call(t, "reallocarray", ptr, n, AfterCheck(nmemb, size))
        /\ RequestsFit /\ AfterCheck(nmemb, size) = "enter" => MappingFits(n)
        /\ AfterCheck(nmemb, size) = "enter" => n \in ServedSizes
    BY <1>4, <2>1 DEF n
  <2> QED BY <1>3, <1>4, <2>1, <2>2, <2>3 DEF CallsOfProgram
<1> QED BY <1>5, <1>6, <1>7, <1>8, <1>9 DEF Begin

(* Which steps lead where.                                                 *)
LEMMA WhereStepsLead ==
  ASSUME IInv, NEW t \in Threads, Act(t)
  PROVE  /\ pc'[t] = "enter" => Begin(t)
         /\ pc'[t] = "realloc" => Enter(t)
         /\ pc'[t] = "allocate" => Enter(t) \/ ReallocElsewhere(t)
         /\ pc'[t] = "take" => FindFreeChunk(t) \/ AddMediumPage(t)
         /\ pc'[t] = "copy" => TakeFoundChunk(t) \/ AddLargePage(t)
         /\ pc'[t] = "free" => Enter(t) \/ CopyBlock(t)
         /\ pc'[t] = "release" => FreeChunk(t)
         /\ pc'[t] = "exit" =>
              \/ ReallocInPlace(t) \/ TakeFoundChunk(t) \/ AddLargePage(t)
              \/ AllocateNothing(t) \/ FreeNull(t) \/ FreePage(t)
              \/ ReleasePage(t) \/ KeepPage(t)
         /\ pc'[t] = "clear" => Exit(t)
         /\ pc'[t] = "return" => Exit(t) \/ Clear(t) \/ Begin(t)
         /\ pc'[t] = "idle" =>
              ReturnNewBlock(t) \/ ReturnReallocated(t) \/ ReturnNull(t)
<1>1. /\ pc \in [Threads -> Labels] /\ InStep(t)
      /\ \A l : Goto(t, l) => pc'[t] = l
  BY InCall
<1> USE <1>1
<1>2. CASE Begin(t)
  <2>1. pc'[t] \in {"enter", "return"}
    BY <1>2, BeginFacts
  <2> QED BY <1>2, <2>1
<1>3. CASE Enter(t) \/ Exit(t) \/ Clear(t)
  BY <1>3 DEF Enter, Exit, Clear, FirstStep, InStep
<1>4. CASE ReallocInPlace(t) \/ ReallocElsewhere(t) \/ CopyBlock(t)
  <2>1. /\ ReallocInPlace(t) => Goto(t, "exit")
        /\ ReallocElsewhere(t) => Goto(t, "allocate")
        /\ CopyBlock(t) => Goto(t, "free")
    BY DEF ReallocInPlace, ReallocElsewhere, CopyBlock
  <2> QED BY <1>4, <2>1
<1>5. CASE FindFreeChunk(t) \/ AddMediumPage(t)
  BY <1>5 DEF FindFreeChunk, AddMediumPage, Found
<1>6. CASE TakeFoundChunk(t) \/ AddLargePage(t) \/ AllocateNothing(t)
  BY <1>6 DEF TakeFoundChunk, AddLargePage, AllocateNothing, Give
<1>7. CASE FreeNull(t) \/ FreePage(t) \/ FreeChunk(t) \/ ReleasePage(t) \/ KeepPage(t)
  BY <1>7 DEF FreeNull, FreePage, FreeChunk, ReleasePage, KeepPage
<1>8. CASE ReturnNewBlock(t) \/ ReturnReallocated(t) \/ ReturnNull(t)
  BY <1>8 DEF ReturnNewBlock, ReturnReallocated, ReturnNull, Finish
<1> QED BY <1>2, <1>3, <1>4, <1>5, <1>6, <1>7, <1>8 DEF Act, Proceed

(* A thread keeps the lock through the steps of others, and its own until  *)
(* "exit".                                                                 *)
LEMMA LockStays ==
  ASSUME IInv, NEW t \in Threads, Act(t), lock # NoThread
  PROVE  lock' = lock \/ (lock = t /\ pc[t] = "exit")
<1>1. Excluded(t)
  BY InCall
<1>2. CASE Begin(t)
  BY <1>2, BeginFacts DEF Call
<1>3. CASE Enter(t) \/ Exit(t) \/ Clear(t)
  BY <1>1, <1>3 DEF Enter, Exit, Clear, Excluded, Critical
<1>4. CASE ReallocInPlace(t) \/ ReallocElsewhere(t) \/ CopyBlock(t)
  BY <1>4 DEF ReallocInPlace, ReallocElsewhere, CopyBlock
<1>5. CASE FindFreeChunk(t) \/ AddMediumPage(t)
  BY <1>5 DEF FindFreeChunk, AddMediumPage, Found
<1>6. CASE TakeFoundChunk(t) \/ AddLargePage(t) \/ AllocateNothing(t)
  BY <1>6 DEF TakeFoundChunk, AddLargePage, AllocateNothing, Give
<1>7. CASE FreeNull(t) \/ FreePage(t) \/ FreeChunk(t) \/ ReleasePage(t) \/ KeepPage(t)
  BY <1>7 DEF FreeNull, FreePage, FreeChunk, ReleasePage, KeepPage
<1>8. CASE ReturnNewBlock(t) \/ ReturnReallocated(t) \/ ReturnNull(t)
  BY <1>8 DEF ReturnNewBlock, ReturnReallocated, ReturnNull, Finish
<1> QED BY <1>2, <1>3, <1>4, <1>5, <1>6, <1>7, <1>8 DEF Act, Proceed

(* The steps that change the heap.                                         *)
HeapAct(t) ==
  \/ AddMediumPage(t) \/ AddLargePage(t) \/ TakeFoundChunk(t)
  \/ Survives(t) /\ (FreePage(t) \/ FreeChunk(t))
  \/ ReleasePage(t)

LEMMA HeapChangesHere ==
  ASSUME NEW t \in Threads, Act(t)
  PROVE  UNCHANGED heapVars \/ HeapAct(t)
<1>1. CASE Begin(t)
  BY <1>1 DEF Begin, CallMalloc, CallFree, CallRealloc, CallCalloc,
     CallReallocarray, Call
<1>2. CASE Enter(t) \/ Exit(t) \/ Clear(t)
  BY <1>2 DEF Enter, Exit, Clear
<1>3. CASE ReallocInPlace(t) \/ ReallocElsewhere(t) \/ CopyBlock(t)
  BY <1>3 DEF ReallocInPlace, ReallocElsewhere, CopyBlock
<1>4. CASE FindFreeChunk(t) \/ AllocateNothing(t) \/ FreeNull(t) \/ KeepPage(t)
  BY <1>4 DEF FindFreeChunk, AllocateNothing, FreeNull, KeepPage
<1>5. CASE ReturnNewBlock(t) \/ ReturnReallocated(t) \/ ReturnNull(t)
  BY <1>5 DEF ReturnNewBlock, ReturnReallocated, ReturnNull, Finish
<1> QED BY <1>1, <1>2, <1>3, <1>4, <1>5 DEF Act, Proceed, HeapAct

(* The heap changes in the hands of the thread that has the lock.          *)
LEMMA HeapChangesLocked ==
  ASSUME IInv, NEW t \in Threads, HeapAct(t)
  PROVE  /\ pc[t] \in {"allocate", "take", "free", "release"}
         /\ lock = t /\ lock' = lock
         /\ \A u \in Threads \ {t} : pc[u] \notin Critical
<1>1. pc[t] \in {"allocate", "take", "free", "release"} /\ lock' = lock
  BY DEF HeapAct, AddMediumPage, AddLargePage, TakeFoundChunk, FreePage, FreeChunk,
     ReleasePage, Found, Give
<1>2. lock = t
  BY <1>1, InCall DEF Excluded, Critical
<1>3. ASSUME NEW u \in Threads \ {t} PROVE pc[u] \notin Critical
  <2>1. Excluded(u) /\ u # t
    BY InCall
  <2> QED BY <1>2, <2>1 DEF Excluded, Critical
<1> QED BY <1>1, <1>2, <1>3
-----------------------------------------------------------------------------
(* What the steps that change the heap do, in the terms of the invariants. *)

LEMMA AddMediumPageEffect ==
  ASSUME IInv, NEW t \in Threads, AddMediumPage(t)
  PROVE  \E p \in Pages \ mapped :
           /\ \A ptr \in DOMAIN owned : PageOf(ptr) # p
           /\ OtherPagesStay(p) /\ mapped' = mapped \cup {p}
           /\ zoneType'[p] = GetZoneType(Aligned(t))
           /\ Chunks(p)' = {PageHeader} /\ allocation'[p] = <<>>
           /\ chunkSize'[p][PageHeader] = FirstChunkSize(Aligned(t))
           /\ pageSize'[p] = TotalSize(Aligned(t))
           /\ Aligned(t) \in Nat /\ MmapAccepts(Aligned(t))
           /\ pc[t] = "allocate" /\ pc'[t] = "take"
           /\ frame'[t] = [frame[t] EXCEPT !.page = p, !.chunk = PageHeader]
           /\ UNCHANGED <<lock, owned, content>>
           /\ Aligned(t) # 0 /\ GetZoneType(Aligned(t)) # "LARGE_ZONE"
<1>1. PICK p \in Pages : /\ MmapMayReturn(p)
                         /\ MapMediumPage(p, Aligned(t), Destination(t))
                         /\ Found(t, p, PageHeader)
  BY DEF AddMediumPage
<1>2. /\ pc[t] = "allocate" /\ Aligned(t) # 0
      /\ GetZoneType(Aligned(t)) # "LARGE_ZONE" /\ MmapAccepts(Aligned(t))
      /\ Goto(t, "take") /\ UNCHANGED <<lock, owned, content>>
      /\ frame' = [frame EXCEPT ![t].page = p, ![t].chunk = PageHeader]
  BY <1>1 DEF AddMediumPage, Found
<1>3. /\ frame \in [Threads -> FrameType] /\ frame[t] \in FrameType
      /\ pc'[t] = "take" /\ HeapInv
  BY <1>2, InCall, Parts
<1>4. Aligned(t) \in Nat
  BY <1>3, DestinationFacts
<1>5. p \in Pages \ mapped /\ \A ptr \in DOMAIN owned : PageOf(ptr) # p
  BY <1>1 DEF MmapMayReturn
<1>6. frame'[t] = [frame[t] EXCEPT !.page = p, !.chunk = PageHeader]
  BY <1>2, <1>3
<1> QED BY <1>1, <1>2, <1>3, <1>4, <1>5, <1>6, MapPageFacts

(* Give, in full: the block is new, and is what was promised.              *)
LEMMA GiveEffect ==
  ASSUME IInv, NEW t \in Threads, NEW new \in Blocks \ DOMAIN owned, Give(t, new)
  PROVE  /\ DOMAIN owned' = DOMAIN owned \cup {new}
         /\ owned'[new] = Promise(t)
         /\ \A x \in DOMAIN owned : owned'[x] = owned[x]
         /\ content'[new] = Bytes(Junk, 0)
         /\ \A x \in DOMAIN owned : content'[x] = content[x]
         /\ frame'[t] = [frame[t] EXCEPT !.new = new, !.page = NULL, !.chunk = 0]
         /\ pc'[t] = IF frame[t].ptr = NULL THEN "exit" ELSE "copy"
         /\ lock' = lock
<1>1. frame \in [Threads -> FrameType] /\ OwnedType /\ pc \in [Threads -> Labels]
  BY InCall
<1>2. DOMAIN content = DOMAIN owned
  BY <1>1 DEF OwnedType
<1> QED BY <1>1, <1>2 DEF Give, Assign, Goto

LEMMA AddLargePageEffect ==
  ASSUME IInv, NEW t \in Threads, AddLargePage(t)
  PROVE  \E p \in Pages \ mapped :
           /\ \A ptr \in DOMAIN owned : PageOf(ptr) # p
           /\ OtherPagesStay(p) /\ mapped' = mapped \cup {p}
           /\ zoneType'[p] = "LARGE_ZONE"
           /\ Chunks(p)' = {PageHeader}
           /\ allocation'[p] = <<PageHeader>> /\ free'[p] = <<>>
           /\ chunkSize'[p][PageHeader] = FirstChunkSize(Aligned(t))
           /\ BlockOf(p, PageHeader) \in Blocks \ DOMAIN owned
           /\ PageOf(BlockOf(p, PageHeader)) = p
           /\ ChunkOf(BlockOf(p, PageHeader)) = PageHeader
           /\ pc[t] = "allocate"
           /\ Give(t, BlockOf(p, PageHeader))
           /\ Aligned(t) \in Nat /\ MmapAccepts(Aligned(t))
           /\ GetZoneType(Aligned(t)) = "LARGE_ZONE"
<1>1. PICK p \in Pages : /\ MmapMayReturn(p)
                         /\ MapLargePage(p, Aligned(t), Destination(t))
                         /\ Give(t, BlockOf(p, PageHeader))
  BY DEF AddLargePage
<1>2. /\ pc[t] = "allocate" /\ MmapAccepts(Aligned(t))
      /\ GetZoneType(Aligned(t)) = "LARGE_ZONE"
  BY DEF AddLargePage
<1>3. frame[t] \in FrameType /\ HeapInv
  BY InCall, Parts
<1>4. Aligned(t) \in Nat
  BY <1>3, DestinationFacts
<1>5. p \in Pages \ mapped /\ \A ptr \in DOMAIN owned : PageOf(ptr) # p
  BY <1>1 DEF MmapMayReturn
<1>6. /\ BlockOf(p, PageHeader) \in Blocks \ DOMAIN owned
      /\ PageOf(BlockOf(p, PageHeader)) = p
      /\ ChunkOf(BlockOf(p, PageHeader)) = PageHeader
  <2>1. PageHeader + ChunkHeader + ALIGNMENT <= SIZE_MAX
    BY ConstantFacts, HeaderFacts
  <2>2. /\ DataOfChunk(PageHeader) = PageHeader + ChunkHeader
        /\ GetChunkFromData(DataOfChunk(PageHeader)) = PageHeader
    BY <2>1, HeaderFacts, BlockToChunk
  <2>3. DataOfChunk(PageHeader) \in Nat
    BY <2>2, HeaderFacts
  <2> QED BY <1>5, <2>2, <2>3 DEF BlockOf, PageOf, ChunkOf, Blocks
<1> QED BY <1>1, <1>2, <1>3, <1>4, <1>5, <1>6, MapPageFacts

LEMMA TakeFoundChunkEffect ==
  ASSUME IInv, NEW t \in Threads, TakeFoundChunk(t), NEW p, p = frame[t].page,
         NEW c, c = frame[t].chunk
  PROVE  /\ p \in mapped /\ p \in Pages
         /\ c \in Range(free[p]) /\ c \in Chunks(p)
         /\ c \notin Range(allocation[p])
         /\ OtherPagesStay(p) /\ mapped' = mapped /\ zoneType' = zoneType
         /\ Range(allocation'[p]) = Range(allocation[p]) \cup {c}
         /\ Aligned(t) \in Nat /\ Aligned(t) % ALIGNMENT = 0
         /\ Aligned(t) <= chunkSize[p][c] /\ TakeChunk(p, c, Aligned(t))
         /\ chunkSize'[p][c] \in Aligned(t) .. Aligned(t) + ChunkHeader
         /\ \A d \in Chunks(p) \ {c} : chunkSize'[p][d] = chunkSize[p][d]
         /\ BlockOf(p, c) \in Blocks \ DOMAIN owned
         /\ PageOf(BlockOf(p, c)) = p /\ ChunkOf(BlockOf(p, c)) = c
         /\ pc[t] = "take"
         /\ Give(t, BlockOf(p, c))
<1>1. pc[t] = "take" /\ TakeChunk(p, c, Aligned(t)) /\ Give(t, BlockOf(p, c))
  BY DEF TakeFoundChunk
<1>2. /\ Found1(t) /\ frame[t] \in FrameType /\ HeapInv /\ BlocksAreAllocated
  BY InCall, Parts
<1>3. /\ p \in mapped /\ c \in Range(free[p]) /\ Aligned(t) <= chunkSize[p][c]
  BY <1>1, <1>2 DEF Found1
<1>4. /\ c \in Chunks(p) /\ p \in Pages
      /\ BlockOf(p, c) \in Blocks \ DOMAIN owned
      /\ PageOf(BlockOf(p, c)) = p /\ ChunkOf(BlockOf(p, c)) = c
  BY <1>2, <1>3, FreeChunkFacts, ChunkFacts, PageFacts
<1>5. Aligned(t) \in Nat /\ Aligned(t) % ALIGNMENT = 0
  BY <1>2, DestinationFacts
<1> QED BY <1>1, <1>2, <1>3, <1>4, <1>5, TakeChunkFacts

(* The block that a thread frees, and its chunk.                           *)
LEMMA FreedBlockFacts ==
  ASSUME IInv, NEW t \in Threads, Survives(t), pc[t] = "free", frame[t].ptr # NULL,
         NEW ptr, ptr = frame[t].ptr
  PROVE  /\ ptr \in DOMAIN owned /\ owned[ptr].by = t
         /\ PageOf(ptr) \in mapped /\ PageOf(ptr) \in Pages
         /\ ChunkOf(ptr) \in Range(allocation[PageOf(ptr)])
         /\ ChunkOf(ptr) \in Chunks(PageOf(ptr))
         /\ SizeOfChunk(ptr) \in Nat
         /\ ptr = BlockOf(PageOf(ptr), ChunkOf(ptr))
<1>1. /\ Holding(t) /\ OwnedType /\ HeapInv /\ BlocksAreAllocated
      /\ mapped \subseteq Pages
  BY InCall, Parts DEF HeapTypeOK
<1>2. ptr \in DOMAIN owned /\ owned[ptr].by = t
  BY <1>1 DEF Holding, Answers, HeldBy
<1>3. PageOf(ptr) \in mapped
  BY DEF Survives, Touches
<1> QED BY <1>1, <1>2, <1>3, OwnedChunkFacts

LEMMA FreePageEffect ==
  ASSUME IInv, NEW t \in Threads, Survives(t), FreePage(t),
         NEW ptr, ptr = frame[t].ptr
  PROVE  /\ pc[t] = "free" /\ ptr # NULL /\ FreesWholePage(ptr)
         /\ TakeBack(ptr, ContentsWithout(PageOf(ptr)))
         /\ OtherPagesStay(PageOf(ptr))
         /\ mapped' = mapped \ {PageOf(ptr)}
<1>1. /\ pc[t] = "free" /\ ptr # NULL /\ FreesWholePage(ptr)
      /\ TakeBack(ptr, ContentsWithout(PageOf(ptr)))
      /\ UnmapPage(PageOf(ptr))
  BY DEF FreePage
<1>2. PageOf(ptr) \in mapped /\ HeapInv
  BY <1>1, FreedBlockFacts, Parts
<1> QED BY <1>1, <1>2, UnmapPageFacts

LEMMA FreeChunkEffect ==
  ASSUME IInv, NEW t \in Threads, Survives(t), FreeChunk(t),
         NEW ptr, ptr = frame[t].ptr
  PROVE  /\ pc[t] = "free" /\ ptr # NULL /\ ~ FreesWholePage(ptr)
         /\ TakeBack(ptr, content)
         /\ OtherPagesStay(PageOf(ptr))
         /\ UNCHANGED <<mapped, zoneType, pageSize, chunkSize>>
         /\ Range(allocation'[PageOf(ptr)])
              = Range(allocation[PageOf(ptr)]) \ {ChunkOf(ptr)}
         /\ pc'[t] = "release" /\ frame'[t].page = PageOf(ptr)
         /\ lock' = lock
<1>1. /\ pc[t] = "free" /\ ptr # NULL /\ ~ FreesWholePage(ptr)
      /\ TakeBack(ptr, content)
      /\ PutChunk(PageOf(ptr), ChunkOf(ptr))
      /\ frame' = [frame EXCEPT ![t].page = PageOf(ptr)]
      /\ Goto(t, "release") /\ lock' = lock
  BY DEF FreeChunk
<1>2. /\ PageOf(ptr) \in mapped /\ ChunkOf(ptr) \in Range(allocation[PageOf(ptr)])
      /\ HeapInv /\ frame \in [Threads -> FrameType] /\ pc'[t] = "release"
  BY <1>1, FreedBlockFacts, Parts, InCall
<1>3. frame'[t].page = PageOf(ptr)
  BY <1>1, <1>2 DEF FrameType
<1> QED BY <1>1, <1>2, <1>3, PutChunkFacts

(* A page that is released has no blocks, so that no block loses its bytes.*)
LEMMA ReleasePageEffect ==
  ASSUME IInv, NEW t \in Threads, ReleasePage(t), NEW p, p = frame[t].page
  PROVE  /\ pc[t] = "release" /\ p \in mapped /\ p \in Pages
         /\ allocation[p] = <<>>
         /\ OtherPagesStay(p)
         /\ mapped' = mapped \ {p}
         /\ UNCHANGED <<lock, owned, content>>
<1>1. /\ pc[t] = "release" /\ allocation[p] = <<>> /\ UnmapPage(p)
      /\ content' = ContentsWithout(p) /\ UNCHANGED <<lock, owned>>
  BY DEF ReleasePage, IsSpare
<1>2. p \in mapped /\ HeapInv /\ p \in Pages /\ OwnedType /\ BlocksAreAllocated
  BY <1>1, InCall, Parts DEF Found1, HeapTypeOK
<1>3. \A ptr \in DOMAIN owned : PageOf(ptr) # p
  BY <1>1, <1>2 DEF BlocksAreAllocated, Range
<1>4. content' = content
  BY <1>1, <1>2, <1>3, NothingWithout
<1> QED BY <1>1, <1>2, <1>4, UnmapPageFacts
(* The chunk of a block keeps its size as long as the program has the block*)
(* and the kernel its page.                                                *)
LEMMA ChunkSizePersists ==
  ASSUME IInv, NEW t \in Threads, HeapAct(t), NEW x \in DOMAIN owned,
         PageOf(x) \in mapped'
  PROVE  PageOf(x) \in mapped /\ SizeOfChunk(x)' = SizeOfChunk(x)
<1>1. HeapInv /\ BlocksAreAllocated /\ OwnedType /\ mapped \subseteq Pages
  BY Parts DEF HeapTypeOK
<1>2. ASSUME NEW p, OtherPagesStay(p), PageOf(x) # p, PageOf(x) \in mapped
      PROVE  SizeOfChunk(x)' = SizeOfChunk(x)
  BY <1>1, <1>2 DEF OtherPagesStay, SizeOfChunk
<1>3. CASE AddMediumPage(t)
  <2>1. PICK p \in Pages \ mapped :
          /\ \A ptr \in DOMAIN owned : PageOf(ptr) # p
          /\ OtherPagesStay(p) /\ mapped' = mapped \cup {p}
    BY <1>3, AddMediumPageEffect
  <2> QED BY <1>2, <2>1
<1>4. CASE AddLargePage(t)
  <2>1. PICK p \in Pages \ mapped :
          /\ \A ptr \in DOMAIN owned : PageOf(ptr) # p
          /\ OtherPagesStay(p) /\ mapped' = mapped \cup {p}
    BY <1>4, AddLargePageEffect
  <2> QED BY <1>2, <2>1
<1>5. CASE TakeFoundChunk(t)
  <2> PICK p, c : p = frame[t].page /\ c = frame[t].chunk
    OBVIOUS
  <2>1. /\ mapped' = mapped /\ OtherPagesStay(p)
        /\ c \notin Range(allocation[p])
        /\ \A d \in Chunks(p) \ {c} : chunkSize'[p][d] = chunkSize[p][d]
    BY <1>5, TakeFoundChunkEffect, SMTT(30)
  <2>2. CASE PageOf(x) = p
    <3>1. ChunkOf(x) \in Range(allocation[p]) /\ ChunkOf(x) \in Chunks(p)
      BY <1>1, <2>1, <2>2, OwnedChunkFacts
    <3> QED BY <2>1, <2>2, <3>1 DEF SizeOfChunk
  <2>3. CASE PageOf(x) # p
    BY <1>2, <2>1, <2>3
  <2> QED BY <2>2, <2>3
<1>6. CASE Survives(t) /\ FreePage(t)
  BY <1>2, <1>6, FreePageEffect
<1>7. CASE Survives(t) /\ FreeChunk(t)
  BY <1>7, FreeChunkEffect DEF SizeOfChunk
<1>8. CASE ReleasePage(t)
  BY <1>2, <1>8, ReleasePageEffect
<1> QED BY <1>3, <1>4, <1>5, <1>6, <1>7, <1>8 DEF HeapAct

-----------------------------------------------------------------------------
(* The zones and the sizes of their chunks.                                *)

(* Only a search leads to "take", and what it finds is of the right zone.  *)
LEMMA FindingSuits ==
  ASSUME IInv, NEW t \in Threads, Act(t), pc'[t] = "take"
  PROVE  FindingSuitsRequest(t)'
<1>1. /\ pc \in [Threads -> Labels] /\ frame[t] \in FrameType /\ InStep(t)
      /\ frame \in [Threads -> FrameType] /\ HeapInv
      /\ \A l : Goto(t, l) => pc'[t] = l
  BY InCall, Parts
<1>2. FindFreeChunk(t) \/ AddMediumPage(t)
  BY WhereStepsLead
<1>3. CASE FindFreeChunk(t)
  <2>1. PICK p \in mapped : /\ IsFirstPage(Destination(t), Aligned(t), p)
                            /\ \E c : Found(t, p, c)
    BY <1>3 DEF FindFreeChunk
  <2>2. /\ Aligned(t) # 0 /\ GetZoneType(Aligned(t)) # "LARGE_ZONE"
        /\ UNCHANGED heapVars
    BY <1>3 DEF FindFreeChunk
  <2>3. /\ frame'[t].page = p /\ Aligned(t)' = Aligned(t)
    BY <1>1, <2>1 DEF Found, FrameType, Aligned
  <2>4. zoneType[p] = GetZoneType(Aligned(t))
    <3>1. Destination(t) = GetZoneType(Aligned(t)) /\ Destination(t) \in ZoneTypes
      BY <1>1, <2>2, DestinationFacts DEF GetZoneType, ZoneTypes
    <3>2. p \in Range(zone[Destination(t)])
      BY <2>1 DEF IsFirstPage, Range
    <3> QED BY <1>1, <3>1, <3>2 DEF HeapInv, ZonesLinkMappedPages
  <2> QED BY <2>2, <2>3, <2>4 DEF FindingSuitsRequest, heapVars
<1>4. CASE AddMediumPage(t)
  <2>1. PICK p \in Pages \ mapped :
          /\ zoneType'[p] = GetZoneType(Aligned(t))
          /\ frame'[t] = [frame[t] EXCEPT !.page = p, !.chunk = PageHeader]
          /\ Aligned(t) # 0 /\ GetZoneType(Aligned(t)) # "LARGE_ZONE"
    BY <1>4, AddMediumPageEffect
  <2>2. frame'[t].page = p /\ Aligned(t)' = Aligned(t)
    BY <1>1, <2>1 DEF FrameType, Aligned
  <2> QED BY <2>1, <2>2 DEF FindingSuitsRequest
<1> QED BY <1>2, <1>3, <1>4

LEMMA ChunksStaySuited ==
  ASSUME IInv, ZoneInv, NEW t \in Threads, HeapAct(t)
  PROVE  ChunksSuitZone'
<1> DEFINE Suits(q) ==
             IF zoneType[q] = "LARGE_ZONE" THEN Chunks(q) = {PageHeader}
             ELSE \A c \in Range(allocation[q]) :
                    chunkSize[q][c] <= ZoneLimit(zoneType[q]) + ChunkHeader
<1>1. /\ \A q \in mapped : Suits(q)
      /\ mapped \subseteq Pages /\ HeapInv
  BY Parts DEF ZoneInv, ChunksSuitZone, HeapTypeOK
<1>2. ASSUME NEW p, OtherPagesStay(p), NEW q \in mapped, q # p
      PROVE  Suits(q)'
  BY <1>1, <1>2 DEF OtherPagesStay, Chunks
<1>3. ASSUME NEW q \in mapped' PROVE Suits(q)'
  <2>1. CASE AddMediumPage(t)
    <3>1. PICK p : /\ OtherPagesStay(p) /\ mapped' = mapped \cup {p}
                   /\ zoneType'[p] = GetZoneType(Aligned(t))
                   /\ allocation'[p] = <<>>
                   /\ GetZoneType(Aligned(t)) # "LARGE_ZONE"
      BY <2>1, AddMediumPageEffect
    <3>2. Range(<<>>) = {}
      BY DEF Range
    <3>3. CASE q = p
      BY <3>1, <3>2, <3>3
    <3> QED BY <1>2, <1>3, <3>1, <3>3
  <2>2. CASE AddLargePage(t)
    <3>1. PICK p : /\ OtherPagesStay(p) /\ mapped' = mapped \cup {p}
                   /\ zoneType'[p] = "LARGE_ZONE"
                   /\ Chunks(p)' = {PageHeader}
      BY <2>2, AddLargePageEffect
    <3> QED BY <1>2, <1>3, <3>1
  <2>3. CASE TakeFoundChunk(t)
    <3> PICK p, c, n : p = frame[t].page /\ c = frame[t].chunk /\ n = Aligned(t)
      OBVIOUS
    <3>1. /\ OtherPagesStay(p) /\ mapped' = mapped /\ zoneType' = zoneType
          /\ p \in mapped /\ c \in Chunks(p)
          /\ Range(allocation'[p]) = Range(allocation[p]) \cup {c}
          /\ n \in Nat
          /\ chunkSize'[p][c] \in n .. n + ChunkHeader
          /\ \A d \in Chunks(p) \ {c} : chunkSize'[p][d] = chunkSize[p][d]
          /\ pc[t] = "take"
      BY <2>3, TakeFoundChunkEffect, SMTT(30)
    <3>2. zoneType[p] = GetZoneType(n) /\ zoneType[p] # "LARGE_ZONE"
      BY <3>1 DEF ZoneInv, FindingSuitsRequest
    <3>3. Range(allocation[p]) \subseteq Chunks(p)
      BY <1>1, <3>1, PageFacts DEF ListedOnce
    <3>4. n <= ZoneLimit(zoneType[p])
      BY <3>1, <3>2, ConstantFacts DEF GetZoneType, ZoneLimit
    <3>5. ZoneLimit(zoneType[p]) \in Nat /\ ChunkHeader \in Nat
      BY ConstantFacts, HeaderFacts DEF ZoneLimit
    <3>6. CASE q = p
      <4>1. chunkSize'[p][c] <= ZoneLimit(zoneType[p]) + ChunkHeader
        BY <3>1, <3>4, <3>5
      <4>2. \A d \in Range(allocation'[p]) :
              chunkSize'[p][d] <= ZoneLimit(zoneType[p]) + ChunkHeader
        BY <1>1, <3>1, <3>2, <3>3, <4>1
      <4> QED BY <3>1, <3>2, <3>6, <4>2
    <3> QED BY <1>2, <1>3, <3>1, <3>6
  <2>4. CASE Survives(t) /\ FreePage(t)
    BY <1>2, <1>3, <2>4, FreePageEffect
  <2>5. CASE Survives(t) /\ FreeChunk(t)
    <3> DEFINE p == PageOf(frame[t].ptr)
    <3>1. /\ OtherPagesStay(p) /\ UNCHANGED <<mapped, zoneType, chunkSize>>
          /\ Range(allocation'[p]) \subseteq Range(allocation[p])
      BY <2>5, FreeChunkEffect
    <3>2. CASE q = p
      BY <1>1, <1>3, <3>1, <3>2 DEF Chunks
    <3> QED BY <1>2, <1>3, <3>1, <3>2
  <2>6. CASE ReleasePage(t)
    BY <1>2, <1>3, <2>6, ReleasePageEffect
  <2> QED BY <2>1, <2>2, <2>3, <2>4, <2>5, <2>6 DEF HeapAct
<1> QED BY <1>3 DEF ChunksSuitZone

LEMMA ZoneStep ==
  ASSUME IInv, ZoneInv, [Next]_vars
  PROVE  ZoneInv'
<1>1. ASSUME UNCHANGED heapVars PROVE ChunksSuitZone'
  BY <1>1 DEF ZoneInv, ChunksSuitZone, Chunks, heapVars
<1>2. CASE UNCHANGED vars
  <2>1. UNCHANGED <<heapVars, pc, frame>>
    BY <1>2 DEF vars
  <2> QED BY <1>1, <2>1 DEF ZoneInv, FindingSuitsRequest, Aligned, heapVars
<1>3. ASSUME NEW t \in Threads, Fault(t) PROVE ZoneInv'
  <2>1. UNCHANGED heapVars /\ \A u \in Threads : pc'[u] = "killed"
    BY <1>3 DEF Fault
  <2> QED BY <1>1, <2>1 DEF ZoneInv, FindingSuitsRequest
<1>4. ASSUME NEW t \in Threads, Act(t) PROVE ZoneInv'
  <2>1. ChunksSuitZone'
    BY <1>1, <1>4, HeapChangesHere, ChunksStaySuited
  <2>2. FindingSuitsRequest(t)'
    BY <1>4, FindingSuits DEF FindingSuitsRequest
  <2>3. ASSUME NEW u \in Threads \ {t} PROVE FindingSuitsRequest(u)'
    <3>1. pc'[u] = pc[u] /\ frame'[u] = frame[u] /\ FindingSuitsRequest(u)
      BY <1>4, <2>3, OthersWait DEF ZoneInv
    <3>2. CASE UNCHANGED heapVars
      BY <3>1, <3>2 DEF FindingSuitsRequest, Aligned, heapVars
    <3>3. CASE HeapAct(t)
      BY <2>3, <3>1, <3>3, HeapChangesLocked DEF FindingSuitsRequest, Critical
    <3> QED BY <1>4, <3>2, <3>3, HeapChangesHere
  <2> QED BY <2>1, <2>2, <2>3 DEF ZoneInv
<1> QED BY <1>2, <1>3, <1>4, StepIsAct

LEMMA ZoneInvariance == Spec => [](IInv /\ ZoneInv)
<1>1. Init => ZoneInv
  BY DEF Init, HeapInit, ZoneInv, ChunksSuitZone, FindingSuitsRequest
<1>2. IInv /\ ZoneInv /\ [Next]_vars => ZoneInv'
  BY ZoneStep
<1> QED BY <1>1, <1>2, InitInv, NextInv, PTL DEF Spec
(* The only step that takes a page from under a block frees another block  *)
(* of that page, whose chunk is larger than the limit of the SMALL zone.   *)
LEMMA LostPages ==
  ASSUME IInv, ZoneInv, [Next]_vars, NEW p \in mapped \ mapped',
         NEW ptr \in DOMAIN owned', PageOf(ptr) = p
  PROVE  /\ zoneType[p] = "SMALL_ZONE"
         /\ \E x \in DOMAIN owned \ DOMAIN owned' :
              /\ PageOf(x) = p
              /\ SizeOfChunk(x) > SMALL_ZONE_SIZE
              /\ SizeOfChunk(x) <= SMALL_ZONE_SIZE + ChunkHeader
<1>1. PICK t \in Threads : HeapAct(t)
  <2>1. ~ UNCHANGED heapVars
    BY DEF heapVars
  <2>2. ~ UNCHANGED vars /\ ~ \E t \in Threads : Fault(t)
    BY <2>1 DEF vars, Fault
  <2> QED BY <2>1, <2>2, StepIsAct, HeapChangesHere
<1>2. HeapInv /\ BlocksAreAllocated /\ OwnedType /\ HeapTypeOK
  BY Parts
<1>3. ASSUME NEW x \in DOMAIN owned, PageOf(x) = p
      PROVE  /\ ChunkOf(x) \in Range(allocation[p])
             /\ ChunkOf(x) \in Chunks(p)
             /\ x = BlockOf(p, ChunkOf(x))
  BY <1>2, <1>3, OwnedChunkFacts
<1>4. CASE ReleasePage(t)
  <2>1. owned' = owned /\ allocation[p] = <<>>
    BY <1>2, <1>4, ReleasePageEffect DEF HeapTypeOK
  <2> QED BY <1>3, <2>1 DEF Range
<1>5. CASE Survives(t) /\ FreePage(t)
  <2> PICK x : x = frame[t].ptr
    OBVIOUS
  <2>1. /\ pc[t] = "free" /\ x # NULL /\ FreesWholePage(x)
        /\ TakeBack(x, ContentsWithout(PageOf(x)))
        /\ mapped' = mapped \ {PageOf(x)}
    BY <1>5, FreePageEffect
  <2>2. /\ PageOf(x) = p /\ x \in DOMAIN owned
        /\ DOMAIN owned' = DOMAIN owned \ {x}
        /\ SizeOfChunk(x) \in Nat
    BY <1>2, <1>5, <2>1, FreedBlockFacts, ContentsWithoutType, TakeBackFacts
  <2>3. SizeOfChunk(x) > SMALL_ZONE_SIZE
    BY <2>1, <2>2, ConstantFacts DEF FreesWholePage, GetZoneType
  <2>4. ChunkOf(ptr) # ChunkOf(x) /\ ptr \in DOMAIN owned
    BY <1>3, <2>2
  <2>5. zoneType[p] # "LARGE_ZONE"
    BY <1>3, <2>2, <2>4 DEF ZoneInv, ChunksSuitZone
  <2>6. SizeOfChunk(x) <= ZoneLimit(zoneType[p]) + ChunkHeader
    BY <1>3, <2>2, <2>5 DEF ZoneInv, ChunksSuitZone, SizeOfChunk
  <2>7. zoneType[p] # "TINY_ZONE"
    BY <2>2, <2>3, <2>6, ConstantFacts, HeaderFacts DEF ZoneLimit
  <2>8. zoneType[p] = "SMALL_ZONE"
    BY <1>2, <2>5, <2>7 DEF HeapTypeOK, ZoneTypes
  <2>9. SizeOfChunk(x) <= SMALL_ZONE_SIZE + ChunkHeader
    BY <2>6, <2>8 DEF ZoneLimit
  <2> QED BY <2>2, <2>3, <2>8, <2>9
<1>6. CASE ~ ReleasePage(t) /\ ~ (Survives(t) /\ FreePage(t))
  <2>1. CASE AddMediumPage(t)
    BY <2>1, AddMediumPageEffect
  <2>2. CASE AddLargePage(t)
    BY <2>2, AddLargePageEffect
  <2>3. CASE TakeFoundChunk(t)
    BY <2>3, TakeFoundChunkEffect
  <2>4. CASE Survives(t) /\ FreeChunk(t)
    BY <2>4, FreeChunkEffect
  <2> QED BY <1>1, <1>6, <2>1, <2>2, <2>3, <2>4 DEF HeapAct
<1> QED BY <1>4, <1>5, <1>6

(* A page is unmapped under other blocks only where the code frees a block *)
(* of a SMALL page as if it were LARGE, whatever the sizes asked for.      *)
THEOREM LostOnlyByMistake == Spec => LostOnlyByMisfiledFree
<1>1. IInv /\ ZoneInv /\ [Next]_vars =>
        [\A p \in mapped \ mapped' :
           (\E ptr \in DOMAIN owned' : PageOf(ptr) = p) =>
             /\ zoneType[p] = "SMALL_ZONE"
             /\ \E ptr \in DOMAIN owned \ DOMAIN owned' :
                  /\ PageOf(ptr) = p
                  /\ SizeOfChunk(ptr) > SMALL_ZONE_SIZE
                  /\ SizeOfChunk(ptr) <= SMALL_ZONE_SIZE + ChunkHeader]_vars
  BY LostPages
<1> QED BY <1>1, ZoneInvariance, PTL DEF Spec, LostOnlyByMisfiledFree
-----------------------------------------------------------------------------
(* Pages: which are new, which are empty, which are LARGE.                 *)

LEMMA ServableStep ==
  ASSUME RequestsFit, IInv, NEW t \in Threads, IsServable(t), Act(t)
  PROVE  IsServable(t)'
<1>1. CASE Begin(t)
  <2>1. PICK op, ptr, size, l :
          /\ RequestsFit /\ l = "enter" => MappingFits(size)
          /\ frame'[t] = [op |-> op, ptr |-> ptr, size |-> size, new |-> NULL,
                         page |-> NULL, chunk |-> 0]
          /\ pc'[t] = l /\ l \in {"enter", "return"}
    BY <1>1, BeginFacts
  <2>2. frame'[t].size = size
    BY <2>1 DEF NoFrame
  <2> QED BY <2>1, <2>2 DEF IsServable
<1>2. CASE Enter(t) \/ ReallocElsewhere(t)
  BY <1>2 DEF Enter, ReallocElsewhere, IsServable
<1> QED BY <1>1, <1>2, WhereStepsLead DEF IsServable
LEMMA LargeStep ==
  ASSUME IInv, ZoneInv, LargeChunksAreLarge, NEW t \in Threads, IsServable(t),
         HeapAct(t)
  PROVE  LargeChunksAreLarge'
<1> DEFINE Large(q) ==
             zoneType[q] = "LARGE_ZONE" =>
               free[q] = <<>> /\ chunkSize[q][PageHeader] > SMALL_ZONE_SIZE
<1>1. (\A q \in mapped : Large(q)) /\ mapped \subseteq Pages
  BY Parts DEF LargeChunksAreLarge, HeapTypeOK
<1>2. ASSUME NEW p, OtherPagesStay(p), NEW q \in mapped, q # p
      PROVE  Large(q)'
  BY <1>1, <1>2 DEF OtherPagesStay
<1>3. ASSUME NEW q \in mapped' PROVE Large(q)'
  <2>1. CASE AddMediumPage(t)
    <3>1. PICK p : /\ OtherPagesStay(p) /\ mapped' = mapped \cup {p}
                   /\ zoneType'[p] # "LARGE_ZONE"
      BY <2>1, AddMediumPageEffect
    <3> QED BY <1>2, <1>3, <3>1
  <2>2. CASE AddLargePage(t)
    <3>1. PICK p : /\ OtherPagesStay(p) /\ mapped' = mapped \cup {p}
                   /\ free'[p] = <<>> /\ pc[t] = "allocate"
                   /\ chunkSize'[p][PageHeader] = FirstChunkSize(Aligned(t))
                   /\ Aligned(t) \in Nat /\ MmapAccepts(Aligned(t))
                   /\ GetZoneType(Aligned(t)) = "LARGE_ZONE"
      BY <2>2, AddLargePageEffect
    <3>2. Aligned(t) > SMALL_ZONE_SIZE
      BY <3>1, ConstantFacts DEF GetZoneType
    <3>3. Aligned(t) + PageHeader + ChunkHeader <= SIZE_MAX
      BY <3>1 DEF IsServable, MappingFits, Aligned
    <3>4. Aligned(t) <= FirstChunkSize(Aligned(t)) /\ FirstChunkSize(Aligned(t)) \in Nat
      BY <3>1, <3>3, PageHoldsRequest, NewPageFacts
    <3>5. chunkSize'[p][PageHeader] > SMALL_ZONE_SIZE
      BY <3>1, <3>2, <3>4, ConstantFacts
    <3> QED BY <1>2, <1>3, <3>1, <3>5
  <2>3. CASE TakeFoundChunk(t)
    <3> PICK p, c : p = frame[t].page /\ c = frame[t].chunk
      OBVIOUS
    <3>1. /\ OtherPagesStay(p) /\ mapped' = mapped /\ zoneType' = zoneType
          /\ pc[t] = "take"
      BY <2>3, TakeFoundChunkEffect
    <3>2. zoneType[p] # "LARGE_ZONE"
      BY <3>1 DEF ZoneInv, FindingSuitsRequest
    <3> QED BY <1>2, <1>3, <3>1, <3>2
  <2>4. CASE Survives(t) /\ FreePage(t)
    BY <1>2, <1>3, <2>4, FreePageEffect
  <2>5. CASE Survives(t) /\ FreeChunk(t)
    <3> PICK ptr, p : ptr = frame[t].ptr /\ p = PageOf(ptr)
      OBVIOUS
    <3>1. /\ OtherPagesStay(p) /\ UNCHANGED <<mapped, zoneType, chunkSize>>
          /\ pc[t] = "free" /\ ptr # NULL /\ ~ FreesWholePage(ptr)
      BY <2>5, FreeChunkEffect
    <3>2. /\ p \in mapped /\ ChunkOf(ptr) \in Chunks(p)
          /\ SizeOfChunk(ptr) \in Nat
      BY <2>5, <3>1, FreedBlockFacts
    <3>3. SizeOfChunk(ptr) <= SMALL_ZONE_SIZE
      BY <3>1, <3>2, ConstantFacts DEF FreesWholePage, GetZoneType
    <3>4. zoneType[p] # "LARGE_ZONE"
      <4>1. SUFFICES ASSUME zoneType[p] = "LARGE_ZONE" PROVE FALSE
        OBVIOUS
      <4>2. ChunkOf(ptr) = PageHeader
        BY <3>2, <4>1 DEF ZoneInv, ChunksSuitZone
      <4> QED BY <1>1, <3>2, <3>3, <4>1, <4>2, ConstantFacts DEF SizeOfChunk
    <3> QED BY <1>2, <1>3, <3>1, <3>4
  <2>6. CASE ReleasePage(t)
    BY <1>2, <1>3, <2>6, ReleasePageEffect
  <2> QED BY <2>1, <2>2, <2>3, <2>4, <2>5, <2>6 DEF HeapAct
<1> QED BY <1>3 DEF LargeChunksAreLarge
(* Two empty pages of a zone that are mapped at the same time, and whether *)
(* the thread in the allocator is about to use or to release one of them.  *)
EmptyPair(p, q) ==
  /\ p \in mapped /\ q \in mapped /\ p # q
  /\ Empty(p) /\ Empty(q) /\ zoneType[p] = zoneType[q]

AtHand(p, q) ==
  /\ lock # NoThread
  /\ pc[lock] # "killed" =>
       pc[lock] \in {"take", "release"} /\ frame[lock].page \in {p, q}

LEMMA EmptyPairs == OneEmptyPage <=> \A p, q : EmptyPair(p, q) => AtHand(p, q)
BY DEF OneEmptyPage, EmptyPair, AtHand

(* The heap stays: the pair was there before, and the thread does not turn *)
(* away from it, as a page that is released while another one is in its    *)
(* zone is unmapped.                                                       *)
LEMMA QuietPairs ==
  ASSUME IInv, OneEmptyPage, NEW t \in Threads, Act(t), UNCHANGED heapVars,
         NEW p, NEW q, EmptyPair(p, q)'
  PROVE  AtHand(p, q)'
<1>1. EmptyPair(p, q)
  BY DEF EmptyPair, Empty, heapVars
<1>2. AtHand(p, q)
  BY <1>1, EmptyPairs
<1>3. /\ HeapInv /\ lock \in Threads \cup {NoThread}
      /\ \A l : Goto(t, l) => pc'[t] = l
  BY Parts, InCall
<1>4. pc[t] # "killed" /\ \A u \in Threads \ {t} : pc'[u] = pc[u] /\ frame'[u] = frame[u]
  BY OthersWait
<1>5. CASE lock # t
  <2>1. lock' = lock
    BY <1>2, <1>5, LockStays DEF AtHand
  <2> QED BY <1>2, <1>3, <1>4, <1>5, <2>1 DEF AtHand
<1>6. CASE lock = t
  <2>1. pc[t] \in {"take", "release"} /\ frame[t].page \in {p, q}
    BY <1>2, <1>4, <1>6 DEF AtHand
  <2>2. ~ TakeFoundChunk(t)
    <3> SUFFICES ASSUME TakeFoundChunk(t) PROVE FALSE
      OBVIOUS
    <3> PICK r, c : r = frame[t].page /\ c = frame[t].chunk
      OBVIOUS
    <3>1. /\ c \notin Range(allocation[r])
          /\ Range(allocation'[r]) = Range(allocation[r]) \cup {c}
      BY TakeFoundChunkEffect, SMTT(30)
    <3> QED BY <3>1 DEF heapVars
  <2>3. ~ ReleasePage(t)
    BY ReleasePageEffect DEF heapVars
  <2>4. KeepPage(t)
    <3>1. ~ Begin(t)
      BY <2>1, BeginFacts
    <3>2. ~ (Enter(t) \/ Exit(t) \/ Clear(t))
      BY <2>1 DEF Enter, Exit, Clear
    <3>3. ~ (ReallocInPlace(t) \/ ReallocElsewhere(t) \/ CopyBlock(t))
      BY <2>1 DEF ReallocInPlace, ReallocElsewhere, CopyBlock
    <3>4. ~ (FindFreeChunk(t) \/ AddMediumPage(t) \/ AddLargePage(t)
               \/ AllocateNothing(t))
      BY <2>1 DEF FindFreeChunk, AddMediumPage, AddLargePage, AllocateNothing
    <3>5. ~ (FreeNull(t) \/ FreePage(t) \/ FreeChunk(t))
      BY <2>1 DEF FreeNull, FreePage, FreeChunk
    <3>6. ~ (ReturnNewBlock(t) \/ ReturnReallocated(t) \/ ReturnNull(t))
      BY <2>1 DEF ReturnNewBlock, ReturnReallocated, ReturnNull, Finish
    <3> QED BY <2>2, <2>3, <3>1, <3>2, <3>3, <3>4, <3>5, <3>6 DEF Act, Proceed
  <2> DEFINE z == zoneType[p]
             s == zone[z]
  <2>5. ~ HasNeighbour(p) \/ ~ HasNeighbour(q)
    BY <1>1, <2>1, <2>4 DEF KeepPage, IsSpare, EmptyPair, Empty
  <2>6. /\ s \in Seq(Pages) /\ p \in Range(s) /\ q \in Range(s) /\ p # q
        /\ zoneType[q] = z
    BY <1>1, <1>3 DEF HeapInv, HeapTypeOK, ZonesLinkMappedPages, EmptyPair
  <2> HIDE DEF s, z
  <2>7. PICK i \in DOMAIN s, j \in DOMAIN s : s[i] = p /\ s[j] = q
    BY <2>6 DEF Range
  <2>8. Len(s) > 1
    BY <2>6, <2>7
  <2>9. HasNeighbour(p) /\ HasNeighbour(q)
    BY <2>6, <2>8 DEF HasNeighbour, s, z
  <2> QED BY <2>5, <2>9
<1> QED BY <1>5, <1>6
(* The heap changes: a page that has become empty is at hand, and the one  *)
(* at hand is put to use or unmapped.                                      *)
LEMMA BusyPairs ==
  ASSUME IInv, OneEmptyPage, NEW t \in Threads, Act(t), HeapAct(t),
         NEW p, NEW q, EmptyPair(p, q)'
  PROVE  AtHand(p, q)'
<1>1. /\ lock = t /\ lock' = t /\ t # NoThread /\ pc[t] # "killed"
      /\ mapped \subseteq Pages
  BY HeapChangesLocked, OthersWait, InCall, Parts DEF HeapTypeOK
<1>2. \A x, y : EmptyPair(x, y) =>
        pc[t] \in {"take", "release"} /\ frame[t].page \in {x, y}
  BY <1>1, EmptyPairs DEF AtHand
<1>3. ASSUME NEW r, OtherPagesStay(r), p # r, q # r, p \in mapped, q \in mapped
      PROVE  EmptyPair(p, q)
  BY <1>1, <1>3 DEF OtherPagesStay, EmptyPair, Empty
<1>4. p \in mapped' /\ q \in mapped' /\ Empty(p)' /\ Empty(q)'
  BY DEF EmptyPair
<1>5. CASE AddMediumPage(t)
  <2>1. PICK r : /\ OtherPagesStay(r) /\ mapped' = mapped \cup {r}
                 /\ pc[t] = "allocate" /\ pc'[t] = "take"
                 /\ frame'[t] = [frame[t] EXCEPT !.page = r, !.chunk = PageHeader]
    BY <1>5, AddMediumPageEffect
  <2>2. frame'[t].page = r
    BY <2>1, InCall DEF FrameType
  <2>3. p = r \/ q = r
    BY <1>2, <1>3, <1>4, <2>1
  <2> QED BY <1>1, <2>1, <2>2, <2>3 DEF AtHand
<1>6. CASE AddLargePage(t)
  <2>1. PICK r : /\ OtherPagesStay(r) /\ mapped' = mapped \cup {r}
                 /\ pc[t] = "allocate" /\ allocation'[r] = <<PageHeader>>
    BY <1>6, AddLargePageEffect
  <2>2. p # r /\ q # r
    BY <1>4, <2>1 DEF Empty
  <2> QED BY <1>2, <1>3, <1>4, <2>1, <2>2
<1>7. CASE TakeFoundChunk(t)
  <2> PICK r, c : r = frame[t].page /\ c = frame[t].chunk
    OBVIOUS
  <2>1. /\ OtherPagesStay(r) /\ mapped' = mapped
        /\ Range(allocation'[r]) = Range(allocation[r]) \cup {c}
    BY <1>7, TakeFoundChunkEffect
  <2>2. p # r /\ q # r
    <3>1. c \in Range(allocation'[r])
      BY <2>1
    <3>2. allocation'[r] # <<>>
      BY <3>1 DEF Range
    <3> QED BY <1>4, <3>2 DEF Empty
  <2> QED BY <1>2, <1>3, <1>4, <2>1, <2>2
<1>8. CASE Survives(t) /\ FreePage(t)
  BY <1>2, <1>3, <1>4, <1>8, FreePageEffect
<1>9. CASE Survives(t) /\ FreeChunk(t)
  <2> PICK r : r = PageOf(frame[t].ptr)
    OBVIOUS
  <2>1. /\ OtherPagesStay(r) /\ mapped' = mapped
        /\ pc[t] = "free" /\ pc'[t] = "release" /\ frame'[t].page = r
    BY <1>9, FreeChunkEffect
  <2>2. p = r \/ q = r
    BY <1>2, <1>3, <1>4, <2>1
  <2> QED BY <1>1, <2>1, <2>2 DEF AtHand
<1>10. CASE ReleasePage(t)
  BY <1>2, <1>3, <1>4, <1>10, ReleasePageEffect
<1> QED BY <1>5, <1>6, <1>7, <1>8, <1>9, <1>10 DEF HeapAct

LEMMA PagesStep ==
  ASSUME RequestsFit, IInv, ZoneInv, PagesInv, [Next]_vars
  PROVE  PagesInv'
<1>1. ASSUME UNCHANGED heapVars PROVE LargeChunksAreLarge'
  BY <1>1 DEF PagesInv, LargeChunksAreLarge, heapVars
<1>2. CASE UNCHANGED vars
  <2>1. UNCHANGED <<heapVars, lock, pc, frame>>
    BY <1>2 DEF vars
  <2> QED BY <1>1, <2>1 DEF PagesInv, IsServable, OneEmptyPage, Empty, heapVars
<1>3. ASSUME NEW t \in Threads, Fault(t) PROVE PagesInv'
  <2>1. UNCHANGED <<heapVars, lock>> /\ \A u \in Threads : pc'[u] = "killed"
    BY <1>3 DEF Fault
  <2>2. lock \in Threads \cup {NoThread}
    BY Parts
  <2> QED BY <1>1, <2>1, <2>2 DEF PagesInv, IsServable, OneEmptyPage, Empty, heapVars
<1>4. ASSUME NEW t \in Threads, Act(t) PROVE PagesInv'
  <2>1. LargeChunksAreLarge'
    BY <1>1, <1>4, HeapChangesHere, LargeStep DEF PagesInv
  <2>2. ASSUME NEW u \in Threads PROVE IsServable(u)'
    <3>1. CASE u = t
      BY <1>4, <3>1, ServableStep DEF PagesInv
    <3>2. CASE u # t
      BY <1>4, <3>2, OthersWait DEF PagesInv, IsServable
    <3> QED BY <3>1, <3>2
  <2>3. ASSUME NEW p, NEW q, EmptyPair(p, q)' PROVE AtHand(p, q)'
    BY <1>4, <2>3, QuietPairs, BusyPairs, HeapChangesHere DEF PagesInv
  <2>4. OneEmptyPage'
    BY <2>3 DEF OneEmptyPage, EmptyPair, AtHand
  <2> QED BY <2>1, <2>2, <2>4 DEF PagesInv
<1> QED BY <1>2, <1>3, <1>4, StepIsAct

LEMMA PagesInvariance == ASSUME RequestsFit PROVE Spec => [](IInv /\ ZoneInv /\ PagesInv)
<1>1. Init => PagesInv
  BY DEF Init, HeapInit, PagesInv, IsServable, LargeChunksAreLarge, OneEmptyPage
<1>2. IInv /\ ZoneInv /\ PagesInv /\ [Next]_vars => PagesInv'
  BY PagesStep
<1> QED BY <1>1, <1>2, ZoneInvariance, PTL DEF Spec

(* When nobody is in the allocator a zone has at most one page without     *)
(* blocks, and the LARGE zone none.                                        *)
LEMMA AtMostOneEmpty ==
  ASSUME IInv, PagesInv PROVE NoHoarding
<1>1. SUFFICES ASSUME lock = NoThread, NEW z \in ZoneTypes
               PROVE  Cardinality({p \in Range(zone[z]) : allocation[p] = <<>>})
                        <= IF z = "LARGE_ZONE" THEN 0 ELSE 1
  BY DEF NoHoarding
<1> DEFINE E == {p \in Range(zone[z]) : allocation[p] = <<>>}
<1>2. \A p \in E : p \in mapped /\ zoneType[p] = z /\ Empty(p)
  BY Parts DEF HeapInv, ZonesLinkMappedPages, Empty
<1>3. \A p, q \in E : p = q
  BY <1>1, <1>2 DEF PagesInv, OneEmptyPage
<1>4. CASE z = "LARGE_ZONE"
  <2>1. ASSUME NEW p \in E PROVE FALSE
    <3>1. free[p] = <<>> /\ allocation[p] = <<>> /\ PageHeader \in Chunks(p) /\ ListedOnce(p)
      BY <1>2, <1>4, Parts, PageFacts DEF PagesInv, LargeChunksAreLarge, Empty, Tiled
    <3> QED BY <3>1 DEF ListedOnce, Range
  <2>2. E = {}
    BY <2>1
  <2> QED BY <1>4, <2>2, FS_EmptySet
<1>5. CASE z # "LARGE_ZONE"
  <2>1. E = {} \/ \E p : E = {p}
    BY <1>3
  <2>2. Cardinality({}) = 0 /\ \A p : Cardinality({p}) = 1
    BY FS_EmptySet, FS_Singleton
  <2> HIDE DEF E
  <2>3. Cardinality(E) \in {0, 1}
    BY <2>1, <2>2
  <2> QED BY <1>5, <2>3 DEF E
<1> QED BY <1>4, <1>5

(* Free returns to the kernel every page it has emptied but the last one   *)
(* of a medium zone, unless a size asked for is so close to SIZE_MAX that  *)
(* the length of its mapping wraps around.                                 *)
THEOREM EmptyPagesAreReturned ==
  ASSUME RequestsFit
  PROVE  Spec => []NoHoarding
<1>1. IInv /\ PagesInv => NoHoarding
  BY AtMostOneEmpty
<1> QED BY <1>1, PagesInvariance, PTL
-----------------------------------------------------------------------------
(* The blocks: how large they are.                                         *)

(* What happens to the blocks at each step.                                *)
LEMMA BlocksChangeHere ==
  ASSUME IInv, NEW t \in Threads, Act(t)
  PROVE  \/ UNCHANGED <<owned, content>>
         \/ UNCHANGED owned /\ (CopyBlock(t) \/ Clear(t))
         \/ Begin(t)
         \/ TakeFoundChunk(t)
         \/ AddLargePage(t)
         \/ Survives(t) /\ (FreePage(t) \/ FreeChunk(t))
         \/ ReturnNewBlock(t) \/ ReturnReallocated(t) \/ ReturnNull(t)
<1>1. CASE Enter(t) \/ Exit(t)
  BY <1>1 DEF Enter, Exit
<1>2. CASE ReallocInPlace(t) \/ ReallocElsewhere(t)
  BY <1>2 DEF ReallocInPlace, ReallocElsewhere
<1>3. CASE FindFreeChunk(t) \/ AddMediumPage(t) \/ AllocateNothing(t)
  BY <1>3 DEF FindFreeChunk, AddMediumPage, Found, AllocateNothing
<1>4. CASE FreeNull(t) \/ ReleasePage(t) \/ KeepPage(t)
  BY <1>4, ReleasePageEffect DEF FreeNull, KeepPage
<1>5. CASE CopyBlock(t) \/ Clear(t)
  BY <1>5 DEF CopyBlock, Clear
<1> QED BY <1>1, <1>2, <1>3, <1>4, <1>5 DEF Act, Proceed

(* A call passes a block as it is.                                         *)
LEMMA PassFacts ==
  ASSUME IInv, NEW t \in Threads, Begin(t)
  PROVE  /\ UNCHANGED <<heapVars, lock, content>>
         /\ DOMAIN owned' = DOMAIN owned
         /\ \A x \in DOMAIN owned :
              /\ owned'[x].size = owned[x].size /\ owned'[x].kept = owned[x].kept
              /\ owned'[x].tag = owned[x].tag
              /\ \/ owned'[x] = owned[x]
                 \/ owned[x].by = NoThread /\ owned'[x].by = t
<1>1. PICK op, ptr, size, l :
        /\ Call(t, op, ptr, size, l) /\ Pass(t, ptr)
        /\ ptr \in DOMAIN owned \cup {NULL}
  BY BeginFacts
<1>2. UNCHANGED <<heapVars, lock, content>>
  BY <1>1 DEF Call
<1>0. OwnedType
  BY InCall
<1>3. CASE ptr = NULL
  BY <1>1, <1>2, <1>3 DEF Pass
<1>4. CASE ptr # NULL
  <2>1. /\ ptr \in DOMAIN owned /\ owned[ptr].by = NoThread
        /\ owned' = [owned EXCEPT ![ptr].by = t]
    BY <1>1, <1>4 DEF Pass
  <2>2. owned[ptr] \in [by: Threads \cup {NoThread}, size: 0 .. SIZE_MAX,
                        tag: Tags \cup {Zero, Junk}, kept: 0 .. SIZE_MAX]
    BY <1>0, <2>1 DEF OwnedType
  <2> QED BY <1>2, <2>1, <2>2
<1> QED BY <1>3, <1>4

(* What free leaves of the other blocks: the bytes of those whose page it  *)
(* does not unmap.                                                         *)
LEMMA FreedContents ==
  ASSUME IInv, NEW t \in Threads, Survives(t), FreePage(t) \/ FreeChunk(t),
         NEW ptr, ptr = frame[t].ptr
  PROVE  /\ pc[t] = "free" /\ ptr \in DOMAIN owned
         /\ DOMAIN owned' = DOMAIN owned \ {ptr}
         /\ \A x \in DOMAIN owned' :
              /\ owned'[x] = owned[x]
              /\ PageOf(x) \notin mapped \ mapped' => content'[x] = content[x]
<1>1. OwnedType
  BY InCall
<1>2. CASE FreePage(t)
  <2>1. /\ pc[t] = "free" /\ ptr # NULL /\ TakeBack(ptr, ContentsWithout(PageOf(ptr)))
        /\ mapped' = mapped \ {PageOf(ptr)}
    BY <1>2, FreePageEffect
  <2>2. ptr \in DOMAIN owned /\ PageOf(ptr) \in mapped
    BY <2>1, FreedBlockFacts
  <2>3. /\ owned' = [x \in DOMAIN owned \ {ptr} |-> owned[x]]
        /\ content' = [x \in DOMAIN owned \ {ptr} |-> ContentsWithout(PageOf(ptr))[x]]
    BY <1>1, <2>1 DEF TakeBack, Restrict, ContentsWithout, OwnedType
  <2>4. ASSUME NEW x \in DOMAIN owned \ {ptr}, PageOf(x) \notin mapped \ mapped'
        PROVE  content'[x] = content[x]
    BY <1>1, <2>1, <2>2, <2>3, <2>4 DEF ContentsWithout, OwnedType
  <2> QED BY <2>1, <2>2, <2>3, <2>4
<1>3. CASE FreeChunk(t)
  <2>1. pc[t] = "free" /\ ptr # NULL /\ TakeBack(ptr, content)
    BY <1>3, FreeChunkEffect
  <2>2. ptr \in DOMAIN owned
    BY <2>1, FreedBlockFacts
  <2> QED BY <1>1, <2>1, <2>2 DEF TakeBack, Restrict, OwnedType
<1> QED BY <1>2, <1>3

(* No mapping appears under a block the program already has.               *)
LEMMA MappedBefore ==
  ASSUME IInv, NEW t \in Threads, Act(t), NEW x \in DOMAIN owned,
         PageOf(x) \in mapped'
  PROVE  PageOf(x) \in mapped
<1>1. CASE UNCHANGED heapVars
  BY <1>1 DEF heapVars
<1>2. CASE HeapAct(t)
  BY <1>2, ChunkSizePersists
<1> QED BY <1>1, <1>2, HeapChangesHere

(* A chunk that holds so much goes on holding it.                          *)
LEMMA HoldsPersists ==
  ASSUME IInv, NEW t \in Threads, Act(t), NEW x \in DOMAIN owned, NEW n,
         Holds(x, n)
  PROVE  Holds(x, n)'
<1>1. CASE UNCHANGED heapVars
  BY <1>1 DEF Holds, SizeOfChunk, heapVars
<1>2. CASE HeapAct(t)
  BY <1>2, ChunkSizePersists DEF Holds
<1> QED BY <1>1, <1>2, HeapChangesHere

(* The chunk that is taken holds what was asked for: aligning a size does  *)
(* not make it smaller, unless it wraps around to 0.                       *)
LEMMA GivenHolds ==
  ASSUME IInv, ZoneInv, NEW t \in Threads, IsServable(t),
         TakeFoundChunk(t) \/ AddLargePage(t)
  PROVE  \E new \in Blocks \ DOMAIN owned :
           /\ Give(t, new) /\ Holds(new, frame[t].size)'
<1>1. frame[t].size \in 0 .. SIZE_MAX /\ SIZE_MAX \in Nat /\ ALIGNMENT \in Nat \ {0}
  BY InCall, ConstantFacts DEF FrameType
<1>2. ASSUME Aligned(t) # 0
      PROVE  Aligned(t) \in Nat /\ frame[t].size <= Aligned(t)
  <2> PICK n : n = frame[t].size
    OBVIOUS
  <2>1. n + (ALIGNMENT - 1) <= SIZE_MAX
    BY <1>1, <1>2, AlignUpWraps DEF Aligned
  <2>2. n \in Nat /\ ALIGNMENT \in Nat \ {0} /\ SIZE_MAX \in Nat
    BY <1>1
  <2>3. AlignUp(n, ALIGNMENT) \in Nat /\ n <= AlignUp(n, ALIGNMENT)
    BY <2>1, <2>2, AlignUpFacts, Zenon
  <2> QED BY <2>3 DEF Aligned
<1>5. ASSUME NEW new \in Blocks \ DOMAIN owned, Give(t, new)
      PROVE  frame'[t].size = frame[t].size
  <2>1. frame'[t] = [frame[t] EXCEPT !.new = new, !.page = NULL, !.chunk = 0]
    BY <1>5, GiveEffect
  <2>2. frame[t] \in FrameType
    BY InCall
  <2> QED BY <2>1, <2>2 DEF FrameType
<1>3. CASE TakeFoundChunk(t)
  <2> PICK p, c : p = frame[t].page /\ c = frame[t].chunk
    OBVIOUS
  <2> PICK new : new = BlockOf(p, c)
    OBVIOUS
  <2>1. /\ chunkSize'[p][c] \in Aligned(t) .. Aligned(t) + ChunkHeader
        /\ new \in Blocks \ DOMAIN owned
        /\ PageOf(new) = p /\ ChunkOf(new) = c
        /\ pc[t] = "take" /\ Give(t, new)
    BY <1>3, TakeFoundChunkEffect
  <2>2. Aligned(t) # 0
    BY <2>1 DEF ZoneInv, FindingSuitsRequest
  <2>3. frame[t].size <= chunkSize'[p][c]
    BY <1>1, <1>2, <2>1, <2>2, HeaderFacts
  <2> QED BY <1>5, <2>1, <2>3 DEF Holds, SizeOfChunk
<1>4. CASE AddLargePage(t)
  <2>1. PICK p : /\ chunkSize'[p][PageHeader] = FirstChunkSize(Aligned(t))
                 /\ BlockOf(p, PageHeader) \in Blocks \ DOMAIN owned
                 /\ PageOf(BlockOf(p, PageHeader)) = p
                 /\ ChunkOf(BlockOf(p, PageHeader)) = PageHeader
                 /\ pc[t] = "allocate"
                 /\ Give(t, BlockOf(p, PageHeader))
                 /\ Aligned(t) \in Nat /\ MmapAccepts(Aligned(t))
                 /\ GetZoneType(Aligned(t)) = "LARGE_ZONE"
    BY <1>4, AddLargePageEffect
  <2> PICK new : new = BlockOf(p, PageHeader)
    OBVIOUS
  <2>2. Aligned(t) # 0
    BY <2>1, ConstantFacts DEF GetZoneType
  <2>3. Aligned(t) + PageHeader + ChunkHeader <= SIZE_MAX
    BY <2>1 DEF IsServable, MappingFits, Aligned
  <2>4. Aligned(t) <= FirstChunkSize(Aligned(t)) /\ FirstChunkSize(Aligned(t)) \in Nat
    BY <2>1, <2>3, PageHoldsRequest, NewPageFacts
  <2>5. frame[t].size <= chunkSize'[p][PageHeader]
    BY <1>1, <1>2, <2>1, <2>2, <2>4
  <2> QED BY <1>5, <2>1, <2>5 DEF Holds, SizeOfChunk
<1> QED BY <1>3, <1>4
(* The call that will return a block has it, with its size, until it does. *)
LEMMA ResultStays ==
  ASSUME IInv, NEW t \in Threads, Act(t),
         pc[t] \in {"copy", "free", "release", "exit", "clear"}
  PROVE  frame'[t].new = frame[t].new /\ frame'[t].size = frame[t].size
<1>1. frame \in [Threads -> FrameType] /\ frame[t] \in FrameType
  BY InCall
<1>2. ASSUME NEW p, frame' = [frame EXCEPT ![t].page = p]
      PROVE  frame'[t].new = frame[t].new /\ frame'[t].size = frame[t].size
  BY <1>1, <1>2 DEF FrameType
<1>3. ~ Begin(t)
  BY BeginFacts
<1>4. CASE Enter(t) \/ Exit(t) \/ Clear(t)
  BY <1>4 DEF Enter, Exit, Clear
<1>5. CASE ReallocInPlace(t) \/ ReallocElsewhere(t) \/ CopyBlock(t)
  BY <1>5 DEF ReallocInPlace, ReallocElsewhere, CopyBlock
<1>6. ~ (FindFreeChunk(t) \/ AddMediumPage(t) \/ TakeFoundChunk(t)
           \/ AddLargePage(t) \/ AllocateNothing(t))
  BY DEF FindFreeChunk, AddMediumPage, TakeFoundChunk, AddLargePage, AllocateNothing
<1>7. CASE FreeNull(t) \/ FreePage(t) \/ FreeChunk(t) \/ ReleasePage(t) \/ KeepPage(t)
  BY <1>2, <1>7 DEF FreeNull, FreePage, FreeChunk, ReleasePage, KeepPage
<1>8. ~ (ReturnNewBlock(t) \/ ReturnReallocated(t) \/ ReturnNull(t))
  BY DEF ReturnNewBlock, ReturnReallocated, ReturnNull, Finish
<1> QED BY <1>3, <1>4, <1>5, <1>6, <1>7, <1>8 DEF Act, Proceed

(* And it holds it.                                                        *)
LEMMA ResultIsHeld ==
  ASSUME IInv, NEW t \in Threads, frame[t].new # NULL,
         pc[t] \in {"copy", "free", "release", "exit", "clear", "return"}
  PROVE  frame[t].new \in DOMAIN owned /\ owned[frame[t].new].by = t
BY InCall DEF Holding, Answers, HeldBy

LEMMA ResultStep ==
  ASSUME IInv, ZoneInv, NEW t \in Threads, IsServable(t), ResultHolds(t), Act(t)
  PROVE  ResultHolds(t)'
<1> DEFINE L == {"copy", "free", "release", "exit", "clear", "return"}
<1>1. SUFFICES ASSUME pc'[t] \in L, frame'[t].new # NULL
               PROVE  Holds(frame[t].new, frame[t].size)'
  BY DEF ResultHolds
<1>2. /\ frame \in [Threads -> FrameType] /\ frame[t] \in FrameType /\ InStep(t)
      /\ \A l : Goto(t, l) => pc'[t] = l
  BY InCall
<1>3. CASE pc[t] \in L \ {"return"}
  <2>1. frame'[t].new = frame[t].new /\ frame'[t].size = frame[t].size
    BY <1>3, ResultStays
  <2>2. frame[t].new \in DOMAIN owned /\ Holds(frame[t].new, frame[t].size)
    BY <1>1, <1>3, <2>1, ResultIsHeld DEF ResultHolds
  <2> PICK new, n : new = frame[t].new /\ n = frame[t].size
    OBVIOUS
  <2>3. Holds(new, n)'
    BY <2>2, HoldsPersists
  <2> QED BY <2>1, <2>3 DEF Holds
<1>4. CASE TakeFoundChunk(t) \/ AddLargePage(t)
  <2>1. PICK new \in Blocks \ DOMAIN owned :
          Give(t, new) /\ Holds(new, frame[t].size)'
    BY <1>4, GivenHolds
  <2>2. frame'[t] = [frame[t] EXCEPT !.new = new, !.page = NULL, !.chunk = 0]
    BY <2>1, GiveEffect
  <2>3. frame'[t].new = new
    BY <1>2, <2>2 DEF FrameType
  <2> QED BY <2>1, <2>3 DEF Holds
<1>5. CASE ReallocInPlace(t)
  <2>1. /\ UNCHANGED heapVars /\ SizeOfChunk(frame[t].ptr) >= frame[t].size
        /\ frame' = [frame EXCEPT ![t].new = frame[t].ptr]
    BY <1>5 DEF ReallocInPlace, StaysInPlace
  <2>2. frame'[t].new = frame[t].ptr /\ frame'[t].size = frame[t].size
    BY <1>2, <2>1 DEF FrameType
  <2> QED BY <2>1, <2>2 DEF Holds, SizeOfChunk, heapVars
<1>6. CASE Begin(t)
  <2>1. PICK op, ptr, size :
          frame'[t] = [op |-> op, ptr |-> ptr, size |-> size, new |-> NULL,
                       page |-> NULL, chunk |-> 0]
    BY <1>6, BeginFacts
  <2> QED BY <1>1, <2>1
<1>7. CASE Enter(t) \/ AllocateNothing(t)
  BY <1>1, <1>2, <1>7 DEF Enter, AllocateNothing, InStep
<1>8. CASE ReallocElsewhere(t) \/ FindFreeChunk(t) \/ AddMediumPage(t)
  BY <1>1, <1>2, <1>8 DEF ReallocElsewhere, FindFreeChunk, AddMediumPage, Found
<1>9. CASE Exit(t) \/ Clear(t) \/ CopyBlock(t) \/ FreeNull(t) \/ FreePage(t)
             \/ FreeChunk(t) \/ ReleasePage(t) \/ KeepPage(t)
  BY <1>3, <1>9 DEF Exit, Clear, CopyBlock, FreeNull, FreePage, FreeChunk,
     ReleasePage, KeepPage
<1>10. CASE ReturnNewBlock(t) \/ ReturnReallocated(t) \/ ReturnNull(t)
  BY <1>1, <1>2, <1>10 DEF ReturnNewBlock, ReturnReallocated, ReturnNull, Finish
<1> QED BY <1>4, <1>5, <1>6, <1>7, <1>8, <1>9, <1>10 DEF Act, Proceed
(* A call that returns changes what is known of the block it returns only. *)
LEMMA ReturnFacts ==
  ASSUME IInv, NEW t \in Threads,
         ReturnNewBlock(t) \/ ReturnReallocated(t) \/ ReturnNull(t),
         NEW new, new = frame[t].new, NEW size, size = frame[t].size
  PROVE  /\ UNCHANGED <<heapVars, lock>> /\ DOMAIN owned' = DOMAIN owned
         /\ pc[t] = "return" /\ pc'[t] = "idle" /\ frame'[t] = NoFrame
         /\ \A x \in DOMAIN owned \ {new} :
              /\ owned'[x].size = owned[x].size /\ owned'[x].kept = owned[x].kept
              /\ owned'[x].tag = owned[x].tag
              /\ content'[x] = content[x]
              /\ \/ owned'[x] = owned[x]
                 \/ owned[x].by = t /\ owned'[x].by = NoThread
         /\ new # NULL =>
              /\ new \in DOMAIN owned
              /\ owned'[new].size = size /\ owned'[new].by = NoThread
              /\ \/ /\ frame[t].op = "calloc" /\ frame[t].ptr = NULL
                    /\ owned'[new].kept = size /\ owned'[new].tag = Zero
                    /\ content'[new] = content[new]
                 \/ /\ frame[t].op # "calloc" /\ frame[t].ptr = NULL
                    /\ owned'[new].kept = size /\ owned'[new].tag \in Tags
                    /\ content'[new] = Bytes(owned'[new].tag, size)
                 \/ /\ frame[t].ptr # NULL
                    /\ owned'[new].kept = Lesser(owned[new].kept, size)
                    /\ owned'[new].tag = owned[new].tag
                    /\ content'[new] = content[new]
<1>1. /\ OwnedType /\ frame \in [Threads -> FrameType] /\ pc \in [Threads -> Labels]
      /\ new # NULL /\ pc[t] = "return" => new \in DOMAIN owned
  BY InCall, ResultIsHeld
<1>2. /\ UNCHANGED <<heapVars, lock>> /\ pc[t] = "return"
      /\ pc'[t] = "idle" /\ frame'[t] = NoFrame
  BY <1>1 DEF ReturnNewBlock, ReturnReallocated, ReturnNull, Finish, Goto
<1>3. CASE ReturnNewBlock(t)
  <2>1. new # NULL /\ frame[t].ptr = NULL /\ new \in DOMAIN owned
    BY <1>1, <1>2, <1>3 DEF ReturnNewBlock
  <2>2. CASE frame[t].op = "calloc"
    <3>1. /\ owned' = [owned EXCEPT ![new] = Block(NoThread, size, Zero, size)]
          /\ content' = content
      BY <1>3, <2>2 DEF ReturnNewBlock
    <3> QED BY <1>2, <2>1, <2>2, <3>1 DEF Block
  <2>3. CASE frame[t].op # "calloc"
    <3>1. PICK tag \in Tags :
            /\ owned' = [owned EXCEPT ![new] = Block(NoThread, size, tag, size)]
            /\ content' = [content EXCEPT ![new] = Bytes(tag, size)]
      BY <1>3, <2>3 DEF ReturnNewBlock
    <3>2. DOMAIN content = DOMAIN owned
      BY <1>1 DEF OwnedType
    <3> QED BY <1>2, <2>1, <2>3, <3>1, <3>2 DEF Block
  <2> QED BY <2>2, <2>3
<1>4. CASE ReturnReallocated(t)
  <2>1. /\ new # NULL /\ frame[t].ptr # NULL /\ new \in DOMAIN owned
        /\ owned' = [owned EXCEPT ![new] =
             Block(NoThread, size, @.tag, Lesser(@.kept, size))]
        /\ content' = content
    BY <1>1, <1>2, <1>4 DEF ReturnReallocated
  <2> QED BY <1>2, <2>1 DEF Block
<1>5. CASE ReturnNull(t)
  <2>1. /\ new = NULL /\ content' = content
        /\ owned' = [x \in DOMAIN owned |->
                       IF owned[x].by = t THEN [owned[x] EXCEPT !.by = NoThread]
                       ELSE owned[x]]
    BY <1>5 DEF ReturnNull
  <2>2. \A x \in DOMAIN owned :
          owned[x] \in [by: Threads \cup {NoThread}, size: 0 .. SIZE_MAX,
                        tag: Tags \cup {Zero, Junk}, kept: 0 .. SIZE_MAX]
    BY <1>1 DEF OwnedType
  <2> QED BY <1>2, <2>1, <2>2
<1> QED BY <1>3, <1>4, <1>5

LEMMA SizesStep ==
  ASSUME IInv, ZoneInv, PagesInv, SizesInv, [Next]_vars
  PROVE  SizesInv'
<1>1. CASE UNCHANGED vars
  <2>1. UNCHANGED <<heapVars, pc, frame, owned>>
    BY <1>1 DEF vars
  <2> QED BY <2>1 DEF SizesInv, ResultHolds, Holds, SizeOfChunk, heapVars
<1>2. ASSUME NEW t \in Threads, Fault(t) PROVE SizesInv'
  <2>1. UNCHANGED <<heapVars, owned>> /\ \A u \in Threads : pc'[u] = "killed"
    BY <1>2 DEF Fault
  <2> QED BY <2>1 DEF SizesInv, ResultHolds, Holds, SizeOfChunk, heapVars
<1>3. ASSUME NEW t \in Threads, Act(t) PROVE SizesInv'
  <2>1. IsServable(t) /\ ResultHolds(t) /\ OwnedType
    BY Parts DEF PagesInv, SizesInv
  <2>2. \A x \in DOMAIN owned : \A n : Holds(x, n) => Holds(x, n)'
    BY <1>3, HoldsPersists
  <2>3. ASSUME NEW x \in DOMAIN owned, owned'[x].size = owned[x].size
        PROVE  Holds(x, owned[x].size)'
    <3> PICK n : n = owned[x].size
      OBVIOUS
    <3>1. Holds(x, n)'
      BY <2>2 DEF SizesInv
    <3> QED BY <2>3, <3>1 DEF Holds
  <2>4. ASSUME NEW x \in DOMAIN owned' PROVE Holds(x, owned[x].size)'
    <3>1. CASE UNCHANGED owned
      BY <2>3, <2>4, <3>1
    <3>2. CASE Begin(t)
      BY <2>3, <2>4, <3>2, PassFacts
    <3>3. CASE TakeFoundChunk(t) \/ AddLargePage(t)
      <4>1. PICK new \in Blocks \ DOMAIN owned :
              Give(t, new) /\ Holds(new, frame[t].size)'
        BY <2>1, <3>3, GivenHolds
      <4>2. /\ DOMAIN owned' = DOMAIN owned \cup {new}
            /\ owned'[new] = Promise(t)
            /\ \A y \in DOMAIN owned : owned'[y] = owned[y]
            /\ frame'[t] = [frame[t] EXCEPT !.new = new, !.page = NULL, !.chunk = 0]
        BY <4>1, GiveEffect
      <4>3. Promise(t).size = frame[t].size
        BY DEF Promise, Block
      <4>4. frame'[t].size = frame[t].size
        BY <4>2, InCall DEF FrameType
      <4>5. CASE x = new
        BY <4>1, <4>2, <4>3, <4>4, <4>5 DEF Holds
      <4> QED BY <2>3, <2>4, <4>2, <4>5
    <3>4. CASE Survives(t) /\ (FreePage(t) \/ FreeChunk(t))
      <4>1. DOMAIN owned' \subseteq DOMAIN owned /\ owned'[x] = owned[x]
        BY <2>4, <3>4, FreedContents
      <4> QED BY <2>3, <2>4, <4>1
    <3>5. CASE ReturnNewBlock(t) \/ ReturnReallocated(t) \/ ReturnNull(t)
      <4> PICK new, size : new = frame[t].new /\ size = frame[t].size
        OBVIOUS
      <4>1. /\ DOMAIN owned' = DOMAIN owned /\ pc[t] = "return"
            /\ \A y \in DOMAIN owned \ {new} : owned'[y].size = owned[y].size
            /\ new # NULL => new \in DOMAIN owned /\ owned'[new].size = size
        BY <3>5, ReturnFacts
      <4>2. NULL \notin DOMAIN owned
        BY <2>1, ProgramAssumption DEF OwnedType, Blocks
      <4>3. CASE x = new
        <5>1. Holds(new, size) /\ new # NULL
          BY <2>1, <2>4, <4>1, <4>2, <4>3 DEF ResultHolds
        <5>2. Holds(new, size)'
          BY <2>2, <4>1, <5>1
        <5> QED BY <4>1, <4>3, <5>1, <5>2 DEF Holds
      <4> QED BY <2>3, <2>4, <4>1, <4>3
    <3> QED BY <1>3, <3>1, <3>2, <3>3, <3>4, <3>5, BlocksChangeHere
  <2>5. ASSUME NEW u \in Threads PROVE ResultHolds(u)'
    <3>1. CASE u = t
      BY <1>3, <2>1, <3>1, ResultStep
    <3>2. CASE u # t
      <4>1. pc'[u] = pc[u] /\ frame'[u] = frame[u] /\ ResultHolds(u)
        BY <1>3, <3>2, OthersWait DEF SizesInv
      <4>2. SUFFICES ASSUME pc[u] \in {"copy", "free", "release", "exit", "clear",
                                       "return"},
                            frame[u].new # NULL
                     PROVE  Holds(frame[u].new, frame[u].size)'
        BY <4>1 DEF ResultHolds
      <4> PICK new, n : new = frame[u].new /\ n = frame[u].size
        OBVIOUS
      <4>3. new \in DOMAIN owned /\ Holds(new, n)
        BY <4>1, <4>2, ResultIsHeld DEF ResultHolds
      <4>4. Holds(new, n)'
        BY <2>2, <4>3
      <4> QED BY <4>1, <4>4 DEF Holds
    <3> QED BY <3>1, <3>2
  <2> QED BY <2>4, <2>5 DEF SizesInv
<1> QED BY <1>1, <1>2, <1>3, StepIsAct
LEMMA SizesInvariance ==
  ASSUME RequestsFit
  PROVE  Spec => [](IInv /\ ZoneInv /\ PagesInv /\ SizesInv)
<1>1. Init => SizesInv
  BY DEF Init, SizesInv, ResultHolds
<1>2. IInv /\ ZoneInv /\ PagesInv /\ SizesInv /\ [Next]_vars => SizesInv'
  BY SizesStep
<1> QED BY <1>1, <1>2, PagesInvariance, PTL DEF Spec

(* Where the block of a chunk is in its page.                              *)
LEMMA BlockSpan ==
  ASSUME HeapInv, BlocksAreAllocated, OwnedType, NEW ptr \in DOMAIN owned,
         PageOf(ptr) \in mapped
  PROVE  /\ ptr[2] = ChunkOf(ptr) + ChunkHeader
         /\ ptr[2] \in Nat /\ ptr[2] % ALIGNMENT = 0
         /\ SizeOfChunk(ptr) \in Nat
         /\ ptr[2] + SizeOfChunk(ptr) = EndOfChunk(PageOf(ptr), ChunkOf(ptr))
         /\ ptr[2] + SizeOfChunk(ptr) <= pageSize[PageOf(ptr)]
<1> PICK p, c : p = PageOf(ptr) /\ c = ChunkOf(ptr)
  OBVIOUS
<1>1. /\ c \in Chunks(p) /\ ptr = BlockOf(p, c) /\ SizeOfChunk(ptr) \in Nat
      /\ SizeOfChunk(ptr) = chunkSize[p][c]
  BY OwnedChunkFacts DEF SizeOfChunk
<1>2. /\ ChunkTypes(p) /\ Tiled(p) /\ pageSize[p] \in 0 .. MMAP_MAX + PAGE_SIZE
  BY PageFacts
<1>3. /\ c \in Nat /\ c % ALIGNMENT = 0 /\ chunkSize[p][c] \in Nat
      /\ EndOfChunk(p, c) <= pageSize[p] /\ pageSize[p] \in Nat
  BY <1>1, <1>2, ConstantFacts DEF ChunkTypes, Tiled
<1>4. c + ChunkHeader + ALIGNMENT <= SIZE_MAX
  BY <1>1, <1>2, <1>3, ConstantFacts, HeaderFacts DEF EndOfChunk
<1>5. ptr[2] = c + ChunkHeader
  BY <1>1, <1>3, <1>4, BlockToChunk DEF BlockOf
<1>6. (c + ChunkHeader) % ALIGNMENT = 0
  BY <1>3, MultiplesAdd, ConstantFacts, HeaderFacts
<1> PICK o, s : o = ptr[2] /\ s = chunkSize[p][c]
  OBVIOUS
<1>7. o = c + ChunkHeader /\ o \in Nat /\ o % ALIGNMENT = 0
  BY <1>3, <1>5, <1>6, HeaderFacts
<1>8. o + s = EndOfChunk(p, c) /\ o + s <= pageSize[p]
  BY <1>3, <1>7, HeaderFacts DEF EndOfChunk
<1> QED BY <1>1, <1>7, <1>8

(* Every block the program has is aligned, as large as it asked for, and   *)
(* ends before its page does.                                              *)
THEOREM BlocksAreLargeEnough ==
  ASSUME RequestsFit
  PROVE  Spec => []BlocksFit
<1>1. ASSUME IInv, SizesInv, NEW ptr \in DOMAIN owned, PageOf(ptr) \in mapped
      PROVE  /\ owned[ptr].size <= SizeOfChunk(ptr)
             /\ ptr[2] % ALIGNMENT = 0
             /\ ptr[2] + owned[ptr].size <= pageSize[PageOf(ptr)]
  <2>1. /\ HeapInv /\ BlocksAreAllocated /\ OwnedType /\ HeapTypeOK
        /\ mapped \subseteq Pages
    BY <1>1, Parts DEF HeapTypeOK
  <2>2. owned[ptr].size \in Nat /\ pageSize[PageOf(ptr)] \in Nat
    BY <1>1, <2>1, ConstantFacts DEF OwnedType, HeapTypeOK
  <2>3. owned[ptr].size <= SizeOfChunk(ptr)
    BY <1>1 DEF SizesInv, Holds
  <2> QED BY <1>1, <2>1, <2>2, <2>3, BlockSpan
<1>2. IInv /\ SizesInv => BlocksFit
  BY <1>1 DEF BlocksFit
<1> QED BY <1>2, SizesInvariance, PTL
-----------------------------------------------------------------------------
(* The blocks: what is in them.                                            *)

(* A call knows its own blocks only, unless it unmaps a page.              *)
LEMMA OthersBlocksStay ==
  ASSUME IInv, NEW t \in Threads, Act(t), NEW x \in DOMAIN owned,
         owned[x].by \notin {t, NoThread}
  PROVE  /\ x \in DOMAIN owned' /\ owned'[x] = owned[x]
         /\ PageOf(x) \notin mapped \ mapped' => content'[x] = content[x]
<1>1. OwnedType /\ NULL \notin DOMAIN owned
  BY InCall, ProgramAssumption DEF OwnedType, Blocks
<1>2. CASE CopyBlock(t) \/ Clear(t)
  <2> PICK new : new = frame[t].new
    OBVIOUS
  <2>1. /\ \E v : content' = [content EXCEPT ![new] = v]
        /\ owned' = owned /\ pc[t] \in {"copy", "clear"}
    BY <1>2 DEF CopyBlock, Clear
  <2>2. x # new
    BY <1>1, <2>1, ResultIsHeld
  <2> QED BY <1>1, <2>1, <2>2 DEF OwnedType
<1>3. CASE Begin(t)
  BY <1>3, PassFacts
<1>4. CASE TakeFoundChunk(t) \/ AddLargePage(t)
  <2>1. PICK new \in Blocks \ DOMAIN owned : Give(t, new)
    <3>1. CASE TakeFoundChunk(t)
      <4> PICK p, c : p = frame[t].page /\ c = frame[t].chunk
        OBVIOUS
      <4> QED BY <3>1, TakeFoundChunkEffect
    <3> QED BY <1>4, <3>1, AddLargePageEffect
  <2> QED BY <2>1, GiveEffect
<1>5. CASE Survives(t) /\ (FreePage(t) \/ FreeChunk(t))
  <2> PICK ptr : ptr = frame[t].ptr
    OBVIOUS
  <2>1. x # ptr
    <3>1. pc[t] = "free" /\ ptr # NULL
      BY <1>5 DEF FreePage, FreeChunk
    <3> QED BY <1>5, <3>1, FreedBlockFacts
  <2>2. x \in DOMAIN owned'
    BY <1>5, <2>1, FreedContents
  <2> QED BY <1>5, <2>2, FreedContents
<1>6. CASE ReturnNewBlock(t) \/ ReturnReallocated(t) \/ ReturnNull(t)
  <2> PICK new, size : new = frame[t].new /\ size = frame[t].size
    OBVIOUS
  <2>1. x # new
    <3>1. pc[t] = "return"
      BY <1>6, ReturnFacts
    <3> QED BY <1>1, <3>1, ResultIsHeld
  <2> QED BY <1>6, <2>1, ReturnFacts
<1> QED BY <1>2, <1>3, <1>4, <1>5, <1>6, BlocksChangeHere

(* The arguments of a call stay as they are until it returns, and it gets  *)
(* a block in one step.                                                    *)
LEMMA ArgumentsStay ==
  ASSUME IInv, NEW t \in Threads, Act(t)
  PROVE  \/ Begin(t)
         \/ frame'[t] = NoFrame /\ pc'[t] = "idle"
         \/ /\ frame'[t].op = frame[t].op /\ frame'[t].ptr = frame[t].ptr
            /\ frame'[t].size = frame[t].size
            /\ \/ frame'[t].new = frame[t].new
               \/ TakeFoundChunk(t) \/ AddLargePage(t) \/ ReallocInPlace(t)
<1>1. /\ frame \in [Threads -> FrameType] /\ frame[t] \in FrameType
      /\ \A l : Goto(t, l) => pc'[t] = l
  BY InCall
<1> DEFINE Same == /\ frame'[t].op = frame[t].op /\ frame'[t].ptr = frame[t].ptr
                   /\ frame'[t].size = frame[t].size
           SameNew == frame'[t].new = frame[t].new
<1>2. ASSUME NEW p, frame' = [frame EXCEPT ![t].page = p] PROVE Same /\ SameNew
  BY <1>1, <1>2 DEF FrameType
<1>3. ASSUME NEW p, NEW c, Found(t, p, c) PROVE Same /\ SameNew
  BY <1>1, <1>3 DEF FrameType, Found
<1>4. ASSUME NEW new, Give(t, new) PROVE Same
  BY <1>1, <1>4 DEF FrameType, Give
<1>5. ASSUME NEW new, frame' = [frame EXCEPT ![t].new = new] PROVE Same
  BY <1>1, <1>5 DEF FrameType
<1>6. CASE Enter(t) \/ Exit(t) \/ Clear(t) \/ ReallocElsewhere(t) \/ CopyBlock(t)
             \/ AllocateNothing(t) \/ FreeNull(t) \/ FreePage(t)
  BY <1>6 DEF Enter, Exit, Clear, ReallocElsewhere, CopyBlock, AllocateNothing,
     FreeNull, FreePage
<1> HIDE DEF Same, SameNew
<1>7. CASE ReallocInPlace(t)
  <2>1. Same
    BY <1>5, <1>7 DEF ReallocInPlace
  <2> QED BY <1>7, <2>1 DEF Same
<1>8. CASE FindFreeChunk(t) \/ AddMediumPage(t)
  <2>1. PICK p, c : Found(t, p, c)
    BY <1>8 DEF FindFreeChunk, AddMediumPage
  <2>2. Same /\ SameNew
    BY <1>3, <2>1
  <2> QED BY <2>2 DEF Same, SameNew
<1>9. CASE TakeFoundChunk(t) \/ AddLargePage(t)
  <2>1. PICK new : Give(t, new)
    BY <1>9 DEF TakeFoundChunk, AddLargePage
  <2>2. Same
    BY <1>4, <2>1
  <2> QED BY <1>9, <2>2 DEF Same
<1>10. CASE FreeChunk(t) \/ ReleasePage(t) \/ KeepPage(t)
  <2>1. PICK p : frame' = [frame EXCEPT ![t].page = p]
    BY <1>10 DEF FreeChunk, ReleasePage, KeepPage
  <2>2. Same /\ SameNew
    BY <1>2, <2>1
  <2> QED BY <2>2 DEF Same, SameNew
<1>11. CASE ReturnNewBlock(t) \/ ReturnReallocated(t) \/ ReturnNull(t)
  BY <1>1, <1>11 DEF ReturnNewBlock, ReturnReallocated, ReturnNull, Finish
<1> QED BY <1>6, <1>7, <1>8, <1>9, <1>10, <1>11 DEF Act, Proceed

(* The block that realloc has copied into has what it promised of the old. *)
LEMMA CopyKeeps ==
  ASSUME IInv, SizesInv, ContentInv, NEW t \in Threads, CopyBlock(t), NEW new,
         new = frame[t].new
  PROVE  /\ new \in DOMAIN owned /\ Keeps(new)'
         /\ \A x \in DOMAIN owned \ {new} : content'[x] = content[x]
<1> PICK ptr, size : ptr = frame[t].ptr /\ size = frame[t].size
  OBVIOUS
<1>1. /\ pc[t] = "copy" /\ UNCHANGED <<owned, heapVars>>
      /\ content' = [content EXCEPT ![new] =
           Bytes(content[ptr].tag, Lesser(content[ptr].len, CopySize(t)))]
  BY DEF CopyBlock
<1>2. /\ OwnedType /\ HeapInv /\ BlocksAreAllocated /\ size \in 0 .. SIZE_MAX
      /\ Found1(t) /\ InStep(t) /\ Holding(t) /\ t # NoThread
  BY InCall, Parts DEF FrameType
<1>3. /\ ptr \in DOMAIN owned /\ new \in DOMAIN owned /\ ptr # NULL /\ new # ptr
      /\ owned[ptr].by = t /\ PageOf(ptr) \in mapped
  BY <1>1, <1>2 DEF InStep, Found1, Holding, Answers, HeldBy
<1>4. SizeOfChunk(ptr) \in Nat /\ owned[ptr].size <= SizeOfChunk(ptr)
  BY <1>2, <1>3, OwnedChunkFacts DEF SizesInv, Holds
<1>5. /\ owned[new] = Promise(t) /\ owned[ptr].kept <= owned[ptr].size
      /\ Filling(ptr) \/ Keeps(ptr)
  BY <1>1, <1>3 DEF ContentInv, CallKeeps
<1>6. Keeps(ptr)
  BY <1>1, <1>3, <1>5 DEF Filling
<1>7. /\ owned[new].tag = owned[ptr].tag
      /\ owned[new].kept = Lesser(owned[ptr].kept, size)
  BY <1>3, <1>5 DEF Promise, Block
<1>8. /\ content'[new] = Bytes(content[ptr].tag, Lesser(content[ptr].len, CopySize(t)))
      /\ \A x \in DOMAIN owned \ {new} : content'[x] = content[x]
  BY <1>1, <1>2, <1>3 DEF OwnedType
<1>9. /\ owned[ptr].kept \in Nat /\ owned[ptr].size \in Nat
      /\ content[ptr].len \in Nat /\ SIZE_MAX \in Nat
  BY <1>2, <1>3, ConstantFacts DEF OwnedType
<1>10. CopySize(t) = Lesser(SizeOfChunk(ptr), size)
  BY DEF CopySize
<1>11. ASSUME owned[new].kept > 0
       PROVE  /\ content[ptr].tag = owned[ptr].tag
              /\ Lesser(content[ptr].len, CopySize(t)) >= owned[new].kept
  <2>1. owned[ptr].kept > 0 /\ size \in Nat
    BY <1>2, <1>7, <1>9, <1>11 DEF Lesser
  <2>2. content[ptr].tag = owned[ptr].tag /\ content[ptr].len >= owned[ptr].kept
    BY <1>3, <1>6, <2>1 DEF Keeps
  <2> QED BY <1>4, <1>5, <1>7, <1>9, <1>10, <2>1, <2>2 DEF Lesser
<1>12. Keeps(new)'
  BY <1>1, <1>7, <1>8, <1>11 DEF Keeps, Bytes
<1> QED BY <1>3, <1>8, <1>12
(* What ContentInv says of one block.                                      *)
Kept(x) == owned[x].kept <= owned[x].size /\ (Filling(x) \/ Keeps(x))

(* A block that is left alone has what it had.                             *)
LEMMA KeptStays ==
  ASSUME IInv, NEW t \in Threads, Act(t), NEW x \in DOMAIN owned, Kept(x),
         pc[t] = "copy" => frame[t].new # x,
         owned'[x].size = owned[x].size, owned'[x].kept = owned[x].kept,
         owned'[x].tag = owned[x].tag,
         PageOf(x) \in mapped' => content'[x] = content[x],
         owned'[x].by = owned[x].by \/ owned[x].by \in {t, NoThread}
  PROVE  Kept(x)'
<1>1. CASE Keeps(x)
  BY <1>1, MappedBefore DEF Keeps, Kept
<1>2. CASE Filling(x)
  <2> PICK u : u = owned[x].by
    OBVIOUS
  <2>1. /\ u # NoThread /\ u \in Threads
        /\ pc[u] = "killed" \/ (pc[u] = "copy" /\ frame[u].new = x)
    BY <1>2, InCall DEF Filling, OwnedType
  <2>2. u # t
    BY <2>1, OthersWait
  <2>3. pc'[u] = pc[u] /\ frame'[u] = frame[u] /\ owned'[x].by = u
    BY <2>1, <2>2, OthersWait
  <2> QED BY <2>1, <2>3 DEF Filling, Kept
<1> QED BY <1>1, <1>2 DEF Kept

(* The block a call returns has what the program expects of it.            *)
LEMMA ReturnedIsKept ==
  ASSUME IInv, NEW t \in Threads, NEW new, new = frame[t].new, new # NULL,
         Kept(new), CallKeeps(t),
         ReturnNewBlock(t) \/ ReturnReallocated(t) \/ ReturnNull(t)
  PROVE  Kept(new)'
<1> PICK size : size = frame[t].size
  OBVIOUS
<1> DEFINE o == owned[new]
           o1 == owned'[new]
<1>1. /\ pc[t] = "return" /\ new \in DOMAIN owned /\ o1.size = size
      /\ mapped' = mapped
      /\ \/ /\ frame[t].op = "calloc" /\ frame[t].ptr = NULL
            /\ o1.kept = size /\ o1.tag = Zero /\ content'[new] = content[new]
         \/ o1.kept = size /\ content'[new] = Bytes(o1.tag, size)
         \/ /\ o1.kept = Lesser(o.kept, size) /\ o1.tag = o.tag
            /\ content'[new] = content[new]
  BY ReturnFacts DEF heapVars
<1>2. /\ o.kept \in Nat /\ content[new].len \in Nat /\ size \in Nat
      /\ o.by = t
  <2>1. /\ OwnedType /\ frame[t] \in FrameType /\ SIZE_MAX \in Nat
        /\ owned[new].by = t
    BY <1>1, InCall, ConstantFacts, ResultIsHeld
  <2> QED BY <1>1, <2>1 DEF OwnedType, FrameType
<1> HIDE DEF o, o1
<1>3. CASE /\ frame[t].op = "calloc" /\ o1.kept = size /\ o1.tag = Zero
           /\ content'[new] = content[new]
  <2>1. PageOf(new) \in mapped => content[new] = Bytes(Zero, size)
    BY <1>1, <1>3 DEF CallKeeps
  <2> QED BY <1>1, <1>2, <1>3, <2>1 DEF Kept, Keeps, Bytes, o1
<1>4. CASE o1.kept = size /\ content'[new] = Bytes(o1.tag, size)
  BY <1>1, <1>2, <1>4 DEF Kept, Keeps, Bytes, o1
<1>5. CASE /\ o1.kept = Lesser(o.kept, size) /\ o1.tag = o.tag
           /\ content'[new] = content[new]
  <2>1. PageOf(new) \in mapped /\ o.kept > 0 =>
          content[new].tag = o.tag /\ content[new].len >= o.kept
    BY <1>1, <1>2 DEF Kept, Filling, Keeps, o
  <2>2. Lesser(o.kept, size) <= size /\ Lesser(o.kept, size) <= o.kept
    BY <1>2 DEF Lesser
  <2>3. o1.kept \in Nat
    BY <1>2, <1>5 DEF Lesser
  <2> QED BY <1>1, <1>2, <1>5, <2>1, <2>2, <2>3 DEF Kept, Keeps, o1
<1> QED BY <1>1, <1>3, <1>4, <1>5
(* What a call got has nothing the program expects yet: realloc copies     *)
(* before it does.                                                         *)
LEMMA GivenIsKept ==
  ASSUME IInv, ContentInv, NEW t \in Threads, NEW new \in Blocks \ DOMAIN owned,
         Give(t, new), pc[t] \in {"allocate", "take"}
  PROVE  Kept(new)'
<1>1. /\ owned'[new] = Promise(t) /\ frame[t] \in FrameType
      /\ frame'[t] = [frame[t] EXCEPT !.new = new, !.page = NULL, !.chunk = 0]
      /\ pc'[t] = IF frame[t].ptr = NULL THEN "exit" ELSE "copy"
      /\ OwnedType /\ Holding(t) /\ t # NoThread
  BY GiveEffect, InCall
<1>2. frame'[t].new = new /\ frame[t].size \in 0 .. SIZE_MAX /\ SIZE_MAX \in Nat
  BY <1>1, ConstantFacts DEF FrameType
<1>3. CASE frame[t].ptr = NULL
  BY <1>1, <1>2, <1>3 DEF Kept, Keeps, Promise, Block
<1>4. CASE frame[t].ptr # NULL
  <2> PICK ptr : ptr = frame[t].ptr
    OBVIOUS
  <2>1. ptr \in DOMAIN owned
    BY <1>1, <1>4 DEF Holding, Answers, HeldBy
  <2>2. owned[ptr].kept \in Nat
    BY <1>1, <2>1, ConstantFacts DEF OwnedType
  <2>3. /\ owned'[new].by = t /\ owned'[new].size = frame[t].size
        /\ owned'[new].kept = Lesser(owned[ptr].kept, frame[t].size)
    BY <1>1, <1>4 DEF Promise, Block
  <2>4. Filling(new)'
    BY <1>1, <1>2, <1>4, <2>3 DEF Filling
  <2> QED BY <1>2, <2>2, <2>3, <2>4 DEF Kept, Lesser
<1> QED BY <1>3, <1>4

(* The step from "copy" is the copy.                                       *)
LEMMA CopyIsNext ==
  ASSUME IInv, NEW t \in Threads, Act(t), pc[t] = "copy"
  PROVE  CopyBlock(t)
<1>1. ~ Begin(t)
  BY BeginFacts
<1>2. ~ (Enter(t) \/ Exit(t) \/ ReallocInPlace(t) \/ ReallocElsewhere(t)
           \/ FindFreeChunk(t) \/ AddMediumPage(t) \/ TakeFoundChunk(t))
  BY DEF Enter, Exit, ReallocInPlace, ReallocElsewhere, FindFreeChunk,
     AddMediumPage, TakeFoundChunk
<1>3. ~ (AddLargePage(t) \/ AllocateNothing(t) \/ FreeNull(t) \/ FreePage(t)
           \/ FreeChunk(t) \/ ReleasePage(t) \/ KeepPage(t) \/ Clear(t))
  BY DEF AddLargePage, AllocateNothing, FreeNull, FreePage, FreeChunk,
     ReleasePage, KeepPage, Clear
<1>4. ~ (ReturnNewBlock(t) \/ ReturnReallocated(t) \/ ReturnNull(t))
  BY DEF ReturnNewBlock, ReturnReallocated, ReturnNull, Finish
<1> QED BY <1>1, <1>2, <1>3, <1>4 DEF Act, Proceed

(* Every step keeps what is in every block the program has after it.       *)
LEMMA BlockIsKept ==
  ASSUME IInv, SizesInv, ContentInv, NEW t \in Threads, Act(t),
         NEW x \in DOMAIN owned'
  PROVE  Kept(x)'
<1>1. OwnedType /\ NULL \notin DOMAIN owned /\ CallKeeps(t)
  BY InCall, ProgramAssumption DEF OwnedType, Blocks, ContentInv
<1>2. ASSUME NEW y \in DOMAIN owned PROVE Kept(y)
  BY DEF ContentInv, Kept
<1>3. CASE UNCHANGED owned /\ content'[x] = content[x]
             /\ (pc[t] = "copy" => frame[t].new # x)
  BY <1>2, <1>3, KeptStays
<1>4. CASE CopyBlock(t)
  <2> PICK new : new = frame[t].new
    OBVIOUS
  <2>1. /\ new \in DOMAIN owned /\ Keeps(new)' /\ UNCHANGED owned
        /\ \A y \in DOMAIN owned \ {new} : content'[y] = content[y]
    BY <1>4, CopyKeeps DEF CopyBlock
  <2>2. CASE x = new
    BY <1>2, <2>1, <2>2 DEF Kept
  <2> QED BY <1>3, <2>1, <2>2
<1>5. CASE Clear(t)
  <2> PICK new : new = frame[t].new
    OBVIOUS
  <2>1. /\ pc[t] = "clear" /\ UNCHANGED owned
        /\ \E v : content' = [content EXCEPT ![new] = v]
    BY <1>5 DEF Clear
  <2>2. CASE x = new
    <3>1. owned[x].kept = 0 /\ new # NULL
      BY <1>1, <2>1, <2>2 DEF CallKeeps
    <3> QED BY <1>2, <2>1, <3>1 DEF Kept, Keeps
  <2>3. CASE x # new
    <3>1. content'[x] = content[x]
      BY <1>1, <2>1, <2>3 DEF OwnedType
    <3> QED BY <1>3, <2>1, <3>1
  <2> QED BY <2>2, <2>3
<1>6. CASE Begin(t)
  <2>1. pc[t] = "idle"
    BY <1>6, BeginFacts
  <2> QED BY <1>2, <1>6, <2>1, KeptStays, PassFacts
<1>7. CASE TakeFoundChunk(t) \/ AddLargePage(t)
  <2>1. pc[t] \in {"allocate", "take"}
    BY <1>7 DEF TakeFoundChunk, AddLargePage
  <2>2. PICK new \in Blocks \ DOMAIN owned : Give(t, new)
    <3>1. CASE TakeFoundChunk(t)
      <4> PICK p, c : p = frame[t].page /\ c = frame[t].chunk
        OBVIOUS
      <4> QED BY <3>1, TakeFoundChunkEffect
    <3> QED BY <1>7, <3>1, AddLargePageEffect
  <2>3. /\ DOMAIN owned' = DOMAIN owned \cup {new}
        /\ \A y \in DOMAIN owned : owned'[y] = owned[y] /\ content'[y] = content[y]
    BY <2>2, GiveEffect
  <2>4. Kept(new)'
    BY <2>1, <2>2, GivenIsKept
  <2>5. CASE x \in DOMAIN owned
    BY <1>2, <2>1, <2>3, <2>5, KeptStays
  <2> QED BY <2>3, <2>4, <2>5
<1>8. CASE Survives(t) /\ (FreePage(t) \/ FreeChunk(t))
  <2>1. /\ pc[t] = "free" /\ x \in DOMAIN owned /\ owned'[x] = owned[x]
        /\ PageOf(x) \in mapped' => content'[x] = content[x]
    BY <1>8, FreedContents
  <2> QED BY <1>2, <2>1, KeptStays
<1>9. CASE ReturnNewBlock(t) \/ ReturnReallocated(t) \/ ReturnNull(t)
  <2> PICK new, size : new = frame[t].new /\ size = frame[t].size
    OBVIOUS
  <2>1. pc[t] = "return" /\ DOMAIN owned' = DOMAIN owned
    BY <1>9, ReturnFacts
  <2>2. CASE x = new
    BY <1>1, <1>2, <1>9, <2>1, <2>2, ReturnedIsKept
  <2>3. CASE x # new
    <3>1. /\ owned'[x].size = owned[x].size /\ owned'[x].kept = owned[x].kept
          /\ owned'[x].tag = owned[x].tag /\ content'[x] = content[x]
          /\ owned'[x].by = owned[x].by \/ owned[x].by = t
      BY <1>9, <2>1, <2>3, ReturnFacts
    <3> QED BY <1>2, <2>1, <3>1, KeptStays
  <2> QED BY <2>2, <2>3
<1>10. CASE UNCHANGED <<owned, content>>
  BY <1>3, <1>4, <1>10, CopyIsNext
<1> QED BY <1>4, <1>5, <1>6, <1>7, <1>8, <1>9, <1>10, BlocksChangeHere
(* A thread that waits knows as much of its blocks as before.              *)
LEMMA OthersCallsKeep ==
  ASSUME IInv, NEW t \in Threads, Act(t), NEW u \in Threads \ {t}, CallKeeps(u)
  PROVE  CallKeeps(u)'
<1> PICK ptr, new, size :
      ptr = frame[u].ptr /\ new = frame[u].new /\ size = frame[u].size
  OBVIOUS
<1>1. /\ pc'[u] = pc[u] /\ frame'[u] = frame[u]
      /\ Holding(u) /\ InStep(u) /\ u # NoThread
  BY OthersWait, InCall
<1>2. ASSUME NEW x \in HeldBy(u)
      PROVE  /\ owned'[x] = owned[x]
             /\ PageOf(x) \in mapped' =>
                  PageOf(x) \in mapped /\ content'[x] = content[x]
  BY <1>1, OthersBlocksStay, MappedBefore DEF HeldBy
<1>3. CASE pc[u] = "copy"
  <2>1. ptr \in HeldBy(u) /\ new \in HeldBy(u)
    BY <1>1, <1>3 DEF Holding, Answers, InStep
  <2>2. owned'[ptr] = owned[ptr] /\ owned'[new] = owned[new]
    BY <1>2, <2>1
  <2>3. Promise(u)' = Promise(u)
    BY <1>1, <2>2 DEF Promise
  <2> QED BY <1>1, <1>3, <2>2, <2>3 DEF CallKeeps
<1>4. CASE pc[u] # "copy"
  <2>1. ASSUME new # NULL, pc[u] \in {"free", "release", "exit", "clear", "return"}
        PROVE  /\ owned'[new] = owned[new]
               /\ PageOf(new) \in mapped' =>
                    PageOf(new) \in mapped /\ content'[new] = content[new]
    BY <1>2, <2>1, ResultIsHeld DEF HeldBy
  <2> QED BY <1>1, <1>4, <2>1 DEF CallKeeps
<1> QED BY <1>3, <1>4

(* What realloc was promised does not change with the block it gets.       *)
LEMMA PromiseStays ==
  ASSUME IInv, NEW t \in Threads, pc'[t] = "copy", Act(t)
  PROVE  owned'[frame'[t].new] = Promise(t)'
<1>1. TakeFoundChunk(t) \/ AddLargePage(t)
  BY WhereStepsLead
<1>2. PICK new \in Blocks \ DOMAIN owned : Give(t, new)
  <2>1. CASE TakeFoundChunk(t)
    <3> PICK p, c : p = frame[t].page /\ c = frame[t].chunk
      OBVIOUS
    <3> QED BY <2>1, TakeFoundChunkEffect
  <2> QED BY <1>1, <2>1, AddLargePageEffect
<1>3. /\ owned'[new] = Promise(t)
      /\ \A x \in DOMAIN owned : owned'[x] = owned[x]
      /\ frame'[t] = [frame[t] EXCEPT !.new = new, !.page = NULL, !.chunk = 0]
  BY <1>2, GiveEffect
<1>4. pc[t] \in {"allocate", "take"} /\ frame[t] \in FrameType /\ Holding(t)
  BY <1>1, InCall DEF TakeFoundChunk, AddLargePage
<1>5. /\ frame'[t].new = new /\ frame'[t].ptr = frame[t].ptr
      /\ frame'[t].size = frame[t].size
  BY <1>3, <1>4 DEF FrameType
<1> PICK ptr : ptr = frame[t].ptr
  OBVIOUS
<1>6. ptr # NULL => owned'[ptr] = owned[ptr]
  BY <1>3, <1>4 DEF Holding, Answers, HeldBy
<1>7. Promise(t)' = Promise(t)
  BY <1>5, <1>6 DEF Promise
<1> QED BY <1>3, <1>5, <1>7

(* A call begins with no block of its own, and calloc with none at all.    *)
LEMMA CallBegins ==
  ASSUME IInv, NEW t \in Threads, Begin(t)
  PROVE  /\ frame'[t].new = NULL
         /\ frame'[t].op = "calloc" => frame'[t].ptr = NULL
<1>1. PICK op \in Ops, ptr \in DOMAIN owned \cup {NULL}, size \in AskedSizes,
           l \in {"enter", "return"} :
        /\ Call(t, op, ptr, size, l) /\ Pass(t, ptr)
        /\ RequestsFit /\ l = "enter" => MappingFits(size)
        /\ frame'[t] = [op |-> op, ptr |-> ptr, size |-> size, new |-> NULL,
                        page |-> NULL, chunk |-> 0]
        /\ pc[t] = "idle" /\ pc'[t] = l
        /\ op = "calloc" => ptr = NULL
  BY BeginFacts, ZenonT(60)
<1> QED BY <1>1

(* The block calloc is about to return: what it is until it is cleared, and*)
(* that it then is.                                                        *)
LEMMA CallocKeeps ==
  ASSUME IInv, NEW t \in Threads, CallKeeps(t), Act(t),
         frame'[t].op = "calloc", frame'[t].new # NULL,
         NEW new, new = frame'[t].new
  PROVE  /\ pc'[t] \in {"copy", "free", "release", "exit", "clear"} =>
              owned'[new].kept = 0
         /\ pc'[t] = "return" => content'[new] = Bytes(Zero, frame'[t].size)
<1>1. /\ frame \in [Threads -> FrameType] /\ InStep(t) /\ OwnedType
      /\ \A l : Goto(t, l) => pc'[t] = l
  BY InCall
<1>2. ~ Begin(t)
  BY CallBegins
<1>3. ASSUME pc'[t] # "idle"
      PROVE  frame[t].op = "calloc" /\ frame[t].ptr = NULL
  BY <1>2, <1>3, ArgumentsStay DEF CallKeeps
<1>4. ASSUME pc'[t] \in {"copy", "free", "release", "exit", "clear"}
      PROVE  owned'[new].kept = 0
  <2>1. frame[t].op = "calloc" /\ frame[t].ptr = NULL
    BY <1>3, <1>4
  <2>2. CASE TakeFoundChunk(t) \/ AddLargePage(t)
    <3>1. PICK n \in Blocks \ DOMAIN owned : Give(t, n)
      <4>1. CASE TakeFoundChunk(t)
        <5> PICK p, c : p = frame[t].page /\ c = frame[t].chunk
          OBVIOUS
        <5> QED BY <4>1, TakeFoundChunkEffect
      <4> QED BY <2>2, <4>1, AddLargePageEffect
    <3>2. /\ owned'[n] = Promise(t)
          /\ frame'[t] = [frame[t] EXCEPT !.new = n, !.page = NULL, !.chunk = 0]
      BY <3>1, GiveEffect
    <3>3. frame'[t].new = n
      BY <1>1, <3>2 DEF FrameType
    <3> QED BY <2>1, <3>2, <3>3 DEF Promise, Block
  <2>3. CASE pc[t] \in {"copy", "free", "release", "exit", "clear"}
    <3>1. frame'[t].new = frame[t].new
      BY <2>3, ResultStays
    <3>2. owned[new].kept = 0
      BY <2>1, <2>3, <3>1 DEF CallKeeps
    <3>3. ~ (FreePage(t) \/ FreeChunk(t))
      BY <2>1 DEF FreePage, FreeChunk
    <3>4. ~ (ReturnNewBlock(t) \/ ReturnReallocated(t) \/ ReturnNull(t))
      BY <2>3 DEF ReturnNewBlock, ReturnReallocated, ReturnNull, Finish
    <3>5. ~ (TakeFoundChunk(t) \/ AddLargePage(t))
      BY <2>3 DEF TakeFoundChunk, AddLargePage
    <3>6. UNCHANGED owned
      BY <1>2, <3>3, <3>4, <3>5, BlocksChangeHere
    <3> QED BY <3>2, <3>6
  <2>4. ASSUME Enter(t) \/ AllocateNothing(t) PROVE FALSE
    BY <1>1, <2>4 DEF Enter, AllocateNothing, InStep
  <2>5. ASSUME ReallocInPlace(t) PROVE FALSE
    BY <2>1, <2>5 DEF ReallocInPlace, StaysInPlace
  <2>6. pc'[t] = "exit" =>
          \/ TakeFoundChunk(t) \/ AddLargePage(t)
          \/ pc[t] \in {"free", "release"}
    BY <2>4, <2>5, WhereStepsLead DEF FreeNull, FreePage, ReleasePage, KeepPage
  <2>7. pc'[t] \in {"free", "release", "clear"} =>
          pc[t] \in {"copy", "free", "exit"}
    BY <2>4, WhereStepsLead DEF CopyBlock, FreeChunk, Exit
  <2> QED BY <1>4, <2>2, <2>3, <2>6, <2>7, WhereStepsLead
<1>5. ASSUME pc'[t] = "return"
      PROVE  content'[new] = Bytes(Zero, frame'[t].size)
  <2>1. frame[t].op = "calloc"
    BY <1>3, <1>5
  <2>2. ASSUME Exit(t) PROVE FALSE
    <3>1. frame' = frame /\ frame[t].new # NULL
      BY <2>2 DEF Exit
    <3> QED BY <1>1, <1>5, <2>1, <2>2, <3>1 DEF Exit
  <2>3. Clear(t)
    BY <1>2, <1>5, <2>2, WhereStepsLead
  <2>4. /\ frame' = frame /\ pc[t] = "clear"
        /\ content' = [content EXCEPT ![new] = Bytes(Zero, frame[t].size)]
    BY <2>3 DEF Clear
  <2>5. new \in DOMAIN content
    BY <1>1, <2>4, ResultIsHeld DEF OwnedType
  <2> QED BY <2>4, <2>5
<1> QED BY <1>4, <1>5

LEMMA CallKeepsStep ==
  ASSUME IInv, NEW t \in Threads, CallKeeps(t), Act(t)
  PROVE  CallKeeps(t)'
<1>1. frame'[t].op = "calloc" => frame'[t].ptr = NULL
  <2>1. NoFrame.op = "none"
    BY DEF NoFrame
  <2> QED BY <2>1, CallBegins, ArgumentsStay DEF CallKeeps
<1>2. pc'[t] = "clear" => frame'[t].op = "calloc"
  <2>1. ASSUME Exit(t), pc'[t] = "clear" PROVE frame'[t].op = "calloc"
    <3>1. frame' = frame /\ pc'[t] = IF frame[t].op = "calloc" /\ frame[t].new # NULL
                                     THEN "clear" ELSE "return"
      BY <2>1, InCall DEF Exit
    <3> QED BY <2>1, <3>1
  <2> QED BY <2>1, WhereStepsLead
<1>3. pc'[t] = "copy" => owned'[frame'[t].new] = Promise(t)'
  BY PromiseStays
<1> QED BY <1>1, <1>2, <1>3, CallocKeeps DEF CallKeeps

LEMMA ContentStep ==
  ASSUME IInv, SizesInv, ContentInv, [Next]_vars
  PROVE  ContentInv'
<1>1. CASE UNCHANGED vars
  <2>1. UNCHANGED <<pc, frame, owned, content, mapped>>
    BY <1>1 DEF vars, heapVars
  <2> QED BY <2>1 DEF ContentInv, Filling, Keeps, CallKeeps, Promise
<1>2. ASSUME NEW t \in Threads, Fault(t) PROVE ContentInv'
  <2>1. /\ UNCHANGED <<frame, owned, content, mapped>> /\ OwnedType
        /\ \A u \in Threads : pc'[u] = "killed"
    BY <1>2, InCall DEF Fault, heapVars
  <2>2. ASSUME NEW x \in DOMAIN owned PROVE Kept(x)'
    <3>1. Kept(x) /\ owned[x].by \in Threads \cup {NoThread}
      BY <2>1 DEF ContentInv, Kept, OwnedType
    <3> QED BY <2>1, <3>1 DEF Kept, Filling, Keeps
  <2>3. ASSUME NEW u \in Threads PROVE CallKeeps(u)'
    BY <2>1 DEF ContentInv, CallKeeps
  <2> QED BY <2>1, <2>2, <2>3 DEF ContentInv, Kept
<1>3. ASSUME NEW t \in Threads, Act(t) PROVE ContentInv'
  <2>1. \A x \in DOMAIN owned' : Kept(x)'
    BY <1>3, BlockIsKept
  <2>2. ASSUME NEW u \in Threads PROVE CallKeeps(u)'
    BY <1>3, OthersCallsKeep, CallKeepsStep DEF ContentInv
  <2> QED BY <2>1, <2>2 DEF ContentInv, Kept
<1> QED BY <1>1, <1>2, <1>3, StepIsAct

(* What holds of zones, pages, sizes and contents, as modules build on it. *)
THEOREM BlocksInvariance ==
  ASSUME RequestsFit
  PROVE  Spec => [](IInv /\ BlocksInv)
<1>1. Init => ContentInv
  BY DEF Init, ContentInv, CallKeeps, NoFrame
<1>2. IInv /\ SizesInv /\ ContentInv /\ [Next]_vars => ContentInv'
  BY ContentStep
<1>3. ZoneInv /\ PagesInv /\ SizesInv /\ ContentInv => BlocksInv
  BY DEF BlocksInv
<1> QED BY <1>1, <1>2, <1>3, SizesInvariance, PTL DEF Spec
-----------------------------------------------------------------------------
(* How many blocks a page holds.                                           *)

(* The marks of the ruler are a block and its header apart, in order.      *)
LEMMA MarkFacts ==
  ASSUME NEW n \in Nat \ {0}
  PROVE  /\ \A i \in Nat : /\ Mark(n, i) \in Nat /\ i <= Mark(n, i)
                           /\ Mark(n, i + 1) = Mark(n, i) + ChunkHeader + n
         /\ Mark(n, 0) = PageHeader
         /\ \A i, j \in Nat : i < j <=> Mark(n, i) < Mark(n, j)
         /\ \A i, j \in Nat : Mark(n, i) = Mark(n, j) => i = j
         /\ \A m \in Nat, i \in Nat : n <= m => Mark(n, i) <= Mark(m, i)
<1> DEFINE s == n + ChunkHeader
<1>1. s \in Nat \ {0} /\ PageHeader \in Nat /\ ChunkHeader \in Nat
  BY HeaderFacts
<1> HIDE DEF s
<1>2. \A i \in Nat : s * i \in Nat
  BY <1>1
<1>3. ASSUME NEW i \in Nat PROVE s * (i + 1) = s * i + s
  BY <1>1
<1>4. ASSUME NEW i \in Nat, NEW j \in Nat, i < j PROVE s * i + s <= s * j
  <2>1. i + 1 \in Nat /\ i + 1 <= j
    BY <1>4
  <2>2. s * (i + 1) <= s * j
    BY <1>1, <2>1, ProductsAreMonotone
  <2> QED BY <1>3, <2>2
<1>5. ASSUME NEW i \in Nat PROVE i <= s * i
  <2>1. CASE i = 0
    BY <1>1, <2>1
  <2>2. CASE i # 0
    <3>1. i * s \in Nat /\ i <= i * s
      BY <1>1, RoomForOne
    <3>2. i * s = s * i
      BY <1>1
    <3> QED BY <3>1, <3>2
  <2> QED BY <2>1, <2>2
<1>6. \A i : Mark(n, i) = PageHeader + s * i
  BY DEF Mark, s
<1>7. s = n + ChunkHeader
  BY DEF s
<1>8. ASSUME NEW i \in Nat
      PROVE  /\ Mark(n, i) \in Nat /\ i <= Mark(n, i)
             /\ Mark(n, i + 1) = Mark(n, i) + ChunkHeader + n
  <2>1. s * i \in Nat /\ i <= s * i /\ s * (i + 1) = s * i + s
    BY <1>2, <1>3, <1>5
  <2> QED BY <1>1, <1>6, <1>7, <2>1
<1>9. Mark(n, 0) = PageHeader
  <2>1. s * 0 = 0
    BY <1>1
  <2> QED BY <1>1, <1>6, <2>1
<1>10. ASSUME NEW i \in Nat, NEW j \in Nat, i < j PROVE Mark(n, i) < Mark(n, j)
  <2>1. s * i + s <= s * j /\ s * i \in Nat /\ s * j \in Nat
    BY <1>2, <1>4, <1>10
  <2> QED BY <1>1, <1>6, <2>1
<1>11. ASSUME NEW i \in Nat, NEW j \in Nat
       PROVE  /\ i < j <=> Mark(n, i) < Mark(n, j)
              /\ Mark(n, i) = Mark(n, j) => i = j
  <2>1. Mark(n, i) \in Nat /\ Mark(n, j) \in Nat
    BY <1>8
  <2>2. i < j => Mark(n, i) < Mark(n, j)
    BY <1>10
  <2>3. j < i => Mark(n, j) < Mark(n, i)
    BY <1>10
  <2>4. i = j => Mark(n, i) = Mark(n, j)
    OBVIOUS
  <2> QED BY <2>1, <2>2, <2>3, <2>4
<1>12. ASSUME NEW m \in Nat, NEW i \in Nat, n <= m PROVE Mark(n, i) <= Mark(m, i)
  <2> DEFINE r == m + ChunkHeader
  <2>1. r \in Nat /\ s <= r
    BY <1>1, <1>7, <1>12
  <2> HIDE DEF r
  <2>2. i * s <= i * r /\ i * s \in Nat /\ i * r \in Nat
    BY <1>1, <2>1, ProductsAreMonotone
  <2>3. i * s = s * i /\ i * r = r * i
    BY <1>1, <2>1
  <2>4. Mark(m, i) = PageHeader + r * i
    BY DEF Mark, r
  <2> QED BY <1>1, <1>6, <2>2, <2>3, <2>4
<1> QED BY <1>8, <1>9, <1>11, <1>12

(* Counting: a list with that many different elements is that long.        *)
LEMMA ListIsAsLong ==
  ASSUME NEW s \in Seq(Nat), NEW n \in Nat \ {0}, NEW k \in Nat,
         \A i \in 1 .. k : Mark(n, i - 1) \in Range(s)
  PROVE  k <= Len(s)
<1> DEFINE f == [i \in 1 .. k |-> CHOOSE x \in 1 .. Len(s) : s[x] = Mark(n, i - 1)]
<1>1. ASSUME NEW i \in 1 .. k
      PROVE  f[i] \in 1 .. Len(s) /\ s[f[i]] = Mark(n, i - 1)
  <2>1. \E x \in 1 .. Len(s) : s[x] = Mark(n, i - 1)
    BY DEF Range
  <2> QED BY <2>1
<1>2. f \in [1 .. k -> 1 .. Len(s)]
  BY <1>1
<1> HIDE DEF f
<1>3. ASSUME NEW i \in 1 .. k, NEW j \in 1 .. k, f[i] = f[j] PROVE i = j
  <2>1. Mark(n, i - 1) = Mark(n, j - 1)
    BY <1>1, <1>3
  <2>2. i - 1 \in Nat /\ j - 1 \in Nat
    OBVIOUS
  <2>3. i - 1 = j - 1
    BY <2>1, <2>2, MarkFacts
  <2> QED BY <2>3
<1>4. f \in Injection(1 .. k, 1 .. Len(s))
  BY <1>2, <1>3 DEF Injection, IsInjective
<1>5. /\ IsFiniteSet(1 .. Len(s)) /\ Cardinality(1 .. Len(s)) = Len(s)
      /\ Cardinality(1 .. k) = k
  <2>1. ASSUME NEW m \in Nat PROVE IsFiniteSet(1 .. m) /\ Cardinality(1 .. m) = m
    <3>1. /\ IsFiniteSet(1 .. m)
          /\ Cardinality(1 .. m) = IF 1 > m THEN 0 ELSE m - 1 + 1
      BY FS_Interval
    <3>2. (IF 1 > m THEN 0 ELSE m - 1 + 1) = m
      OBVIOUS
    <3> QED BY <3>1, <3>2
  <2>2. Len(s) \in Nat
    OBVIOUS
  <2> QED BY <2>1, <2>2
<1> QED BY <1>4, <1>5, FS_Injection

(* A page that has no chunk for one more request has handed out as many as *)
(* it was made for.                                                        *)
LEMMA FullPage ==
  ASSUME HeapInv, NEW p \in mapped, NEW n \in Nat \ {0}, CutFor(p, n),
         NEW limit \in Nat, n <= limit,
         Mark(limit, NB_ALLOCATION_ZONE) <= pageSize[p], ~ HasChunk(p, n)
  PROVE  Len(allocation[p]) >= NB_ALLOCATION_ZONE
<1> DEFINE S == chunkSize[p]
           NB == NB_ALLOCATION_ZONE
<1>1. /\ ListedOnce(p) /\ ChunkTypes(p) /\ pageSize[p] \in Nat
      /\ allocation[p] \in Seq(Nat) /\ ChunkHeader \in Nat /\ NB \in Nat
  BY PageFacts, HeaderFacts, ConstantFacts DEF ChunkTypes
<1>2. PICK k \in 0 .. pageSize[p] :
        /\ Chunks(p) = {Mark(n, i) : i \in 0 .. k}
        /\ \A i \in 0 .. k - 1 : S[Mark(n, i)] = n
        /\ EndOfChunk(p, Mark(n, k)) = pageSize[p]
        /\ Mark(n, k) \in Range(allocation[p]) => S[Mark(n, k)] <= n + ChunkHeader
  BY DEF CutFor
<1>3. k \in Nat /\ k + 1 \in Nat /\ k + 2 \in Nat
  BY <1>1
<1>4. \A i \in 0 .. k : Mark(n, i) \in Chunks(p)
  BY <1>2
<1>5. \A c \in Chunks(p) : c \in Range(allocation[p]) \/ S[c] < n
  <2>1. \A c \in Chunks(p) : S[c] \in Nat /\ (c \in Range(allocation[p]) \/ c \in Range(free[p]))
    BY <1>1 DEF ListedOnce, ChunkTypes
  <2>2. \A c \in Range(free[p]) : ~ (S[c] >= n)
    BY DEF HasChunk
  <2> QED BY <2>1, <2>2
<1>6. \A i \in 0 .. k - 1 : Mark(n, i) \in Range(allocation[p])
  BY <1>2, <1>4, <1>5
<1>7. /\ Mark(n, NB) \in Nat /\ Mark(n, NB) <= pageSize[p]
      /\ Mark(n, k) \in Nat /\ S[Mark(n, k)] \in Nat
      /\ Mark(n, k + 1) = Mark(n, k) + ChunkHeader + n
      /\ Mark(n, k + 2) = Mark(n, k + 1) + ChunkHeader + n
      /\ pageSize[p] = Mark(n, k) + ChunkHeader + S[Mark(n, k)]
  <2>1. Mark(n, NB) <= Mark(limit, NB) /\ Mark(n, NB) \in Nat
    BY <1>1, MarkFacts
  <2>2. Mark(limit, NB) \in Nat
    <3>1. limit \in Nat \ {0}
      OBVIOUS
    <3> QED BY <1>1, <3>1, MarkFacts
  <2>3. (k + 1) + 1 = k + 2
    BY <1>3
  <2>4. Mark(n, k + 2) = Mark(n, k + 1) + ChunkHeader + n
    BY <1>3, <2>3, MarkFacts
  <2>5. S[Mark(n, k)] \in Nat
    BY <1>1, <1>3, <1>4 DEF ChunkTypes
  <2>6. Mark(n, k) \in Nat /\ Mark(n, k + 1) = Mark(n, k) + ChunkHeader + n
    BY <1>3, MarkFacts
  <2>7. pageSize[p] = Mark(n, k) + ChunkHeader + S[Mark(n, k)]
    BY <1>2 DEF EndOfChunk
  <2>8. Mark(n, NB) <= pageSize[p]
    BY <1>1, <2>1, <2>2
  <2> QED BY <2>1, <2>4, <2>5, <2>6, <2>7, <2>8
<1>8. CASE Mark(n, k) \in Range(allocation[p])
  <2>1. Mark(n, NB) < Mark(n, k + 2)
    <3>1. S[Mark(n, k)] <= n + ChunkHeader
      BY <1>2, <1>8
    <3>2. pageSize[p] <= Mark(n, k + 1) + ChunkHeader
      BY <1>1, <1>7, <3>1
    <3>3. ChunkHeader \in Nat /\ Mark(n, k + 1) \in Nat
      BY <1>1, <1>3, MarkFacts
    <3> QED BY <1>7, <3>2, <3>3, SMTT(30)
  <2>2. NB < k + 2
    BY <1>1, <1>3, <2>1, MarkFacts
  <2>3. \A i \in 1 .. k + 1 : Mark(n, i - 1) \in Range(allocation[p])
    <3>1. \A i \in 1 .. k + 1 : i - 1 \in 0 .. k - 1 \/ i - 1 = k
      BY <1>3
    <3> QED BY <1>6, <1>8, <3>1
  <2>4. k + 1 <= Len(allocation[p])
    BY <1>1, <1>3, <2>3, ListIsAsLong
  <2> QED BY <1>1, <1>3, <2>2, <2>4
<1>9. CASE Mark(n, k) \notin Range(allocation[p])
  <2>1. S[Mark(n, k)] < n
    BY <1>3, <1>4, <1>5, <1>9
  <2>2. Mark(n, NB) < Mark(n, k + 1)
    <3>1. pageSize[p] < Mark(n, k) + ChunkHeader + n
      BY <1>1, <1>7, <2>1, SMTT(30)
    <3> QED BY <1>1, <1>7, <3>1
  <2>3. NB < k + 1
    BY <1>1, <1>3, <2>2, MarkFacts
  <2>4. \A i \in 1 .. k : Mark(n, i - 1) \in Range(allocation[p])
    <3>1. \A i \in 1 .. k : i - 1 \in 0 .. k - 1
      BY <1>3
    <3> QED BY <1>6, <3>1
  <2>5. k <= Len(allocation[p])
    BY <1>1, <1>3, <2>4, ListIsAsLong
  <2> QED BY <1>1, <1>3, <2>3, <2>5
<1> QED BY <1>8, <1>9

(* TakeChunk, chunk by chunk: a chunk that is split gets the size asked for*)
(* and its rest is a new chunk.                                            *)
LEMMA TakeChunkCuts ==
  ASSUME HeapInv, NEW p \in mapped, NEW c \in Range(free[p]), NEW n \in Nat,
         n % ALIGNMENT = 0, n <= chunkSize[p][c], TakeChunk(p, c, n)
  PROVE  /\ pageSize' = pageSize
         /\ ~ Splits(p, c, n) => chunkSize' = chunkSize
         /\ Splits(p, c, n) =>
              /\ Rest(c, n) \notin Chunks(p)
              /\ Chunks(p)' = Chunks(p) \cup {Rest(c, n)}
              /\ chunkSize'[p][c] = n
              /\ chunkSize'[p][Rest(c, n)] = chunkSize[p][c] - n - ChunkHeader
<1>1. /\ pageSize' = pageSize
      /\ ~ Splits(p, c, n) => chunkSize' = chunkSize
  BY DEF TakeChunk
<1>2. SUFFICES ASSUME Splits(p, c, n)
               PROVE  /\ Rest(c, n) \notin Chunks(p)
                      /\ Chunks(p)' = Chunks(p) \cup {Rest(c, n)}
                      /\ chunkSize'[p][c] = n
                      /\ chunkSize'[p][Rest(c, n)] = chunkSize[p][c] - n - ChunkHeader
  BY <1>1
<1> DEFINE r == Rest(c, n)
           S == chunkSize[p]
           m == S[c] - n - ChunkHeader
           T == Assign([S EXCEPT ![c] = n], r, m)
<1>3. /\ p \in Pages /\ ChunkTypes(p) /\ ListedOnce(p) /\ Tiled(p)
      /\ DOMAIN chunkSize = Pages
  BY PageFacts DEF HeapInv, HeapTypeOK
<1>4. c \in Chunks(p) /\ c \in Nat /\ S[c] \in Nat /\ ChunkHeader \in Nat
  BY <1>3, HeaderFacts DEF ListedOnce, ChunkTypes
<1>5. chunkSize' = [chunkSize EXCEPT ![p] = T]
  BY <1>2 DEF TakeChunk
<1>6. c < r /\ r < EndOfChunk(p, c) /\ r \in Nat
  <2>1. c % ALIGNMENT = 0 /\ S[c] - n > ChunkHeader
    BY <1>2, <1>3, <1>4 DEF Tiled, Splits
  <2> QED BY <2>1, <1>4, RestFacts DEF EndOfChunk
<1> HIDE DEF r, m
<1>7. r \notin Chunks(p) /\ r # c
  <2>1. \A d \in Chunks(p) : d \in Nat /\ (d > c => d >= EndOfChunk(p, c))
    BY <1>3, <1>4 DEF Tiled, ChunkTypes
  <2>2. EndOfChunk(p, c) \in Nat
    BY <1>4 DEF EndOfChunk
  <2> QED BY <2>1, <2>2, <1>4, <1>6
<1>8. DOMAIN T = Chunks(p) \cup {r} /\ T[c] = n /\ T[r] = m
  BY <1>4, <1>7 DEF Assign, Chunks
<1> HIDE DEF T
<1>9. chunkSize'[p] = T
  BY <1>3, <1>5
<1> QED BY <1>7, <1>8, <1>9 DEF Chunks, r, m

(* A request of the page's own size keeps the ruler: only its last chunk   *)
(* can be longer, and what is split off starts at the next mark.           *)
LEMMA TakeChunkKeepsCut ==
  ASSUME HeapInv, NEW p \in mapped, NEW c \in Range(free[p]), NEW n \in Nat \ {0},
         n % ALIGNMENT = 0, n <= chunkSize[p][c], TakeChunk(p, c, n), CutFor(p, n)
  PROVE  CutFor(p, n)'
<1> DEFINE S == chunkSize[p]
<1>1. /\ ListedOnce(p) /\ ChunkTypes(p) /\ pageSize[p] \in Nat
      /\ ChunkHeader \in Nat \ {0}
  BY PageFacts, HeaderFacts, ConstantFacts
<1>2. PICK k \in 0 .. pageSize[p] :
        /\ Chunks(p) = {Mark(n, i) : i \in 0 .. k}
        /\ \A i \in 0 .. k - 1 : S[Mark(n, i)] = n
        /\ EndOfChunk(p, Mark(n, k)) = pageSize[p]
        /\ Mark(n, k) \in Range(allocation[p]) => S[Mark(n, k)] <= n + ChunkHeader
  BY DEF CutFor
<1>3. /\ pageSize' = pageSize
      /\ Range(allocation'[p]) = Range(allocation[p]) \cup {c}
      /\ \A d \in Chunks(p) \ {c} : chunkSize'[p][d] = S[d]
  BY TakeChunkCuts, TakeChunkFacts
<1>4. c \in Chunks(p) /\ S[c] \in Nat /\ Range(allocation[p]) \subseteq Chunks(p)
  BY <1>1 DEF ListedOnce, ChunkTypes
<1>5. k \in Nat /\ \A i \in 0 .. k : i \in Nat
  BY <1>1
<1>6. CASE ~ Splits(p, c, n)
  <2>1. chunkSize' = chunkSize
    BY <1>6, TakeChunkCuts
  <2>2. S[c] <= n + ChunkHeader
    BY <1>1, <1>4, <1>6 DEF Splits
  <2>3. Mark(n, k) \in Range(allocation'[p]) => S[Mark(n, k)] <= n + ChunkHeader
    BY <1>2, <1>3, <2>2
  <2> QED BY <1>2, <1>3, <2>1, <2>3 DEF CutFor, Chunks, EndOfChunk
<1>7. CASE Splits(p, c, n)
  <2>1. c = Mark(n, k)
    <3>1. PICK i \in 0 .. k : c = Mark(n, i)
      BY <1>2, <1>4
    <3>2. S[c] # n
      BY <1>1, <1>4, <1>7 DEF Splits
    <3>3. i \notin 0 .. k - 1
      BY <1>2, <3>1, <3>2
    <3>4. i = k
      BY <1>5, <3>1, <3>3
    <3> QED BY <3>1, <3>4
  <2>2. Rest(c, n) = Mark(n, k + 1) /\ Mark(n, k) \in Nat /\ Mark(n, k + 1) \in Nat
        /\ k + 1 <= Mark(n, k + 1) /\ k + 1 \in Nat
    <3>1. /\ Mark(n, k + 1) = Mark(n, k) + ChunkHeader + n /\ Mark(n, k) \in Nat
          /\ k + 1 \in Nat
      <4>1. k + 1 \in Nat
        BY <1>5
      <4> QED BY <1>5, <4>1, MarkFacts
    <3>2. Mark(n, k + 1) \in Nat /\ k + 1 <= Mark(n, k + 1)
      BY <3>1, MarkFacts
    <3> QED BY <1>1, <2>1, <3>1, <3>2 DEF Rest
  <2> DEFINE r == Mark(n, k + 1)
             m == S[c] - n - ChunkHeader
  <2>3. /\ r \notin Chunks(p) /\ Chunks(p)' = Chunks(p) \cup {r}
        /\ chunkSize'[p][c] = n /\ chunkSize'[p][r] = m
    BY <1>7, <2>2, TakeChunkCuts
  <2>4. Chunks(p)' = {Mark(n, i) : i \in 0 .. k + 1}
    <3>1. 0 .. k + 1 = (0 .. k) \cup {k + 1}
      BY <1>5
    <3> QED BY <1>2, <2>3, <3>1
  <2>5. ASSUME NEW i \in 0 .. (k + 1) - 1 PROVE chunkSize'[p][Mark(n, i)] = n
    <3>1. i \in 0 .. k /\ (i = k \/ i \in 0 .. k - 1)
      BY <1>5
    <3>2. CASE i = k
      BY <2>1, <2>3, <3>2
    <3>3. CASE i # k
      <4>1. Mark(n, i) # c /\ Mark(n, i) \in Chunks(p) /\ S[Mark(n, i)] = n
        BY <1>2, <1>5, <2>1, <3>1, <3>3, MarkFacts
      <4> QED BY <1>3, <4>1
    <3> QED BY <3>2, <3>3
  <2>6. r + ChunkHeader + m = pageSize[p] /\ m \in Nat
    <3>1. Mark(n, k) + ChunkHeader + S[c] = pageSize[p]
      BY <1>2, <2>1 DEF EndOfChunk
    <3>2. r = Mark(n, k) + ChunkHeader + n
      BY <1>5, MarkFacts
    <3>3. S[c] - n > ChunkHeader
      BY <1>7 DEF Splits
    <3> HIDE DEF r
    <3> QED BY <1>1, <1>4, <2>2, <3>1, <3>2, <3>3
  <2>7. k + 1 \in 0 .. pageSize[p]
    <3> HIDE DEF m
    <3> QED BY <1>1, <2>2, <2>6
  <2>8. r \notin Range(allocation'[p])
    BY <1>3, <1>4, <2>3
  <2>9. EndOfChunk(p, r)' = pageSize'[p]
    BY <1>3, <2>3, <2>6 DEF EndOfChunk
  <2> HIDE DEF r, m
  <2>10. /\ k + 1 \in 0 .. pageSize'[p]
         /\ Chunks(p)' = {Mark(n, i) : i \in 0 .. k + 1}
         /\ \A i \in 0 .. (k + 1) - 1 : chunkSize'[p][Mark(n, i)] = n
         /\ EndOfChunk(p, Mark(n, k + 1))' = pageSize'[p]
         /\ Mark(n, k + 1) \notin Range(allocation'[p])
    BY <1>3, <2>4, <2>5, <2>7, <2>8, <2>9 DEF r
  <2> QED BY <2>10 DEF CutFor
<1> QED BY <1>6, <1>7

(* A new page is one chunk, and has room for what its zone is made for.    *)
LEMMA NewPageIsCut ==
  ASSUME NEW n \in Nat, MmapAccepts(n), GetZoneType(n) # "LARGE_ZONE",
         NEW p, zoneType'[p] = GetZoneType(n), pageSize'[p] = TotalSize(n),
         Chunks(p)' = {PageHeader}, allocation'[p] = <<>>,
         chunkSize'[p][PageHeader] = FirstChunkSize(n)
  PROVE  /\ Mark(ZoneLimit(zoneType'[p]), NB_ALLOCATION_ZONE) <= pageSize'[p]
         /\ \A m \in Nat \ {0} : CutFor(p, m)'
<1>1. /\ TotalSize(n) \in Nat /\ FirstChunkSize(n) \in Nat
      /\ PageHeader + ChunkHeader + FirstChunkSize(n) = TotalSize(n)
      /\ PageHeader \in Nat /\ ChunkHeader \in Nat
  BY NewPageFacts, HeaderFacts, ConstantFacts
<1>2. Mark(ZoneLimit(zoneType'[p]), NB_ALLOCATION_ZONE) <= pageSize'[p]
  <2> DEFINE limit == ZoneLimit(zoneType'[p])
             room == (limit + ChunkHeader) * NB_ALLOCATION_ZONE
  <2>1. /\ limit \in Nat /\ limit <= SMALL_ZONE_SIZE /\ NB_ALLOCATION_ZONE \in Nat
        /\ GetZoneFullSize(n) = PageHeader + room
    BY ConstantFacts DEF ZoneLimit, GetZoneType, GetZoneFullSize
  <2>2. FirstChunkSize(n) + ChunkHeader >= room
    BY <2>1, PageHoldsItsZone
  <2>3. room \in Nat
    <3> HIDE DEF limit
    <3> QED BY <1>1, <2>1
  <2>4. Mark(limit, NB_ALLOCATION_ZONE) = PageHeader + room
    BY DEF Mark
  <2> HIDE DEF limit, room
  <2>5. Mark(limit, NB_ALLOCATION_ZONE) <= TotalSize(n)
    BY <1>1, <2>2, <2>3, <2>4
  <2> QED BY <2>5 DEF limit
<1>3. ASSUME NEW m \in Nat \ {0} PROVE CutFor(p, m)'
  <2>1. Mark(m, 0) = PageHeader
    BY MarkFacts
  <2>2. {Mark(m, i) : i \in 0 .. 0} = {PageHeader}
    BY <2>1
  <2>3. 0 \in 0 .. pageSize'[p] /\ 0 .. 0 - 1 = {}
    BY <1>1
  <2>4. EndOfChunk(p, Mark(m, 0))' = pageSize'[p]
    BY <1>1, <2>1 DEF EndOfChunk
  <2>5. Mark(m, 0) \notin Range(allocation'[p])
    BY DEF Range
  <2> QED BY <2>1, <2>2, <2>3, <2>4, <2>5 DEF CutFor
<1> QED BY <1>2, <1>3

(* The sizes the allocator works with, and the one of the request that is  *)
(* under way.                                                              *)
LEMMA RequestFacts ==
  ASSUME NEW z, NEW n \in RequestsOf(z)
  PROVE  n \in Nat \ {0} /\ n % ALIGNMENT = 0 /\ GetZoneType(n) = z
<1>1. PICK size \in ServedSizes : n = AlignUp(size, ALIGNMENT) /\ n # 0 /\ GetZoneType(n) = z
  BY DEF RequestsOf
<1>2. size \in 0 .. SIZE_MAX
  <2>1. SIZE_MAX \in Nat
    BY ConstantFacts
  <2>2. CASE size \in Sizes \cup {0}
    BY <2>1, <2>2, ProgramAssumption
  <2>3. CASE size \notin Sizes \cup {0}
    <3>1. PICK a \in Counts, b \in Sizes : size = a * b % (SIZE_MAX + 1)
      BY <1>1, <2>3 DEF ServedSizes
    <3>2. a \in Nat /\ b \in Nat
      BY <2>1, ProgramAssumption
    <3>3. a * b \in Nat
      BY <3>2
    <3> DEFINE x == a * b
    <3> HIDE DEF x
    <3>4. x % (SIZE_MAX + 1) \in 0 .. SIZE_MAX
      BY <2>1, <3>3 DEF x
    <3> QED BY <3>1, <3>4 DEF x
  <2> QED BY <2>2, <2>3
<1> QED BY <1>1, <1>2, AlignedSizeFacts

LEMMA RequestIsServed ==
  ASSUME NEW t \in Threads, IsServed(t), pc[t] \in {"allocate", "take"}, Aligned(t) # 0
  PROVE  Aligned(t) \in RequestsOf(GetZoneType(Aligned(t)))
BY DEF IsServed, RequestsOf, Aligned

LEMMA ServedStep ==
  ASSUME IInv, NEW t \in Threads, IsServed(t), Act(t)
  PROVE  IsServed(t)'
<1>1. CASE Begin(t)
  <2>1. PICK op, ptr, size, l :
          /\ l = "enter" => size \in ServedSizes
          /\ frame'[t] = [op |-> op, ptr |-> ptr, size |-> size, new |-> NULL,
                         page |-> NULL, chunk |-> 0]
          /\ pc'[t] = l /\ l \in {"enter", "return"}
    BY <1>1, BeginFacts
  <2>2. frame'[t].size = size
    BY <2>1
  <2> QED BY <2>1, <2>2 DEF IsServed
<1>2. CASE Enter(t) \/ ReallocElsewhere(t)
  BY <1>2 DEF Enter, ReallocElsewhere, IsServed
<1>3. CASE FindFreeChunk(t) \/ AddMediumPage(t)
  <2>1. PICK p, c : Found(t, p, c) /\ pc[t] = "allocate"
    BY <1>3 DEF FindFreeChunk, AddMediumPage
  <2>2. frame \in [Threads -> FrameType]
    BY InCall
  <2>3. frame'[t].size = frame[t].size
    BY <2>1, <2>2 DEF Found, FrameType
  <2> QED BY <2>1, <2>3 DEF IsServed
<1> QED BY <1>1, <1>2, <1>3, WhereStepsLead DEF IsServed

(* The pages that are cut stay cut, whatever a step does to the heap.      *)
LEMMA CutIsKept ==
  ASSUME NEW p, zoneType'[p] = zoneType[p], pageSize'[p] = pageSize[p],
         chunkSize'[p] = chunkSize[p], Range(allocation'[p]) \subseteq Range(allocation[p]),
         IsRuler(p)
  PROVE  IsRuler(p)'
<1>1. ASSUME NEW n, CutFor(p, n) PROVE CutFor(p, n)'
  <2>1. PICK k \in 0 .. pageSize[p] :
          /\ Chunks(p) = {Mark(n, i) : i \in 0 .. k}
          /\ \A i \in 0 .. k - 1 : chunkSize[p][Mark(n, i)] = n
          /\ EndOfChunk(p, Mark(n, k)) = pageSize[p]
          /\ Mark(n, k) \in Range(allocation[p]) =>
               chunkSize[p][Mark(n, k)] <= n + ChunkHeader
    BY <1>1 DEF CutFor
  <2>2. /\ Chunks(p)' = {Mark(n, i) : i \in 0 .. k}
        /\ EndOfChunk(p, Mark(n, k))' = pageSize'[p]
        /\ Mark(n, k) \in Range(allocation'[p]) =>
             chunkSize'[p][Mark(n, k)] <= n + ChunkHeader
    BY <2>1 DEF Chunks, EndOfChunk
  <2> QED BY <2>1, <2>2 DEF CutFor
<1> QED BY <1>1 DEF IsRuler

LEMMA RulersStay ==
  ASSUME OneSizePerZone, IInv, ZoneInv, \A p \in mapped : IsRuler(p),
         NEW t \in Threads, IsServed(t), HeapAct(t), NEW q \in mapped'
  PROVE  IsRuler(q)'
<1>1. HeapInv /\ mapped \subseteq Pages
  BY Parts DEF HeapTypeOK
<1>2. ASSUME NEW p, OtherPagesStay(p), q # p, q \in mapped
      PROVE  IsRuler(q)'
  BY <1>1, <1>2, CutIsKept DEF OtherPagesStay
<1>3. CASE AddMediumPage(t)
  <2>1. PICK p : /\ OtherPagesStay(p) /\ mapped' = mapped \cup {p}
                 /\ zoneType'[p] = GetZoneType(Aligned(t))
                 /\ Chunks(p)' = {PageHeader} /\ allocation'[p] = <<>>
                 /\ chunkSize'[p][PageHeader] = FirstChunkSize(Aligned(t))
                 /\ pageSize'[p] = TotalSize(Aligned(t))
                 /\ Aligned(t) \in Nat /\ MmapAccepts(Aligned(t))
                 /\ GetZoneType(Aligned(t)) # "LARGE_ZONE"
    BY <1>3, AddMediumPageEffect
  <2>2. /\ Mark(ZoneLimit(zoneType'[p]), NB_ALLOCATION_ZONE) <= pageSize'[p]
        /\ \A m \in Nat \ {0} : CutFor(p, m)'
    BY <2>1, NewPageIsCut
  <2>3. \A m \in RequestsOf(zoneType'[p]) : m \in Nat \ {0}
    BY RequestFacts
  <2>4. IsRuler(p)'
    BY <2>2, <2>3 DEF IsRuler
  <2> QED BY <1>2, <2>1, <2>4
<1>4. CASE AddLargePage(t)
  <2>1. PICK p : /\ OtherPagesStay(p) /\ mapped' = mapped \cup {p}
                 /\ zoneType'[p] = "LARGE_ZONE"
    BY <1>4, AddLargePageEffect
  <2>2. IsRuler(p)'
    BY <2>1 DEF IsRuler
  <2> QED BY <1>2, <2>1, <2>2
<1>5. CASE TakeFoundChunk(t)
  <2> PICK p, c, n : p = frame[t].page /\ c = frame[t].chunk /\ n = Aligned(t)
    OBVIOUS
  <2>1. /\ p \in mapped /\ c \in Range(free[p]) /\ OtherPagesStay(p)
        /\ mapped' = mapped /\ zoneType' = zoneType
        /\ n \in Nat /\ n % ALIGNMENT = 0 /\ n <= chunkSize[p][c]
        /\ TakeChunk(p, c, n) /\ pc[t] = "take"
    BY <1>5, TakeFoundChunkEffect
  <2>2. /\ n # 0 /\ zoneType[p] = GetZoneType(n) /\ zoneType[p] # "LARGE_ZONE"
    BY <2>1 DEF ZoneInv, FindingSuitsRequest
  <2>3. n \in RequestsOf(zoneType[p])
    BY <2>1, <2>2, RequestIsServed
  <2>4. zoneType[p] \in MediumZones
    BY <2>2 DEF GetZoneType, MediumZones
  <2>5. \A m \in RequestsOf(zoneType[p]) : m = n
    BY <2>3, <2>4 DEF OneSizePerZone
  <2>6. CutFor(p, n)
    BY <2>1, <2>2, <2>3 DEF IsRuler
  <2>7. CutFor(p, n)' /\ pageSize' = pageSize
    BY <1>1, <2>1, <2>2, <2>6, TakeChunkKeepsCut, TakeChunkCuts
  <2>8. IsRuler(p)'
    BY <2>1, <2>2, <2>5, <2>7 DEF IsRuler
  <2> QED BY <1>2, <2>1, <2>8
<1>6. CASE Survives(t) /\ FreePage(t)
  BY <1>2, <1>6, FreePageEffect
<1>7. CASE Survives(t) /\ FreeChunk(t)
  <2> PICK p : p = PageOf(frame[t].ptr)
    OBVIOUS
  <2>1. /\ OtherPagesStay(p) /\ UNCHANGED <<mapped, zoneType, pageSize, chunkSize>>
        /\ Range(allocation'[p]) \subseteq Range(allocation[p])
    BY <1>7, FreeChunkEffect
  <2>2. CASE q = p
    BY <2>1, <2>2, CutIsKept
  <2> QED BY <1>2, <2>1, <2>2
<1>8. CASE ReleasePage(t)
  BY <1>2, <1>8, ReleasePageEffect
<1> QED BY <1>3, <1>4, <1>5, <1>6, <1>7, <1>8 DEF HeapAct

LEMMA CapacityStep ==
  ASSUME OneSizePerZone, IInv, ZoneInv, CapacityInv, [Next]_vars
  PROVE  CapacityInv'
<1>1. (\A t \in Threads : IsServed(t)) /\ (\A p \in mapped : IsRuler(p))
  BY DEF CapacityInv
<1>2. ASSUME UNCHANGED heapVars PROVE \A p \in mapped' : IsRuler(p)'
  BY <1>1, <1>2 DEF IsRuler, CutFor, Chunks, EndOfChunk, heapVars
<1>3. CASE UNCHANGED vars
  <2>1. UNCHANGED <<heapVars, pc, frame>>
    BY <1>3 DEF vars
  <2>2. \A t \in Threads : IsServed(t)'
    BY <1>1, <2>1 DEF IsServed
  <2> QED BY <1>2, <2>1, <2>2 DEF CapacityInv
<1>4. ASSUME NEW t \in Threads, Fault(t) PROVE CapacityInv'
  <2>1. UNCHANGED heapVars /\ \A u \in Threads : pc'[u] = "killed"
    BY <1>4 DEF Fault
  <2>2. \A u \in Threads : IsServed(u)'
    BY <2>1 DEF IsServed
  <2> QED BY <1>2, <2>1, <2>2 DEF CapacityInv
<1>5. ASSUME NEW t \in Threads, Act(t) PROVE CapacityInv'
  <2>1. \A p \in mapped' : IsRuler(p)'
    BY <1>1, <1>2, <1>5, HeapChangesHere, RulersStay
  <2>2. IsServed(t)'
    BY <1>1, <1>5, ServedStep
  <2>3. \A u \in Threads \ {t} : IsServed(u)'
    BY <1>1, <1>5, OthersWait DEF IsServed
  <2> QED BY <2>1, <2>2, <2>3 DEF CapacityInv
<1> QED BY <1>3, <1>4, <1>5, StepIsAct

(* A list of pages grows only by the page that is mapped for a request     *)
(* that no page of the list has a chunk for.                               *)
LEMMA ListsGrowByNewPages ==
  ASSUME IInv, [Next]_vars, NEW z \in MediumZones, Len(zone'[z]) > Len(zone[z])
  PROVE  \E t \in Threads :
           /\ pc[t] = "allocate" /\ Aligned(t) # 0
           /\ z = GetZoneType(Aligned(t)) /\ NoPageFits(z, Aligned(t))
<1>1. /\ HeapInv /\ HeapTypeOK /\ ZonesLinkMappedPages
      /\ z \in ZoneTypes /\ z # "LARGE_ZONE"
  BY Parts DEF HeapInv, MediumZones, ZoneTypes
<1>2. zone[z] \in Seq(Pages) /\ Len(zone[z]) \in Nat /\ zone \in [ZoneTypes -> Seq(Pages)]
  BY <1>1 DEF HeapTypeOK
<1>3. zone'[z] # zone[z]
  BY <1>2
<1>4. PICK t \in Threads : HeapAct(t)
  <2>1. ~ UNCHANGED heapVars
    BY <1>3 DEF heapVars
  <2>2. ~ UNCHANGED vars /\ ~ \E t \in Threads : Fault(t)
    BY <2>1 DEF vars, Fault
  <2> QED BY <2>1, <2>2, StepIsAct, HeapChangesHere
<1>5. frame[t] \in FrameType
  BY InCall
<1>6. ~ (TakeFoundChunk(t) \/ FreeChunk(t))
  BY <1>3 DEF TakeFoundChunk, TakeChunk, FreeChunk, PutChunk
<1>7. ASSUME NEW p \in mapped, UnmapPage(p) PROVE FALSE
  <2>1. zone' = [zone EXCEPT ![zoneType[p]] = RemoveFirst(@, p)]
    BY <1>7 DEF UnmapPage
  <2>2. z = zoneType[p] /\ zone'[z] = RemoveFirst(zone[z], p)
    BY <1>2, <1>3, <2>1, <1>1
  <2>3. p \in Range(zone[z]) /\ IsInjective(zone[z])
    BY <1>1, <2>2 DEF ZonesLinkMappedPages
  <2>4. Len(zone'[z]) = Len(zone[z]) - 1
    BY <1>2, <2>2, <2>3, RemoveFirstUnlinks
  <2> QED BY <1>2, <2>4
<1>8. ~ (Survives(t) /\ FreePage(t))
  <2>1. SUFFICES ASSUME Survives(t), FreePage(t) PROVE FALSE
    OBVIOUS
  <2>2. pc[t] = "free" /\ frame[t].ptr # NULL /\ UnmapPage(PageOf(frame[t].ptr))
    BY <2>1 DEF FreePage
  <2>3. PageOf(frame[t].ptr) \in mapped
    BY <2>1, <2>2, FreedBlockFacts
  <2> QED BY <1>7, <2>2, <2>3
<1>9. ~ ReleasePage(t)
  <2>1. SUFFICES ASSUME ReleasePage(t) PROVE FALSE
    OBVIOUS
  <2>2. UnmapPage(frame[t].page) /\ frame[t].page \in mapped
    BY <2>1, ReleasePageEffect DEF ReleasePage
  <2> QED BY <1>7, <2>2
<1>10. ASSUME NEW p, zone' = [zone EXCEPT ![Destination(t)] = Cons(p, @)],
              Aligned(t) # 0
       PROVE  z = GetZoneType(Aligned(t))
  <2>1. z = Destination(t)
    BY <1>2, <1>3, <1>10, <1>1
  <2> QED BY <1>5, <1>10, <2>1, DestinationFacts
<1>11. ~ AddLargePage(t)
  <2>1. SUFFICES ASSUME AddLargePage(t) PROVE FALSE
    OBVIOUS
  <2>2. /\ GetZoneType(Aligned(t)) = "LARGE_ZONE"
        /\ \E p : zone' = [zone EXCEPT ![Destination(t)] = Cons(p, @)]
    BY <2>1 DEF AddLargePage, MapLargePage, MapPage
  <2>3. Aligned(t) # 0
    BY <2>2, ConstantFacts DEF GetZoneType
  <2> QED BY <1>1, <1>10, <2>2, <2>3
<1>12. AddMediumPage(t)
  BY <1>4, <1>6, <1>8, <1>9, <1>11 DEF HeapAct
<1>13. /\ pc[t] = "allocate" /\ Aligned(t) # 0
       /\ NoPageFits(Destination(t), Aligned(t))
       /\ \E p : zone' = [zone EXCEPT ![Destination(t)] = Cons(p, @)]
  BY <1>12 DEF AddMediumPage, MapMediumPage, MapPage
<1> QED BY <1>5, <1>10, <1>13, DestinationFacts

LEMMA FullBeforeNewPage ==
  ASSUME IInv, CapacityInv, [Next]_vars, NEW z \in MediumZones,
         Len(zone'[z]) > Len(zone[z]), NEW p \in Range(zone[z])
  PROVE  Len(allocation[p]) >= NB_ALLOCATION_ZONE
<1>1. PICK t \in Threads :
        /\ pc[t] = "allocate" /\ Aligned(t) # 0
        /\ z = GetZoneType(Aligned(t)) /\ NoPageFits(z, Aligned(t))
  BY ListsGrowByNewPages
<1> DEFINE n == Aligned(t)
<1>2. HeapInv /\ p \in mapped /\ zoneType[p] = z /\ z # "LARGE_ZONE"
  BY Parts DEF HeapInv, ZonesLinkMappedPages, MediumZones, ZoneTypes
<1>3. IsServed(t) /\ IsRuler(p)
  BY <1>2 DEF CapacityInv
<1>4. n \in RequestsOf(z)
  BY <1>1, <1>3, RequestIsServed
<1>5. n \in Nat \ {0} /\ CutFor(p, n) /\ ~ HasChunk(p, n)
      /\ Mark(ZoneLimit(z), NB_ALLOCATION_ZONE) <= pageSize[p]
  BY <1>1, <1>2, <1>3, <1>4, RequestFacts DEF IsRuler, NoPageFits
<1>6. ZoneLimit(z) \in Nat /\ n <= ZoneLimit(z)
  BY <1>1, <1>2, <1>5, ConstantFacts DEF ZoneLimit, GetZoneType
<1> QED BY <1>2, <1>5, <1>6, FullPage

(* However the calls interleave, every page of a zone is cut like a ruler. *)
THEOREM CapacityInvariance ==
  ASSUME OneSizePerZone
  PROVE  Spec => [](IInv /\ ZoneInv /\ CapacityInv)
<1>1. Init => CapacityInv
  BY DEF Init, HeapInit, CapacityInv, IsServed
<1>2. IInv /\ ZoneInv /\ CapacityInv /\ [Next]_vars => CapacityInv'
  BY CapacityStep
<1> QED BY <1>1, <1>2, ZoneInvariance, InitInv, NextInv, PTL DEF Spec

(* A program that asks for blocks of one size in each zone gets another    *)
(* page of the zone only when each page it has holds NB_ALLOCATION_ZONE    *)
(* blocks.                                                                 *)
THEOREM PagesFillUp ==
  ASSUME OneSizePerZone
  PROVE  Spec => NewPageOnlyWhenFull
<1>1. IInv /\ ZoneInv /\ CapacityInv /\ [Next]_vars =>
        [\A z \in MediumZones :
           Len(zone'[z]) > Len(zone[z]) =>
             \A p \in Range(zone[z]) :
               Len(allocation[p]) >= NB_ALLOCATION_ZONE]_vars
  BY FullBeforeNewPage
<1> QED BY <1>1, CapacityInvariance, PTL DEF Spec, NewPageOnlyWhenFull

-----------------------------------------------------------------------------
(* Programs that stay below the limit of the SMALL zone.                   *)

(* A chunk that is taken is at most a header larger than the request, and  *)
(* a TINY request is more than a header below the limit.                   *)
LEMMA FiledRightStep ==
  ASSUME StaysBelowLimit, IInv, ZoneInv, BlocksAreFiledRight,
         NEW t \in Threads, IsServed(t), HeapAct(t)
  PROVE  BlocksAreFiledRight'
<1> DEFINE FiledRight(q) ==
             zoneType[q] # "LARGE_ZONE" =>
               \A c \in Range(allocation[q]) : chunkSize[q][c] <= SMALL_ZONE_SIZE
<1>1. (\A q \in mapped : FiledRight(q)) /\ HeapInv /\ mapped \subseteq Pages
  BY Parts DEF BlocksAreFiledRight, HeapTypeOK
<1>2. ASSUME NEW p, OtherPagesStay(p), NEW q \in mapped, q # p
      PROVE  FiledRight(q)'
  BY <1>1, <1>2 DEF OtherPagesStay
<1>3. ASSUME NEW q \in mapped' PROVE FiledRight(q)'
  <2>1. CASE AddMediumPage(t)
    <3>1. PICK p : /\ OtherPagesStay(p) /\ mapped' = mapped \cup {p}
                   /\ allocation'[p] = <<>>
      BY <2>1, AddMediumPageEffect
    <3>2. Range(<<>>) = {}
      BY DEF Range
    <3> QED BY <1>2, <1>3, <3>1, <3>2
  <2>2. CASE AddLargePage(t)
    <3>1. PICK p : /\ OtherPagesStay(p) /\ mapped' = mapped \cup {p}
                   /\ zoneType'[p] = "LARGE_ZONE"
      BY <2>2, AddLargePageEffect
    <3> QED BY <1>2, <1>3, <3>1
  <2>3. CASE TakeFoundChunk(t)
    <3>0. PICK p, c, n : p = frame[t].page /\ c = frame[t].chunk /\ n = Aligned(t)
      OBVIOUS
    <3>1. /\ OtherPagesStay(p) /\ mapped' = mapped /\ zoneType' = zoneType
          /\ p \in mapped /\ n \in Nat
          /\ Range(allocation'[p]) = Range(allocation[p]) \cup {c}
          /\ chunkSize'[p][c] \in n .. n + ChunkHeader
          /\ \A d \in Chunks(p) \ {c} : chunkSize'[p][d] = chunkSize[p][d]
          /\ pc[t] = "take"
      BY <2>3, <3>0, TakeFoundChunkEffect
    <3>2. /\ n # 0 /\ zoneType[p] = GetZoneType(n) /\ zoneType[p] # "LARGE_ZONE"
      BY <3>0, <3>1 DEF ZoneInv, FindingSuitsRequest
    <3>3. n \in RequestsOf(GetZoneType(n))
      BY <3>0, <3>1, <3>2, RequestIsServed
    <3>4. n + ChunkHeader <= SMALL_ZONE_SIZE
      <4>1. CASE GetZoneType(n) = "SMALL_ZONE"
        BY <3>3, <4>1 DEF StaysBelowLimit
      <4>2. CASE GetZoneType(n) # "SMALL_ZONE"
        <5>1. n <= TINY_ZONE_SIZE
          BY <3>2, <4>2 DEF GetZoneType
        <5> QED BY <3>1, <5>1, ConstantFacts, HeaderFacts
      <4> QED BY <4>1, <4>2
    <3>5. chunkSize'[p][c] <= SMALL_ZONE_SIZE
      BY <3>1, <3>4, ConstantFacts, HeaderFacts
    <3>6. Range(allocation[p]) \subseteq Chunks(p)
      BY <1>1, <3>1, PageFacts DEF ListedOnce
    <3>7. FiledRight(p)'
      BY <1>1, <3>1, <3>2, <3>5, <3>6
    <3> QED BY <1>2, <1>3, <3>1, <3>7
  <2>4. CASE Survives(t) /\ FreePage(t)
    BY <1>2, <1>3, <2>4, FreePageEffect
  <2>5. CASE Survives(t) /\ FreeChunk(t)
    <3>0. PICK p : p = PageOf(frame[t].ptr)
      OBVIOUS
    <3>1. /\ OtherPagesStay(p) /\ UNCHANGED <<mapped, zoneType, chunkSize>>
          /\ Range(allocation'[p]) \subseteq Range(allocation[p])
      BY <2>5, <3>0, FreeChunkEffect
    <3> QED BY <1>1, <1>2, <1>3, <3>1
  <2>6. CASE ReleasePage(t)
    BY <1>2, <1>3, <2>6, ReleasePageEffect
  <2> QED BY <2>1, <2>2, <2>3, <2>4, <2>5, <2>6 DEF HeapAct
<1> QED BY <1>3 DEF BlocksAreFiledRight

(* So no block is freed with its page while the page has others.           *)
LEMMA NothingIsLost ==
  ASSUME IInv, ZoneInv, BlocksAreFiledRight, [Next]_vars,
         NEW p \in mapped \ mapped', NEW ptr \in DOMAIN owned'
  PROVE  PageOf(ptr) # p
<1>1. SUFFICES ASSUME PageOf(ptr) = p PROVE FALSE
  OBVIOUS
<1>2. PICK x \in DOMAIN owned :
        /\ zoneType[p] = "SMALL_ZONE" /\ PageOf(x) = p
        /\ SizeOfChunk(x) > SMALL_ZONE_SIZE
  BY <1>1, LostPages
<1>3. ChunkOf(x) \in Range(allocation[p]) /\ SizeOfChunk(x) \in Nat
  BY <1>2, Parts, OwnedChunkFacts DEF HeapTypeOK
<1>4. SizeOfChunk(x) <= SMALL_ZONE_SIZE
  BY <1>2, <1>3 DEF BlocksAreFiledRight, SizeOfChunk
<1> QED BY <1>2, <1>3, <1>4, ConstantFacts

(* A new block is in a mapped page, and no page goes from under an old one.*)
LEMMA MappedStep ==
  ASSUME IInv, ZoneInv, MappedInv, NEW t \in Threads, Act(t)
  PROVE  BlocksAreMapped'
<1>1. BlocksAreMapped /\ BlocksAreFiledRight /\ [Next]_vars
  BY DEF MappedInv, Act, Next
<1>2. ASSUME NEW x \in DOMAIN owned', x \in DOMAIN owned
      PROVE  PageOf(x) \in mapped'
  BY <1>1, <1>2, NothingIsLost DEF BlocksAreMapped
<1>3. ASSUME NEW x \in DOMAIN owned', x \notin DOMAIN owned
      PROVE  PageOf(x) \in mapped'
  <2>1. CASE TakeFoundChunk(t)
    <3>0. PICK p, c : p = frame[t].page /\ c = frame[t].chunk
      OBVIOUS
    <3>1. /\ p \in mapped /\ mapped' = mapped
          /\ BlockOf(p, c) \in Blocks \ DOMAIN owned /\ PageOf(BlockOf(p, c)) = p
          /\ Give(t, BlockOf(p, c))
      BY <2>1, <3>0, TakeFoundChunkEffect
    <3> QED BY <1>3, <3>1, GiveEffect, ZenonT(60)
  <2>2. CASE AddLargePage(t)
    <3>1. PICK p : /\ mapped' = mapped \cup {p}
                   /\ BlockOf(p, PageHeader) \in Blocks \ DOMAIN owned
                   /\ PageOf(BlockOf(p, PageHeader)) = p
                   /\ Give(t, BlockOf(p, PageHeader))
      BY <2>2, AddLargePageEffect
    <3> QED BY <1>3, <3>1, GiveEffect, ZenonT(60)
  <2>3. CASE Survives(t) /\ (FreePage(t) \/ FreeChunk(t))
    <3>1. DOMAIN owned' = DOMAIN owned \ {frame[t].ptr}
      BY <2>3, FreedContents
    <3> QED BY <1>3, <3>1
  <2>4. CASE Begin(t)
    BY <1>3, <2>4, PassFacts
  <2>5. CASE ReturnNewBlock(t) \/ ReturnReallocated(t) \/ ReturnNull(t)
    BY <1>3, <2>5, ReturnFacts
  <2> QED BY <1>3, <2>1, <2>2, <2>3, <2>4, <2>5, BlocksChangeHere
<1> QED BY <1>2, <1>3 DEF BlocksAreMapped

(* A call touches only blocks of the program.                              *)
LEMMA NobodyFaults ==
  ASSUME IInv, BlocksAreMapped, NEW t \in Threads
  PROVE  ~ Fault(t)
<1>1. Touches(t) # NULL => Touches(t) \in DOMAIN owned
  <2>1. Holding(t) /\ InStep(t)
    BY InCall
  <2> QED BY <2>1, ResultIsHeld DEF Touches, Holding, Answers, HeldBy
<1> QED BY <1>1 DEF Fault, Survives, BlocksAreMapped

(* A program that asks for no block within a header of the limit of the    *)
(* SMALL zone has all its blocks in mapped pages, however its calls        *)
(* interleave and whatever fails: none of its threads is killed in the     *)
(* allocator or when it uses a block.                                      *)
THEOREM BlocksStayMapped ==
  ASSUME StaysBelowLimit
  PROVE  Spec => [](IInv /\ ZoneInv /\ MappedInv)
<1>1. Init => MappedInv
  BY DEF Init, HeapInit, MappedInv, IsServed, BlocksAreFiledRight, BlocksAreMapped,
     NobodyIsKilled
<1>2. IInv /\ ZoneInv /\ MappedInv /\ [Next]_vars => MappedInv'
  <2> SUFFICES ASSUME IInv, ZoneInv, MappedInv, [Next]_vars PROVE MappedInv'
    OBVIOUS
  <2>1. CASE UNCHANGED vars
    BY <2>1 DEF vars, heapVars, MappedInv, IsServed, BlocksAreFiledRight,
       BlocksAreMapped, NobodyIsKilled
  <2>2. ASSUME NEW t \in Threads, Act(t) PROVE MappedInv'
    <3>1. /\ \A u \in Threads : IsServed(u) /\ pc[u] # "killed"
          /\ BlocksAreFiledRight
      BY DEF MappedInv, NobodyIsKilled
    <3>2. \A u \in Threads : IsServed(u)' /\ pc'[u] # "killed"
      BY <2>2, <3>1, ServedStep, OthersWait DEF IsServed
    <3>3. BlocksAreFiledRight'
      <4>1. CASE UNCHANGED heapVars
        BY <3>1, <4>1 DEF BlocksAreFiledRight, heapVars
      <4>2. CASE HeapAct(t)
        BY <3>1, <4>2, FiledRightStep
      <4> QED BY <2>2, <4>1, <4>2, HeapChangesHere
    <3>4. BlocksAreMapped'
      BY <2>2, MappedStep
    <3> QED BY <3>2, <3>3, <3>4 DEF MappedInv, NobodyIsKilled
  <2>3. ~ \E t \in Threads : Fault(t)
    BY NobodyFaults DEF MappedInv
  <2> QED BY <2>1, <2>2, <2>3, StepIsAct
<1> QED BY <1>1, <1>2, ZoneInvariance, InitInv, NextInv, PTL DEF Spec

(* No step takes the mapping away from under a block such a program holds. *)
THEOREM MappingsStay ==
  ASSUME StaysBelowLimit
  PROVE  Spec => NoBlockIsUnmapped
<1>1. IInv /\ ZoneInv /\ MappedInv /\ [Next]_vars =>
        [\A p \in mapped \ mapped' : \A ptr \in DOMAIN owned' : PageOf(ptr) # p]_vars
  BY NothingIsLost DEF MappedInv
<1> QED BY <1>1, BlocksStayMapped, PTL DEF Spec, NoBlockIsUnmapped

(* What such a program put into a block is there when it looks again,      *)
(* whatever the other threads did meanwhile: only free destroys it, realloc*)
(* moves it, in full or as far as the new size goes, and the block of      *)
(* calloc is zero.                                                         *)
THEOREM ContentsStay ==
  ASSUME RequestsFit, StaysBelowLimit
  PROVE  Spec => []ContentsAreKept
<1>1. ContentInv /\ BlocksAreMapped => ContentsAreKept
  BY DEF ContentInv, ContentsAreKept, Filling, Keeps, BlocksAreMapped
<1> QED BY <1>1, BlocksInvariance, BlocksStayMapped, PTL DEF BlocksInv, MappedInv
=============================================================================
