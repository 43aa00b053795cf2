---------------------------- MODULE MallocProofs ----------------------------
(***************************************************************************)
(* IInv is inductive, for every program, every number of threads and pages *)
(* and every value of the constants: each step of each call keeps it.      *)
(***************************************************************************)
EXTENDS MallocInvariant, GeometryLemmas, ListLemmas

-----------------------------------------------------------------------------
(* THE HEAP.  Every operation of module Heap keeps the lists and the tiling*)
(* (HeapInv), in every state of the heap.                                  *)

(* What the tiling says of one page.                                       *)
Tiled(p) ==
  /\ PageHeader \in Chunks(p)
  /\ \A c \in Chunks(p) :
       /\ c >= PageHeader
       /\ c % ALIGNMENT = 0
       /\ chunkSize[p][c] > 0
       /\ EndOfChunk(p, c) = pageSize[p] \/ EndOfChunk(p, c) \in Chunks(p)
       /\ \A d \in Chunks(p) : d > c => d >= EndOfChunk(p, c)
       /\ EndOfChunk(p, c) <= pageSize[p]

LEMMA HeapInitInv == HeapInit => HeapInv
<1> SUFFICES ASSUME HeapInit PROVE HeapInv
  OBVIOUS
<1> USE DEF HeapInit
<1>1. HeapTypeOK
  BY ConstantFacts DEF HeapTypeOK, ZoneTypes
<1>2. ZonesLinkMappedPages
  BY DEF ZonesLinkMappedPages, IsInjective, Range
<1>3. UnmappedPagesAreBlank
  BY DEF UnmappedPagesAreBlank, Chunks
<1>4. ChunksAreListedOnce
  BY DEF ChunksAreListedOnce, Chunks, IsInjective, Range
<1>5. ChunksTilePage
  BY DEF ChunksTilePage
<1> QED BY <1>1, <1>2, <1>3, <1>4, <1>5 DEF HeapInv

-----------------------------------------------------------------------------
(* A list that is linked to a new page.                                    *)
LEMMA LinkPage ==
  ASSUME HeapInv, NEW p \in Pages \ mapped, NEW z \in ZoneTypes,
         mapped' = mapped \cup {p},
         zone' = [zone EXCEPT ![z] = Cons(p, @)],
         zoneType' = [zoneType EXCEPT ![p] = z]
  PROVE  /\ zone' \in [ZoneTypes -> Seq(Pages)]
         /\ ZonesLinkMappedPages'
<1>1. /\ zone \in [ZoneTypes -> Seq(Pages)] /\ zoneType \in [Pages -> ZoneTypes]
      /\ ZonesLinkMappedPages /\ mapped \subseteq Pages
  BY DEF HeapInv, HeapTypeOK
<1>2. zone[z] \in Seq(Pages) /\ IsInjective(zone[z]) /\ p \notin Range(zone[z])
  BY <1>1 DEF ZonesLinkMappedPages
<1>3. /\ Cons(p, zone[z]) \in Seq(Pages)
      /\ IsInjective(Cons(p, zone[z]))
      /\ Range(Cons(p, zone[z])) = Range(zone[z]) \cup {p}
  BY <1>2, ConsIsPushFront
<1>4. /\ zone'[z] = Cons(p, zone[z])
      /\ \A y \in ZoneTypes \ {z} : zone'[y] = zone[y]
      /\ zoneType'[p] = z
      /\ \A q \in Pages \ {p} : zoneType'[q] = zoneType[q]
  BY <1>1
<1>5. zone' \in [ZoneTypes -> Seq(Pages)]
  BY <1>1, <1>3
<1>6. \A y \in ZoneTypes : IsInjective(zone'[y])
  BY <1>1, <1>3, <1>4 DEF ZonesLinkMappedPages
<1>7. \A y \in ZoneTypes : \A q \in Range(zone'[y]) :
        q \in mapped' /\ zoneType'[q] = y
  BY <1>1, <1>3, <1>4 DEF ZonesLinkMappedPages
<1>8. \A q \in mapped' : q \in Range(zone'[zoneType'[q]])
  BY <1>1, <1>3, <1>4 DEF ZonesLinkMappedPages
<1> QED BY <1>5, <1>6, <1>7, <1>8 DEF ZonesLinkMappedPages

(* allocate_page and push_front_page.                                      *)
LEMMA MapPageInv ==
  ASSUME HeapInv, NEW p \in Pages \ mapped, NEW n \in Nat, MmapAccepts(n),
         MapMediumPage(p, n, GetZoneType(n)) \/ MapLargePage(p, n, GetZoneType(n))
  PROVE  HeapInv'
<1> DEFINE z == GetZoneType(n)
<1> USE DEF MapPage
<1>1. z \in ZoneTypes
  BY DEF GetZoneType, ZoneTypes
<1>2. /\ mapped' = mapped \cup {p}
      /\ zone' = [zone EXCEPT ![z] = Cons(p, @)]
      /\ zoneType' = [zoneType EXCEPT ![p] = z]
      /\ pageSize' = [pageSize EXCEPT ![p] = TotalSize(n)]
      /\ chunkSize' = [chunkSize EXCEPT ![p] =
                                    [c \in {PageHeader} |-> FirstChunkSize(n)]]
  BY DEF MapMediumPage, MapLargePage
<1>3. /\ HeapTypeOK /\ ZonesLinkMappedPages /\ UnmappedPagesAreBlank
      /\ ChunksAreListedOnce /\ ChunksTilePage
  BY DEF HeapInv
<1>4. /\ allocation[p] = <<>> /\ free[p] = <<>>
      /\ PageHeader \in Nat /\ PageHeader % ALIGNMENT = 0
      /\ TotalSize(n) \in 0 .. MMAP_MAX + PAGE_SIZE
      /\ FirstChunkSize(n) \in Nat /\ FirstChunkSize(n) > 0
      /\ PageHeader + ChunkHeader + FirstChunkSize(n) = TotalSize(n)
  BY <1>3, HeaderFacts, NewPageFacts DEF UnmappedPagesAreBlank
<1> HIDE DEF z, MapPage
<1>5. zone' \in [ZoneTypes -> Seq(Pages)] /\ ZonesLinkMappedPages'
  BY <1>1, <1>2, LinkPage
<1>6. \/ /\ free' = [free EXCEPT ![p] = <<PageHeader>>]
         /\ allocation' = allocation
      \/ /\ allocation' = [allocation EXCEPT ![p] = <<PageHeader>>]
         /\ free' = free
  BY DEF MapMediumPage, MapLargePage
<1>7. /\ chunkSize'[p] = [c \in {PageHeader} |-> FirstChunkSize(n)]
      /\ \A q \in Pages \ {p} : chunkSize'[q] = chunkSize[q]
      /\ pageSize'[p] = TotalSize(n)
      /\ \A q \in Pages \ {p} : pageSize'[q] = pageSize[q]
  BY <1>2, <1>3 DEF HeapTypeOK
<1>8. HeapTypeOK'
  <2>1. mapped' \subseteq Pages /\ zoneType' \in [Pages -> ZoneTypes]
    BY <1>1, <1>2, <1>3 DEF HeapTypeOK
  <2>2. pageSize' \in [Pages -> 0 .. MMAP_MAX + PAGE_SIZE]
    BY <1>2, <1>3, <1>4 DEF HeapTypeOK
  <2>3. allocation' \in [Pages -> Seq(Nat)] /\ free' \in [Pages -> Seq(Nat)]
    <3>1. <<PageHeader>> \in Seq(Nat)
      BY <1>4
    <3> QED BY <3>1, <1>3, <1>6 DEF HeapTypeOK
  <2>4. /\ DOMAIN chunkSize' = Pages
        /\ \A q \in Pages :
             /\ DOMAIN chunkSize'[q] \subseteq Nat
             /\ \A c \in DOMAIN chunkSize'[q] : chunkSize'[q][c] \in Nat
    BY <1>2, <1>3, <1>4, <1>7 DEF HeapTypeOK
  <2> QED BY <1>5, <2>1, <2>2, <2>3, <2>4 DEF HeapTypeOK
<1>9. UnmappedPagesAreBlank'
  BY <1>2, <1>3, <1>6, <1>7 DEF UnmappedPagesAreBlank, Chunks, HeapTypeOK
<1>10. ChunksAreListedOnce'
  <2>1. SUFFICES ASSUME NEW q \in Pages
        PROVE  /\ IsInjective(allocation'[q]) /\ IsInjective(free'[q])
               /\ Range(allocation'[q]) \cap Range(free'[q]) = {}
               /\ Range(allocation'[q]) \cup Range(free'[q]) = DOMAIN chunkSize'[q]
    BY DEF ChunksAreListedOnce, Chunks
  <2>2. CASE q # p
    <3>1. /\ allocation'[q] = allocation[q] /\ free'[q] = free[q]
          /\ chunkSize'[q] = chunkSize[q]
      BY <1>3, <1>6, <1>7, <2>2 DEF HeapTypeOK
    <3> QED BY <3>1, <1>3 DEF ChunksAreListedOnce, Chunks
  <2>3. CASE q = p
    <3>1. /\ IsInjective(<<>>) /\ Range(<<>>) = {}
          /\ IsInjective(<<PageHeader>>) /\ Range(<<PageHeader>>) = {PageHeader}
      BY DEF IsInjective, Range
    <3>2. \/ allocation'[q] = <<>> /\ free'[q] = <<PageHeader>>
          \/ allocation'[q] = <<PageHeader>> /\ free'[q] = <<>>
      BY <1>3, <1>4, <1>6, <2>3 DEF HeapTypeOK
    <3>3. DOMAIN chunkSize'[q] = {PageHeader}
      BY <1>7, <2>3
    <3> QED BY <3>1, <3>2, <3>3
  <2> QED BY <2>2, <2>3
<1>11. ChunksTilePage'
  <2>1. SUFFICES ASSUME NEW q \in mapped' PROVE Tiled(q)'
    BY DEF ChunksTilePage, Tiled
  <2>2. CASE q # p
    <3>1. q \in mapped /\ q \in Pages
      BY <1>2, <1>3, <2>2 DEF HeapTypeOK
    <3>2. chunkSize'[q] = chunkSize[q] /\ pageSize'[q] = pageSize[q]
      BY <1>7, <2>2, <3>1
    <3>3. Tiled(q)
      BY <1>3, <3>1 DEF ChunksTilePage, Tiled
    <3> QED BY <3>2, <3>3 DEF Tiled, Chunks, EndOfChunk
  <2>3. CASE q = p
    <3>1. /\ DOMAIN chunkSize'[q] = {PageHeader}
          /\ chunkSize'[q][PageHeader] = FirstChunkSize(n)
          /\ pageSize'[q] = TotalSize(n)
      BY <1>7, <2>3
    <3>2. PageHeader + ChunkHeader + chunkSize'[q][PageHeader] = pageSize'[q]
      BY <1>4, <3>1
    <3> QED BY <1>4, <3>1, <3>2, HeaderFacts DEF Tiled, Chunks, EndOfChunk
  <2> QED BY <2>2, <2>3
<1> QED BY <1>5, <1>8, <1>9, <1>10, <1>11 DEF HeapInv

-----------------------------------------------------------------------------
(* The steps that only move and cut chunks: the pages and the zones stay.  *)

(* What the invariants say of the chunks of one page.                      *)
ListedOnce(p) ==
  /\ IsInjective(allocation[p]) /\ IsInjective(free[p])
  /\ Range(allocation[p]) \cap Range(free[p]) = {}
  /\ Range(allocation[p]) \cup Range(free[p]) = Chunks(p)

ChunkTypes(p) ==
  /\ allocation[p] \in Seq(Nat) /\ free[p] \in Seq(Nat)
  /\ Chunks(p) \subseteq Nat
  /\ \A c \in Chunks(p) : chunkSize[p][c] \in Nat

LEMMA PageFacts ==
  ASSUME HeapInv, NEW p \in mapped
  PROVE  /\ p \in Pages /\ ChunkTypes(p) /\ ListedOnce(p) /\ Tiled(p)
         /\ pageSize[p] \in 0 .. MMAP_MAX + PAGE_SIZE
<1>1. /\ HeapTypeOK /\ ChunksAreListedOnce /\ ChunksTilePage
      /\ p \in Pages
  BY DEF HeapInv, HeapTypeOK
<1>2. ChunkTypes(p) /\ pageSize[p] \in 0 .. MMAP_MAX + PAGE_SIZE
  BY <1>1 DEF HeapTypeOK, ChunkTypes, Chunks
<1>3. ListedOnce(p)
  BY <1>1 DEF ChunksAreListedOnce, ListedOnce
<1>4. Tiled(p)
  BY <1>1 DEF ChunksTilePage, Tiled
<1> QED BY <1>1, <1>2, <1>3, <1>4

(* Such a step keeps the heap if it keeps the page it works on.            *)
LEMMA OnePageChanges ==
  ASSUME HeapInv, NEW p \in mapped,
         UNCHANGED <<mapped, zone, zoneType, pageSize>>,
         NEW A, allocation' = [allocation EXCEPT ![p] = A],
         NEW F, free' = [free EXCEPT ![p] = F],
         DOMAIN chunkSize' = Pages,
         \A q \in Pages \ {p} : chunkSize'[q] = chunkSize[q],
         ChunkTypes(p)', ListedOnce(p)', Tiled(p)'
  PROVE  HeapInv'
<1>1. /\ HeapTypeOK /\ ZonesLinkMappedPages /\ UnmappedPagesAreBlank
      /\ ChunksAreListedOnce /\ ChunksTilePage
  BY DEF HeapInv
<1>2. /\ p \in Pages /\ p \notin Pages \ mapped
      /\ \A q \in Pages \ {p} : /\ allocation'[q] = allocation[q]
                                /\ free'[q] = free[q]
                                /\ chunkSize'[q] = chunkSize[q]
      /\ allocation'[p] = A /\ free'[p] = F
  BY <1>1 DEF HeapTypeOK
<1>3. HeapTypeOK'
  <2>1. allocation' \in [Pages -> Seq(Nat)] /\ free' \in [Pages -> Seq(Nat)]
    BY <1>1, <1>2 DEF HeapTypeOK, ChunkTypes
  <2>2. /\ DOMAIN chunkSize' = Pages
        /\ \A q \in Pages :
             /\ DOMAIN chunkSize'[q] \subseteq Nat
             /\ \A c \in DOMAIN chunkSize'[q] : chunkSize'[q][c] \in Nat
    BY <1>1, <1>2 DEF HeapTypeOK, ChunkTypes, Chunks
  <2> QED BY <1>1, <2>1, <2>2 DEF HeapTypeOK
<1>4. ZonesLinkMappedPages'
  BY <1>1 DEF ZonesLinkMappedPages
<1>5. UnmappedPagesAreBlank'
  BY <1>1, <1>2 DEF UnmappedPagesAreBlank, Chunks
<1>6. ChunksAreListedOnce'
  BY <1>1, <1>2 DEF ChunksAreListedOnce, ListedOnce, Chunks
<1>7. ChunksTilePage'
  <2>1. ASSUME NEW q \in mapped, q # p PROVE Tiled(q)'
    <3>1. q \in Pages \ {p} /\ Tiled(q)
      BY <1>1, <2>1 DEF ChunksTilePage, Tiled, HeapTypeOK
    <3> QED BY <1>2, <3>1 DEF Tiled, Chunks, EndOfChunk
  <2>2. \A q \in mapped' : Tiled(q)'
    BY <2>1
  <2> QED BY <2>2 DEF ChunksTilePage, Tiled
<1> QED BY <1>3, <1>4, <1>5, <1>6, <1>7 DEF HeapInv

(* push_front_chunk, the elements being offsets.                           *)
LEMMA ConsOfChunks ==
  ASSUME NEW s \in Seq(Nat), NEW e \in Nat, IsInjective(s), e \notin Range(s)
  PROVE  /\ Cons(e, s) \in Seq(Nat)
         /\ IsInjective(Cons(e, s))
         /\ Range(Cons(e, s)) = Range(s) \cup {e}
<1>1. ASSUME NEW S, s \in Seq(S), e \in S
      PROVE  /\ Cons(e, s) \in Seq(S)
             /\ IsInjective(Cons(e, s))
             /\ Range(Cons(e, s)) = Range(s) \cup {e}
  BY <1>1, ConsIsPushFront
<1> QED BY <1>1

(* The chunk split off starts and ends where its neighbours want it.       *)
LEMMA RestFacts ==
  ASSUME NEW c \in Nat, NEW n \in Nat, NEW s \in Nat,
         c % ALIGNMENT = 0, n % ALIGNMENT = 0, s - n > ChunkHeader
  PROVE  /\ Rest(c, n) \in Nat
         /\ Rest(c, n) % ALIGNMENT = 0
         /\ c < Rest(c, n) /\ Rest(c, n) = c + ChunkHeader + n
         /\ Rest(c, n) < c + ChunkHeader + s
         /\ s - n - ChunkHeader \in Nat /\ s - n - ChunkHeader > 0
         /\ Rest(c, n) + ChunkHeader + (s - n - ChunkHeader)
              = c + ChunkHeader + s
<1>1. ChunkHeader \in Nat \ {0} /\ ChunkHeader % ALIGNMENT = 0
      /\ ALIGNMENT \in Nat \ {0}
  BY HeaderFacts, ConstantFacts
<1>2. ASSUME NEW a \in Nat \ {0}, NEW h \in Nat, h % a = 0, c % a = 0, n % a = 0
      PROVE  ((c + n) + h) % a = 0
  <2>1. (c + n) % a = 0
    BY <1>2, MultiplesAdd
  <2>2. c + n \in Nat
    OBVIOUS
  <2> QED BY ONLY <1>2, <2>1, <2>2, MultiplesAdd
<1>3. ((c + n) + ChunkHeader) % ALIGNMENT = 0
  BY <1>1, <1>2
<1> QED BY <1>1, <1>3 DEF Rest

(* allocate_free_chunk: a free chunk that is large enough is handed out,   *)
(* and what it does not need becomes a chunk of its own.                   *)
LEMMA TakeChunkInv ==
  ASSUME HeapInv, NEW p \in mapped, NEW c \in Range(free[p]), NEW n \in Nat,
         n # 0, n % ALIGNMENT = 0, n <= chunkSize[p][c], TakeChunk(p, c, n)
  PROVE  HeapInv'
<1> DEFINE A == Cons(c, allocation[p])
           O == RemoveFirst(free[p], c)
           r == Rest(c, n)
           S == chunkSize[p]
<1>1. /\ p \in Pages /\ ChunkTypes(p) /\ ListedOnce(p) /\ Tiled(p)
      /\ pageSize[p] \in Nat /\ PageHeader \in Nat
      /\ DOMAIN chunkSize = Pages
      /\ allocation \in [Pages -> Seq(Nat)] /\ free \in [Pages -> Seq(Nat)]
  <2>1. p \in Pages /\ ChunkTypes(p) /\ ListedOnce(p) /\ Tiled(p)
        /\ pageSize[p] \in Nat
    BY PageFacts, ConstantFacts
  <2> QED BY <2>1, HeaderFacts DEF HeapInv, HeapTypeOK
<1>2. /\ c \in Chunks(p) /\ c \in Nat /\ S[c] \in Nat
      /\ c \notin Range(allocation[p])
      /\ allocation[p] \in Seq(Nat) /\ free[p] \in Seq(Nat)
      /\ IsInjective(allocation[p]) /\ IsInjective(free[p])
  BY <1>1 DEF ListedOnce, ChunkTypes
<1>3. /\ A \in Seq(Nat) /\ IsInjective(A) /\ Range(A) = Range(allocation[p]) \cup {c}
  BY <1>2, ConsOfChunks
<1>4. /\ O \in Seq(Nat) /\ IsInjective(O) /\ Range(O) = Range(free[p]) \ {c}
  BY <1>2, RemoveFirstUnlinks
<1>5. ChunkHeader \in Nat \ {0} /\ ChunkHeader % ALIGNMENT = 0
      /\ ALIGNMENT \in Nat \ {0}
  BY HeaderFacts, ConstantFacts
<1>6. /\ UNCHANGED <<mapped, zone, zoneType, pageSize>>
      /\ allocation' = [allocation EXCEPT ![p] = A]
  BY DEF TakeChunk
<1>7. allocation'[p] = A
  BY <1>1, <1>6
<1> HIDE DEF A, O
<1>8. CASE ~ Splits(p, c, n)
  <2>1. free' = [free EXCEPT ![p] = O] /\ chunkSize' = chunkSize
    BY <1>8 DEF TakeChunk, O
  <2>2. free'[p] = O
    BY <1>1, <2>1
  <2>3. ChunkTypes(p)'
    BY <1>1, <1>3, <1>4, <1>7, <2>1, <2>2 DEF ChunkTypes, Chunks
  <2>4. ListedOnce(p)'
    BY <1>1, <1>2, <1>3, <1>4, <1>7, <2>1, <2>2 DEF ListedOnce, Chunks
  <2>5. Tiled(p)'
    BY <1>1, <1>6, <2>1 DEF Tiled, Chunks, EndOfChunk
  <2> QED BY <1>1, <1>6, <2>1, <2>3, <2>4, <2>5, OnePageChanges
<1>9. CASE Splits(p, c, n)
  <2> DEFINE m == S[c] - n - ChunkHeader
             T == Assign([S EXCEPT ![c] = n], r, m)
             F == Cons(r, O)
  <2>1. free' = [free EXCEPT ![p] = F] /\ chunkSize' = [chunkSize EXCEPT ![p] = T]
    BY <1>9 DEF TakeChunk, O
  <2>2. /\ m \in Nat /\ m > 0 /\ r \in Nat /\ r % ALIGNMENT = 0
        /\ c < r /\ r = c + ChunkHeader + n
        /\ r + ChunkHeader + m = EndOfChunk(p, c)
        /\ r < EndOfChunk(p, c)
    <3>1. c % ALIGNMENT = 0 /\ S[c] - n > ChunkHeader
      BY <1>1, <1>2, <1>9 DEF Tiled, Splits
    <3>2. r \in Nat /\ r % ALIGNMENT = 0 /\ c < r /\ r = c + ChunkHeader + n
      BY <3>1, <1>2, RestFacts
    <3>3. m \in Nat /\ m > 0
      BY <3>1, <1>2, <1>5
    <3>4. r + ChunkHeader + m = EndOfChunk(p, c)
      <4>1. r + ChunkHeader + m = c + ChunkHeader + S[c]
        BY <3>1, <1>2, RestFacts
      <4> QED BY <4>1 DEF EndOfChunk
    <3>5. r \in Nat /\ ChunkHeader \in Nat
      BY <1>5, <3>2
    <3> HIDE DEF r, m
    <3>6. r < EndOfChunk(p, c)
      BY <3>3, <3>4, <3>5
    <3> QED BY <3>2, <3>3, <3>4, <3>6
  <2>3. \A d \in Chunks(p) : d \in Nat /\ (d > c => d >= EndOfChunk(p, c))
    BY <1>1, <1>2 DEF Tiled, ChunkTypes
  <2> HIDE DEF r, m
  <2>4. r \notin Chunks(p) /\ r # c
    <3>1. EndOfChunk(p, c) \in Nat
      BY <1>2, <1>5 DEF EndOfChunk
    <3> QED BY <3>1, <1>2, <2>2, <2>3
  <2>5. /\ DOMAIN T = Chunks(p) \cup {r}
        /\ T[c] = n /\ T[r] = m
        /\ \A x \in Chunks(p) \ {c} : T[x] = S[x]
    <3> HIDE DEF S
    <3>1. c \in DOMAIN S /\ r # c /\ T = Assign([S EXCEPT ![c] = n], r, m)
      BY <1>2, <2>4 DEF Chunks, S
    <3> HIDE DEF T
    <3>2. /\ DOMAIN T = DOMAIN S \cup {r}
          /\ T[c] = n /\ T[r] = m
          /\ \A x \in DOMAIN S \ {c, r} : T[x] = S[x]
      BY <3>1 DEF Assign
    <3> QED BY <3>2, <2>4 DEF Chunks, S
  <2> HIDE DEF T
  <2>6. r \notin Range(O)
    BY <1>1, <1>4, <2>4 DEF ListedOnce
  <2>7. /\ F \in Seq(Nat) /\ IsInjective(F) /\ Range(F) = Range(O) \cup {r}
    BY <1>4, <2>2, <2>6, ConsOfChunks
  <2> HIDE DEF F
  <2>8. /\ free'[p] = F /\ chunkSize'[p] = T
        /\ DOMAIN chunkSize' = Pages
        /\ \A q \in Pages \ {p} : chunkSize'[q] = chunkSize[q]
    BY <1>1, <2>1
  <2>9. ChunkTypes(p)'
    <3>1. \A x \in DOMAIN T : x \in Nat /\ T[x] \in Nat
      BY <1>1, <2>2, <2>5 DEF ChunkTypes
    <3> QED BY <3>1, <1>3, <1>7, <2>7, <2>8 DEF ChunkTypes, Chunks
  <2>10. ListedOnce(p)'
    <3>1. Range(A) \cap Range(F) = {} /\ Range(A) \cup Range(F) = DOMAIN T
      BY <1>1, <1>2, <1>3, <1>4, <2>4, <2>5, <2>7 DEF ListedOnce
    <3> QED BY <3>1, <1>3, <1>7, <2>7, <2>8 DEF ListedOnce, Chunks
  <2>11. Tiled(p)'
    <3> DEFINE E(x) == x + ChunkHeader + T[x]
               K == Chunks(p)
    <3>1. \A x \in K : /\ x \in Nat /\ S[x] \in Nat
                       /\ x >= PageHeader /\ x % ALIGNMENT = 0
                       /\ EndOfChunk(p, x) \in Nat
                       /\ EndOfChunk(p, x) > x
                       /\ EndOfChunk(p, x) = pageSize[p] \/ EndOfChunk(p, x) \in K
                       /\ \A y \in K : y > x => y >= EndOfChunk(p, x)
                       /\ EndOfChunk(p, x) <= pageSize[p]
      <4>1. ASSUME NEW x \in K
            PROVE  /\ x \in Nat /\ S[x] \in Nat
                   /\ EndOfChunk(p, x) \in Nat
                   /\ EndOfChunk(p, x) > x
        BY <1>1, <1>5, <4>1 DEF ChunkTypes, EndOfChunk
      <4> HIDE DEF S, E
      <4>2. \A x \in K : /\ x >= PageHeader /\ x % ALIGNMENT = 0
                         /\ EndOfChunk(p, x) = pageSize[p] \/ EndOfChunk(p, x) \in K
                         /\ \A y \in K : y > x => y >= EndOfChunk(p, x)
                         /\ EndOfChunk(p, x) <= pageSize[p]
        BY <1>1 DEF Tiled
      <4> QED BY <4>1, <4>2
    <3>2. /\ E(c) = r /\ E(r) = EndOfChunk(p, c)
          /\ \A x \in K \ {c} : E(x) = EndOfChunk(p, x)
      BY <2>2, <2>5 DEF EndOfChunk
    <3> HIDE DEF E, K
    <3>3. c \in K /\ r \in Nat /\ r > c /\ r < EndOfChunk(p, c)
      BY <1>2, <2>2 DEF K
    <3>4. PageHeader \in K \cup {r}
      BY <1>1 DEF Tiled, K
    <3>5. ASSUME NEW x \in K \cup {r}
          PROVE  /\ x >= PageHeader
                 /\ x % ALIGNMENT = 0
                 /\ E(x) = pageSize[p] \/ E(x) \in K \cup {r}
                 /\ E(x) <= pageSize[p]
      <4>1. CASE x = c
        BY <4>1, <3>1, <3>2, <3>3, <1>1
      <4>2. CASE x = r
        BY <4>2, <3>1, <3>2, <3>3, <2>2, <1>1
      <4>3. CASE x # c /\ x # r
        BY <4>3, <3>1, <3>2
      <4> QED BY <4>1, <4>2, <4>3
    <3>6. ASSUME NEW x \in K \cup {r}, NEW y \in K \cup {r}, y > x
          PROVE  y >= E(x)
      <4>1. CASE x = c
        BY <4>1, <3>1, <3>2, <3>3, <3>6
      <4>2. CASE x = r
        BY <4>2, <3>1, <3>2, <3>3, <3>6
      <4>3. CASE x # c /\ x # r /\ y # r
        BY <4>3, <3>1, <3>2, <3>3, <3>6
      <4>4. CASE x # c /\ x # r /\ y = r
        <5>1. x \in K /\ x \in Nat /\ E(x) = EndOfChunk(p, x) /\ c \in Nat
          BY <4>4, <3>1, <3>2, <3>3
        <5>2. CASE x < c
          BY <5>1, <5>2, <4>4, <3>1, <3>3
        <5>3. CASE x > c
          <6>1. x >= EndOfChunk(p, c)
            BY <5>1, <5>3, <3>1, <3>3
          <6> QED BY <6>1, <5>1, <4>4, <3>1, <3>3, <3>6
        <5> QED BY <5>1, <5>2, <5>3, <4>4
      <4> QED BY <4>1, <4>2, <4>3, <4>4
    <3>8. \A x \in K \cup {r} : T[x] > 0
      <4>1. \A x \in K : S[x] > 0
        BY <1>1 DEF Tiled, K
      <4> QED BY <4>1, <2>2, <2>5 DEF K
    <3>7. Chunks(p)' = K \cup {r} /\ \A x : EndOfChunk(p, x)' = E(x)
      BY <2>5, <2>8 DEF Chunks, EndOfChunk, K, E
    <3> QED BY <3>4, <3>5, <3>6, <3>7, <3>8, <1>6, <2>8 DEF Tiled
  <2> QED BY <1>6, <2>1, <2>8, <2>9, <2>10, <2>11, OnePageChanges
<1> QED BY <1>8, <1>9

(* free_memory_allocation of a block that keeps its page: its chunk moves  *)
(* back to the free list.                                                  *)
LEMMA PutChunkInv ==
  ASSUME HeapInv, NEW p \in mapped, NEW c \in Range(allocation[p]),
         PutChunk(p, c)
  PROVE  HeapInv'
<1> DEFINE A == RemoveFirst(allocation[p], c)
           F == Cons(c, free[p])
<1>1. /\ p \in Pages /\ ChunkTypes(p) /\ ListedOnce(p) /\ Tiled(p)
      /\ DOMAIN chunkSize = Pages
      /\ allocation \in [Pages -> Seq(Nat)] /\ free \in [Pages -> Seq(Nat)]
  BY PageFacts DEF HeapInv, HeapTypeOK
<1>2. /\ c \in Chunks(p) /\ c \in Nat /\ c \notin Range(free[p])
      /\ allocation[p] \in Seq(Nat) /\ free[p] \in Seq(Nat)
      /\ IsInjective(allocation[p]) /\ IsInjective(free[p])
  BY <1>1 DEF ListedOnce, ChunkTypes
<1>3. A \in Seq(Nat) /\ IsInjective(A) /\ Range(A) = Range(allocation[p]) \ {c}
  BY <1>2, RemoveFirstUnlinks
<1>4. F \in Seq(Nat) /\ IsInjective(F) /\ Range(F) = Range(free[p]) \cup {c}
  BY <1>2, ConsOfChunks
<1>5. /\ UNCHANGED <<mapped, zone, zoneType, pageSize, chunkSize>>
      /\ allocation' = [allocation EXCEPT ![p] = A]
      /\ free' = [free EXCEPT ![p] = F]
  BY DEF PutChunk
<1> HIDE DEF A, F
<1>6. allocation'[p] = A /\ free'[p] = F
  BY <1>1, <1>5
<1>7. ChunkTypes(p)'
  BY <1>1, <1>3, <1>4, <1>5, <1>6 DEF ChunkTypes, Chunks
<1>8. ListedOnce(p)'
  BY <1>1, <1>2, <1>3, <1>4, <1>5, <1>6 DEF ListedOnce, Chunks
<1>9. Tiled(p)'
  BY <1>1, <1>5 DEF Tiled, Chunks, EndOfChunk
<1> QED BY <1>1, <1>5, <1>7, <1>8, <1>9, OnePageChanges

(* remove_page and free_page.                                              *)
LEMMA UnmapPageInv ==
  ASSUME HeapInv, NEW p \in mapped, UnmapPage(p)
  PROVE  HeapInv'
<1> DEFINE z == zoneType[p]
           L == RemoveFirst(zone[z], p)
<1>1. /\ HeapTypeOK /\ ZonesLinkMappedPages /\ UnmappedPagesAreBlank
      /\ ChunksAreListedOnce /\ ChunksTilePage
      /\ p \in Pages /\ z \in ZoneTypes
  BY DEF HeapInv, HeapTypeOK
<1>2. /\ zone[z] \in Seq(Pages) /\ IsInjective(zone[z]) /\ p \in Range(zone[z])
  BY <1>1 DEF HeapTypeOK, ZonesLinkMappedPages
<1>3. L \in Seq(Pages) /\ IsInjective(L) /\ Range(L) = Range(zone[z]) \ {p}
  BY <1>2, RemoveFirstUnlinks
<1>4. /\ mapped' = mapped \ {p}
      /\ zone' = [zone EXCEPT ![z] = L]
      /\ zoneType' = [zoneType EXCEPT ![p] = "TINY_ZONE"]
      /\ pageSize' = [pageSize EXCEPT ![p] = 0]
      /\ allocation' = [allocation EXCEPT ![p] = <<>>]
      /\ free' = [free EXCEPT ![p] = <<>>]
      /\ chunkSize' = [chunkSize EXCEPT ![p] = <<>>]
  BY DEF UnmapPage
<1> HIDE DEF L, z
<1>5. /\ zone'[z] = L
      /\ \A y \in ZoneTypes \ {z} : zone'[y] = zone[y]
      /\ allocation'[p] = <<>> /\ free'[p] = <<>> /\ chunkSize'[p] = <<>>
      /\ \A q \in Pages \ {p} :
           /\ zoneType'[q] = zoneType[q] /\ pageSize'[q] = pageSize[q]
           /\ allocation'[q] = allocation[q] /\ free'[q] = free[q]
           /\ chunkSize'[q] = chunkSize[q]
  BY <1>1, <1>4 DEF HeapTypeOK
<1>6. HeapTypeOK'
  <2>1. mapped' \subseteq Pages /\ zoneType' \in [Pages -> ZoneTypes]
    BY <1>1, <1>4 DEF HeapTypeOK, ZoneTypes
  <2>2. zone' \in [ZoneTypes -> Seq(Pages)]
    BY <1>1, <1>3, <1>4 DEF HeapTypeOK
  <2>3. pageSize' \in [Pages -> 0 .. MMAP_MAX + PAGE_SIZE]
    BY <1>1, <1>4, ConstantFacts DEF HeapTypeOK
  <2>4. allocation' \in [Pages -> Seq(Nat)] /\ free' \in [Pages -> Seq(Nat)]
    BY <1>1, <1>4 DEF HeapTypeOK
  <2>5. /\ DOMAIN chunkSize' = Pages
        /\ \A q \in Pages :
             /\ DOMAIN chunkSize'[q] \subseteq Nat
             /\ \A c \in DOMAIN chunkSize'[q] : chunkSize'[q][c] \in Nat
    BY <1>1, <1>4, <1>5 DEF HeapTypeOK
  <2> QED BY <2>1, <2>2, <2>3, <2>4, <2>5 DEF HeapTypeOK
<1>7. ZonesLinkMappedPages'
  <2>1. \A y \in ZoneTypes : IsInjective(zone'[y])
    BY <1>1, <1>3, <1>5 DEF ZonesLinkMappedPages
  <2>2. ASSUME NEW y \in ZoneTypes, NEW q \in Range(zone'[y])
        PROVE  q \in mapped' /\ zoneType'[q] = y
    <3>1. q \in Range(zone[y]) /\ q # p
      <4>1. CASE y = z
        BY <4>1, <1>3, <1>5, <2>2
      <4>2. CASE y # z
        <5>1. q \in Range(zone[y]) /\ zoneType[q] = y
          BY <4>2, <1>1, <1>5, <2>2 DEF ZonesLinkMappedPages
        <5> QED BY <5>1, <4>2 DEF z
      <4> QED BY <4>1, <4>2
    <3>2. q \in mapped /\ zoneType[q] = y /\ q \in Pages
      BY <3>1, <1>1 DEF ZonesLinkMappedPages, HeapTypeOK
    <3> QED BY <3>1, <3>2, <1>4, <1>5
  <2>3. ASSUME NEW q \in mapped'
        PROVE  q \in Range(zone'[zoneType'[q]])
    <3>1. q \in mapped /\ q # p /\ q \in Pages /\ zoneType'[q] = zoneType[q]
      BY <1>1, <1>4, <1>5, <2>3 DEF HeapTypeOK
    <3>2. q \in Range(zone[zoneType[q]]) /\ zoneType[q] \in ZoneTypes
      BY <3>1, <1>1 DEF ZonesLinkMappedPages, HeapTypeOK
    <3> QED BY <3>1, <3>2, <1>3, <1>5
  <2> QED BY <2>1, <2>2, <2>3 DEF ZonesLinkMappedPages
<1>8. UnmappedPagesAreBlank'
  BY <1>1, <1>4, <1>5 DEF UnmappedPagesAreBlank, Chunks
<1>9. ChunksAreListedOnce'
  <2>1. IsInjective(<<>>) /\ Range(<<>>) = {} /\ DOMAIN <<>> = {}
    BY DEF IsInjective, Range
  <2> QED BY <2>1, <1>1, <1>5 DEF ChunksAreListedOnce, Chunks
<1>10. ChunksTilePage'
  <2>1. SUFFICES ASSUME NEW q \in mapped' PROVE Tiled(q)'
    BY DEF ChunksTilePage, Tiled
  <2>2. q \in mapped /\ q \in Pages \ {p}
    BY <1>1, <1>4 DEF HeapTypeOK
  <2>3. Tiled(q) /\ chunkSize'[q] = chunkSize[q] /\ pageSize'[q] = pageSize[q]
    BY <1>1, <1>5, <2>2 DEF ChunksTilePage, Tiled
  <2> QED BY <2>3 DEF Tiled, Chunks, EndOfChunk
<1> QED BY <1>6, <1>7, <1>8, <1>9, <1>10 DEF HeapInv

-----------------------------------------------------------------------------
(* THE CALLS.  What the invariant says of one thread.                      *)
Excluded(t) == pc[t] # "killed" => (pc[t] \in Critical <=> lock = t)

Holding(t) == pc[t] # "killed" => HeldBy(t) = Answers(t)

Found1(t) ==
  LET f == frame[t]
  IN /\ pc[t] = "take" =>
          /\ f.page \in mapped
          /\ f.chunk \in Range(free[f.page])
          /\ Aligned(t) <= chunkSize[f.page][f.chunk]
     /\ pc[t] = "release" => f.page \in mapped
     /\ pc[t] \in {"allocate", "take", "copy"} /\ f.ptr # NULL =>
          PageOf(f.ptr) \in mapped

Local(t) == Excluded(t) /\ Holding(t) /\ Found1(t) /\ InStep(t)

FrameType ==
  [op: Ops \cup {"none"}, ptr: Pointers, size: 0 .. SIZE_MAX,
   new: Pointers, page: Pages \cup {NULL}, chunk: Nat]

OwnedType ==
  /\ DOMAIN owned \subseteq Blocks
  /\ \A ptr \in DOMAIN owned :
       owned[ptr] \in [by: Threads \cup {NoThread}, size: 0 .. SIZE_MAX,
                       tag: Tags \cup {Zero, Junk}, kept: 0 .. SIZE_MAX]
  /\ content \in
       [DOMAIN owned -> [tag: Tags \cup {Zero, Junk}, len: 0 .. SIZE_MAX]]

(* The invariant, taken apart.                                             *)
LEMMA Parts ==
  ASSUME IInv
  PROVE  /\ HeapInv /\ HeapTypeOK /\ BlocksAreAllocated /\ OwnedType
         /\ lock \in Threads \cup {NoThread}
         /\ pc \in [Threads -> Labels]
         /\ frame \in [Threads -> FrameType]
         /\ \A t \in Threads : Local(t)
BY DEF IInv, TypeOK, OwnedType, FrameType, MutualExclusion, CallsHoldBlocks,
       FindingsStayValid, CallsAreInStep, Local, Excluded, Holding, Found1

-----------------------------------------------------------------------------
(* A step of one thread leaves what the invariant says of the others: the  *)
(* heap only changes while the thread has the lock, and then no other is   *)
(* in the allocator; the blocks the others hold stay theirs.               *)
LEMMA OthersKeep ==
  ASSUME IInv, NEW t \in Threads, NEW u \in Threads \ {t},
         pc'[u] = pc[u], frame'[u] = frame[u],
         \/ lock' = lock
         \/ lock = NoThread /\ lock' = t
         \/ lock = t /\ lock' = NoThread,
         UNCHANGED heapVars \/ lock = t,
         HeldBy(u)' = HeldBy(u)
  PROVE  Local(u)'
<1>1. Local(u) /\ u # t /\ u # NoThread
  BY Parts, ProgramAssumption
<1>2. Excluded(u)'
  BY <1>1 DEF Local, Excluded
<1>3. Holding(u)'
  BY <1>1 DEF Local, Holding, Answers
<1>4. InStep(u)'
  BY <1>1 DEF Local, InStep, Aligned
<1>5. Found1(u)'
  <2>1. CASE UNCHANGED heapVars
    BY <1>1, <2>1 DEF Local, Found1, heapVars, Aligned
  <2>2. CASE lock = t
    <3>1. pc[u] \notin {"take", "release", "allocate", "copy"}
      BY <1>1, <2>2 DEF Local, Excluded, Critical
    <3> QED BY <3>1 DEF Found1
  <2> QED BY <2>1, <2>2
<1> QED BY <1>2, <1>3, <1>4, <1>5 DEF Local

(* One step of one thread.                                                 *)
LEMMA OneStep ==
  ASSUME IInv, NEW t \in Threads, NEW l \in Labels,
         Goto(t, l),
         frame' \in [Threads -> FrameType],
         \A u \in Threads \ {t} : frame'[u] = frame[u],
         \/ lock' = lock
         \/ lock = NoThread /\ lock' = t
         \/ lock = t /\ lock' = NoThread,
         UNCHANGED heapVars \/ lock = t,
         \A u \in Threads \ {t} : HeldBy(u)' = HeldBy(u),
         HeapInv', BlocksAreAllocated', OwnedType', Local(t)'
  PROVE  IInv'
<1>1. /\ lock \in Threads \cup {NoThread} /\ pc \in [Threads -> Labels]
  BY Parts
<1>2. pc' \in [Threads -> Labels] /\ \A u \in Threads \ {t} : pc'[u] = pc[u]
  BY <1>1 DEF Goto
<1>3. lock' \in Threads \cup {NoThread}
  BY <1>1
<1>4. ASSUME NEW u \in Threads \ {t} PROVE Local(u)'
  BY <1>2, <1>4, OthersKeep
<1>5. \A u \in Threads : Local(u)'
  BY <1>4
<1> QED
  BY <1>2, <1>3, <1>5 DEF IInv, TypeOK, OwnedType, FrameType, MutualExclusion,
     CallsHoldBlocks, FindingsStayValid, CallsAreInStep, Local, Excluded, Holding,
     Found1, HeapInv

LEMMA HeapKept ==
  ASSUME HeapInv, UNCHANGED heapVars
  PROVE  HeapInv'
BY DEF HeapInv, HeapTypeOK, ZonesLinkMappedPages, UnmappedPagesAreBlank,
  ChunksAreListedOnce, ChunksTilePage, Chunks, EndOfChunk, heapVars

(* A step that does not change the heap and whose blocks it is.            *)
LEMMA QuietStep ==
  ASSUME IInv, NEW t \in Threads, NEW l \in Labels,
         Goto(t, l),
         frame' \in [Threads -> FrameType],
         \A u \in Threads \ {t} : frame'[u] = frame[u],
         \/ lock' = lock
         \/ lock = NoThread /\ lock' = t
         \/ lock = t /\ lock' = NoThread,
         UNCHANGED <<heapVars, owned>>,
         OwnedType', Local(t)'
  PROVE  IInv'
<1>1. HeapInv /\ BlocksAreAllocated
  BY Parts
<1>2. UNCHANGED heapVars /\ \A u \in Threads : HeldBy(u)' = HeldBy(u)
  BY DEF HeldBy
<1>3. HeapInv'
  BY <1>1, <1>2, HeapKept
<1>4. BlocksAreAllocated'
  BY <1>1 DEF BlocksAreAllocated, heapVars
<1> QED BY <1>2, <1>3, <1>4, OneStep

(* What the steps within a call know of their thread.                      *)
LEMMA InCall ==
  ASSUME IInv, NEW t \in Threads
  PROVE  /\ Excluded(t) /\ Holding(t) /\ Found1(t) /\ InStep(t)
         /\ frame[t] \in FrameType
         /\ frame \in [Threads -> FrameType]
         /\ OwnedType
         /\ pc \in [Threads -> Labels]
         /\ t # NoThread
         /\ \A l : Goto(t, l) => pc'[t] = l
BY Parts, ProgramAssumption DEF Local, Goto

-----------------------------------------------------------------------------
(* The calls.                                                              *)

LEMMA CallInv ==
  ASSUME IInv, NEW t \in Threads,
         NEW op \in {"malloc", "free", "realloc", "calloc", "reallocarray"},
         NEW ptr \in DOMAIN owned \cup {NULL}, NEW size \in 0 .. SIZE_MAX,
         NEW l \in {"enter", "return"},
         Call(t, op, ptr, size, l), Pass(t, ptr),
         op \in {"malloc", "calloc"} => ptr = NULL,
         op = "free" => l = "enter"
  PROVE  IInv'
<1>1. /\ Excluded(t) /\ Holding(t)
      /\ frame \in [Threads -> FrameType] /\ OwnedType
      /\ HeapInv /\ BlocksAreAllocated
      /\ t # NoThread
  BY InCall, Parts
<1>2. /\ pc[t] = "idle" /\ op \in Ops
      /\ Goto(t, l) /\ pc'[t] = l
      /\ UNCHANGED heapVars /\ lock' = lock /\ content' = content
  BY InCall DEF Call
<1>3. /\ frame' = [frame EXCEPT ![t] =
                     [NoFrame EXCEPT !.op = op, !.ptr = ptr, !.size = size]]
      /\ ptr \in Pointers /\ NULL \in Pointers
  BY <1>1 DEF Call, OwnedType, Pointers
<1>4. /\ frame'[t] = [op |-> op, ptr |-> ptr, size |-> size, new |-> NULL,
                      page |-> NULL, chunk |-> 0]
      /\ \A u \in Threads \ {t} : frame'[u] = frame[u]
  BY <1>1, <1>3 DEF NoFrame
<1>5. frame' \in [Threads -> FrameType]
  <2>1. [op |-> op, ptr |-> ptr, size |-> size, new |-> NULL, page |-> NULL,
         chunk |-> 0] \in FrameType
    BY <1>2, <1>3 DEF FrameType
  <2> HIDE DEF FrameType
  <2>2. DOMAIN frame' = Threads /\ frame' = [u \in Threads |-> frame'[u]]
    BY <1>1, <1>3
  <2> QED BY <1>1, <1>4, <2>1, <2>2
<1>6. HeapInv'
  BY <1>1, <1>2, HeapKept
<1>7. HeldBy(t) = {}
  BY <1>1, <1>2 DEF Holding, Answers
<1>8. /\ \A u \in Threads \ {t} : HeldBy(u)' = HeldBy(u)
      /\ HeldBy(t)' = {ptr} \ {NULL}
      /\ DOMAIN owned' = DOMAIN owned
      /\ OwnedType'
  <2>1. CASE ptr = NULL
    BY <1>1, <1>2, <1>7, <2>1 DEF Pass, HeldBy, OwnedType
  <2>2. CASE ptr # NULL
    <3>1. /\ ptr \in DOMAIN owned /\ owned[ptr].by = NoThread
          /\ owned' = [owned EXCEPT ![ptr].by = t]
      BY <2>2 DEF Pass
    <3>2. /\ DOMAIN owned' = DOMAIN owned
          /\ owned'[ptr] = [owned[ptr] EXCEPT !.by = t]
          /\ \A x \in DOMAIN owned \ {ptr} : owned'[x] = owned[x]
      BY <3>1
    <3>3. owned'[ptr].by = t
      BY <3>1, <3>2, <1>1 DEF OwnedType
    <3>4. OwnedType'
      BY <1>1, <1>2, <3>1, <3>2, SMTT(30) DEF OwnedType
    <3>5. ASSUME NEW u \in Threads \ {t} PROVE HeldBy(u)' = HeldBy(u)
      <4>1. u # NoThread
        BY ProgramAssumption
      <4> QED BY <3>1, <3>2, <3>3, <4>1 DEF HeldBy
    <3>6. HeldBy(t)' = {ptr}
      BY <1>7, <3>1, <3>2, <3>3 DEF HeldBy
    <3> QED BY <2>2, <3>2, <3>4, <3>5, <3>6
  <2> QED BY <2>1, <2>2
<1>9. BlocksAreAllocated'
  BY <1>1, <1>2, <1>8 DEF BlocksAreAllocated, heapVars
<1>10. Local(t)'
  <2>1. Excluded(t)'
    BY <1>1, <1>2 DEF Excluded, Critical
  <2>2. Holding(t)'
    BY <1>2, <1>4, <1>8 DEF Holding, Answers
  <2>3. Found1(t)' /\ InStep(t)'
    BY <1>2, <1>4 DEF Found1, InStep
  <2> QED BY <2>1, <2>2, <2>3 DEF Local
<1>11. l \in Labels
  BY DEF Labels
<1> QED BY <1>2, <1>4, <1>5, <1>6, <1>8, <1>9, <1>10, <1>11, OneStep

LEMMA BeginInv ==
  ASSUME IInv, NEW t \in Threads, Begin(t)
  PROVE  IInv'
<1>1. /\ SIZE_MAX \in Nat /\ 0 \in 0 .. SIZE_MAX
      /\ Sizes \subseteq 0 .. SIZE_MAX /\ Counts \subseteq 0 .. SIZE_MAX
      /\ Pass(t, NULL) <=> UNCHANGED owned
  BY ConstantFacts, ProgramAssumption DEF Pass
<1>2. \A nmemb \in Counts, size \in Sizes :
        /\ nmemb * size % (SIZE_MAX + 1) \in 0 .. SIZE_MAX
        /\ AfterCheck(nmemb, size) \in {"enter", "return"}
  <2>1. \A x \in Nat : x % (SIZE_MAX + 1) \in 0 .. SIZE_MAX
    BY <1>1
  <2>2. \A m, n \in Nat : m * n \in Nat
    OBVIOUS
  <2>3. ASSUME NEW nmemb \in Counts, NEW size \in Sizes
        PROVE  nmemb * size % (SIZE_MAX + 1) \in 0 .. SIZE_MAX
    <3>1. nmemb \in Nat /\ size \in Nat
      BY <1>1
    <3>2. nmemb * size \in Nat
      BY <2>2, <3>1
    <3> QED BY <2>1, <3>2
  <2> QED BY <2>3 DEF AfterCheck
<1>3. CASE CallMalloc(t)
  BY <1>1, <1>3, CallInv DEF CallMalloc
<1>4. CASE CallFree(t)
  BY <1>1, <1>4, CallInv DEF CallFree
<1>5. CASE CallRealloc(t)
  BY <1>1, <1>5, CallInv DEF CallRealloc
<1>6. CASE CallCalloc(t)
  BY <1>1, <1>2, <1>6, CallInv DEF CallCalloc
<1>7. CASE CallReallocarray(t)
  BY <1>1, <1>2, <1>7, CallInv DEF CallReallocarray
<1> QED BY <1>3, <1>4, <1>5, <1>6, <1>7 DEF Begin

-----------------------------------------------------------------------------
(* The steps of the critical section that leave the heap and the blocks.   *)

LEMMA EnterInv ==
  ASSUME IInv, NEW t \in Threads, Enter(t)
  PROVE  IInv'
<1> DEFINE l == FirstStep(frame[t].op)
<1>1. /\ pc[t] = "enter" /\ lock = NoThread /\ lock' = t
      /\ Goto(t, l) /\ UNCHANGED <<heapVars, frame, owned, content>>
  BY DEF Enter
<1>2. /\ Holding(t) /\ InStep(t) /\ OwnedType
      /\ frame \in [Threads -> FrameType] /\ pc'[t] = l
  BY <1>1, InCall
<1>3. \/ l = "allocate" /\ frame[t].op \in {"malloc", "calloc"}
      \/ l = "realloc" /\ frame[t].op \in {"realloc", "reallocarray"}
      \/ l = "free" /\ frame[t].op = "free"
  BY <1>1, <1>2 DEF InStep, FirstStep
<1> HIDE DEF l
<1>4. l \in Labels
  BY <1>3 DEF Labels
<1>5. OwnedType'
  BY <1>1, <1>2 DEF OwnedType
<1>6. Local(t)'
  <2>1. Excluded(t)'
    BY <1>1, <1>2, <1>3 DEF Excluded, Critical
  <2>2. Holding(t)'
    BY <1>1, <1>2, <1>3 DEF Holding, Answers, HeldBy
  <2>3. Found1(t)'
    BY <1>1, <1>2, <1>3 DEF Found1, InStep
  <2>4. InStep(t)'
    BY <1>1, <1>2, <1>3 DEF InStep
  <2> QED BY <2>1, <2>2, <2>3, <2>4 DEF Local
<1> QED BY <1>1, <1>2, <1>4, <1>5, <1>6, QuietStep

LEMMA ReallocElsewhereInv ==
  ASSUME IInv, NEW t \in Threads, ReallocElsewhere(t), Survives(t)
  PROVE  IInv'
<1>1. /\ pc[t] = "realloc" /\ lock' = lock
      /\ Goto(t, "allocate") /\ UNCHANGED <<heapVars, frame, owned, content>>
  BY DEF ReallocElsewhere
<1>2. /\ Excluded(t) /\ Holding(t) /\ InStep(t) /\ OwnedType
      /\ frame \in [Threads -> FrameType] /\ pc'[t] = "allocate"
  BY <1>1, InCall
<1>3. frame[t].ptr # NULL => PageOf(frame[t].ptr) \in mapped
  BY <1>1 DEF Survives, Touches
<1>4. OwnedType'
  BY <1>1, <1>2 DEF OwnedType
<1>5. Local(t)'
  <2>1. Excluded(t)'
    BY <1>1, <1>2 DEF Excluded, Critical
  <2>2. Holding(t)'
    BY <1>1, <1>2 DEF Holding, Answers, HeldBy
  <2>3. Found1(t)'
    BY <1>1, <1>2, <1>3 DEF Found1, heapVars
  <2>4. InStep(t)'
    BY <1>1, <1>2 DEF InStep
  <2> QED BY <2>1, <2>2, <2>3, <2>4 DEF Local
<1> QED BY <1>1, <1>2, <1>4, <1>5, QuietStep DEF Labels

LEMMA ReallocInPlaceInv ==
  ASSUME IInv, NEW t \in Threads, ReallocInPlace(t)
  PROVE  IInv'
<1>1. /\ pc[t] = "realloc" /\ lock' = lock /\ frame[t].ptr # NULL
      /\ Goto(t, "exit") /\ UNCHANGED <<heapVars, owned, content>>
      /\ frame' = [frame EXCEPT ![t].new = frame[t].ptr]
  BY DEF ReallocInPlace, StaysInPlace
<1>2. /\ Excluded(t) /\ Holding(t) /\ InStep(t) /\ OwnedType
      /\ frame \in [Threads -> FrameType] /\ frame[t] \in FrameType
      /\ pc'[t] = "exit"
  BY <1>1, InCall
<1>3. /\ frame' \in [Threads -> FrameType]
      /\ \A u \in Threads \ {t} : frame'[u] = frame[u]
      /\ frame'[t].new = frame[t].ptr
      /\ frame'[t].ptr = frame[t].ptr /\ frame'[t].op = frame[t].op
  BY <1>1, <1>2 DEF FrameType
<1>4. OwnedType'
  BY <1>1, <1>2 DEF OwnedType
<1>5. Local(t)'
  <2>1. Excluded(t)'
    BY <1>1, <1>2 DEF Excluded, Critical
  <2>2. Holding(t)'
    BY <1>1, <1>2, <1>3 DEF Holding, Answers, HeldBy, InStep
  <2>3. Found1(t)' /\ InStep(t)'
    BY <1>2 DEF Found1, InStep
  <2> QED BY <2>1, <2>2, <2>3 DEF Local
<1> QED BY <1>1, <1>3, <1>4, <1>5, QuietStep DEF Labels

LEMMA AllocateNothingInv ==
  ASSUME IInv, NEW t \in Threads, AllocateNothing(t)
  PROVE  IInv'
<1>1. /\ pc[t] = "allocate" /\ lock' = lock
      /\ Goto(t, "exit") /\ UNCHANGED <<heapVars, frame, owned, content>>
  BY DEF AllocateNothing
<1>2. /\ Excluded(t) /\ Holding(t) /\ InStep(t) /\ OwnedType
      /\ frame \in [Threads -> FrameType] /\ pc'[t] = "exit"
  BY <1>1, InCall
<1>3. OwnedType'
  BY <1>1, <1>2 DEF OwnedType
<1>4. Local(t)'
  <2>1. Excluded(t)'
    BY <1>1, <1>2 DEF Excluded, Critical
  <2>2. Holding(t)'
    BY <1>1, <1>2 DEF Holding, Answers, HeldBy, InStep
  <2>3. Found1(t)' /\ InStep(t)'
    BY <1>2 DEF Found1, InStep
  <2> QED BY <2>1, <2>2, <2>3 DEF Local
<1> QED BY <1>1, <1>2, <1>3, <1>4, QuietStep DEF Labels

LEMMA FreeNullInv ==
  ASSUME IInv, NEW t \in Threads, FreeNull(t)
  PROVE  IInv'
<1>1. /\ pc[t] = "free" /\ lock' = lock /\ frame[t].ptr = NULL
      /\ Goto(t, "exit") /\ UNCHANGED <<heapVars, frame, owned, content>>
  BY DEF FreeNull
<1>2. /\ Excluded(t) /\ Holding(t) /\ InStep(t) /\ OwnedType
      /\ frame \in [Threads -> FrameType] /\ pc'[t] = "exit"
  BY <1>1, InCall
<1>3. OwnedType'
  BY <1>1, <1>2 DEF OwnedType
<1>4. Local(t)'
  <2>1. Excluded(t)'
    BY <1>1, <1>2 DEF Excluded, Critical
  <2>2. Holding(t)'
    BY <1>1, <1>2 DEF Holding, Answers, HeldBy, InStep
  <2>3. Found1(t)' /\ InStep(t)'
    BY <1>2 DEF Found1, InStep
  <2> QED BY <2>1, <2>2, <2>3 DEF Local
<1> QED BY <1>1, <1>2, <1>3, <1>4, QuietStep DEF Labels

LEMMA KeepPageInv ==
  ASSUME IInv, NEW t \in Threads, KeepPage(t)
  PROVE  IInv'
<1>1. /\ pc[t] = "release" /\ lock' = lock
      /\ Goto(t, "exit") /\ UNCHANGED <<heapVars, owned, content>>
      /\ frame' = [frame EXCEPT ![t].page = NULL]
  BY DEF KeepPage
<1>2. /\ Excluded(t) /\ Holding(t) /\ InStep(t) /\ OwnedType
      /\ frame \in [Threads -> FrameType] /\ frame[t] \in FrameType
      /\ pc'[t] = "exit"
  BY <1>1, InCall
<1>3. /\ frame' \in [Threads -> FrameType]
      /\ \A u \in Threads \ {t} : frame'[u] = frame[u]
      /\ frame'[t].new = frame[t].new
      /\ frame'[t].ptr = frame[t].ptr /\ frame'[t].op = frame[t].op
  BY <1>1, <1>2 DEF FrameType
<1>4. OwnedType'
  BY <1>1, <1>2 DEF OwnedType
<1>5. Local(t)'
  <2>1. Excluded(t)'
    BY <1>1, <1>2 DEF Excluded, Critical
  <2>2. Holding(t)'
    BY <1>1, <1>2, <1>3 DEF Holding, Answers, HeldBy
  <2>3. Found1(t)' /\ InStep(t)'
    BY <1>2 DEF Found1, InStep
  <2> QED BY <2>1, <2>2, <2>3 DEF Local
<1> QED BY <1>1, <1>3, <1>4, <1>5, QuietStep DEF Labels

LEMMA FindFreeChunkInv ==
  ASSUME IInv, NEW t \in Threads, FindFreeChunk(t)
  PROVE  IInv'
<1>0. PICK p \in mapped : \E c \in Chunks(p) :
        /\ IsFirstFit(p, Aligned(t), c)
        /\ Found(t, p, c)
  BY DEF FindFreeChunk
<1>1. PICK c \in Chunks(p) : IsFirstFit(p, Aligned(t), c) /\ Found(t, p, c)
  BY <1>0
<1>2. /\ pc[t] = "allocate" /\ lock' = lock
      /\ Goto(t, "take") /\ UNCHANGED <<heapVars, owned, content>>
      /\ frame' = [frame EXCEPT ![t].page = p, ![t].chunk = c]
  BY <1>1 DEF FindFreeChunk, Found
<1>3. /\ Excluded(t) /\ Holding(t) /\ Found1(t) /\ InStep(t) /\ OwnedType
      /\ frame \in [Threads -> FrameType] /\ frame[t] \in FrameType
      /\ pc'[t] = "take"
  BY <1>2, InCall
<1>4. /\ p \in Pages /\ c \in Nat /\ c \in Range(free[p])
      /\ Aligned(t) <= chunkSize[p][c]
  <2>1. p \in Pages /\ c \in Nat /\ chunkSize[p][c] \in Nat
    BY Parts, PageFacts DEF ChunkTypes
  <2>2. c \in Range(free[p]) /\ chunkSize[p][c] >= Aligned(t)
    BY <1>1 DEF IsFirstFit, Range
  <2>3. Aligned(t) \in Nat
    BY <1>3, AlignedSizeFacts DEF Aligned, FrameType
  <2> QED BY <2>1, <2>2, <2>3
<1>5. /\ frame' \in [Threads -> FrameType]
      /\ \A u \in Threads \ {t} : frame'[u] = frame[u]
      /\ frame'[t].new = frame[t].new /\ frame'[t].size = frame[t].size
      /\ frame'[t].ptr = frame[t].ptr /\ frame'[t].op = frame[t].op
      /\ frame'[t].page = p /\ frame'[t].chunk = c
  BY <1>2, <1>3, <1>4 DEF FrameType
<1>6. OwnedType'
  BY <1>2, <1>3 DEF OwnedType
<1>7. Local(t)'
  <2>1. Excluded(t)'
    BY <1>2, <1>3 DEF Excluded, Critical
  <2>2. Holding(t)'
    BY <1>2, <1>3, <1>5 DEF Holding, Answers, HeldBy
  <2>3. Found1(t)'
    BY <1>2, <1>3, <1>4, <1>5 DEF Found1, Aligned, heapVars
  <2>4. InStep(t)'
    <3>1. Aligned(t) # 0 /\ Aligned(t)' = Aligned(t)
      BY <1>5 DEF FindFreeChunk, Aligned
    <3> QED BY <3>1, <1>2, <1>3, <1>5 DEF InStep
  <2> QED BY <2>1, <2>2, <2>3, <2>4 DEF Local
<1> QED BY <1>2, <1>5, <1>6, <1>7, QuietStep DEF Labels

LEMMA ExitInv ==
  ASSUME IInv, NEW t \in Threads, Exit(t)
  PROVE  IInv'
<1>1. PICK l \in {"clear", "return"} :
        /\ pc[t] = "exit" /\ lock' = NoThread
        /\ Goto(t, l) /\ UNCHANGED <<heapVars, frame, owned, content>>
  BY DEF Exit
<1>2. /\ Excluded(t) /\ Holding(t) /\ OwnedType /\ t # NoThread
      /\ frame \in [Threads -> FrameType] /\ pc'[t] = l
  BY <1>1, InCall
<1>3. lock = t
  BY <1>1, <1>2 DEF Excluded, Critical
<1>4. OwnedType'
  BY <1>1, <1>2 DEF OwnedType
<1>5. Local(t)'
  <2>1. Excluded(t)'
    BY <1>1, <1>2 DEF Excluded, Critical
  <2>2. Holding(t)'
    BY <1>1, <1>2 DEF Holding, Answers, HeldBy
  <2>3. Found1(t)' /\ InStep(t)'
    BY <1>2 DEF Found1, InStep
  <2> QED BY <2>1, <2>2, <2>3 DEF Local
<1> QED BY <1>1, <1>2, <1>3, <1>4, <1>5, QuietStep DEF Labels

LEMMA ClearInv ==
  ASSUME IInv, NEW t \in Threads, Clear(t)
  PROVE  IInv'
<1>1. /\ pc[t] = "clear" /\ lock' = lock
      /\ content' = [content EXCEPT ![frame[t].new] = Bytes(Zero, frame[t].size)]
      /\ Goto(t, "return") /\ UNCHANGED <<heapVars, frame, owned>>
  BY DEF Clear
<1>2. /\ Excluded(t) /\ Holding(t) /\ OwnedType
      /\ frame \in [Threads -> FrameType] /\ frame[t] \in FrameType
      /\ pc'[t] = "return"
  BY <1>1, InCall
<1>3. OwnedType'
  <2>1. Bytes(Zero, frame[t].size) \in [tag: Tags \cup {Zero, Junk}, len: 0 .. SIZE_MAX]
    BY <1>2 DEF Bytes, FrameType
  <2> QED BY <1>1, <1>2, <2>1 DEF OwnedType
<1>4. Local(t)'
  <2>1. Excluded(t)'
    BY <1>1, <1>2 DEF Excluded, Critical
  <2>2. Holding(t)'
    BY <1>1, <1>2 DEF Holding, Answers, HeldBy
  <2>3. Found1(t)' /\ InStep(t)'
    BY <1>2 DEF Found1, InStep
  <2> QED BY <2>1, <2>2, <2>3 DEF Local
<1> QED BY <1>1, <1>2, <1>3, <1>4, QuietStep DEF Labels

-----------------------------------------------------------------------------
(* Blocks and their chunks.                                                *)

(* The block of a chunk starts behind its header, and leads back to it.    *)
LEMMA ChunkFacts ==
  ASSUME HeapInv, NEW p \in mapped, NEW c \in Chunks(p)
  PROVE  /\ c \in Nat /\ chunkSize[p][c] \in Nat
         /\ BlockOf(p, c) \in Blocks
         /\ PageOf(BlockOf(p, c)) = p
         /\ ChunkOf(BlockOf(p, c)) = c
<1>1. /\ p \in Pages /\ ChunkTypes(p) /\ Tiled(p)
      /\ pageSize[p] \in 0 .. MMAP_MAX + PAGE_SIZE
  BY PageFacts
<1>2. /\ c \in Nat /\ chunkSize[p][c] \in Nat /\ c % ALIGNMENT = 0
      /\ EndOfChunk(p, c) <= pageSize[p]
  BY <1>1 DEF ChunkTypes, Tiled
<1>3. c + ChunkHeader + ALIGNMENT <= SIZE_MAX
  BY <1>1, <1>2, ConstantFacts, HeaderFacts DEF EndOfChunk
<1>4. DataOfChunk(c) = c + ChunkHeader /\ GetChunkFromData(DataOfChunk(c)) = c
  BY <1>2, <1>3, BlockToChunk
<1>5. DataOfChunk(c) \in Nat
  BY <1>2, <1>4, HeaderFacts
<1> QED BY <1>1, <1>2, <1>4, <1>5 DEF BlockOf, PageOf, ChunkOf, Blocks

(* A block the program holds is that of an allocated chunk.                *)
LEMMA OwnedChunkFacts ==
  ASSUME HeapInv, BlocksAreAllocated, OwnedType, NEW ptr \in DOMAIN owned,
         PageOf(ptr) \in mapped
  PROVE  /\ ChunkOf(ptr) \in Range(allocation[PageOf(ptr)])
         /\ ChunkOf(ptr) \in Chunks(PageOf(ptr))
         /\ ptr = BlockOf(PageOf(ptr), ChunkOf(ptr))
         /\ SizeOfChunk(ptr) \in Nat
<1> DEFINE p == PageOf(ptr)
<1>1. PICK c \in Range(allocation[p]) : ptr = BlockOf(p, c)
  BY DEF BlocksAreAllocated
<1>2. c \in Chunks(p)
  BY PageFacts DEF ListedOnce
<1>3. chunkSize[p][c] \in Nat /\ ChunkOf(ptr) = c
  BY <1>1, <1>2, ChunkFacts
<1> QED BY <1>1, <1>2, <1>3 DEF SizeOfChunk

(* A free chunk is nobody's block.                                         *)
LEMMA FreeChunkFacts ==
  ASSUME HeapInv, BlocksAreAllocated, NEW p \in mapped, NEW c \in Range(free[p])
  PROVE  c \in Chunks(p) /\ BlockOf(p, c) \notin DOMAIN owned
<1>1. ListedOnce(p)
  BY PageFacts
<1>2. c \in Chunks(p) /\ c \notin Range(allocation[p])
  BY <1>1 DEF ListedOnce
<1>3. SUFFICES ASSUME BlockOf(p, c) \in DOMAIN owned PROVE FALSE
  BY <1>2
<1>4. PageOf(BlockOf(p, c)) = p /\ ChunkOf(BlockOf(p, c)) = c
  BY <1>2, ChunkFacts
<1>5. PICK d \in Range(allocation[p]) : BlockOf(p, c) = BlockOf(p, d)
  BY <1>3, <1>4 DEF BlocksAreAllocated
<1>6. d \in Chunks(p) /\ ChunkOf(BlockOf(p, d)) = d
  BY <1>1, ChunkFacts DEF ListedOnce
<1> QED BY <1>2, <1>4, <1>5, <1>6

LEMMA CopyBlockInv ==
  ASSUME IInv, NEW t \in Threads, CopyBlock(t)
  PROVE  IInv'
<1> DEFINE ptr == frame[t].ptr
           new == frame[t].new
           b == Bytes(content[ptr].tag, Lesser(content[ptr].len, CopySize(t)))
<1>1. /\ pc[t] = "copy" /\ lock' = lock
      /\ content' = [content EXCEPT ![new] = b]
      /\ Goto(t, "free") /\ UNCHANGED <<heapVars, frame, owned>>
  BY DEF CopyBlock
<1>2. /\ Excluded(t) /\ Holding(t) /\ Found1(t) /\ InStep(t) /\ OwnedType
      /\ frame \in [Threads -> FrameType] /\ frame[t] \in FrameType
      /\ pc'[t] = "free" /\ HeapInv /\ BlocksAreAllocated
  BY <1>1, InCall, Parts
<1>3. /\ ptr # NULL /\ new # NULL /\ ptr \in DOMAIN owned
      /\ PageOf(ptr) \in mapped
  BY <1>1, <1>2 DEF InStep, Found1, Holding, Answers, HeldBy
<1>4. SizeOfChunk(ptr) \in Nat
  BY <1>2, <1>3, OwnedChunkFacts
<1>5. b \in [tag: Tags \cup {Zero, Junk}, len: 0 .. SIZE_MAX]
  <2>1. /\ frame[t].size \in 0 .. SIZE_MAX
        /\ content[ptr].tag \in Tags \cup {Zero, Junk}
        /\ content[ptr].len \in 0 .. SIZE_MAX
    BY <1>2, <1>3 DEF FrameType, OwnedType
  <2>2. CopySize(t) \in 0 .. SIZE_MAX
    BY <1>4, <2>1, ConstantFacts DEF CopySize, Lesser
  <2>3. Lesser(content[ptr].len, CopySize(t)) \in 0 .. SIZE_MAX
    BY <2>1, <2>2 DEF Lesser
  <2> QED BY <2>1, <2>3 DEF Bytes
<1> HIDE DEF b
<1>6. OwnedType'
  BY <1>1, <1>2, <1>5 DEF OwnedType
<1>7. Local(t)'
  <2>1. Excluded(t)'
    BY <1>1, <1>2 DEF Excluded, Critical
  <2>2. Holding(t)'
    BY <1>1, <1>2 DEF Holding, Answers, HeldBy
  <2>3. Found1(t)'
    BY <1>2 DEF Found1
  <2>4. InStep(t)'
    BY <1>1, <1>2, <1>3 DEF InStep
  <2> QED BY <2>1, <2>2, <2>3, <2>4 DEF Local
<1> QED BY <1>1, <1>2, <1>6, <1>7, QuietStep DEF Labels

-----------------------------------------------------------------------------
(* The steps that hand out a block.                                        *)

(* The page and the list a block of a given size comes from are of the     *)
(* same zone.                                                              *)
LEMMA DestinationFacts ==
  ASSUME NEW t \in Threads, frame[t] \in FrameType
  PROVE  /\ Aligned(t) \in Nat /\ Aligned(t) % ALIGNMENT = 0
         /\ Aligned(t) # 0 => Destination(t) = GetZoneType(Aligned(t))
<1>1. frame[t].size \in 0 .. SIZE_MAX
  BY DEF FrameType
<1> QED BY <1>1, AlignedSizeFacts, AligningKeepsZone DEF Aligned, Destination

(* Give adds a block that nobody holds.                                    *)
LEMMA GiveFacts ==
  ASSUME IInv, NEW t \in Threads, NEW new \in Blocks \ DOMAIN owned, Give(t, new),
         pc[t] \in {"allocate", "take"}
  PROVE  /\ OwnedType'
         /\ DOMAIN owned' = DOMAIN owned \cup {new}
         /\ \A u \in Threads \ {t} : HeldBy(u)' = HeldBy(u)
         /\ frame' \in [Threads -> FrameType]
         /\ \A u \in Threads \ {t} : frame'[u] = frame[u]
         /\ lock = t /\ lock' = lock
         /\ \E l \in Labels : /\ Goto(t, l)
                              /\ l = IF frame[t].ptr = NULL THEN "exit" ELSE "copy"
         /\ frame[t].ptr # NULL => PageOf(frame[t].ptr) \in mapped
         /\ Excluded(t)' /\ Holding(t)' /\ InStep(t)'
         /\ pc'[t] \in {"copy", "exit"}
         /\ frame'[t].ptr = frame[t].ptr
<1> DEFINE ptr == frame[t].ptr
           size == frame[t].size
           l == IF ptr = NULL THEN "exit" ELSE "copy"
<1>1. /\ frame' = [frame EXCEPT ![t].new = new, ![t].page = NULL, ![t].chunk = 0]
      /\ owned' = Assign(owned, new, Promise(t))
      /\ content' = Assign(content, new, Bytes(Junk, 0))
      /\ Goto(t, l) /\ lock' = lock
  BY DEF Give
<1>2. /\ Excluded(t) /\ Holding(t) /\ Found1(t) /\ InStep(t) /\ OwnedType
      /\ frame \in [Threads -> FrameType] /\ frame[t] \in FrameType
      /\ pc'[t] = l /\ l \in {"copy", "exit"} /\ l \in Labels
  BY <1>1, InCall DEF Labels
<1>3. /\ size \in 0 .. SIZE_MAX /\ SIZE_MAX \in Nat
      /\ ptr \in DOMAIN owned \cup {NULL}
      /\ frame[t].new = NULL
      /\ ptr # NULL => PageOf(ptr) \in mapped
      /\ lock = t
      /\ HeldBy(t) = {ptr} \ {NULL}
      /\ new # NULL /\ new # ptr
  <2>1. size \in 0 .. SIZE_MAX /\ SIZE_MAX \in Nat
    BY <1>2, ConstantFacts DEF FrameType
  <2>2. /\ frame[t].new = NULL /\ lock = t
        /\ ptr # NULL => PageOf(ptr) \in mapped
    BY <1>2 DEF Excluded, Critical, InStep, Found1
  <2>3. HeldBy(t) = {ptr} \ {NULL}
    BY <1>2, <2>2 DEF Holding, Answers
  <2>4. ptr \in DOMAIN owned \cup {NULL}
    BY <2>3 DEF HeldBy
  <2>5. new # NULL /\ new # ptr
    BY <2>4, ProgramAssumption DEF Blocks
  <2> QED BY <2>1, <2>2, <2>3, <2>4, <2>5
<1>4. Promise(t) \in [by: Threads \cup {NoThread}, size: 0 .. SIZE_MAX,
                      tag: Tags \cup {Zero, Junk}, kept: 0 .. SIZE_MAX]
      /\ Promise(t).by = t
  <2>1. CASE ptr = NULL
    BY <1>3, <2>1 DEF Promise, Block
  <2>2. CASE ptr # NULL
    <3>1. owned[ptr].tag \in Tags \cup {Zero, Junk} /\ owned[ptr].kept \in 0 .. SIZE_MAX
      BY <1>2, <1>3, <2>2 DEF OwnedType
    <3>2. Lesser(owned[ptr].kept, size) \in 0 .. SIZE_MAX
      BY <1>3, <3>1 DEF Lesser
    <3> QED BY <1>3, <2>2, <3>1, <3>2 DEF Promise, Block
  <2> QED BY <2>1, <2>2
<1>5. /\ DOMAIN owned' = DOMAIN owned \cup {new}
      /\ owned'[new] = Promise(t)
      /\ \A x \in DOMAIN owned : owned'[x] = owned[x]
  BY <1>1 DEF Assign
<1>6. /\ DOMAIN content' = DOMAIN content \cup {new}
      /\ content'[new] = [tag |-> Junk, len |-> 0]
      /\ \A x \in DOMAIN content : content'[x] = content[x]
  BY <1>1, <1>2 DEF Assign, Bytes, OwnedType
<1>7. OwnedType'
  <2> DEFINE B == [tag: Tags \cup {Zero, Junk}, len: 0 .. SIZE_MAX]
  <2>1. content' \in [DOMAIN owned' -> B]
    <3>1. content' = [x \in DOMAIN owned' |-> content'[x]]
      BY <1>1, <1>2, <1>5 DEF Assign, OwnedType
    <3>2. \A x \in DOMAIN owned' : content'[x] \in B
      BY <1>2, <1>3, <1>5, <1>6 DEF OwnedType
    <3> HIDE DEF B
    <3> QED BY <3>1, <3>2
  <2> QED BY <2>1, <1>2, <1>3, <1>4, <1>5 DEF OwnedType
<1>8. /\ \A u \in Threads \ {t} : HeldBy(u)' = HeldBy(u)
      /\ HeldBy(t)' = HeldBy(t) \cup {new}
  BY <1>4, <1>5 DEF HeldBy
<1>9. /\ frame' \in [Threads -> FrameType]
      /\ \A u \in Threads \ {t} : frame'[u] = frame[u]
      /\ frame'[t].ptr = ptr /\ frame'[t].new = new
      /\ frame'[t].op = frame[t].op
  <2>1. new \in Pointers
    BY DEF Pointers
  <2> QED BY <1>1, <1>2, <2>1 DEF FrameType
<1>10. Excluded(t)'
  BY <1>1, <1>2, <1>3 DEF Excluded, Critical
<1>11. Holding(t)'
  BY <1>2, <1>3, <1>8, <1>9 DEF Holding, Answers
<1>12. InStep(t)'
  BY <1>2, <1>3, <1>9 DEF InStep
<1> HIDE DEF l
<1>13. \E k \in Labels : Goto(t, k) /\ k = l
  BY <1>1, <1>2
<1> QED BY <1>1, <1>2, <1>3, <1>5, <1>7, <1>8, <1>9, <1>10, <1>11, <1>12, <1>13 DEF l

LEMMA TakeFoundChunkInv ==
  ASSUME IInv, NEW t \in Threads, TakeFoundChunk(t)
  PROVE  IInv'
<1> DEFINE p == frame[t].page
           c == frame[t].chunk
           new == BlockOf(p, c)
<1>1. pc[t] = "take" /\ TakeChunk(p, c, Aligned(t)) /\ Give(t, new)
  BY DEF TakeFoundChunk
<1>2. /\ Found1(t) /\ InStep(t) /\ frame[t] \in FrameType /\ HeapInv /\ BlocksAreAllocated
      /\ HeapTypeOK
  BY InCall, Parts
<1>3. /\ p \in mapped /\ c \in Range(free[p]) /\ Aligned(t) <= chunkSize[p][c]
  BY <1>1, <1>2 DEF Found1
<1>4. /\ c \in Chunks(p) /\ new \in Blocks \ DOMAIN owned
      /\ PageOf(new) = p /\ p \in Pages
  BY <1>2, <1>3, FreeChunkFacts, ChunkFacts, PageFacts
<1>5. Aligned(t) \in Nat /\ Aligned(t) # 0 /\ Aligned(t) % ALIGNMENT = 0
  BY <1>1, <1>2, DestinationFacts DEF InStep
<1>6. HeapInv'
  BY <1>1, <1>2, <1>3, <1>5, TakeChunkInv
<1>7. /\ mapped' = mapped
      /\ allocation' = [allocation EXCEPT ![p] = Cons(c, @)]
  BY <1>1 DEF TakeChunk
<1>8. DOMAIN owned' = DOMAIN owned \cup {new}
  BY <1>1, <1>4, GiveFacts
<1> HIDE DEF p, c
<1>9. BlocksAreAllocated'
  <2>1. allocation[p] \in Seq(Nat) /\ c \in Nat
    BY <1>2, <1>3, <1>4, ChunkFacts DEF HeapTypeOK
  <2>2. ListedOnce(p) /\ c \notin Range(allocation[p]) /\ IsInjective(allocation[p])
    BY <1>2, <1>3, PageFacts DEF ListedOnce
  <2>3. Range(Cons(c, allocation[p])) = Range(allocation[p]) \cup {c}
    BY <2>1, <2>2, ConsOfChunks
  <2>4. ASSUME NEW q \in mapped
        PROVE  {BlockOf(q, d) : d \in Range(allocation'[q])}
                 = {ptr \in DOMAIN owned' : PageOf(ptr) = q}
    <3>1. {BlockOf(q, d) : d \in Range(allocation[q])}
            = {ptr \in DOMAIN owned : PageOf(ptr) = q}
      BY <1>2 DEF BlocksAreAllocated
    <3>2. CASE q = p
      <4>1. Range(allocation'[q]) = Range(allocation[q]) \cup {c}
        BY <1>2, <1>4, <1>7, <2>3, <3>2 DEF HeapTypeOK
      <4>2. {BlockOf(q, d) : d \in Range(allocation'[q])}
              = {BlockOf(q, d) : d \in Range(allocation[q])} \cup {new}
        BY <4>1, <3>2
      <4> QED BY <4>2, <3>1, <3>2, <1>4, <1>8
    <3>3. CASE q # p
      <4>1. allocation'[q] = allocation[q]
        BY <1>2, <1>7, <3>3 DEF HeapTypeOK
      <4> QED BY <4>1, <3>1, <3>3, <1>4, <1>8
    <3> QED BY <3>2, <3>3
  <2> QED BY <2>4, <1>7 DEF BlocksAreAllocated
<1>10. Local(t)'
  <2>1. Found1(t)'
    BY <1>1, <1>4, <1>7, GiveFacts DEF Found1
  <2> QED BY <2>1, <1>1, <1>4, GiveFacts DEF Local
<1>11. PICK l \in Labels : Goto(t, l)
  BY <1>1, <1>4, GiveFacts
<1>12. /\ OwnedType' /\ lock = t /\ lock' = lock
       /\ \A u \in Threads \ {t} : HeldBy(u)' = HeldBy(u)
       /\ frame' \in [Threads -> FrameType]
       /\ \A u \in Threads \ {t} : frame'[u] = frame[u]
  BY <1>1, <1>4, GiveFacts
<1> QED BY <1>6, <1>9, <1>10, <1>11, <1>12, OneStep

LEMMA AddMediumPageInv ==
  ASSUME IInv, NEW t \in Threads, AddMediumPage(t)
  PROVE  IInv'
<1> DEFINE n == Aligned(t)
<1>1. PICK p \in Pages : /\ MmapMayReturn(p)
                         /\ MapMediumPage(p, n, Destination(t))
                         /\ Found(t, p, PageHeader)
  BY DEF AddMediumPage
<1>2. /\ pc[t] = "allocate" /\ lock' = lock /\ n # 0
      /\ GetZoneType(n) # "LARGE_ZONE" /\ MmapAccepts(n)
      /\ Goto(t, "take") /\ UNCHANGED <<owned, content>>
      /\ frame' = [frame EXCEPT ![t].page = p, ![t].chunk = PageHeader]
  BY <1>1 DEF AddMediumPage, Found
<1>3. /\ Excluded(t) /\ Holding(t) /\ Found1(t) /\ InStep(t) /\ OwnedType
      /\ frame \in [Threads -> FrameType] /\ frame[t] \in FrameType
      /\ pc'[t] = "take" /\ HeapInv /\ HeapTypeOK /\ BlocksAreAllocated
  BY <1>2, InCall, Parts
<1>4. n \in Nat /\ Destination(t) = GetZoneType(n)
  BY <1>2, <1>3, DestinationFacts
<1> HIDE DEF n
<1>5. p \in Pages \ mapped /\ \A ptr \in DOMAIN owned : PageOf(ptr) # p
  BY <1>1 DEF MmapMayReturn
<1>6. HeapInv'
  BY <1>1, <1>2, <1>3, <1>4, <1>5, MapPageInv
<1>7. /\ mapped' = mapped \cup {p} /\ allocation' = allocation
      /\ free' = [free EXCEPT ![p] = <<PageHeader>>]
      /\ chunkSize' = [chunkSize EXCEPT ![p] =
                                    [c \in {PageHeader} |-> FirstChunkSize(n)]]
  BY <1>1 DEF MapMediumPage, MapPage
<1>8. n <= FirstChunkSize(n)
  <2>1. n <= SMALL_ZONE_SIZE
    BY <1>2, <1>4, ConstantFacts DEF GetZoneType
  <2>2. SMALL_ZONE_SIZE + ChunkHeader
          <= (SMALL_ZONE_SIZE + ChunkHeader) * NB_ALLOCATION_ZONE
        /\ (SMALL_ZONE_SIZE + ChunkHeader) * NB_ALLOCATION_ZONE \in Nat
    BY ConstantFacts, HeaderFacts, RoomForOne
  <2>3. PageHeader + (SMALL_ZONE_SIZE + ChunkHeader) * NB_ALLOCATION_ZONE <= MMAP_MAX
    BY GeometryAssumption
  <2>4. n + PageHeader + ChunkHeader <= SIZE_MAX
    BY <1>4, <2>1, <2>2, <2>3, ConstantFacts, HeaderFacts
  <2> QED BY <1>2, <1>4, <2>4, PageHoldsRequest
<1>9. /\ PageHeader \in Range(free'[p])
      /\ n <= chunkSize'[p][PageHeader]
  <2>1. free'[p] = <<PageHeader>> /\ PageHeader \in Range(<<PageHeader>>)
    BY <1>3, <1>5, <1>7 DEF HeapTypeOK, Range
  <2>2. chunkSize'[p][PageHeader] = FirstChunkSize(n)
    BY <1>3, <1>5, <1>7 DEF HeapTypeOK
  <2> QED BY <2>1, <2>2, <1>8
<1>10. /\ frame' \in [Threads -> FrameType]
       /\ \A u \in Threads \ {t} : frame'[u] = frame[u]
       /\ frame'[t].new = frame[t].new /\ frame'[t].size = frame[t].size
       /\ frame'[t].ptr = frame[t].ptr /\ frame'[t].op = frame[t].op
       /\ frame'[t].page = p /\ frame'[t].chunk = PageHeader
  BY <1>2, <1>3, <1>5, HeaderFacts DEF FrameType
<1>11. OwnedType' /\ \A u \in Threads : HeldBy(u)' = HeldBy(u)
  BY <1>2, <1>3 DEF OwnedType, HeldBy
<1>12. BlocksAreAllocated'
  <2>1. ASSUME NEW q \in mapped'
        PROVE  {BlockOf(q, d) : d \in Range(allocation[q])}
                 = {ptr \in DOMAIN owned : PageOf(ptr) = q}
    <3>1. CASE q = p
      <4>1. allocation[q] = <<>> /\ Range(<<>>) = {}
        BY <1>3, <1>5, <3>1 DEF HeapInv, UnmappedPagesAreBlank, Range
      <4> QED BY <4>1, <1>5, <3>1
    <3>2. CASE q # p
      BY <1>3, <1>7, <3>2 DEF BlocksAreAllocated
    <3> QED BY <3>1, <3>2
  <2> QED BY <2>1, <1>2, <1>7 DEF BlocksAreAllocated
<1>13. Local(t)'
  <2>1. Excluded(t)'
    BY <1>2, <1>3 DEF Excluded, Critical
  <2>2. Holding(t)'
    BY <1>2, <1>3, <1>10, <1>11 DEF Holding, Answers
  <2>3. Found1(t)'
    <3>1. Aligned(t)' = n
      BY <1>10 DEF Aligned, n
    <3> QED BY <3>1, <1>2, <1>3, <1>7, <1>9, <1>10 DEF Found1
  <2>4. InStep(t)'
    <3>1. Aligned(t) # 0 /\ Aligned(t)' = Aligned(t)
      BY <1>10 DEF AddMediumPage, Aligned
    <3> QED BY <3>1, <1>2, <1>3, <1>10 DEF InStep
  <2> QED BY <2>1, <2>2, <2>3, <2>4 DEF Local
<1>14. lock = t
  BY <1>2, <1>3 DEF Excluded, Critical
<1> QED
  BY <1>2, <1>6, <1>10, <1>11, <1>12, <1>13, <1>14, OneStep DEF Labels

LEMMA AddLargePageInv ==
  ASSUME IInv, NEW t \in Threads, AddLargePage(t)
  PROVE  IInv'
<1> DEFINE n == Aligned(t)
<1>1. PICK p \in Pages : /\ MmapMayReturn(p)
                         /\ MapLargePage(p, n, Destination(t))
                         /\ Give(t, BlockOf(p, PageHeader))
  BY DEF AddLargePage
<1> DEFINE new == BlockOf(p, PageHeader)
<1>2. /\ pc[t] = "allocate" /\ GetZoneType(n) = "LARGE_ZONE" /\ MmapAccepts(n)
      /\ Give(t, new)
  BY <1>1 DEF AddLargePage
<1>3. /\ HeapInv /\ HeapTypeOK /\ BlocksAreAllocated /\ frame[t] \in FrameType
  BY InCall, Parts
<1>4. n \in Nat /\ Destination(t) = GetZoneType(n)
  <2>1. n # 0
    BY <1>2, ConstantFacts DEF GetZoneType
  <2> QED BY <1>3, <2>1, DestinationFacts
<1> HIDE DEF n
<1>5. p \in Pages \ mapped /\ \A ptr \in DOMAIN owned : PageOf(ptr) # p
  BY <1>1 DEF MmapMayReturn
<1>6. HeapInv'
  BY <1>1, <1>2, <1>3, <1>4, <1>5, MapPageInv
<1>7. /\ mapped' = mapped \cup {p}
      /\ allocation' = [allocation EXCEPT ![p] = <<PageHeader>>]
  BY <1>1 DEF MapLargePage, MapPage
<1>8. new \in Blocks \ DOMAIN owned /\ PageOf(new) = p
  <2>1. DataOfChunk(PageHeader) \in Nat
    <3>1. PageHeader + ChunkHeader + ALIGNMENT <= SIZE_MAX
      BY ConstantFacts, HeaderFacts
    <3> QED BY <3>1, HeaderFacts, BlockToChunk
  <2>2. new \in Blocks /\ PageOf(new) = p
    BY <1>5, <2>1 DEF BlockOf, Blocks, PageOf
  <2> QED BY <2>2, <1>5
<1>9. DOMAIN owned' = DOMAIN owned \cup {new}
  BY <1>2, <1>8, GiveFacts
<1>10. BlocksAreAllocated'
  <2>1. ASSUME NEW q \in mapped'
        PROVE  {BlockOf(q, d) : d \in Range(allocation'[q])}
                 = {ptr \in DOMAIN owned' : PageOf(ptr) = q}
    <3>1. CASE q = p
      <4>1. allocation'[q] = <<PageHeader>> /\ Range(<<PageHeader>>) = {PageHeader}
        BY <1>3, <1>5, <1>7, <3>1 DEF HeapTypeOK, Range
      <4>2. {BlockOf(q, d) : d \in Range(allocation'[q])} = {new}
        BY <4>1, <3>1
      <4> QED BY <4>2, <1>5, <1>8, <1>9, <3>1
    <3>2. CASE q # p
      <4>1. q \in mapped /\ allocation'[q] = allocation[q]
        BY <1>3, <1>5, <1>7, <3>2 DEF HeapTypeOK
      <4> QED BY <4>1, <1>3, <1>8, <1>9, <3>2 DEF BlocksAreAllocated
    <3> QED BY <3>1, <3>2
  <2> QED BY <2>1 DEF BlocksAreAllocated
<1>11. Local(t)'
  <2>1. Found1(t)'
    BY <1>2, <1>7, <1>8, GiveFacts DEF Found1
  <2> QED BY <2>1, <1>2, <1>8, GiveFacts DEF Local
<1> HIDE DEF new
<1>12. PICK l \in Labels : Goto(t, l)
  BY <1>2, <1>8, GiveFacts
<1>13. /\ OwnedType' /\ lock = t /\ lock' = lock
       /\ \A u \in Threads \ {t} : HeldBy(u)' = HeldBy(u)
       /\ frame' \in [Threads -> FrameType]
       /\ \A u \in Threads \ {t} : frame'[u] = frame[u]
  BY <1>2, <1>8, GiveFacts
<1> QED BY <1>6, <1>10, <1>11, <1>12, <1>13, OneStep

-----------------------------------------------------------------------------
(* The steps that take a block back.                                       *)

LEMMA TakeBackFacts ==
  ASSUME IInv, NEW t \in Threads, pc[t] = "free", frame[t].ptr # NULL,
         NEW left, TakeBack(frame[t].ptr, left),
         left \in [DOMAIN owned -> [tag: Tags \cup {Zero, Junk}, len: 0 .. SIZE_MAX]]
  PROVE  /\ OwnedType' /\ frame[t].ptr \in DOMAIN owned
         /\ DOMAIN owned' = DOMAIN owned \ {frame[t].ptr}
         /\ \A u \in Threads \ {t} : HeldBy(u)' = HeldBy(u)
         /\ HeldBy(t)' = {frame[t].new} \ {NULL}
         /\ lock = t
<1> DEFINE ptr == frame[t].ptr
           new == frame[t].new
<1>1. /\ Excluded(t) /\ Holding(t) /\ InStep(t) /\ OwnedType
  BY InCall
<1>2. /\ DOMAIN owned' = DOMAIN owned \ {ptr}
      /\ \A x \in DOMAIN owned' : owned'[x] = owned[x]
      /\ content' = [x \in DOMAIN owned \ {ptr} |-> left[x]]
  BY DEF TakeBack, Restrict
<1>3. HeldBy(t) = {ptr, new} \ {NULL} /\ lock = t
  BY <1>1 DEF Holding, Answers, Excluded, Critical
<1>4. ptr \in DOMAIN owned /\ owned[ptr].by = t
  BY <1>3 DEF HeldBy
<1>5. new = ptr => new = NULL
  BY <1>1 DEF InStep
<1>6. OwnedType'
  BY <1>1, <1>2 DEF OwnedType
<1>7. \A u \in Threads : HeldBy(u)' = HeldBy(u) \ {ptr}
  BY <1>2 DEF HeldBy
<1>8. \A u \in Threads \ {t} : ptr \notin HeldBy(u)
  BY <1>4 DEF HeldBy
<1>9. HeldBy(t)' = {new} \ {NULL}
  BY <1>3, <1>5, <1>7
<1> QED BY <1>2, <1>3, <1>4, <1>6, <1>7, <1>8, <1>9, SMTT(30)

(* After munmap the blocks still hold bytes, be it none.                   *)
LEMMA ContentsWithoutType ==
  ASSUME OwnedType, NEW p
  PROVE  ContentsWithout(p) \in
           [DOMAIN owned -> [tag: Tags \cup {Zero, Junk}, len: 0 .. SIZE_MAX]]
<1>1. Bytes(Junk, 0) \in [tag: Tags \cup {Zero, Junk}, len: 0 .. SIZE_MAX]
  BY ConstantFacts DEF Bytes
<1> QED BY <1>1 DEF ContentsWithout, OwnedType

(* Where there is no block, nothing is lost.                               *)
LEMMA NothingWithout ==
  ASSUME OwnedType, NEW p, \A ptr \in DOMAIN owned : PageOf(ptr) # p
  PROVE  ContentsWithout(p) = content
<1> DEFINE B == [tag: Tags \cup {Zero, Junk}, len: 0 .. SIZE_MAX]
<1>1. content \in [DOMAIN owned -> B]
  BY DEF OwnedType
<1>2. ContentsWithout(p) = [ptr \in DOMAIN owned |-> content[ptr]]
  BY <1>1 DEF ContentsWithout
<1> QED BY <1>1, <1>2

LEMMA FreePageInv ==
  ASSUME IInv, NEW t \in Threads, FreePage(t), Survives(t)
  PROVE  IInv'
<1> DEFINE ptr == frame[t].ptr
           p == PageOf(ptr)
<1>1. /\ pc[t] = "free" /\ ptr # NULL /\ UnmapPage(p)
      /\ TakeBack(ptr, ContentsWithout(p))
      /\ Goto(t, "exit") /\ lock' = lock /\ frame' = frame
  BY DEF FreePage
<1>2. /\ Excluded(t) /\ Holding(t) /\ InStep(t) /\ OwnedType
      /\ frame \in [Threads -> FrameType] /\ pc'[t] = "exit"
      /\ HeapInv /\ HeapTypeOK /\ BlocksAreAllocated
  BY <1>1, InCall, Parts
<1>3. p \in mapped
  BY <1>1 DEF Survives, Touches
<1>4. HeapInv'
  BY <1>1, <1>2, <1>3, UnmapPageInv
<1>5. /\ OwnedType' /\ DOMAIN owned' = DOMAIN owned \ {ptr}
      /\ \A u \in Threads \ {t} : HeldBy(u)' = HeldBy(u)
      /\ HeldBy(t)' = {frame[t].new} \ {NULL}
      /\ lock = t
  BY <1>1, <1>2, ContentsWithoutType, TakeBackFacts
<1>6. BlocksAreAllocated'
  <2>1. ASSUME NEW q \in mapped'
        PROVE  {BlockOf(q, d) : d \in Range(allocation'[q])}
                 = {x \in DOMAIN owned' : PageOf(x) = q}
    <3>1. q \in mapped /\ q # p /\ allocation'[q] = allocation[q]
      BY <1>1, <1>2 DEF UnmapPage, HeapTypeOK
    <3> QED BY <3>1, <1>2, <1>5 DEF BlocksAreAllocated
  <2> QED BY <2>1 DEF BlocksAreAllocated
<1>7. Local(t)'
  <2>1. Excluded(t)'
    BY <1>1, <1>2 DEF Excluded, Critical
  <2>2. Holding(t)'
    BY <1>1, <1>2, <1>5 DEF Holding, Answers, InStep
  <2>3. Found1(t)' /\ InStep(t)'
    BY <1>2 DEF Found1, InStep
  <2> QED BY <2>1, <2>2, <2>3 DEF Local
<1> QED BY <1>1, <1>2, <1>4, <1>5, <1>6, <1>7, OneStep DEF Labels

LEMMA FreeChunkInv ==
  ASSUME IInv, NEW t \in Threads, FreeChunk(t), Survives(t)
  PROVE  IInv'
<1> DEFINE ptr == frame[t].ptr
           p == PageOf(ptr)
           c == ChunkOf(ptr)
<1>1. /\ pc[t] = "free" /\ ptr # NULL /\ PutChunk(p, c) /\ TakeBack(ptr, content)
      /\ frame' = [frame EXCEPT ![t].page = p]
      /\ Goto(t, "release") /\ lock' = lock
  BY DEF FreeChunk
<1>2. /\ Excluded(t) /\ Holding(t) /\ InStep(t) /\ OwnedType
      /\ frame \in [Threads -> FrameType] /\ pc'[t] = "release"
      /\ frame[t] \in FrameType
      /\ HeapInv /\ HeapTypeOK /\ BlocksAreAllocated
  BY <1>1, InCall, Parts
<1>3. p \in mapped /\ p \in Pages
  BY <1>1, <1>2 DEF Survives, Touches, HeapTypeOK
<1>4. /\ OwnedType' /\ ptr \in DOMAIN owned
      /\ DOMAIN owned' = DOMAIN owned \ {ptr}
      /\ \A u \in Threads \ {t} : HeldBy(u)' = HeldBy(u)
      /\ HeldBy(t)' = {frame[t].new} \ {NULL}
      /\ lock = t
  BY <1>1, <1>2, TakeBackFacts DEF OwnedType
<1>5. c \in Range(allocation[p]) /\ ptr = BlockOf(p, c)
  BY <1>2, <1>3, <1>4, OwnedChunkFacts
<1>6. HeapInv'
  BY <1>1, <1>2, <1>3, <1>5, PutChunkInv
<1>7. /\ mapped' = mapped
      /\ allocation' = [allocation EXCEPT ![p] = RemoveFirst(@, c)]
  BY <1>1 DEF PutChunk
<1>8. /\ frame' \in [Threads -> FrameType]
      /\ \A u \in Threads \ {t} : frame'[u] = frame[u]
      /\ frame'[t].new = frame[t].new /\ frame'[t].ptr = frame[t].ptr
      /\ frame'[t].op = frame[t].op /\ frame'[t].page = p
  BY <1>1, <1>2, <1>3 DEF FrameType
<1>9. BlocksAreAllocated'
  <2>1. ListedOnce(p) /\ allocation[p] \in Seq(Nat)
    BY <1>2, <1>3, PageFacts DEF ChunkTypes
  <2>2. Range(RemoveFirst(allocation[p], c)) = Range(allocation[p]) \ {c}
    BY <2>1, <1>5, RemoveFirstUnlinks DEF ListedOnce
  <2>3. \A d \in Range(allocation[p]) : BlockOf(p, d) = ptr => d = c
    <3>1. \A d \in Range(allocation[p]) : d \in Chunks(p)
      BY <2>1 DEF ListedOnce
    <3>2. \A d \in Range(allocation[p]) : ChunkOf(BlockOf(p, d)) = d
      BY <1>2, <1>3, <3>1, ChunkFacts
    <3> QED BY <3>2
  <2> HIDE DEF p, c, ptr
  <2>4. ASSUME NEW q \in mapped
        PROVE  {BlockOf(q, d) : d \in Range(allocation'[q])}
                 = {x \in DOMAIN owned' : PageOf(x) = q}
    <3>1. {BlockOf(q, d) : d \in Range(allocation[q])}
            = {x \in DOMAIN owned : PageOf(x) = q}
      BY <1>2 DEF BlocksAreAllocated
    <3>2. CASE q = p
      <4>1. Range(allocation'[q]) = Range(allocation[q]) \ {c}
        BY <1>2, <1>3, <1>7, <2>2, <3>2 DEF HeapTypeOK
      <4>2. {BlockOf(q, d) : d \in Range(allocation'[q])}
              = {BlockOf(q, d) : d \in Range(allocation[q])} \ {ptr}
        BY <4>1, <1>5, <2>3, <3>2
      <4> QED BY <4>2, <3>1, <1>4
    <3>3. CASE q # p
      <4>1. allocation'[q] = allocation[q] /\ PageOf(ptr) # q
        BY <1>2, <1>7, <3>3 DEF HeapTypeOK, p
      <4> QED BY <4>1, <3>1, <1>4
    <3> QED BY <3>2, <3>3
  <2> QED BY <2>4, <1>7 DEF BlocksAreAllocated
<1>10. Local(t)'
  <2>1. Excluded(t)'
    BY <1>1, <1>2 DEF Excluded, Critical
  <2>2. Holding(t)'
    BY <1>1, <1>2, <1>4, <1>8 DEF Holding, Answers, InStep
  <2>3. Found1(t)'
    BY <1>2, <1>3, <1>7, <1>8 DEF Found1
  <2>4. InStep(t)'
    BY <1>1, <1>2, <1>8 DEF InStep
  <2> QED BY <2>1, <2>2, <2>3, <2>4 DEF Local
<1> QED BY <1>1, <1>4, <1>6, <1>8, <1>9, <1>10, OneStep DEF Labels

LEMMA ReleasePageInv ==
  ASSUME IInv, NEW t \in Threads, ReleasePage(t)
  PROVE  IInv'
<1> DEFINE p == frame[t].page
<1>1. /\ pc[t] = "release" /\ allocation[p] = <<>> /\ UnmapPage(p)
      /\ frame' = [frame EXCEPT ![t].page = NULL]
      /\ content' = ContentsWithout(p)
      /\ Goto(t, "exit") /\ UNCHANGED <<lock, owned>>
  BY DEF ReleasePage, IsSpare
<1>2. /\ Excluded(t) /\ Holding(t) /\ Found1(t) /\ OwnedType
      /\ frame \in [Threads -> FrameType] /\ pc'[t] = "exit"
      /\ frame[t] \in FrameType
      /\ HeapInv /\ HeapTypeOK /\ BlocksAreAllocated
  BY <1>1, InCall, Parts
<1>3. p \in mapped /\ lock = t
  BY <1>1, <1>2 DEF Found1, Excluded, Critical
<1>4. HeapInv'
  BY <1>1, <1>2, <1>3, UnmapPageInv
<1>5. /\ frame' \in [Threads -> FrameType]
      /\ \A u \in Threads \ {t} : frame'[u] = frame[u]
      /\ frame'[t].new = frame[t].new /\ frame'[t].ptr = frame[t].ptr
      /\ frame'[t].op = frame[t].op
  BY <1>1, <1>2 DEF FrameType
<1>6. OwnedType' /\ \A u \in Threads : HeldBy(u)' = HeldBy(u)
  BY <1>1, <1>2, ContentsWithoutType DEF OwnedType, HeldBy
<1>7. BlocksAreAllocated'
  <2>1. ASSUME NEW q \in mapped'
        PROVE  {BlockOf(q, d) : d \in Range(allocation'[q])}
                 = {x \in DOMAIN owned : PageOf(x) = q}
    <3>1. q \in mapped /\ q # p /\ allocation'[q] = allocation[q]
      BY <1>1, <1>2 DEF UnmapPage, HeapTypeOK
    <3> QED BY <3>1, <1>2 DEF BlocksAreAllocated
  <2> QED BY <2>1, <1>1 DEF BlocksAreAllocated
<1>8. Local(t)'
  <2>1. Excluded(t)'
    BY <1>1, <1>2 DEF Excluded, Critical
  <2>2. Holding(t)'
    BY <1>1, <1>2, <1>5, <1>6 DEF Holding, Answers
  <2>3. Found1(t)' /\ InStep(t)'
    BY <1>2 DEF Found1, InStep
  <2> QED BY <2>1, <2>2, <2>3 DEF Local
<1> QED BY <1>1, <1>3, <1>4, <1>5, <1>6, <1>7, <1>8, OneStep DEF Labels

-----------------------------------------------------------------------------
(* The steps outside the critical section, and the last one of a process.  *)

(* A call that returns hands over what it holds, and nothing else changes. *)
LEMMA FinishFacts ==
  ASSUME IInv, NEW t \in Threads, pc[t] = "return", Finish(t),
         DOMAIN owned' = DOMAIN owned, OwnedType',
         \A x \in DOMAIN owned :
           IF x \in HeldBy(t) THEN owned'[x].by = NoThread
           ELSE owned'[x] = owned[x]
  PROVE  IInv'
<1>1. /\ Excluded(t) /\ Holding(t) /\ OwnedType
      /\ frame \in [Threads -> FrameType] /\ t # NoThread
      /\ HeapInv /\ BlocksAreAllocated
  BY InCall, Parts
<1>2. /\ Goto(t, "idle") /\ pc'[t] = "idle" /\ UNCHANGED heapVars /\ lock' = lock
      /\ frame' = [frame EXCEPT ![t] = NoFrame]
  BY InCall DEF Finish
<1>3. /\ frame' \in [Threads -> FrameType]
      /\ \A u \in Threads \ {t} : frame'[u] = frame[u]
  <2>1. NoFrame \in FrameType
    BY ConstantFacts DEF NoFrame, FrameType, Pointers
  <2> HIDE DEF FrameType
  <2> QED BY <1>1, <1>2, <2>1
<1>4. ASSUME NEW u \in Threads \ {t} PROVE HeldBy(u)' = HeldBy(u)
  <2>1. u # NoThread /\ u # t
    BY ProgramAssumption
  <2> QED BY <2>1 DEF HeldBy
<1>5. HeldBy(t)' = {}
  BY <1>1 DEF HeldBy
<1>6. HeapInv'
  BY <1>1, <1>2, HeapKept
<1>7. BlocksAreAllocated'
  BY <1>1, <1>2 DEF BlocksAreAllocated, heapVars
<1>8. Local(t)'
  <2>1. Excluded(t)'
    BY <1>1, <1>2 DEF Excluded, Critical
  <2>2. Holding(t)'
    BY <1>2, <1>5 DEF Holding, Answers
  <2>3. Found1(t)' /\ InStep(t)'
    BY <1>2 DEF Found1, InStep
  <2> QED BY <2>1, <2>2, <2>3 DEF Local
<1> QED BY <1>2, <1>3, <1>4, <1>6, <1>7, <1>8, OneStep DEF Labels

LEMMA ReturnNewBlockInv ==
  ASSUME IInv, NEW t \in Threads, ReturnNewBlock(t)
  PROVE  IInv'
<1> DEFINE new == frame[t].new
           size == frame[t].size
           Owned(tag) == Block(NoThread, size, tag, size)
<1>1. pc[t] = "return" /\ Finish(t) /\ new # NULL
  BY DEF ReturnNewBlock, Finish
<1>2. Holding(t) /\ OwnedType /\ size \in 0 .. SIZE_MAX
  BY InCall DEF FrameType
<1>3. HeldBy(t) = {new} /\ new \in DOMAIN owned
  BY <1>1, <1>2 DEF Holding, Answers, HeldBy
<1>4. \A tag \in Tags \cup {Zero} :
        /\ Owned(tag) \in [by: Threads \cup {NoThread}, size: 0 .. SIZE_MAX,
                           tag: Tags \cup {Zero, Junk}, kept: 0 .. SIZE_MAX]
        /\ Owned(tag).by = NoThread
        /\ Bytes(tag, size) \in [tag: Tags \cup {Zero, Junk}, len: 0 .. SIZE_MAX]
  BY <1>2 DEF Block, Bytes
<1> HIDE DEF Owned, new, size
<1>5. PICK tag \in Tags \cup {Zero} :
        /\ owned' = [owned EXCEPT ![new] = Owned(tag)]
        /\ \/ content' = content
           \/ content' = [content EXCEPT ![new] = Bytes(tag, size)]
  BY DEF ReturnNewBlock, Owned, new, size
<1>6. DOMAIN owned' = DOMAIN owned /\ OwnedType'
  BY <1>2, <1>4, <1>5 DEF OwnedType
<1>7. \A x \in DOMAIN owned :
        IF x \in HeldBy(t) THEN owned'[x].by = NoThread ELSE owned'[x] = owned[x]
  BY <1>3, <1>4, <1>5
<1> QED BY <1>1, <1>6, <1>7, FinishFacts

LEMMA ReturnReallocatedInv ==
  ASSUME IInv, NEW t \in Threads, ReturnReallocated(t)
  PROVE  IInv'
<1> DEFINE new == frame[t].new
           size == frame[t].size
           b == Block(NoThread, size, owned[new].tag, Lesser(owned[new].kept, size))
<1>1. /\ pc[t] = "return" /\ Finish(t) /\ new # NULL
      /\ content' = content
      /\ owned' = [owned EXCEPT ![new] = b]
  BY DEF ReturnReallocated, Finish
<1>2. Holding(t) /\ OwnedType /\ size \in 0 .. SIZE_MAX
  BY InCall DEF FrameType
<1>3. HeldBy(t) = {new} /\ new \in DOMAIN owned
  BY <1>1, <1>2 DEF Holding, Answers, HeldBy
<1>4. /\ b \in [by: Threads \cup {NoThread}, size: 0 .. SIZE_MAX,
                tag: Tags \cup {Zero, Junk}, kept: 0 .. SIZE_MAX]
      /\ b.by = NoThread
  <2>1. owned[new].tag \in Tags \cup {Zero, Junk} /\ owned[new].kept \in 0 .. SIZE_MAX
    BY <1>2, <1>3 DEF OwnedType
  <2>2. Lesser(owned[new].kept, size) \in 0 .. SIZE_MAX
    BY <1>2, <2>1 DEF Lesser
  <2> QED BY <1>2, <2>1, <2>2 DEF Block
<1> HIDE DEF b, new, size
<1>5. DOMAIN owned' = DOMAIN owned /\ OwnedType'
  BY <1>1, <1>2, <1>4 DEF OwnedType
<1>6. \A x \in DOMAIN owned :
        IF x \in HeldBy(t) THEN owned'[x].by = NoThread ELSE owned'[x] = owned[x]
  BY <1>1, <1>3, <1>4
<1> QED BY <1>1, <1>5, <1>6, FinishFacts

LEMMA ReturnNullInv ==
  ASSUME IInv, NEW t \in Threads, ReturnNull(t)
  PROVE  IInv'
<1>1. /\ pc[t] = "return" /\ Finish(t) /\ content' = content
      /\ owned' = [x \in DOMAIN owned |->
                     IF owned[x].by = t THEN [owned[x] EXCEPT !.by = NoThread]
                     ELSE owned[x]]
  BY DEF ReturnNull, Finish
<1>2. OwnedType
  BY InCall
<1>3. /\ DOMAIN owned' = DOMAIN owned
      /\ \A x \in DOMAIN owned :
           owned'[x] = IF owned[x].by = t THEN [owned[x] EXCEPT !.by = NoThread]
                       ELSE owned[x]
  BY <1>1
<1>4. OwnedType'
  BY <1>1, <1>2, <1>3 DEF OwnedType
<1>5. \A x \in DOMAIN owned :
        IF x \in HeldBy(t) THEN owned'[x].by = NoThread ELSE owned'[x] = owned[x]
  BY <1>2, <1>3 DEF HeldBy, OwnedType
<1> QED BY <1>1, <1>3, <1>4, <1>5, FinishFacts

(* A process that is killed leaves everything as it is.                    *)
LEMMA FaultInv ==
  ASSUME IInv, NEW t \in Threads, Fault(t)
  PROVE  IInv'
<1>1. /\ HeapInv /\ BlocksAreAllocated /\ TypeOK
      /\ UNCHANGED <<heapVars, lock, frame, owned, content>>
      /\ pc' = [u \in Threads |-> "killed"]
  BY DEF IInv, Fault
<1>2. UNCHANGED heapVars
  BY <1>1
<1>3. HeapInv'
  BY <1>1, <1>2, HeapKept
<1>4. TypeOK'
  BY <1>1, <1>3 DEF TypeOK, HeapInv, Labels
<1>5. BlocksAreAllocated'
  BY <1>1 DEF BlocksAreAllocated, heapVars
<1>6. /\ MutualExclusion' /\ CallsHoldBlocks'
      /\ FindingsStayValid' /\ CallsAreInStep'
  BY <1>1 DEF MutualExclusion, CallsHoldBlocks, FindingsStayValid, CallsAreInStep,
     InStep
<1> QED BY <1>3, <1>4, <1>5, <1>6 DEF IInv

-----------------------------------------------------------------------------
(* The invariant.                                                          *)

LEMMA InitInv == Init => IInv
<1> SUFFICES ASSUME Init PROVE IInv
  OBVIOUS
<1>1. /\ lock = NoThread /\ owned = <<>> /\ content = <<>>
      /\ pc = [t \in Threads |-> "idle"] /\ frame = [t \in Threads |-> NoFrame]
      /\ HeapInit
  BY DEF Init
<1>2. HeapInv
  BY <1>1, HeapInitInv
<1>3. DOMAIN owned = {} /\ DOMAIN content = {}
  BY <1>1
<1>4. TypeOK
  <2>1. NoFrame \in FrameType
    BY ConstantFacts DEF NoFrame, FrameType, Pointers
  <2>2. frame \in [Threads -> FrameType]
    BY <1>1, <2>1
  <2> QED BY <1>1, <1>2, <1>3, <2>2 DEF TypeOK, HeapInv, FrameType, Labels
<1>5. BlocksAreAllocated
  BY <1>1 DEF HeapInit, BlocksAreAllocated
<1>6. MutualExclusion
  BY <1>1, ProgramAssumption DEF MutualExclusion, Critical
<1>7. CallsHoldBlocks
  BY <1>1, <1>3 DEF CallsHoldBlocks, HeldBy, Answers
<1>8. FindingsStayValid /\ CallsAreInStep
  BY <1>1 DEF FindingsStayValid, CallsAreInStep, InStep
<1> QED BY <1>2, <1>4, <1>5, <1>6, <1>7, <1>8 DEF IInv

LEMMA NextInv == IInv /\ [Next]_vars => IInv'
<1> SUFFICES ASSUME IInv, [Next]_vars PROVE IInv'
  OBVIOUS
<1>1. CASE UNCHANGED vars
  <2>1. UNCHANGED heapVars /\ UNCHANGED <<lock, pc, frame, owned, content>>
    BY <1>1 DEF vars
  <2>2. HeapInv'
    BY <2>1, HeapKept DEF IInv
  <2>3. TypeOK'
    BY <2>1, <2>2 DEF IInv, TypeOK, HeapInv
  <2>4. BlocksAreAllocated' /\ MutualExclusion' /\ CallsHoldBlocks'
    <3>1. BlocksAreAllocated'
      BY <2>1 DEF IInv, BlocksAreAllocated, heapVars
    <3>2. MutualExclusion'
      BY <2>1 DEF IInv, MutualExclusion
    <3>3. CallsHoldBlocks'
      BY <2>1 DEF IInv, CallsHoldBlocks, HeldBy, Answers
    <3> QED BY <3>1, <3>2, <3>3
  <2>5. FindingsStayValid' /\ CallsAreInStep'
    <3>1. FindingsStayValid'
      BY <2>1 DEF IInv, FindingsStayValid, heapVars, Aligned
    <3>2. CallsAreInStep'
      BY <2>1 DEF IInv, CallsAreInStep, InStep, Aligned
    <3> QED BY <3>1, <3>2
  <2> QED BY <2>2, <2>3, <2>4, <2>5 DEF IInv
<1>2. ASSUME NEW t \in Threads, Begin(t) PROVE IInv'
  BY <1>2, BeginInv
<1>3. ASSUME NEW t \in Threads, Proceed(t) PROVE IInv'
  <2>1. CASE Fault(t)
    BY <2>1, FaultInv
  <2>2. CASE Survives(t) /\ (Enter(t) \/ Exit(t) \/ Clear(t))
    BY <2>2, EnterInv, ExitInv, ClearInv
  <2>3. CASE Survives(t) /\ (ReallocInPlace(t) \/ ReallocElsewhere(t) \/ CopyBlock(t))
    BY <2>3, ReallocInPlaceInv, ReallocElsewhereInv, CopyBlockInv
  <2>4. CASE Survives(t) /\ (FindFreeChunk(t) \/ AddMediumPage(t) \/ TakeFoundChunk(t)
                               \/ AddLargePage(t) \/ AllocateNothing(t))
    BY <2>4, FindFreeChunkInv, AddMediumPageInv, TakeFoundChunkInv,
       AddLargePageInv, AllocateNothingInv
  <2>5. CASE Survives(t) /\ (FreeNull(t) \/ FreePage(t) \/ FreeChunk(t)
                               \/ ReleasePage(t) \/ KeepPage(t))
    BY <2>5, FreeNullInv, FreePageInv, FreeChunkInv, ReleasePageInv, KeepPageInv
  <2>6. CASE Survives(t) /\ (ReturnNewBlock(t) \/ ReturnReallocated(t)
                               \/ ReturnNull(t))
    BY <2>6, ReturnNewBlockInv, ReturnReallocatedInv, ReturnNullInv
  <2> QED BY <1>3, <2>1, <2>2, <2>3, <2>4, <2>5, <2>6 DEF Proceed
<1> QED BY <1>1, <1>2, <1>3 DEF Next

(* In every state a program can bring the allocator to, all of IInv holds. *)
THEOREM Invariance == Spec => []IInv
BY InitInv, NextInv, PTL DEF Spec

(* The variables keep their types: no size is negative or beyond size_t,   *)
(* and no list of the heap holds anything but pages and chunks.            *)
THEOREM TypeCorrect == Spec => []TypeOK
<1>1. IInv => TypeOK
  BY DEF IInv
<1> QED BY <1>1, Invariance, PTL

(* malloc_lock excludes: whoever is between enter_wrapper and exit_wrapper *)
(* holds it, alone.                                                        *)
THEOREM LockExcludes == Spec => []MutualExclusion
<1>1. IInv => MutualExclusion
  BY DEF IInv
<1> QED BY <1>1, Invariance, PTL

(* push_front_page and remove_page keep every mapping linked once, in the  *)
(* list of its zone.                                                       *)
THEOREM PagesStayLinked == Spec => []ZonesLinkMappedPages
<1>1. IInv => ZonesLinkMappedPages
  BY DEF IInv, HeapInv
<1> QED BY <1>1, Invariance, PTL

(* No chunk is lost and none is both free and handed out.                  *)
THEOREM ChunksStayListed == Spec => []ChunksAreListedOnce
<1>1. IInv => ChunksAreListedOnce
  BY DEF IInv, HeapInv
<1> QED BY <1>1, Invariance, PTL

(* Splitting never makes two chunks of a page overlap or leave a gap.      *)
THEOREM ChunksKeepTiling == Spec => []ChunksTilePage
<1>1. IInv => ChunksTilePage
  BY DEF IInv, HeapInv
<1> QED BY <1>1, Invariance, PTL

(* The allocation lists hold the chunks of the program's blocks, no other. *)
THEOREM AllocatedIsOwned == Spec => []BlocksAreAllocated
<1>1. IInv => BlocksAreAllocated
  BY DEF IInv
<1> QED BY <1>1, Invariance, PTL

(* Nothing a call was given, or took, is lost or given twice.              *)
THEOREM NothingIsLeaked == Spec => []CallsHoldBlocks
<1>1. IInv => CallsHoldBlocks
  BY DEF IInv
<1> QED BY <1>1, Invariance, PTL

(* What a search found is still there when it is used.                     *)
THEOREM FindingsAreUsable == Spec => []FindingsStayValid
<1>1. IInv => FindingsStayValid
  BY DEF IInv
<1> QED BY <1>1, Invariance, PTL

(* A failing realloc leaves the program its block.                         *)
THEOREM FailureLosesNothing == Spec => []FailureKeepsBlock
<1>1. IInv => FailureKeepsBlock
  BY DEF IInv, CallsHoldBlocks, FailureKeepsBlock, Answers, HeldBy
<1> QED BY <1>1, Invariance, PTL
=============================================================================
