--------------------------- MODULE GeometryProofs ---------------------------
(***************************************************************************)
(* What the size arithmetic owes the allocator, for every size_t n and     *)
(* every value of the constants.                                           *)
(***************************************************************************)
EXTENDS GeometryProperties, GeometryLemmas

LEMMA NumberIsSize == Spec => [](n \in 0 .. SIZE_MAX)
<1>1. Init => n \in 0 .. SIZE_MAX
  BY ConstantFacts DEF Init
<1>2. n \in 0 .. SIZE_MAX /\ [Next]_n => (n \in 0 .. SIZE_MAX)'
  BY ConstantFacts DEF Next
<1> QED BY <1>1, <1>2, PTL DEF Spec

(* The list realloc looks for a page in is that of the page it would map.  *)
THEOREM ZonesAgree == Spec => []ZoneOfSizeIsZoneOfPage
<1>1. n \in 0 .. SIZE_MAX => ZoneOfSizeIsZoneOfPage
  BY AligningKeepsZone DEF ZoneOfSizeIsZoneOfPage
<1> QED BY <1>1, NumberIsSize, PTL

(* allocate_free_chunk never cuts more from the chunk of a new page than it*)
(* has, whatever size allocate_page mapped it for.                         *)
THEOREM NewPageIsLargeEnough == Spec => []NewPageHoldsRequest
<1>1. n \in 0 .. SIZE_MAX => NewPageHoldsRequest
  <2>0. SUFFICES ASSUME n \in 0 .. SIZE_MAX PROVE NewPageHoldsRequest
    OBVIOUS
  <2>1. SIZE_MAX \in Nat /\ n \in Nat
    BY <2>0, ConstantFacts
  <2>2. ASSUME MmapAccepts(n), n + PageHeader + ChunkHeader <= SIZE_MAX
        PROVE  FirstChunkSize(n) >= n
    <3>1. n <= FirstChunkSize(n) /\ FirstChunkSize(n) \in Nat
      BY <2>1, <2>2, PageHoldsRequest, NewPageFacts
    <3> QED BY <2>1, <3>1
  <2> QED BY <2>2 DEF NewPageHoldsRequest, ZoneSizeFits
<1> QED BY <1>1, NumberIsSize, PTL

(* A page of the TINY or the SMALL zone has room for the blocks it is made *)
(* for: NB_ALLOCATION_ZONE of the largest of its zone.                     *)
THEOREM NewPageServesItsZone == Spec => []NewPageHoldsItsZone
<1>1. n \in 0 .. SIZE_MAX => NewPageHoldsItsZone
  <2>0. SUFFICES ASSUME n \in 0 .. SIZE_MAX PROVE NewPageHoldsItsZone
    OBVIOUS
  <2>1. /\ SIZE_MAX \in Nat /\ n \in Nat
        /\ TINY_ZONE_SIZE \in Nat /\ SMALL_ZONE_SIZE \in Nat
        /\ TINY_ZONE_SIZE < SMALL_ZONE_SIZE
    BY <2>0, ConstantFacts
  <2>2. n <= TINY_ZONE_SIZE =>
          FirstChunkSize(n) + ChunkHeader
            >= (TINY_ZONE_SIZE + ChunkHeader) * NB_ALLOCATION_ZONE
    BY <2>1, PageHoldsItsZone DEF GetZoneFullSize
  <2>3. n \in TINY_ZONE_SIZE + 1 .. SMALL_ZONE_SIZE =>
          FirstChunkSize(n) + ChunkHeader
            >= (SMALL_ZONE_SIZE + ChunkHeader) * NB_ALLOCATION_ZONE
    <3>1. n \in TINY_ZONE_SIZE + 1 .. SMALL_ZONE_SIZE =>
            ~ n <= TINY_ZONE_SIZE /\ n <= SMALL_ZONE_SIZE
      BY <2>1
    <3> QED BY <2>1, <3>1, PageHoldsItsZone DEF GetZoneFullSize
  <2> QED BY <2>2, <2>3 DEF NewPageHoldsItsZone
<1> QED BY <1>1, NumberIsSize, PTL

(* get_chunk_from_data undoes what hands out the block of a chunk.         *)
THEOREM BlocksFindTheirChunk == Spec => []BlockLeadsBackToChunk
<1>1. n \in 0 .. SIZE_MAX => BlockLeadsBackToChunk
  <2>0. SUFFICES ASSUME n \in 0 .. SIZE_MAX PROVE BlockLeadsBackToChunk
    OBVIOUS
  <2>1. /\ SIZE_MAX \in Nat /\ n \in Nat /\ ALIGNMENT \in Nat \ {0}
        /\ (SIZE_MAX + 1) % ALIGNMENT = 0 /\ SIZEOF_CHUNK_HEADER \in Nat
        /\ ChunkHeader \in Nat /\ ChunkHeader % ALIGNMENT = 0
        /\ SIZEOF_CHUNK_HEADER <= ChunkHeader
    BY <2>0, ConstantFacts, HeaderFacts, GeometryAssumption
  <2>2. ASSUME n % ALIGNMENT = 0, n + ChunkHeader <= SIZE_MAX
        PROVE  /\ GetChunkFromData(DataOfChunk(n)) = n
               /\ DataOfChunk(n) = n + ChunkHeader /\ DataOfChunk(n) % ALIGNMENT = 0
    <3> PICK a, h, x, y : /\ a = ALIGNMENT /\ h = ChunkHeader
                          /\ x = n + ChunkHeader /\ y = SIZE_MAX + 1
      OBVIOUS
    <3>1. x \in Nat /\ y \in Nat /\ x <= y /\ x % a = 0
      <4>1. a \in Nat \ {0} /\ h \in Nat /\ h % a = 0 /\ n % a = 0
        BY <2>1, <2>2
      <4>2. (n + h) % a = 0
        BY <2>1, <4>1, MultiplesAdd
      <4> QED BY <2>1, <2>2, <4>2
    <3>2. (y - x) % a = 0
      <4>1. a \in Nat \ {0} /\ y % a = 0
        BY <2>1
      <4> QED BY <3>1, <4>1, MultiplesSubtract
    <3>3. n + ChunkHeader + (ALIGNMENT - 1) <= SIZE_MAX
      <4> DEFINE rest == SIZE_MAX + 1 - (n + ChunkHeader)
      <4>1. rest \in Nat \ {0} /\ rest % ALIGNMENT = 0
        BY <2>1, <2>2, <3>2
      <4> HIDE DEF rest
      <4>2. ~ rest \in 0 .. ALIGNMENT - 1
        BY <2>1, <4>1, SmallRemainder
      <4>3. rest >= ALIGNMENT
        BY <2>1, <4>1, <4>2
      <4> QED BY <2>1, <4>3 DEF rest
    <3> QED BY <2>1, <2>2, <3>1, <3>3, BlockAndChunk
  <2>3. n % ALIGNMENT = 0 /\ n + ChunkHeader <= SIZE_MAX =>
          /\ GetChunkFromData(DataOfChunk(n)) = n /\ DataOfChunk(n) % ALIGNMENT = 0
          /\ DataOfChunk(n) >= n + SIZEOF_CHUNK_HEADER
          /\ DataOfChunk(n) <= n + ChunkHeader
    BY <2>1, <2>2
  <2> QED BY <2>3 DEF BlockLeadsBackToChunk
<1> QED BY <1>1, NumberIsSize, PTL

(* calloc and reallocarray refuse an element size of 0 and exactly the     *)
(* products that a size_t cannot hold (src/malloc.c, the division before   *)
(* the multiplication).                                                    *)
THEOREM ProductsAreChecked ==
  ASSUME NEW nmemb \in Nat, NEW size \in Nat
  PROVE  RejectsProduct(nmemb, size) <=> size = 0 \/ size * nmemb > SIZE_MAX
<1>1. SIZE_MAX \in Nat
  BY ConstantFacts
<1>2. CASE size = 0
  BY <1>2 DEF RejectsProduct
<1>3. CASE size # 0
  <2> DEFINE q == SIZE_MAX \div size
             r == SIZE_MAX % size
             product == size * nmemb
             whole == size * q
             next == size * (q + 1)
  <2>1. q \in Nat /\ r \in 0 .. size - 1 /\ SIZE_MAX = whole + r
    BY <1>1, <1>3, QuotientAndRemainder
  <2>2. RejectsProduct(nmemb, size) <=> q < nmemb
    BY <1>3 DEF RejectsProduct
  <2> HIDE DEF q, r
  <2>3. whole \in Nat /\ next = whole + size /\ product \in Nat
    BY <2>1
  <2>4. CASE q < nmemb
    <3>1. next <= product
      BY <2>1, <2>4, ProductsAreMonotone
    <3> HIDE DEF whole, next, product
    <3>2. product > SIZE_MAX
      BY <3>1, <2>1, <2>3
    <3> QED BY <3>2, <2>2, <2>4 DEF product
  <2>5. CASE ~ q < nmemb
    <3>1. product <= whole
      BY <2>1, <2>5, ProductsAreMonotone
    <3> HIDE DEF whole, next, product
    <3>2. ~ product > SIZE_MAX
      BY <1>1, <3>1, <2>1, <2>3
    <3> QED BY <3>2, <2>2, <2>5, <1>3 DEF product
  <2> QED BY <2>4, <2>5
<1> QED BY <1>2, <1>3

(* calloc and reallocarray compute no product that they have not checked.  *)
THEOREM ProductsFit == Spec => []ProductIsExact
<1>1. n \in 0 .. SIZE_MAX => ProductIsExact
  <2>0. SUFFICES ASSUME n \in 0 .. SIZE_MAX PROVE ProductIsExact
    OBVIOUS
  <2>1. SIZE_MAX \in Nat /\ n \in Nat
    BY <2>0, ConstantFacts
  <2>2. ASSUME NEW size \in Nat
        PROVE  RejectsProduct(n, size) <=> size = 0 \/ n * size > SIZE_MAX
    <3>1. size * n = n * size
      BY <2>1
    <3> QED BY <2>1, <3>1, ProductsAreChecked
  <2> QED BY <2>2 DEF ProductIsExact
<1> QED BY <1>1, NumberIsSize, PTL
=============================================================================
