--------------------------- MODULE GeometryLemmas ---------------------------
(***************************************************************************)
(* The arithmetic of module Geometry for every value of its constants.     *)
(***************************************************************************)
EXTENDS Geometry, TLAPS

-----------------------------------------------------------------------------
(* Division with remainder.                                                *)

LEMMA QuotientAndRemainder ==
  ASSUME NEW x \in Nat, NEW a \in Nat \ {0}
  PROVE  /\ x % a \in 0 .. a - 1
         /\ x \div a \in Nat
         /\ x = a * (x \div a) + (x % a)
OBVIOUS

LEMMA RemainderIsUnique ==
  ASSUME NEW x \in Nat, NEW a \in Nat \ {0}, NEW q \in Int, NEW r \in 0 .. a - 1,
         x = a * q + r
  PROVE  x % a = r
OBVIOUS

LEMMA SmallRemainder ==
  ASSUME NEW a \in Nat \ {0}, NEW x \in 0 .. a - 1
  PROVE  x % a = x
OBVIOUS

LEMMA MultiplesAdd ==
  ASSUME NEW a \in Nat \ {0}, NEW x \in Nat, NEW y \in Nat, x % a = 0, y % a = 0
  PROVE  (x + y) % a = 0
<1> DEFINE q == x \div a
           r == y \div a
<1>1. q \in Nat /\ r \in Nat /\ x = a * q /\ y = a * r
  BY QuotientAndRemainder
<1> HIDE DEF q, r
<1>2. a * q + a * r = a * (q + r)
  BY <1>1
<1>3. x + y = a * (q + r) + 0 /\ q + r \in Int /\ 0 \in 0 .. a - 1 /\ x + y \in Nat
  BY <1>1, <1>2
<1> QED BY ONLY <1>3, RemainderIsUnique, a \in Nat \ {0}

LEMMA MultiplesSubtract ==
  ASSUME NEW a \in Nat \ {0}, NEW x \in Nat, NEW y \in Nat, x % a = 0, y % a = 0,
         y <= x
  PROVE  (x - y) % a = 0
<1> DEFINE q == x \div a
           r == y \div a
<1>1. q \in Nat /\ r \in Nat /\ x = a * q /\ y = a * r
  BY QuotientAndRemainder
<1> HIDE DEF q, r
<1>2. a * q - a * r = a * (q - r)
  BY <1>1
<1>3. x - y = a * (q - r) + 0 /\ q - r \in Int /\ 0 \in 0 .. a - 1 /\ x - y \in Nat
  BY <1>1, <1>2
<1> QED BY ONLY <1>3, RemainderIsUnique, a \in Nat \ {0}

(* align_down_power_of_two: the largest multiple up to a number.           *)
LEMMA AlignDownFacts ==
  ASSUME NEW x \in Nat, NEW a \in Nat \ {0}
  PROVE  /\ AlignDown(x, a) \in Nat
         /\ AlignDown(x, a) % a = 0
         /\ AlignDown(x, a) <= x
         /\ x < AlignDown(x, a) + a
<1>1. /\ x % a \in 0 .. a - 1
      /\ x \div a \in Nat
      /\ x = a * (x \div a) + (x % a)
  BY QuotientAndRemainder
<1>2. AlignDown(x, a) = x - (x % a)
  BY DEF AlignDown
<1> DEFINE d == AlignDown(x, a)
           q == x \div a
           r == x % a
<1> HIDE DEF d, q, r
<1>3. r \in 0 .. a - 1 /\ q \in Nat /\ x = a * q + r /\ d = x - r
  BY <1>1, <1>2 DEF d, q, r
<1>4. a * q \in Nat /\ d = a * q + 0
  BY <1>3
<1>5. d \in Nat /\ d <= x /\ x < d + a
  BY <1>3, <1>4
<1>6. d % a = 0
  BY <1>4, <1>5, <1>3, RemainderIsUnique, 0 \in 0 .. a - 1
<1> QED BY <1>5, <1>6 DEF d

(* align_up_power_of_two, when it does not wrap around: the smallest       *)
(* multiple from a number on.                                              *)
LEMMA AlignUpFacts ==
  ASSUME NEW x \in Nat, NEW a \in Nat \ {0}, SIZE_MAX \in Nat,
         x + (a - 1) <= SIZE_MAX
  PROVE  /\ AlignUp(x, a) \in Nat
         /\ AlignUp(x, a) % a = 0
         /\ x <= AlignUp(x, a)
         /\ AlignUp(x, a) < x + a
<1>1. x + (a - 1) \in 0 .. (SIZE_MAX + 1) - 1 /\ SIZE_MAX + 1 \in Nat \ {0}
  OBVIOUS
<1>2. AlignUp(x, a) = AlignDown(x + (a - 1), a)
  BY <1>1, SmallRemainder DEF AlignUp
<1>3. x + (a - 1) \in Nat
  OBVIOUS
<1> DEFINE y == x + (a - 1)
           u == AlignUp(x, a)
<1>4. /\ u \in Nat /\ u % a = 0
      /\ u <= y /\ y < u + a
  BY <1>2, <1>3, AlignDownFacts
<1> HIDE DEF u
<1>5. x <= u /\ u < x + a
  BY <1>4
<1> QED BY <1>4, <1>5 DEF u

-----------------------------------------------------------------------------
(* The layout of a page.                                                   *)

LEMMA ConstantFacts ==
  /\ SIZE_MAX \in Nat /\ ALIGNMENT \in Nat \ {0} /\ PAGE_SIZE \in Nat \ {0}
  /\ SIZEOF_PAGE \in Nat \ {0} /\ SIZEOF_CHUNK_HEADER \in Nat \ {0}
  /\ TINY_ZONE_SIZE \in Nat \ {0} /\ SMALL_ZONE_SIZE \in Nat \ {0}
  /\ NB_ALLOCATION_ZONE \in Nat \ {0} /\ MMAP_MAX \in Nat \ {0}
  /\ TINY_ZONE_SIZE < SMALL_ZONE_SIZE
  /\ TINY_ZONE_SIZE + ChunkHeader <= SMALL_ZONE_SIZE
  /\ MMAP_MAX + PAGE_SIZE + ALIGNMENT <= SIZE_MAX
  /\ SIZEOF_PAGE + SIZEOF_CHUNK_HEADER + 2 * ALIGNMENT <= MMAP_MAX
  /\ PageHeader + ChunkHeader < PAGE_SIZE
BY GeometryAssumption

LEMMA HeaderFacts ==
  /\ PageHeader \in Nat /\ PageHeader % ALIGNMENT = 0
  /\ ChunkHeader \in Nat /\ ChunkHeader % ALIGNMENT = 0
  /\ SIZEOF_CHUNK_HEADER <= ChunkHeader
  /\ ChunkHeader < SIZEOF_CHUNK_HEADER + ALIGNMENT
<1>1. /\ SIZEOF_PAGE + (ALIGNMENT - 1) <= SIZE_MAX
      /\ SIZEOF_CHUNK_HEADER + (ALIGNMENT - 1) <= SIZE_MAX
  BY ConstantFacts
<1> QED BY <1>1, AlignUpFacts, ConstantFacts DEF PageHeader, ChunkHeader

(* Two multiples closer than the divisor are equal.                        *)
LEMMA CloseMultiples ==
  ASSUME NEW a \in Nat \ {0}, NEW x \in Nat, NEW y \in Nat, x % a = 0, y % a = 0,
         x < y + a, y < x + a
  PROVE  x = y
<1>1. CASE y <= x
  <2>1. (x - y) % a = 0
    BY <1>1, MultiplesSubtract
  <2>2. x - y \in 0 .. a - 1
    BY <1>1
  <2> QED BY <2>1, <2>2, SmallRemainder
<1>2. CASE x <= y
  <2>1. (y - x) % a = 0
    BY <1>2, MultiplesSubtract
  <2>2. y - x \in 0 .. a - 1
    BY <1>2
  <2> QED BY <2>1, <2>2, SmallRemainder
<1> QED BY <1>1, <1>2

(* free and realloc find the chunk of a block: get_chunk_from_data takes   *)
(* back what the block's address added to its chunk's.                     *)
LEMMA BlockAndChunk ==
  ASSUME NEW c \in Nat, c % ALIGNMENT = 0,
         c + ChunkHeader + (ALIGNMENT - 1) <= SIZE_MAX
  PROVE  /\ DataOfChunk(c) = c + ChunkHeader
         /\ GetChunkFromData(DataOfChunk(c)) = c
<1> DEFINE h == SIZEOF_CHUNK_HEADER
           d == DataOfChunk(c)
           b == GetChunkFromData(d)
<1>1. /\ ALIGNMENT \in Nat \ {0} /\ h \in Nat \ {0} /\ SIZE_MAX \in Nat
      /\ ChunkHeader \in Nat /\ ChunkHeader % ALIGNMENT = 0
      /\ h <= ChunkHeader /\ ChunkHeader < h + ALIGNMENT
  BY ConstantFacts, HeaderFacts
<1>2. d = c + ChunkHeader
  <2>1. c + h \in Nat /\ c + h + (ALIGNMENT - 1) <= SIZE_MAX
    BY <1>1
  <2>2. /\ d \in Nat /\ d % ALIGNMENT = 0
        /\ c + h <= d /\ d < c + h + ALIGNMENT
    BY <1>1, <2>1, AlignUpFacts DEF DataOfChunk
  <2>3. (c + ChunkHeader) % ALIGNMENT = 0
    BY <1>1, MultiplesAdd
  <2> HIDE DEF d, h
  <2>4. /\ d < (c + ChunkHeader) + ALIGNMENT
        /\ c + ChunkHeader < d + ALIGNMENT
        /\ c + ChunkHeader \in Nat
    BY <1>1, <2>2
  <2> QED BY <1>1, <2>2, <2>3, <2>4, CloseMultiples
<1>3. b = c
  <2> DEFINE e == d - h
  <2>1. e \in Nat /\ c <= e /\ e < c + ALIGNMENT
    BY <1>1, <1>2
  <2>2. /\ b \in Nat /\ b % ALIGNMENT = 0
        /\ b <= e /\ e < b + ALIGNMENT
    BY <1>1, <2>1, AlignDownFacts DEF GetChunkFromData
  <2> HIDE DEF b, e
  <2>3. b < c + ALIGNMENT /\ c < b + ALIGNMENT
    BY <1>1, <2>1, <2>2
  <2> QED BY <1>1, <2>2, <2>3, CloseMultiples
<1> QED BY <1>2, <1>3

LEMMA BlockToChunk ==
  ASSUME NEW c \in Nat, c % ALIGNMENT = 0,
         c + ChunkHeader + ALIGNMENT <= SIZE_MAX
  PROVE  /\ DataOfChunk(c) = c + ChunkHeader
         /\ GetChunkFromData(DataOfChunk(c)) = c
<1>1. c + ChunkHeader + (ALIGNMENT - 1) <= SIZE_MAX
  BY ConstantFacts, HeaderFacts
<1> QED BY <1>1, BlockAndChunk

(* allocate_page: the first chunk reaches from behind the page header to   *)
(* the end of the page.                                                    *)
LEMMA NewPageFacts ==
  ASSUME NEW n \in Nat, MmapAccepts(n)
  PROVE  /\ TotalSize(n) \in 0 .. MMAP_MAX + PAGE_SIZE
         /\ FirstChunkSize(n) \in Nat /\ FirstChunkSize(n) > 0
         /\ PageHeader + ChunkHeader + FirstChunkSize(n) = TotalSize(n)
<1> DEFINE full == GetZoneFullSize(n)
           total == TotalSize(n)
<1>1. /\ full \in Nat /\ full >= 1 /\ full <= MMAP_MAX
      /\ PAGE_SIZE \in Nat \ {0} /\ MMAP_MAX \in Nat /\ SIZE_MAX \in Nat
      /\ full + (PAGE_SIZE - 1) <= SIZE_MAX
  BY ConstantFacts DEF MmapAccepts
<1>2. /\ total \in Nat /\ total % PAGE_SIZE = 0
      /\ full <= total /\ total < full + PAGE_SIZE
  BY <1>1, AlignUpFacts DEF TotalSize
<1> HIDE DEF full, total
<1>3. total >= PAGE_SIZE
  <2>1. SUFFICES ASSUME total < PAGE_SIZE PROVE FALSE
    BY <1>1, <1>2
  <2>2. total \in 0 .. PAGE_SIZE - 1
    BY <2>1, <1>1, <1>2
  <2> QED BY <2>2, <1>1, <1>2, SmallRemainder
<1>4. /\ total \in 0 .. MMAP_MAX + PAGE_SIZE
      /\ total - PageHeader - ChunkHeader \in Nat
      /\ total - PageHeader - ChunkHeader > 0
  BY <1>1, <1>2, <1>3, ConstantFacts, HeaderFacts
<1>5. FirstChunkSize(n) = total - PageHeader - ChunkHeader
  BY DEF FirstChunkSize, total
<1>6. PageHeader + ChunkHeader + FirstChunkSize(n) = total
  BY <1>2, <1>4, <1>5, HeaderFacts
<1> QED BY <1>4, <1>5, <1>6 DEF total

(* A limit that is a multiple divides the sizes as it does their roundings.*)
LEMMA RoundingKeepsLimit ==
  ASSUME NEW a \in Nat \ {0}, NEW x \in Nat, NEW limit \in Nat, limit % a = 0,
         NEW up \in Nat, up % a = 0, x <= up, up < x + a
  PROVE  x <= limit <=> up <= limit
<1>1. SUFFICES ASSUME x <= limit, limit < up PROVE FALSE
  OBVIOUS
<1>2. (up - limit) % a = 0
  <2>1. limit <= up
    BY <1>1
  <2> QED BY <2>1, MultiplesSubtract
<1>3. up - limit \in 0 .. a - 1
  BY <1>1
<1> QED BY <1>1, <1>2, <1>3, SmallRemainder

(* align_up_power_of_two close to SIZE_MAX: the sum wraps around to less   *)
(* than the alignment, which is rounded down to 0.                         *)
LEMMA AlignUpWraps ==
  ASSUME NEW x \in 0 .. SIZE_MAX, x + (ALIGNMENT - 1) > SIZE_MAX
  PROVE  AlignUp(x, ALIGNMENT) = 0
<1>1. SIZE_MAX \in Nat /\ ALIGNMENT \in Nat \ {0} /\ ALIGNMENT <= SIZE_MAX
  BY ConstantFacts
<1> DEFINE w == x + (ALIGNMENT - 1) - (SIZE_MAX + 1)
<1>2. w \in 0 .. ALIGNMENT - 1 /\ w \in 0 .. (SIZE_MAX + 1) - 1
  BY <1>1
<1>3. (x + (ALIGNMENT - 1)) % (SIZE_MAX + 1) = w
  <2>1. /\ x + (ALIGNMENT - 1) = (SIZE_MAX + 1) * 1 + w
        /\ x + (ALIGNMENT - 1) \in Nat /\ SIZE_MAX + 1 \in Nat \ {0}
    BY <1>1, <1>2
  <2> HIDE DEF w
  <2> QED BY <2>1, <1>2, RemainderIsUnique, 1 \in Int
<1>4. w % ALIGNMENT = w
  BY <1>1, <1>2, SmallRemainder
<1> HIDE DEF w
<1> QED BY <1>2, <1>3, <1>4 DEF AlignUp, AlignDown

(* What a request is rounded up to, for every size_t.                      *)
LEMMA AlignedSizeFacts ==
  ASSUME NEW x \in 0 .. SIZE_MAX
  PROVE  /\ AlignUp(x, ALIGNMENT) \in Nat
         /\ AlignUp(x, ALIGNMENT) % ALIGNMENT = 0
<1>1. SIZE_MAX \in Nat /\ ALIGNMENT \in Nat \ {0} /\ x \in Nat
  BY ConstantFacts
<1>2. CASE x + (ALIGNMENT - 1) <= SIZE_MAX
  BY <1>1, <1>2, AlignUpFacts
<1>3. CASE x + (ALIGNMENT - 1) > SIZE_MAX
  BY <1>1, <1>3, AlignUpWraps, SmallRemainder, 0 \in 0 .. ALIGNMENT - 1
<1> QED BY <1>1, <1>2, <1>3

(* malloc and allocate_page choose the zone by the aligned size, realloc by*)
(* the size it is given: they agree, so the page that is mapped for a      *)
(* request is linked in the list of its own zone.                          *)
LEMMA AligningKeepsZone ==
  ASSUME NEW x \in 0 .. SIZE_MAX, AlignUp(x, ALIGNMENT) # 0
  PROVE  /\ GetZoneFromSize(x) = GetZoneType(AlignUp(x, ALIGNMENT))
         /\ GetZoneFromSize(AlignUp(x, ALIGNMENT))
              = GetZoneType(AlignUp(x, ALIGNMENT))
<1> DEFINE up == AlignUp(x, ALIGNMENT)
<1>1. /\ SIZE_MAX \in Nat /\ ALIGNMENT \in Nat \ {0} /\ x \in Nat
      /\ TINY_ZONE_SIZE \in Nat /\ SMALL_ZONE_SIZE \in Nat
      /\ TINY_ZONE_SIZE % ALIGNMENT = 0 /\ SMALL_ZONE_SIZE % ALIGNMENT = 0
  BY ConstantFacts, GeometryAssumption
<1>2. x + (ALIGNMENT - 1) <= SIZE_MAX
  BY <1>1, AlignUpWraps
<1>3. up \in Nat /\ up % ALIGNMENT = 0 /\ x <= up /\ up < x + ALIGNMENT
  BY <1>1, <1>2, AlignUpFacts
<1> HIDE DEF up
<1>4. /\ x <= TINY_ZONE_SIZE <=> up <= TINY_ZONE_SIZE
      /\ x <= SMALL_ZONE_SIZE <=> up <= SMALL_ZONE_SIZE
  BY <1>1, <1>3, RoundingKeepsLimit
<1>5. GetZoneFromSize(x) = GetZoneType(up) /\ GetZoneFromSize(up) = GetZoneType(up)
  BY <1>4 DEF GetZoneFromSize, GetZoneType
<1> QED BY <1>5 DEF up

LEMMA RoomForOne ==
  ASSUME NEW x \in Nat, NEW k \in Nat \ {0}
  PROVE  x * k \in Nat /\ x <= x * k
<1>1. PICK j \in Nat : k = j + 1
  <2>1. k - 1 \in Nat /\ k = (k - 1) + 1
    OBVIOUS
  <2> QED BY <2>1
<1>2. x * j \in Nat /\ x * (j + 1) = x * j + x
  OBVIOUS
<1> QED BY <1>1, <1>2

(* allocate_free_chunk relies on this: the one chunk of a new page is large*)
(* enough for the request the page was mapped for, unless the size of the  *)
(* mapping has wrapped around.                                             *)
LEMMA PageHoldsRequest ==
  ASSUME NEW n \in Nat, MmapAccepts(n), n + PageHeader + ChunkHeader <= SIZE_MAX
  PROVE  n <= FirstChunkSize(n)
<1>1. /\ SIZE_MAX \in Nat /\ PAGE_SIZE \in Nat \ {0}
      /\ PageHeader \in Nat /\ ChunkHeader \in Nat
      /\ TINY_ZONE_SIZE \in Nat /\ SMALL_ZONE_SIZE \in Nat
      /\ NB_ALLOCATION_ZONE \in Nat \ {0}
      /\ GetZoneFullSize(n) \in Nat /\ GetZoneFullSize(n) + (PAGE_SIZE - 1) <= SIZE_MAX
  BY ConstantFacts, HeaderFacts DEF MmapAccepts
<1>2. GetZoneFullSize(n) >= PageHeader + ChunkHeader + n
  <2>1. CASE n <= TINY_ZONE_SIZE
    <3>1. TINY_ZONE_SIZE + ChunkHeader
            <= (TINY_ZONE_SIZE + ChunkHeader) * NB_ALLOCATION_ZONE
      BY <1>1, RoomForOne
    <3>2. (TINY_ZONE_SIZE + ChunkHeader) * NB_ALLOCATION_ZONE \in Nat
      BY <1>1, RoomForOne
    <3> QED BY <1>1, <2>1, <3>1, <3>2 DEF GetZoneFullSize
  <2>2. CASE n > TINY_ZONE_SIZE /\ n <= SMALL_ZONE_SIZE
    <3>1. SMALL_ZONE_SIZE + ChunkHeader
            <= (SMALL_ZONE_SIZE + ChunkHeader) * NB_ALLOCATION_ZONE
      BY <1>1, RoomForOne
    <3>2. (SMALL_ZONE_SIZE + ChunkHeader) * NB_ALLOCATION_ZONE \in Nat
      BY <1>1, RoomForOne
    <3> QED BY <1>1, <2>2, <3>1, <3>2 DEF GetZoneFullSize
  <2>3. CASE n > TINY_ZONE_SIZE /\ n > SMALL_ZONE_SIZE
    <3>1. PageHeader + (n + ChunkHeader) \in 0 .. (SIZE_MAX + 1) - 1
      BY <1>1
    <3>2. (PageHeader + (n + ChunkHeader)) % (SIZE_MAX + 1)
            = PageHeader + (n + ChunkHeader)
      <4> PICK x, m : x = PageHeader + (n + ChunkHeader) /\ m = SIZE_MAX + 1
        OBVIOUS
      <4>1. m \in Nat \ {0} /\ x \in 0 .. m - 1
        BY <1>1, <3>1
      <4>2. x % m = x
        BY <4>1, SmallRemainder
      <4> QED BY <4>2
    <3> QED BY <1>1, <2>3, <3>2 DEF GetZoneFullSize
  <2> QED BY <1>1, <2>1, <2>2, <2>3
<1>3. TotalSize(n) \in Nat /\ GetZoneFullSize(n) <= TotalSize(n)
  BY <1>1, AlignUpFacts DEF TotalSize
<1> QED BY <1>1, <1>2, <1>3 DEF FirstChunkSize

LEMMA ProductsAreMonotone ==
  ASSUME NEW a \in Nat, NEW m \in Nat, NEW n \in Nat, m <= n
  PROVE  a * m <= a * n
<1> DEFINE d == n - m
<1>1. d \in Nat /\ n = m + d
  OBVIOUS
<1> HIDE DEF d
<1>2. a * (m + d) = a * m + a * d /\ a * d \in Nat /\ a * m \in Nat
  BY <1>1
<1>3. a * n = a * (m + d)
  BY <1>1
<1> QED BY <1>2, <1>3

(* NB_ALLOCATION_ZONE of the largest blocks of a zone, with their headers, *)
(* fit into the page that get_zone_full_size is the size of.               *)
LEMMA PageHoldsItsZone ==
  ASSUME NEW n \in Nat, NEW limit \in Nat, limit <= SMALL_ZONE_SIZE,
         GetZoneFullSize(n) = PageHeader + (limit + ChunkHeader) * NB_ALLOCATION_ZONE
  PROVE  FirstChunkSize(n) + ChunkHeader >= (limit + ChunkHeader) * NB_ALLOCATION_ZONE
<1>1. /\ SIZE_MAX \in Nat /\ PAGE_SIZE \in Nat \ {0} /\ MMAP_MAX \in Nat
      /\ PageHeader \in Nat /\ ChunkHeader \in Nat
      /\ SMALL_ZONE_SIZE \in Nat /\ NB_ALLOCATION_ZONE \in Nat \ {0}
      /\ PageHeader + (SMALL_ZONE_SIZE + ChunkHeader) * NB_ALLOCATION_ZONE <= MMAP_MAX
      /\ MMAP_MAX + PAGE_SIZE + ALIGNMENT <= SIZE_MAX /\ ALIGNMENT \in Nat
  BY ConstantFacts, HeaderFacts, GeometryAssumption
<1> DEFINE room == NB_ALLOCATION_ZONE * (limit + ChunkHeader)
           most == NB_ALLOCATION_ZONE * (SMALL_ZONE_SIZE + ChunkHeader)
<1>2. room \in Nat /\ most \in Nat /\ room <= most
  BY <1>1, ProductsAreMonotone
<1>3. /\ room = (limit + ChunkHeader) * NB_ALLOCATION_ZONE
      /\ most = (SMALL_ZONE_SIZE + ChunkHeader) * NB_ALLOCATION_ZONE
  BY <1>1
<1> HIDE DEF room, most
<1>4. GetZoneFullSize(n) = PageHeader + room /\ PageHeader + most <= MMAP_MAX
  BY <1>1, <1>3
<1>5. TotalSize(n) \in Nat /\ GetZoneFullSize(n) <= TotalSize(n)
  <2>1. GetZoneFullSize(n) \in Nat /\ GetZoneFullSize(n) + (PAGE_SIZE - 1) <= SIZE_MAX
    BY <1>1, <1>2, <1>4
  <2> QED BY <1>1, <2>1, AlignUpFacts DEF TotalSize
<1>6. FirstChunkSize(n) + ChunkHeader >= room
  BY <1>1, <1>2, <1>4, <1>5 DEF FirstChunkSize
<1> QED BY <1>3, <1>6
=============================================================================
