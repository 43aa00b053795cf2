# Verification of 42-malloc

TLA+ modules for the allocator in `src/src` and `src/include`: `malloc`,
`free`, `realloc`, `calloc`, `reallocarray` and `show_alloc_mem` over pages
obtained from `mmap`, called by several threads; and for the `printf` of
`src/lib/printf`, which the tests report with. Paths below are relative to the repository
(`src/malloc.c` is the file of the library, `README.md` its own README unless
said otherwise).

Run a configuration with `tlc -config Malloc_api.cfg MCMalloc`, check proofs
with `tlapm MallocProofs.tla`.

## The system

| Part | State | Operations | Where |
| --- | --- | --- | --- |
| public functions and lock | `malloc_lock`, `malloc_memory` (three list heads) | `malloc`, `free`, `realloc`, `calloc`, `reallocarray`, `show_alloc_mem` | `src/malloc.c` |
| allocate / free / reallocate | none of their own | `allocate_memory_allocation` (medium, large), `free_memory_allocation`, `realloc_memory_allocation` | `src/memory/*.c` |
| zones and pages | `page_t`: two chunk lists, list links, size, zone type | search, `allocate_page` (mmap), `push_front_page`, `remove_page`, `free_page` (munmap) | `src/zone.c`, `src/page.c` |
| chunks | `chunk_header_t` in the page: size, list links, page | `get_chunk_with_size`, `push_front_chunk`, `remove_chunk`, `allocate_free_chunk` (split), `get_chunk_from_data` | `src/chunk.c` |
| size arithmetic | none | alignment, zone of a size, space of a zone | `include/allocation.h`, `include/zone.h`, `src/zone.c` |
| memory dump | none (reads all) | `find_next_*_in_order`, `print_*` | `src/chunk.c`, `src/page.c`, `src/zone.c`, `src/utils.c` |
| printf | locals of `_vsnprintf`: the rest of the format, flags, width, precision, how much was put out | the directives, the conversions, `_out_*` | `lib/printf/printf.c` |

A call takes `malloc_lock`, chooses one of the three page lists (TINY, SMALL,
LARGE) from the size or from the page of the block it was passed, hands the
list to one of the three functions of `src/memory`, and unlocks. TINY and SMALL
requests are served by first fit from the free lists of the pages of their
zone, a LARGE request gets a page of its own. `free` puts a chunk back, and
unmaps a page that has become empty if its zone has another one; a page whose
chunk is larger than 2048 bytes is unmapped at once. Chunks are split but never
merged. `calloc` and `reallocarray` check their product, and `calloc` clears
the block, outside the lock. Nothing is persistent: there is no recovery, only
failure of `mmap`.

What is hard, and what makes each part correct:

- **Threads.** Every list operation takes several steps, and what a search
  found is used later (`allocate.c:27` and `:36`, `reallocate.c:13` and `:19`).
  Correct: one thread at a time between `enter_wrapper` and `exit_wrapper`,
  and what was found is still free, large enough and mapped when it is used.
- **Ownership.** Blocks change hands between the program, a call under way and
  the free lists, on paths with early returns. Correct: the allocated chunks
  are exactly the blocks somebody holds; a failing `realloc` gives its block
  back; a moving one neither loses nor keeps two.
- **Layout.** Chunks are cut out of a page by arithmetic on unsigned sizes.
  Correct: they always tile the page, a block has room for what was asked for
  and keeps what was written to it.
- **Release.** `free` decides from sizes and neighbours whether a mapping goes.
  Correct: no mapping is leaked or hoarded, none goes away under a live block
  (this one does not hold, see *Findings*).
- **Boundaries.** Zone limits, the header at a split, products and sums near
  `SIZE_MAX`. Correct: the classifications of a size agree, a new page holds
  the request it was mapped for.
- **Progress.** A non-recursive lock and many returns. Correct: every path
  unlocks, threads do not wait for each other for ever.
- **Links.** The lists are doubly linked and intrusive, and a push trusts that
  whoever had the element before reset its links. Correct: the links spell the
  same lists forwards and backwards, an element in hand is linked to nothing.
- **Promise.** What a call promises is spread over steps and files. Correct:
  threads see an allocator that does each call at once.
- **The dump.** It searches for the next address in unsorted lists, again and
  again. Correct: it shows each page and chunk of one moment once, in order.
- **printf.** A number is assembled backwards in a fixed buffer, and flags,
  width, precision and length interact. Correct: the text reads back as the
  number, fills its field, respects the caller's buffer, and rounds to nearest
  (this one does not hold for every double, see *Findings*).

`PROJECT.json` lists all of this as hazards, each at its line, with the
properties that would catch it.

## The modules

    Lists <== LinkedList                  Allocator <== MallocRefinement
    Malloc <== ShowMem

    Geometry ---- Heap ---- Malloc ---- MallocProperties ---- ShowMem
                                           |        |
                                  MCMisfiled        +---- MallocInvariant ---- MCMalloc
                                                    +---- MallocRefinement ----+

    Geometry ---- GeometryProperties ---- MCGeometry ---- Utils
    Printf ---- MCPrintf

    ListLemmas ----+
    GeometryLemmas +---- MallocProofs ---- BlockProofs ---- RefinementProofs
    GeometryLemmas ---- GeometryProofs    ListLemmas ---- LinkedListProofs
    ListLemmas, GeometryLemmas, ShowMem ---- ShowProofs

`<==` is *is implemented by*; the other lines are EXTENDS, left to right
(`MCGeometry` extends `Utils`). A module of proofs extends the modules it is about.

**Geometry** has the pure arithmetic. Additions that the code may push past
`SIZE_MAX` are taken modulo `SIZE_MAX + 1`. Aligning by mask is written as
dropping a remainder, which the run *geometry* compares with the mask itself.
An address is an offset from the base of its page: bases are multiples of the
kernel's page size, so an offset is aligned when the address is.
`GeometryAssumption` is what the code takes for granted of its constants.

**Heap** is the data structure: which pages are mapped (the kernel's view), the
list of pages of each zone, and of each page its type, size, two chunk lists and
the sizes of its chunks. A linked list is the sequence of its elements; a
chunk is the offset of its header. A page is one of the constant `Pages`, which
name mappings, from `mmap` to `munmap`; in ShowMem, where addresses are compared,
it is the place of the page in the order of addresses.
`MapMediumPage`/`MapLargePage` are `allocate_page` followed by
`push_front_page`, `TakeChunk` is `remove_chunk`, `allocate_free_chunk` and the
two `push_front_chunk`s, `PutChunk` is what `free` does to a chunk,
`UnmapPage` is `remove_page` and `munmap`. They are relations on the heap
variables, used by the actions of Malloc. An unmapped page is blank, as
the next mapping of that name is handed out.

**Malloc** is the API under threads. Each thread has a `pc` and a `frame`
(arguments and locals of its call). The actions, in the order a call takes
them:

| Action | Code |
| --- | --- |
| `CallMalloc`, `CallFree`, `CallRealloc`, `CallCalloc`, `CallReallocarray` | the program's call, with the product check of `calloc` and `reallocarray` |
| `Enter`, `Exit` | `enter_wrapper`, `exit_wrapper` |
| `ReallocInPlace`, `ReallocElsewhere` | `reallocate.c:9-13` |
| `FindFreeChunk`, `AddMediumPage` | `allocate.c:23-35`, the search, and the new page when it finds nothing |
| `TakeFoundChunk` | `allocate.c:36-45` |
| `AddLargePage` | `allocate.c:48-59` |
| `AllocateNothing` | size 0 and the failure of `mmap`, which may happen whenever it is called |
| `CopyBlock` | `reallocate.c:17-20` |
| `FreeNull`, `FreePage`, `FreeChunk` | `free.c:6-16` |
| `ReleasePage`, `KeepPage` | `free.c:17-22` |
| `Clear` | the `ft_memset` of `calloc`, after the lock is released |
| `ReturnNewBlock`, `ReturnReallocated`, `ReturnNull` | the return to the program, which then writes its new block |
| `Fault` | a read or write of an unmapped page kills the process |

A critical section is split where another thread could do harm if the lock
did not keep it out: between search and use, between allocation, copy and
free, between free and release. `owned` and `content` are not in the code:
they record which blocks the program (or a call on its behalf) holds, how much
it asked for, and what is in the bytes. The program is the environment: it
passes only `NULL` or blocks it holds, one call at a time for a block, and
writes only what it asked for.
Contents are abstracted to a tag and the length up to which a block has it.
Unmapping a page destroys the contents of all blocks in it (`ContentsWithout`),
also of those that somebody still holds, as after the misfiled `free` described
under *Findings*; using such a block is a `Fault`. A new mapping may lie where any
earlier one did. It takes the name of one that is gone and of which the program
holds no block (`MmapMayReturn`): a name says which mapping a block was got
from, so a block of the lost page and one of a later page at the same
address have different names. The model does not follow such a program beyond
that: instead of finding the bytes of the later page under its old pointer, it
faults. What is proved about contents and about Allocator is proved for programs
that never get there.

**Allocator** is the abstract specification of the API: a set of blocks, each
with its size and its data, and the calls under way. A call takes effect in one
step between its invocation and its return. It knows nothing of pages, chunks,
lists and the lock: a block is put anywhere aligned where it overlaps no other.
**MallocRefinement** maps Malloc to it. The step that counts is the one that
takes a chunk or maps a page, or, of a realloc that moves, the one that frees
the old block; until then its new block is hidden (`Moving`, `Visible`). The
data of a block are those bytes of its content that the program has reason to
expect (`DataOf`). Every other step, searching, linking, splitting, unlocking,
stutters.

**Lists** says of the linked lists what Heap takes for granted: a list is a
sequence, and an element is in one list, in the hands of an operation, or none.
**LinkedList** has `head`, `next` and `previous` as `push_front_chunk`,
`remove_chunk`, `push_front_page` and `remove_page` assign them, and memory
that holds anything before the links are cleared. `list` follows the
pointers from a head (`Walk`, `From`) for one element more than there are, so
that a cycle would show, and is what implements Lists.

**ShowMem** adds `show_alloc_mem` to the calls of Malloc. Printing is one step
per title, page, chunk and end of a list, so another thread could come between
any two if the lock let it. Pages are numbers here, because addresses are
compared. A line is a tuple of what it shows; the digits of its numbers are
in **Utils**, the words around them are left out. `Seen` is the same behaviour
with the calls of `show_alloc_mem` left out: their threads appear idle, and the
lock free while one of them has it. The search (`FindNextInOrder`) is the
loop of the code over the list; what it should find is said without it:
`LinesUpTo` goes up through all addresses and takes the lines of those in the list.

**Printf** reads a format like `_vsnprintf`: an action for a literal, the
start of a directive, a flag, the width, the precision, the length, and each
kind of conversion. The conversions are operators named like the functions
(`NtoaFormat`, `FtoaFinite`, `EtoaFinite`, `OutRev`). A character is a string
of length one, and a double is sign, numerator and denominator; the products
`_ftoa` and `_etoa` compute are rounded to `MANTISSA_BITS` as a double's are
(`Product`), the quotients are exact. **MCPrintf** has the directives to print,
each kept beside its format, so that the properties speak of what its author
meant.

**MallocProperties** and **GeometryProperties** state what the allocator and its
arithmetic owe (the latter has one state for every `size_t`), **MallocInvariant** has
the inductive invariants, **MCMalloc**, **MCGeometry** and **MCPrintf** are the
instances for TLC, and **MCMisfiled** is one program at the real sizes. Operators marked *mutant* stand
before the definition they are a plausible bug of; nothing uses them, and for
each property `PROJECT.json` names one with which TLC refutes it.

## The runs

Most runs of Malloc use a scaled geometry: alignment 2, page header 2, chunk header 4,
TINY up to 4 or 6, SMALL up to 8, 10 or 14, one or two largest blocks guaranteed per page,
kernel pages of 16, `SIZE_MAX` 255, mappings up to
32 or 64. The ratios are those of the code where they matter: a header larger than the
alignment, a SMALL limit of two headers or more, pages that hold one or two largest
blocks and a remainder from the rounding, so that both outcomes of a split
occur, chunks get reused by smaller requests, zones have two and three pages,
and calls fail.

| Run | Instance | What it shows |
| --- | --- | --- |
| api | 1 thread, 5 functions, SMALL limit 14, sizes 0, 3, 10, 16, counts 1 and 85, 2 pages, 3 blocks | Room and ownership through every path of every function, each call implementing its step of Allocator. 3 * 85 is `SIZE_MAX` (the product check passes, alignment wraps to 0), 10 * 85 is rejected. |
| threads | 2 threads, malloc, calloc, realloc, free, SMALL limit 14, sizes 10 and 16, 2 pages, 3 blocks | Mutual exclusion, whole lists, valid findings, kept contents, no block unmapped, under all interleavings, and concurrent calls implement Allocator (`MappingInv` is the invariant its proof needs). |
| fragmentation | 1 thread, malloc, realloc, free, TINY limit 6, SMALL limit 14, sizes 6, 8 and 10, 3 pages, 3 blocks | Tiling under splitting and reuse, release of spare pages. The rest of a chunk is smaller than a header, a header exactly (6 of 10, 10 of 14), and larger. |
| capacity | 1 thread, the two largest medium sizes, 3 pages, 4 blocks | A page takes `NB_ALLOCATION_ZONE` largest blocks before another is mapped; `CapacityInv`, the invariant this rests on, holds. |
| mixed | 2 threads, SMALL limit 10, sizes 8 and 10, 2 pages, 2 blocks | Chunks above the zone's limit: whatever is unmapped under a live block is unmapped by their misfiled free; what the inductive invariants `IInv` and `BlocksInv` say of mapped pages still holds after it, with another page in use. Here the process may be killed by a fault, so it may stop (`CHECK_DEADLOCK FALSE`). |
| show | 2 threads, fair, malloc, free, calloc, reallocarray (which calls realloc), show_alloc_mem, sizes 2 and 12, counts 1 and 128, 2 pages, 2 blocks | Complete dumps of a heap that stands still; without them the rest is a behaviour of Malloc. The lock is given back on every path, rejected products included, and somebody always gets through. |
| lists | 2 lists, 5 headers | The pointers implement Lists; forwards and backwards agree; what is in hand is detached; the inductive invariant `ChainInv` holds. |
| geometry | every size below 2^18 at the real constants | The arithmetic, the products `calloc` refuses and the numbers of the dump. The enumeration ends at `SIZE_MAX`, so TLC stops (`CHECK_DEADLOCK FALSE`). |
| printf | 16534 directives | The contract of `snprintf_` at counts 0, 1, 5 and 64, with and without a buffer, integers that read back, fields of their width, nearest floats. A format ends, so TLC stops (`CHECK_DEADLOCK FALSE`). |
| misfiled | one program at the real constants, one page | Violates `NoBlockIsUnmapped`; see *Findings*. |
| wraps | one request at the real headers, 30-bit `size_t` | Violates `BlocksFit`; see *Findings*. |
| printf_rollover | `%.1f` of every multiple of 1/16 below 2, five-bit mantissas | Violates `PlacesAreKept`; see *Findings*. |

Bounds: `Pages` limits the mappings at a time (running out of them is the
failure of `mmap`), `MaxBlocks` the blocks a program holds, `Sizes`, `Counts` and
`Tags` what it asks for and writes. Addresses come back to use, so there is no
bound on the length of a behaviour. Two threads are enough for
every hazard listed, which are between two calls; two pages for a
zone with a spare page, three for the middle of a list; the sizes are one or
two of each zone and the boundary cases. Threads and pages are interchangeable
(first fit compares positions in a list and sizes, never the addresses of
pages), hence the symmetry; *show* does without, because it is about liveness
and because the dump does compare addresses. Except in *capacity* and *mixed* the
longest mapping is 32, which leaves room for the SMALL pages and the LARGE
sizes used. Five headers in two lists have a first, a last and two neighbours
in the middle while another list has an element; operations on one list only
touch an element and its neighbours.

*printf* scales the types (`char` 3 bits, `short` 5, `int` 8, `long` 16) and the
buffers (8 characters for integers, 12 for floats), so that widths of 4, 6 and
10, precisions from 0 to 10 and values at the edges of each type go below, to and
beyond every limit, with ten sets of flags, width and precision also given by
an argument, and every specifier. The same 16524 conversions (all but `%p`,
which has no scaled counterpart) were made with `printf.c` compiled with these
buffers and integers cut to these widths: the results were those of the
model, character for character.

The programs of *api*, *threads*, *fragmentation* and *show* ask for no block
within a header of the SMALL limit (`StaysBelowLimit`, see *The proofs*), and in *capacity* a
page has no place for a larger chunk: so a chunk above the SMALL limit never
arises in a SMALL page there, and `NoBlockIsUnmapped` holds; *mixed* is the
instance where it does arise, and *misfiled* shows it at the real sizes.

Fairness: `ShowSpec` assumes weak fairness of the steps of a call, one
condition per thread (`ProceedShow`): a thread that can run is scheduled at
some time, and the allocator itself never sleeps except on the lock. Nothing obliges the
program to call. Pthread mutexes are not fair, and so a waiting thread may be
overtaken for ever; `SomeoneGetsThrough` only claims that some call leaves the
allocator, and `LockIsReleased` that no call keeps the lock.

`ProceedShow` is the disjunction of the steps of one thread, of which the
lock's state leaves one kind possible at a time: no choice that the code would
not make is hidden in the condition. `mmap` may succeed or fail each time.

## Findings

1. **A SMALL free that unmaps a shared page** (*misfiled*, `src/memory/free.c:11`).
   `free` takes a chunk of more than 2048 bytes for a LARGE page, but a SMALL
   block gets a chunk of up to 2080 bytes when the rest of a free chunk is not
   larger than a header (`src/chunk.c:53`). After 99 blocks of 2048 bytes, one of
   784 and one of 2048 in a page, freeing the last unmaps the page of the
   other 100. `README.md:145,149` and `test/free.c:96-97` say otherwise.
   *mixed* shows that this is the only way a mapping is lost, by
   `LostOnlyByMisfiledFree`.
2. **The size of a LARGE page wraps around** (*wraps*, `src/zone.c:61`). For a
   size within 80 bytes of `SIZE_MAX` the sum with the headers is small, and
   the caller gets one page. `README.md:150` and `test/malloc.c:47` say
   otherwise.

3. **A tie without rollover** (*printf_rollover*, `lib/printf/printf.c:398`).
   `_ftoa` carries a fraction that rounds up to 10^prec into the whole part
   ("handle rollover", `printf.c:390`), but not when the remainder is exactly one
   half. The product of 0.95 and 10 is rounded to exactly 9.5: the fraction
   becomes 10, the count of its digits wraps around, and zeros fill the
   buffer. The compiled `printf_("%.1f", 0.95)` prints
   `00000000000000000000000000000010`.

Smaller deviations of `printf.c` from C's `printf` that the modules model as
they are: `%#4x` and the like drop the first digits of a number that fills its
field, for the prefix; a number with more characters than the buffer loses the first
ones, its sign included, and zero padding ends at the buffer; `%-8.3d` prints
no zeros; `%e` of 0.0 prints an exponent of -308; a mantissa may round to
10.0; `_out_char` drops the NUL of `%c` but counts it. The properties of
*printf* exclude the first two by name (`PrefixHasRoom`, `FitsBuffer`).

## The proofs

`tlapm` checks all theorems for every number of threads and pages, all sizes,
and every geometry that satisfies the assumptions of the modules. No theorem
assumes anything of a state. The assumptions are about constants, the last two
are about what the program asks for, and each of those is a hypothesis of the
theorems that need it:

- `GeometryAssumption`: zone limits and kernel pages are multiples of the
  alignment, and so is `SIZE_MAX + 1`; one page header and the blocks of a SMALL
  page fit in a `size_t`; there is room between the longest mapping and
  `SIZE_MAX`; and a TINY chunk with a header to spare is not above the SMALL limit
  (128 + 32 against 2048), without which `free` would take a TINY block for a
  LARGE one.
- `ProgramAssumption`, `AddressAssumption`, `LinksAssumption`,
  `ThreadsAssumption`: special values are none of the ordinary ones, addresses
  are positive where they are compared, there are finitely many headers and, in
  ShowMem, threads.
- `RequestsFit`: of every size and
  every accepted product that the program asks for, the aligned size and the two
  headers add up to no more than `SIZE_MAX`. It excludes the sums that wrap around
  in `get_zone_full_size` and nothing else: the program of *wraps* (finding 2)
  breaks it, and there `BlocksFit` fails. A size that aligning itself wraps
  around to 0 is refused by the code and may be asked for.
- `OneSizePerZone`: the sizes that the program asks for are rounded up to one size
  in each of the TINY and the SMALL zone. *capacity* is such a program.
- `StaysBelowLimit`: no SMALL request is within a header of the limit of the
  zone, with the constants of the code none of 2017 to 2048 bytes. It holds in
  *api*, *threads*, *fragmentation* and *show*, and is what the programs of *mixed*
  and *misfiled* break.

The misfiled free of finding 1 is a behaviour of Malloc, and with it blocks and
their contents are lost: that contents are kept (`ContentsStay`), that no block
is unmapped (`MappingsStay`) and that Allocator is implemented
(`MallocImplementsAllocator`) is false of the programs that run into it, and
proved under `StaysBelowLimit`. The theorems without this hypothesis are about the
lists, the pages that are mapped, sizes and ownership, which hold after it too.

**`GeometryLemmas`, `GeometryProofs`.** Rounding, the way from a block back to its
chunk, zones of sizes, room in new pages, products. The five properties of
GeometryProperties hold for every `size_t` (`ZonesAgree`, `NewPageIsLargeEnough`,
`NewPageServesItsZone`, `BlocksFindTheirChunk`, `ProductsFit`);
`ProductsAreChecked` has both factors general.

**`ListLemmas` and the first part of `MallocProofs`.** What pushing to the front
of a sequence and removing from it do to its elements; and each operator on the
heap preserves `HeapInv` (types, pages linked once in the list of their zone,
unmapped pages blank, chunks listed once, chunks tile their page).

**`MallocProofs`: `Spec => []IInv`**, with one lemma per action, and from it, as
theorems of their own, type correctness, mutual exclusion, the linking of
pages, the listing and tiling of chunks, `BlocksAreAllocated`,
`CallsHoldBlocks`, `FindingsStayValid` and `FailureKeepsBlock` (a failing call
leaves the program its block, which follows from `CallsHoldBlocks` and has no run of its
own). None of these is inductive alone. A chunk that was found can be taken because it is still free
and only free, which needs that nobody but the holder of the lock has changed
the lists (`MutualExclusion`, `FindingsStayValid`, `ChunksAreListedOnce`); that
it is nobody's block needs `BlocksAreAllocated`; that `free` finds the chunk of
the block it is passed needs that the call holds the block (`CallsHoldBlocks`)
and that blocks lead back to chunks (with the alignment of chunks from
`ChunksTilePage`); and which locals of a call mean anything at a step is
`CallsAreInStep`. `IInv` is the conjunction, and *mixed* checks it with TLC.

**`BlockProofs`: a second layer, `BlocksInv`, on top of `IInv`**, in the order in
which its parts hold each other up:

- `ZoneInv` (no hypothesis): an allocated chunk is at most a header larger than
  the limit of its zone, and a LARGE page is one chunk. So a chunk above the
  SMALL limit outside a LARGE page is in a SMALL page, and `LostOnlyByMistake`
  follows: nothing but the misfiled free unmaps a page under a live block.
- `PagesInv` (from here on under `RequestsFit`): a chunk of a LARGE page is above
  the SMALL limit, so that page goes with its block; and two empty pages of one
  zone exist only while the holder of the lock is about to fill or to release
  one. When the lock is free, that is `NoHoarding` (`EmptyPagesAreReturned`).
- `SizesInv`: a block has the size it was asked for, and the result of a call
  under way the size of its request. With the tiling and the alignment of chunks
  this is `BlocksFit` (`BlocksAreLargeEnough`).
- `ContentInv`: a block in a mapped page holds what the program was promised, unless a call is
  still filling it; what `realloc` will copy is what it promised; a block of
  `calloc` promises nothing before it is cleared, although the lock is
  released by then. Where all held blocks are in mapped pages, which is
  `MappedInv` below, this is `ContentsAreKept` (`ContentsStay`, under `RequestsFit` and
  `StaysBelowLimit`).

Two more invariants on top of `IInv` and `ZoneInv` are about kinds of programs:

- `CapacityInv` (under `OneSizePerZone`): every TINY or SMALL page is cut like a
  ruler, at equal distances up to a last chunk that reaches its end (`CutFor`),
  and has marks for `NB_ALLOCATION_ZONE` of the largest blocks. A page in which
  first fit finds nothing has then no free chunk before the last mark, so by
  counting it holds at least that many blocks: `NewPageOnlyWhenFull` (`PagesFillUp`).
  The hypothesis is needed because free chunks are never merged: after smaller
  blocks a page may have no room although it is nearly empty.
- `MappedInv` (under `StaysBelowLimit`): no chunk of a TINY or SMALL page is
  above the SMALL limit, because taking a chunk whole adds at most a header to
  the request. So `free` files every block right, all blocks are in mapped pages,
  and no thread is killed (`BlocksStayMapped`); no step takes a page from under
  a block (`MappingsStay`, the property `NoBlockIsUnmapped`). This is finding 1
  from its other side: it says which sizes to stay away from. That
  contents are kept rests on it as well.

**`RefinementProofs`: `Spec => ImplementsAllocator`**, under `RequestsFit` and
`StaysBelowLimit`. Blocks of one page do not
overlap (tiling and sizes), those of different pages cannot, so the step that
gives a block out is Allocator's, which puts it anywhere it overlaps no other.
`MappingInv` says what the mapping reads: an idle call has nothing left of the
last one, and while `realloc` has two blocks, the new one has the size asked for
and, after the copy, the data of the old, cut to that size. Then
every action has a lemma: `TakeFoundChunk` and `AddLargePage` are Allocator's
step for `malloc`, `calloc` and a `realloc` of `NULL`, but a stutter for a
`realloc` that moves; that one takes effect in `FreeChunk` or `FreePage`, which is
the step of `free` otherwise. Searching, linking, releasing, unlocking and
clearing stutter, because `DataOf` shows only bytes the program expects; that
releasing a page does is where `MappedInv` is needed, for the page then has nobody's
block in it, whose data would change. A fault, which `MappedInv` excludes as
well, would stutter.

**`LinkedListProofs`.** The invariant (`ChainInv`) names the sequences: each list
is a chain of headers whose links say of every neighbour the same forwards and
backwards, chains share no header, what is in hand has no links and what is
nowhere else is memory. `LinksAreMutual` and `HeldIsDetached` follow. For
`PointersImplementLists` the sequence that following the pointers computes has
to be the one the chain names. `Walk` is a recursive function; that it yields
the k-th element of the chain is shown without induction over data: if there were
a first place where the two differ (a smallest element of a set of
numbers), the place before it would be equal, and the links carry that over. It ends
because a chain is injective and `Nodes` finite.

**`ShowProofs`.** First `ShowSpec => DumpIsUnseen`, a refinement in the other direction:
ShowMem implements Malloc under the mapping `Seen`. A step of the dump is a
stutter, and any other step is the same action of Malloc. `ShowInv` says what
this needs: a thread in the allocator, printing or not, has the lock (`Locks`), so
that no other is in a critical section while the mapping shows the lock free; a call
holds only the blocks its locals name, and a dump none (`HoldsItsOwn`), so that
its return gives the program nothing and no fault is its; and a dump asks
for no block, so that there is as much room without it (`Room` counts threads,
hence their finiteness). `ShowInv` is much weaker than `IInv`, which need not
be proved again: `Alone` is MallocProofs instantiated with the same mapping, its
assumptions follow from those of ShowMem (`AloneAssumptions`), and its
theorems give `IInv` of the other calls (`InvarianceWithDumps`) and with it a
sound heap under every dump (`HeapIsSound`). From `ShowInv` also
`HeapStaysStill`, the action property `DumpedHeapIsStill`.

Then `DumpIsComplete` (`DumpsAreComplete`). The search is right for every list:
`SearchFindsNext` shows that the loop ends with the least address above the
last one, or 0 if there is none, going through the list element by element (a
first element where it would be wrong has a predecessor where it is right). `DumpInv`
says what a dump has printed while it is under way: the titles and pages of the
zones above, the lines of the pages up to the cursor, and those of the chunks
up to the cursor, each set of them in ascending order (`PrintedSoFar`, a case
per step); and that only a dump prints. It is needed because `DumpIsComplete` speaks
of the end alone. Each print adds the lines of the next address, and nothing is
skipped because no element is between the cursor and what the search finds
(`LinesUpToFacts`, `LinesGoOn`). At the end of a list the cursor is at its
highest address. All of this is about one heap, because no other step changes it
while somebody prints (`HeapIsStill`), and counts each chunk once, because the
heap is sound. TLC checked `DumpInv` on the instance of *show* before.

**Only model-checked**, and why:

- Liveness (`LockIsReleased`, `SomeoneGetsThrough`) is outside the prover's reach.
- `MaskDropsRemainder` and `RangeIsLegible` are about bits and recursive digits:
  each is an induction over data.
- The properties of *printf*: texts are built by recursive conversions.

## Not modelled

- The wording and layout of the dump's lines.
- A `munmap` that fails. `free_page` returns its result and no caller looks at it: the
  page is unlinked either way, and a mapping that no list leads to stays. `mapped` is
  then the mappings the allocator can reach.
- In printf: formats that end inside a directive and precisions of `%f`
  beyond 41 (both read past the end of an array), values of `%f` with more digits
  than TLC's integers have, and the approximation by which `_etoa` guesses the
  decimal exponent from the bits of a double before correcting it (the exponent
  is taken as exact). The magnitude of the most negative `long` is taken for what
  the build computes, 2^(w-1).
- `fork` with the lock held: the child is another process, and the repository
  says nothing about it.
- Programs that break the rules of the API (double free, foreign pointers,
  overruns).
- `lib/utest/utest.h`: a vendored header of macros that compare two values,
  and a runner that calls the tests one after the other. Only the test binary
  contains it, and it has no state in common with the library.
- Tests, benchmarks and build files: not part of the library. The tests are
  read as statements about it.

## Plan

1. Done: Geometry, Heap, Malloc, their properties, runs, the inductive
   invariant and the theorems above.
2. Done: Allocator and its refinement, LinkedList and its refinement, ShowMem,
   Utils, Printf.
3. Done: what blocks, contents and pages owe the program, from `IInv` and
   `BlocksInv`; the step simulation of Allocator; the links of LinkedList and its
   step simulation of Lists; ShowMem as Malloc with dumps; the properties of
   *geometry*.
4. Done: how pages fill up, which programs never lose a mapping, and complete
   dumps of any heap.
5. Left: what a program sees that goes on after the misfiled free, when a later
   mapping lies where its lost blocks were; that the buffers of `printf` are respected, which needs that every
   conversion, recursive ones included, yields a sequence; and which geometries
   keep chunks of a SMALL page below the limit for programs that do ask for its
   largest blocks.
