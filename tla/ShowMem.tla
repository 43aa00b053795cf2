------------------------------ MODULE ShowMem -------------------------------
(***************************************************************************)
(* show_alloc_mem (src/malloc.c) among the other calls of the program: it  *)
(* prints the pages of the three zones and their chunks, in the order of   *)
(* their addresses, while it holds malloc_lock.  Nothing is sorted: every  *)
(* next page or chunk is searched for in the unsorted lists, one step of   *)
(* the thread each (src/zone.c, src/page.c, src/chunk.c).                  *)
(*                                                                         *)
(* What is printed is a sequence of lines, without their wording.  Pages   *)
(* are numbers here, because addresses are compared, and address 0 is NULL.*)
(***************************************************************************)
EXTENDS MallocProperties

ASSUME AddressAssumption == Pages \subseteq Nat \ {0}

(* A process has finitely many threads.                                    *)
ASSUME ThreadsAssumption == IsFiniteSet(Threads)

VARIABLES
  cursor,       (* where in the heap each printing thread is                *)
  printed       (* the lines of the dump that is being printed              *)

showVars == <<vars, cursor, printed>>

Titles == <<"TINY_ZONE", "SMALL_ZONE", "LARGE_ZONE">>

(* find_next_page_in_order and find_next_chunk_in_order go down the list   *)
(* and keep the lowest address above "after" they have met: 0 if there is  *)
(* none; after NULL, the lowest of all.                                    *)
FirstListed(list, after) ==                   \* mutant: current < next lost
  LET next[n \in 0 .. Len(list)] ==
        IF n = 0 THEN 0
        ELSE IF (after = 0 \/ list[n] > after) /\ next[n - 1] = 0
             THEN list[n] ELSE next[n - 1]
  IN next[Len(list)]

FindNextInOrder(list, after) ==
  LET next[n \in 0 .. Len(list)] ==
        IF n = 0 THEN 0
        ELSE IF /\ after = 0 \/ list[n] > after
                /\ next[n - 1] = 0 \/ list[n] < next[n - 1]
             THEN list[n] ELSE next[n - 1]
  IN next[Len(list)]

NextPage(t) == FindNextInOrder(zone[Titles[cursor[t].zone]], cursor[t].page)

(* print_range_address of a page and print_chunk: from where, how much.    *)
PageLine(p) == <<"page", p, pageSize[p]>>

ChunkLine(p, c) == <<"chunk", p, DataOfChunk(c), chunkSize[p][c]>>

At(z, p, c) == [zone |-> z, page |-> p, chunk |-> c]

ShowInit ==
  /\ Init
  /\ cursor = [t \in Threads |-> At(1, 0, 0)]
  /\ printed = <<>>

CallShow(t) ==
  /\ Call(t, "show_alloc_mem", NULL, 0, "wait")
  /\ UNCHANGED <<owned, cursor, printed>>

(* A step of the dump reads the heap and prints.                           *)
Show(t, l, at, lines) ==
  /\ Goto(t, l)
  /\ cursor' = [cursor EXCEPT ![t] = at]
  /\ printed' = printed \o lines
  /\ UNCHANGED <<heapVars, frame, owned, content>>

EnterShowUnlocked(t) ==                      \* mutant: no enter_wrapper
  /\ pc[t] = "wait"
  /\ lock' = t
  /\ Show(t, "pages", At(1, 0, 0), <<Titles[1]>>)

(* enter_wrapper, and the title of the first zone                          *)
EnterShow(t) ==
  /\ pc[t] = "wait"
  /\ lock = NoThread
  /\ lock' = t
  /\ Show(t, "pages", At(1, 0, 0), <<Titles[1]>>)

(* print_zone goes on to the next page, print_page starts.                 *)
PrintPage(t) ==
  /\ pc[t] = "pages"
  /\ NextPage(t) # 0
  /\ Show(t, "allocated", At(cursor[t].zone, NextPage(t), 0),
           <<PageLine(NextPage(t)), "Allocation chunks">>)
  /\ UNCHANGED lock

(* print_zone finds no other page: the title of the next zone.             *)
NextZone(t) ==
  /\ pc[t] = "pages"
  /\ NextPage(t) = 0
  /\ IF cursor[t].zone = Len(Titles)
     THEN Show(t, "printed", At(1, 0, 0), <<>>)
     ELSE Show(t, "pages", At(cursor[t].zone + 1, 0, 0),
                <<Titles[cursor[t].zone + 1]>>)
  /\ UNCHANGED lock

(* print_page: the next chunk of a list, or what comes after its last one; *)
(* an empty list is said to be.                                            *)
PrintChunks(t, list, after, heading) ==
  LET at == cursor[t]
      c  == FindNextInOrder(list, at.chunk)
      none == IF at.chunk = 0 THEN <<"None">> ELSE <<>>
  IN /\ IF c # 0
        THEN Show(t, pc[t], [at EXCEPT !.chunk = c], <<ChunkLine(at.page, c)>>)
        ELSE Show(t, after, [at EXCEPT !.chunk = 0], none \o heading)
     /\ UNCHANGED lock

PrintAllocated(t) ==
  /\ pc[t] = "allocated"
  /\ PrintChunks(t, allocation[cursor[t].page], "freed", <<"Free chunks">>)

PrintFree(t) ==
  /\ pc[t] = "freed"
  /\ PrintChunks(t, free[cursor[t].page], "pages", <<>>)

(* exit_wrapper; the lines are forgotten.                                  *)
ExitShow(t) ==
  /\ pc[t] = "printed"
  /\ lock' = NoThread
  /\ Goto(t, "return")
  /\ printed' = <<>>
  /\ UNCHANGED <<heapVars, frame, owned, content, cursor>>

-----------------------------------------------------------------------------
ProceedShow(t) ==
  \/ EnterShow(t) \/ PrintPage(t) \/ NextZone(t) \/ PrintAllocated(t)
  \/ PrintFree(t) \/ ExitShow(t)
  \/ Proceed(t) /\ UNCHANGED <<cursor, printed>>

ShowNext ==
  \E t \in Threads : \/ Begin(t) /\ UNCHANGED <<cursor, printed>>
                     \/ CallShow(t)
                     \/ ProceedShow(t)

ShowSpec ==
  /\ ShowInit
  /\ [][ShowNext]_showVars
  /\ \A t \in Threads : WF_showVars(ProceedShow(t))

-----------------------------------------------------------------------------
(* The lines of the elements of a list from address 0 up to each address.  *)
Highest(list) == IF list = <<>> THEN 0 ELSE Max(Range(list))

LinesUpTo(list, lines) ==
  LET upTo[a \in 0 .. Highest(list)] ==
        IF a = 0 THEN <<>>
        ELSE upTo[a - 1] \o (IF a \in Range(list) THEN lines[a] ELSE <<>>)
  IN upTo

LinesOfChunks(p, list) ==
  LinesUpTo(list, [c \in Range(list) |-> <<ChunkLine(p, c)>>])

ChunkLines(p, list) ==
  IF list = <<>> THEN <<"None">>
  ELSE LinesOfChunks(p, list)[Highest(list)]

PageLines(p) ==
  <<PageLine(p), "Allocation chunks">> \o ChunkLines(p, allocation[p])
    \o <<"Free chunks">> \o ChunkLines(p, free[p])

LinesOfPages(z) ==
  LET pages == zone[Titles[z]]
  IN LinesUpTo(pages, [p \in Range(pages) |-> PageLines(p)])

ZoneLines(z) ==
  <<Titles[z]>> \o LinesOfPages(z)[Highest(zone[Titles[z]])]

(* The dump shows every page of every zone and every chunk of every page   *)
(* once, in ascending order, however often the lists were turned over by   *)
(* the frees and allocations before it.                                    *)
DumpIsComplete ==
  \A t \in Threads :
    pc[t] = "printed" =>
      printed = ZoneLines(1) \o ZoneLines(2) \o ZoneLines(3)

Dumping == {"pages", "allocated", "freed", "printed"}

(* No other thread changes the heap under a dump: what it found in one step*)
(* is there in the next.                                                   *)
DumpedHeapIsStill ==
  [][\A t \in Threads : pc[t] \in Dumping => UNCHANGED heapVars]_showVars

(* The rest of the program does not see a dump: with the calls of          *)
(* show_alloc_mem left out, what happens is what module Malloc allows, so  *)
(* all that holds of its calls holds among dumps.                          *)
Showing(t) == frame[t].op = "show_alloc_mem"

SeenPc ==
  [t \in Threads |->
     IF Showing(t) /\ pc[t] # "killed" THEN "idle" ELSE pc[t]]

SeenFrame == [t \in Threads |-> IF Showing(t) THEN NoFrame ELSE frame[t]]

SeenLock ==
  IF \E t \in Threads : lock = t /\ Showing(t) THEN NoThread ELSE lock

Seen ==
  INSTANCE Malloc WITH lock <- SeenLock, pc <- SeenPc, frame <- SeenFrame

DumpIsUnseen == Seen!Spec

(* Whoever waits for the lock, with other threads printing or allocating:  *)
(* some call gets through.                                                 *)
SomeoneGetsThrough ==
  \A t \in Threads :
    pc[t] \in {"enter", "wait"} ~> \E u \in Threads : pc[u] \in {"exit", "printed"}
=============================================================================
