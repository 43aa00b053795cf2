----------------------------- MODULE LinkedList -----------------------------
(***************************************************************************)
(* The doubly linked lists of the heap at the level of their pointers:     *)
(* push_front_chunk and remove_chunk of src/chunk.c, push_front_page and   *)
(* remove_page of src/page.c, which are the same code on two types.        *)
(*                                                                         *)
(* A node is a place in memory.  It becomes a chunk or a page when its     *)
(* links are cleared, moves between lists through the hands of malloc,     *)
(* realloc and free, and ends as memory that holds anything.               *)
(***************************************************************************)
EXTENDS Integers, SequencesExt

CONSTANTS
  Names,        (* the list heads: zones, or the two lists of a page        *)
  Nodes,        (* the places where a header may be                         *)
  NULL,
  Junk          (* a link in memory that no one has initialised             *)

ASSUME LinksAssumption ==
  NULL \notin Nodes /\ Junk \notin Nodes \cup {NULL} /\ IsFiniteSet(Nodes)

VARIABLES
  head,         (* *chunk_list, *zone_list                                  *)
  next,         (* header.next, page->next                                  *)
  previous,     (* header.previous, page->previous                          *)
  held          (* the nodes an operation has in hand                       *)

vars == <<head, next, previous, held>>

Links == Nodes \cup {NULL, Junk}

Init ==
  /\ head = [l \in Names |-> NULL]
  /\ next = [n \in Nodes |-> Junk]
  /\ previous = [n \in Nodes |-> Junk]
  /\ held = {}

(* Where the links lead from x on, for at most one node more than there    *)
(* are, and the list that this is.                                         *)
Steps == 1 .. Cardinality(Nodes) + 1

Walk(x) ==
  LET at[k \in Steps] ==
        IF k = 1 THEN x
        ELSE LET y == at[k - 1] IN IF y \in Nodes THEN next[y] ELSE NULL
  IN at

From(x) ==
  LET walk == Walk(x)
  IN [k \in 1 .. Cardinality({k \in Steps : walk[k] # NULL}) |-> walk[k]]

list == [l \in Names |-> From(head[l])]

Listed == UNION {Range(list[l]) : l \in Names}

-----------------------------------------------------------------------------
(* A chunk allocate_free_chunk cuts off, or a page fresh from mmap.        *)
CreateUncleared(n) ==        \* mutant: header.next = NULL forgotten
  /\ n \notin held \cup Listed
  /\ previous' = [previous EXCEPT ![n] = NULL]
  /\ held' = held \cup {n}
  /\ UNCHANGED <<head, next>>

Create(n) ==
  /\ n \notin held \cup Listed
  /\ next' = [next EXCEPT ![n] = NULL]
  /\ previous' = [previous EXCEPT ![n] = NULL]
  /\ held' = held \cup {n}
  /\ UNCHANGED head

(* push_front_chunk, push_front_page: in an empty list the links of the    *)
(* new head stay what they are.                                            *)
PushFront(l, n) ==
  /\ n \in held
  /\ head' = [head EXCEPT ![l] = n]
  /\ held' = held \ {n}
  /\ IF head[l] = NULL
     THEN UNCHANGED <<next, previous>>
     ELSE /\ previous' = [previous EXCEPT ![head[l]] = n]
          /\ next' = [next EXCEPT ![n] = head[l]]

(* f with the value v at x, if x is a node.                                *)
Set(f, x, v) == IF x \in Nodes THEN [f EXCEPT ![x] = v] ELSE f

(* remove_chunk, remove_page: the head moves if n is the head, the links   *)
(* of the neighbours close over n, and those of n are reset.               *)
RemoveKeepsNext(l, n) ==           \* mutant: header.next = NULL forgotten
  /\ n \in Range(list[l])
  /\ head' = [head EXCEPT ![l] = IF @ = n THEN next[n] ELSE @]
  /\ next' = Set(next, previous[n], next[n])
  /\ previous' = [Set(previous, next[n], previous[n]) EXCEPT ![n] = NULL]
  /\ held' = held \cup {n}

RemoveKeepsPrevious(l, n) ==   \* mutant: header.previous = NULL forgotten
  /\ n \in Range(list[l])
  /\ head' = [head EXCEPT ![l] = IF @ = n THEN next[n] ELSE @]
  /\ next' = [Set(next, previous[n], next[n]) EXCEPT ![n] = NULL]
  /\ previous' = Set(previous, next[n], previous[n])
  /\ held' = held \cup {n}

RemoveNode(l, n) ==
  /\ n \in Range(list[l])
  /\ head' = [head EXCEPT ![l] = IF @ = n THEN next[n] ELSE @]
  /\ next' = [Set(next, previous[n], next[n]) EXCEPT ![n] = NULL]
  /\ previous' = [Set(previous, next[n], previous[n]) EXCEPT ![n] = NULL]
  /\ held' = held \cup {n}

(* The page is unmapped, or its memory is the program's again.             *)
Discard(n) ==
  /\ n \in held
  /\ next' = [next EXCEPT ![n] = Junk]
  /\ previous' = [previous EXCEPT ![n] = Junk]
  /\ held' = held \ {n}
  /\ UNCHANGED head

Next ==
  \E n \in Nodes :
    \/ Create(n) \/ Discard(n)
    \/ \E l \in Names : PushFront(l, n) \/ RemoveNode(l, n)

Spec == Init /\ [][Next]_vars

-----------------------------------------------------------------------------
(* The pointers never lead astray: followed from the heads they give the   *)
(* sequences that module Heap computes with, through every order of pushes *)
(* and removals in several lists.                                          *)
Abstract == INSTANCE Lists

ImplementsLists == Abstract!Spec

(* Backwards the links say the same as forwards: remove_chunk of an        *)
(* element in the middle relies on both.                                   *)
LinksAreMutual ==
  \A l \in Names :
    /\ head[l] # NULL => previous[head[l]] = NULL
    /\ \A n \in Range(list[l]) :
         next[n] # NULL => next[n] \in Nodes /\ previous[next[n]] = n

(* What an operation has in hand is linked to nothing and nothing is       *)
(* linked to it, so the next list it is pushed on starts afresh.           *)
HeldIsDetached ==
  \A n \in held :
    /\ next[n] = NULL /\ previous[n] = NULL
    /\ \A l \in Names : head[l] # n
    /\ \A m \in Nodes : next[m] # n /\ previous[m] # n

-----------------------------------------------------------------------------
(* Why: every list is a chain of nodes, linked both ways, which shares no  *)
(* node with another; what is in no list and no one's hands has no links.  *)
Follows(x, s) ==
  /\ x = IF s = <<>> THEN NULL ELSE s[1]
  /\ \A i \in DOMAIN s : next[s[i]] = IF i = Len(s) THEN NULL ELSE s[i + 1]

Precedes(s) ==
  \A i \in DOMAIN s : previous[s[i]] = IF i = 1 THEN NULL ELSE s[i - 1]

IsChain(x, s) ==
  s \in Seq(Nodes) /\ IsInjective(s) /\ Follows(x, s) /\ Precedes(s)

Chains(f) ==
  /\ head \in [Names -> Nodes \cup {NULL}] /\ held \subseteq Nodes
  /\ next \in [Nodes -> Links] /\ previous \in [Nodes -> Links]
  /\ \A l \in Names : IsChain(head[l], f[l])
  /\ \A l, m \in Names : l # m => Range(f[l]) \cap Range(f[m]) = {}
  /\ \A n \in held :
       /\ next[n] = NULL /\ previous[n] = NULL
       /\ \A l \in Names : n \notin Range(f[l])
  /\ \A n \in Nodes \ held :
       \/ next[n] = Junk /\ previous[n] = Junk
       \/ \E l \in Names : n \in Range(f[l])

ChainInv == Chains(list)
=============================================================================
