------------------------------- MODULE Lists --------------------------------
(***************************************************************************)
(* What the lists of chunks and of pages promise: a list is the sequence   *)
(* of its elements, head first, and an element is in one list, in the      *)
(* hands of the operation that moves it, or not an element at all.  Module *)
(* Heap is written with these lists, module LinkedList implements them.    *)
(***************************************************************************)
EXTENDS SequencesExt

CONSTANTS
  Names,        (* the lists                                                *)
  Nodes         (* what may become an element: the places for a header      *)

VARIABLES
  list,         (* the elements of each list                                *)
  held          (* the elements an operation has in hand, in no list        *)

Listed == UNION {Range(list[l]) : l \in Names}

Init ==
  /\ list = [l \in Names |-> <<>>]
  /\ held = {}

Create(n) ==
  /\ n \notin held \cup Listed
  /\ held' = held \cup {n}
  /\ UNCHANGED list

PushFront(l, n) ==
  /\ n \in held
  /\ list' = [list EXCEPT ![l] = Cons(n, @)]
  /\ held' = held \ {n}

RemoveNode(l, n) ==
  /\ n \in Range(list[l])
  /\ list' = [list EXCEPT ![l] = RemoveFirst(@, n)]
  /\ held' = held \cup {n}

Discard(n) ==
  /\ n \in held
  /\ held' = held \ {n}
  /\ UNCHANGED list

Next ==
  \E n \in Nodes :
    \/ Create(n) \/ Discard(n)
    \/ \E l \in Names : PushFront(l, n) \/ RemoveNode(l, n)

Spec == Init /\ [][Next]_<<list, held>>
=============================================================================
