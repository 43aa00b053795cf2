----------------------------- MODULE Allocator ------------------------------
(***************************************************************************)
(* What malloc, free, realloc, calloc and reallocarray promise a program,  *)
(* with nothing said of pages, chunks, lists and locks: every call takes   *)
(* effect in one step between the moment it is made and the moment it      *)
(* returns.  Module Malloc is shown to implement this specification.       *)
(***************************************************************************)
EXTENDS Integers, Functions

CONSTANTS
  Threads, NoThread, NULL,
  Ops,          (* the functions the program calls                          *)
  Sizes,        (* the sizes it asks for                                    *)
  Places,       (* where a block may start: a region of memory, an offset   *)
  Alignment,    (* of the offset                                            *)
  Tags, Zero, Junk

VARIABLES
  block,        (* the blocks of the program, those in its calls included   *)
  call          (* the call each thread makes                               *)

NoCall == [op |-> "none", ptr |-> NULL, size |-> 0, new |-> NULL]

Nothing == [tag |-> Junk, len |-> 0]

(* The first n bytes of a block's data.                                    *)
Prefix(data, n) ==
  IF n = 0 THEN Nothing
  ELSE [data EXCEPT !.len = IF @ < n THEN @ ELSE n]

Block(by, size, data) == [by |-> by, size |-> size, data |-> data]

Without(ptr) == Restrict(block, DOMAIN block \ {ptr})

With(f, ptr, b) == [x \in DOMAIN f \cup {ptr} |-> IF x = ptr THEN b ELSE f[x]]

(* The call of t still has the block it was passed.                        *)
HasBlock(t) ==
  call[t].ptr # NULL /\ call[t].ptr \in DOMAIN block
    /\ block[call[t].ptr].by = t

Overlap(p, n, q, m) == p[1] = q[1] /\ p[2] < q[2] + m /\ q[2] < p[2] + n

(* A place for n bytes: aligned, and apart from every block there is.      *)
IsFree(p, n) ==
  /\ p[2] % Alignment = 0
  /\ p \notin DOMAIN block
  /\ \A q \in DOMAIN block : ~ Overlap(p, n, q, block[q].size)

Init ==
  /\ block = <<>>
  /\ call = [t \in Threads |-> NoCall]

Invoke(t) ==
  \E op \in Ops, ptr \in DOMAIN block \cup {NULL}, size \in Sizes \cup {0} :
    /\ call[t] = NoCall
    /\ call' = [call EXCEPT ![t] = [NoCall EXCEPT !.op = op, !.ptr = ptr,
                                                  !.size = size]]
    /\ IF ptr = NULL THEN UNCHANGED block
       ELSE block[ptr].by = NoThread /\ block' = [block EXCEPT ![ptr].by = t]

Asks(t) == call[t].op \notin {"none", "free"} /\ call[t].new = NULL

Gets(t, p) == call' = [call EXCEPT ![t].new = p]

(* malloc and calloc, and realloc of nothing, get a block of their own.    *)
Allocate(t) ==
  /\ Asks(t)
  /\ call[t].ptr = NULL
  /\ \E p \in Places :
       /\ Gets(t, p)
       /\ IsFree(p, call[t].size)
       /\ block' = With(block, p, Block(t, call[t].size, Nothing))

(* realloc moves its block, with what is in it, or leaves it in place.     *)
Move(t) ==
  /\ Asks(t)
  /\ HasBlock(t)
  /\ \E p \in Places :
       /\ Gets(t, p)
       /\ IsFree(p, call[t].size)
       /\ block' = With(Without(call[t].ptr), p,
            Block(t, call[t].size,
                  Prefix(block[call[t].ptr].data, call[t].size)))

Stay(t) ==
  /\ Asks(t)
  /\ HasBlock(t)
  /\ Gets(t, call[t].ptr)
  /\ UNCHANGED block

Release(t) ==
  /\ HasBlock(t)
  /\ call[t].op = "free"
  /\ block' = Without(call[t].ptr)
  /\ UNCHANGED call

(* The call returns a block with these data in it.                         *)
Deliver(t, data) ==
  /\ call[t].new # NULL
  /\ block' = [block EXCEPT ![call[t].new] = Block(NoThread, call[t].size, data)]
  /\ call' = [call EXCEPT ![t] = NoCall]

(* The program fills a new block itself, unless calloc did it with zeros.  *)
ReturnNew(t) ==
  /\ call[t].ptr = NULL
  /\ \E tag \in IF call[t].op = "calloc" THEN {Zero} ELSE Tags :
       Deliver(t, [tag |-> tag, len |-> call[t].size])

(* It finds in a block that was reallocated what it had put there.         *)
ReturnOld(t) ==
  /\ call[t].ptr # NULL /\ call[t].new # NULL
  /\ Deliver(t, Prefix(block[call[t].new].data, call[t].size))

(* NULL: there was no memory, and the block that was passed is still there.*)
ReturnNull(t) ==
  /\ call[t].op # "none" /\ call[t].new = NULL
  /\ IF HasBlock(t)
     THEN /\ call[t].op # "free"
          /\ block' = [block EXCEPT ![call[t].ptr].by = NoThread]
     ELSE UNCHANGED block
  /\ call' = [call EXCEPT ![t] = NoCall]

Next ==
  \E t \in Threads :
    \/ Invoke(t) \/ Allocate(t) \/ Move(t) \/ Stay(t) \/ Release(t)
    \/ ReturnNew(t) \/ ReturnOld(t) \/ ReturnNull(t)

Spec == Init /\ [][Next]_<<block, call>>
=============================================================================
