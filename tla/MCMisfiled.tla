----------------------------- MODULE MCMisfiled -----------------------------
(***************************************************************************)
(* One program at the real sizes of a 64-bit Linux build: 99 blocks of     *)
(* 2048 bytes, one of 784, and one more of 2048, which gets the last 2080  *)
(* bytes of the page whole; then it frees that block.                      *)
(***************************************************************************)
EXTENDS MallocProperties

CONSTANTS p1, t1, a

VARIABLE call    (* the calls the program has made                          *)

OnePage == {p1}
OneThread == {t1}
MallocFree == {"malloc", "free"}

Requests == [i \in 1 .. 101 |-> IF i = 100 THEN 784 ELSE 2048]

LastBlock(ptr) == \A other \in DOMAIN owned : other[2] <= ptr[2]

Program(t) ==
  \/ /\ call < Len(Requests)
     /\ CallMalloc(t)
     /\ frame'[t].size = Requests[call + 1]
  \/ /\ call = Len(Requests)
     /\ CallFree(t)
     /\ frame'[t].ptr # NULL /\ LastBlock(frame'[t].ptr)

ProgramInit == Init /\ call = 0

ProgramNext ==
  \E t \in Threads : \/ Program(t) /\ call' = call + 1
                     \/ Proceed(t) /\ UNCHANGED call

ProgramSpec == ProgramInit /\ [][ProgramNext]_<<vars, call>>
=============================================================================
