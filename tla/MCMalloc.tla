------------------------------ MODULE MCMalloc ------------------------------
(* Instances of Malloc for TLC.                                            *)
EXTENDS MallocInvariant, MallocRefinement

CONSTANTS t1, t2, p1, p2, p3, a, b

TwoThreads == {t1, t2}
OneThread == {t1}
OnePage == {p1}
TwoPages == {p1, p2}
ThreePages == {p1, p2, p3}
AllOps == {"malloc", "free", "realloc", "calloc", "reallocarray"}
HeapOps == {"malloc", "free", "realloc"}
MallocFree == {"malloc", "free"}
LockedOps == {"malloc", "free", "realloc", "calloc"}

(* Threads and pages are never compared or ordered: any two may be swapped.*)
Symmetry == Permutations(Threads) \cup Permutations(Pages)
=============================================================================
