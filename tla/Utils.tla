------------------------------- MODULE Utils -------------------------------
(***************************************************************************)
(* How show_alloc_mem spells numbers (src/utils.c): the digits of a size_t *)
(* in base ten or sixteen, the first one first, and the line of one block. *)
(***************************************************************************)
EXTENDS Naturals, Sequences

UnumberAboveTen(number) ==                   \* mutant: > instead of >=
  LET print[n \in Nat] ==
        (IF n > 10 THEN print[n \div 10] ELSE <<>>) \o <<n % 10>>
  IN print[number]

Unumber(number) ==
  LET print[n \in Nat] ==
        (IF n >= 10 THEN print[n \div 10] ELSE <<>>) \o <<n % 10>>
  IN print[number]

UnumberHexa(number) ==
  LET print[n \in Nat] ==
        (IF n >= 16 THEN print[n \div 16] ELSE <<>>) \o <<n % 16>>
  IN print[number]

(* Where a block begins and ends, and its size.                            *)
RangeAddress(address, size) ==
  [first |-> UnumberHexa(address),
   last  |-> UnumberHexa(address + size),
   bytes |-> Unumber(size)]
=============================================================================
