----------------------------- MODULE MCGeometry -----------------------------
(***************************************************************************)
(* The size arithmetic at the real sizes of a 64-bit Linux build; only the *)
(* width of size_t is reduced.  The properties here need the bits or the   *)
(* digits of n.                                                            *)
(***************************************************************************)
EXTENDS GeometryProperties, Utils, Bitwise, SequencesExt

(* Dropping the remainder is what the code does with a mask: the low bits  *)
(* of n are cleared, for ALIGNMENT and for the page size alike.            *)
MaskDropsRemainder ==
  \A alignment \in {ALIGNMENT, PAGE_SIZE} :
    AlignDown(n, alignment) = n & (SIZE_MAX - (alignment - 1))

Reads(digits, base, number) ==
  /\ FoldLeft(LAMBDA v, d : v * base + d, 0, digits) = number
  /\ Len(digits) > 1 => Head(digits) # 0
  /\ \A i \in DOMAIN digits : digits[i] < base

(* A line of the dump tells where a block of n bytes lies: its three       *)
(* numbers are legible, and its last address is its first one plus n.      *)
RangeIsLegible ==
  LET address == ALIGNMENT * (n % 257)
      line == RangeAddress(address, n)
  IN /\ Reads(line.first, 16, address)
     /\ Reads(line.last, 16, address + n)
     /\ Reads(line.bytes, 10, n)
=============================================================================
