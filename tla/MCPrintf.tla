------------------------------ MODULE MCPrintf ------------------------------
(***************************************************************************)
(* Formats of one directive, and some longer ones, for every combination   *)
(* of flags, widths, precisions and lengths near the sizes of the integer  *)
(* types and of the buffers, with values at the edges of both.             *)
(***************************************************************************)
EXTENDS Printf

CONSTANT Inputs     (* the inputs a run is about, a set per kind of value   *)

VARIABLE input      (* the directive, as its author means it                *)

Field(text, arg, value) == [text |-> text, arg |-> arg, value |-> value]

Plain == Field(<<>>, <<>>, 0)

Widths ==
  {Plain, Field(<<"4">>, <<>>, 4), Field(<<"1", "0">>, <<>>, 10),
   Field(<<"*">>, <<-6>>, 6)}

Precisions ==
  {Plain, Field(<<".">>, <<>>, 0), Field(<<".", "3">>, <<>>, 3),
   Field(<<".", "*">>, <<-1>>, 0), Field(<<".", "1", "0">>, <<>>, 10)}

FloatPrecisions ==
  {Plain, Field(<<".", "0">>, <<>>, 0), Field(<<".", "2">>, <<>>, 2)}

FlagSets ==
  {<<>>, <<"0">>, <<"-">>, <<"+">>, <<" ">>, <<"#">>, <<"0", "+">>,
   <<"-", "#">>, <<"0", "#">>, <<" ", "-", "0">>}

Finite(negative, num, den) ==
  [special |-> "", negative |-> negative, num |-> num, den |-> den]

Special(name, negative) ==
  [special |-> name, negative |-> negative, num |-> 0, den |-> 1]

Directive(f, w, p, l, c, v) ==
  [flags |-> f, width |-> w, precision |-> p, length |-> l,
   specifier |-> c, value |-> v]

IntegerInputs ==
  {Directive(f, w, p, l, c, v) :
     f \in FlagSets, w \in Widths, p \in Precisions,
     l \in {<<>>, <<"l">>}, c \in {"d", "u", "x", "o", "b"},
     v \in {0, 7, -1, -128, 4660}}
  \cup
  {Directive(<<>>, w, Plain, l, c, v) :
     w \in Widths, l \in {<<"h">>, <<"h", "h">>, <<"l", "l">>, <<"z">>},
     c \in {"i", "u", "X", "b"}, v \in {0, 7, -8, 15, 16, 4660}}

FloatInputs ==
  {Directive(f, w, p, <<>>, c, v) :
     f \in FlagSets, w \in Widths, p \in FloatPrecisions,
     c \in {"f", "e", "g"},
     v \in {Finite(negative, num, 8) : negative \in BOOLEAN,
                                       num \in {4, 7, 12, 20, 79, 797, 7999}}}
  \cup
  {Directive(f, w, Plain, <<>>, c, v) :
     f \in FlagSets, w \in Widths, c \in {"F", "E", "G"},
     v \in {Finite(FALSE, 0, 8), Finite(FALSE, 10008, 8), Special("nan", FALSE),
            Special("inf", FALSE), Special("inf", TRUE)}}

StringInputs ==
  {Directive(f, w, p, <<>>, "s", v) :
     f \in FlagSets, w \in Widths, p \in Precisions,
     v \in {<<>>, <<"a", "b", "c", "d">>}}

CharacterInputs ==
  {Directive(f, w, Plain, <<>>, "c", v) :
     f \in FlagSets, w \in Widths, v \in {"a", NUL}}

OtherInputs ==
  {Directive(f, Plain, Plain, <<>>, c, 4660) : f \in FlagSets, c \in {"p", "%", "q"}}

AllInputs ==
  <<IntegerInputs, FloatInputs, StringInputs, CharacterInputs, OtherInputs>>

(* Every fraction of so few bits that its product with a power of ten has  *)
(* more of them than a double keeps.                                       *)
FractionInputs ==
  <<{Directive(<<>>, w, Field(<<".", "1">>, <<>>, 1), <<>>, "f", Finite(FALSE, num, 16)) :
       w \in Widths, num \in 0 .. 31}>>

TakesNothing(c) == c \in {"%", "q"}

(* The directive stands between two characters of text.                    *)
Init ==
  \E i \in DOMAIN Inputs : \E d \in Inputs[i] :
    /\ input = d
    /\ Start(<<"<", "%">> \o d.flags \o d.width.text \o d.precision.text
                \o d.length \o <<d.specifier, ">">>,
             d.width.arg \o d.precision.arg
                \o (IF TakesNothing(d.specifier) THEN <<>> ELSE <<d.value>>))

Next == Step /\ UNCHANGED input

Spec == Init /\ [][Next]_<<vars, input>>

-----------------------------------------------------------------------------
Converted == SubSeq(output, 2, Len(output) - 1)

Has(c) == \E i \in DOMAIN input.flags : input.flags[i] = c

Left == Has("-") \/ input.width.arg # <<>>

Wid == input.width.value

HasPrecision == input.precision.text # <<>>

IsInteger == input.specifier \in IntegerSpecifiers

IsSigned == input.specifier \in {"d", "i"}

(* The integer that is meant, and its digits in its base.                  *)
IntendedBits ==
  CASE input.length = <<>> -> INT_BITS
    [] input.length = <<"h">> -> SHORT_BITS
    [] input.length = <<"h", "h">> -> CHAR_BITS
    [] OTHER -> LONG_BITS

Intended ==
  LET n == input.value % 2 ^ IntendedBits
  IN IF IsSigned /\ n >= 2 ^ (IntendedBits - 1) THEN n - 2 ^ IntendedBits ELSE n

Magnitude == IF Intended < 0 THEN -Intended ELSE Intended

NumberOfDigits ==
  IF Magnitude = 0 THEN (IF HasPrecision THEN 0 ELSE 1)
  ELSE CHOOSE n \in 1 .. LONG_BITS :
         /\ Magnitude < Base(input.specifier) ^ n
         /\ Magnitude >= Base(input.specifier) ^ (n - 1)

(* Zeros of the precision; a left-justified number gets none.              *)
WithZeros ==
  IF ~ Left /\ input.precision.value > NumberOfDigits
  THEN input.precision.value ELSE NumberOfDigits

Prefix ==
  IF ~ Has("#") \/ Magnitude = 0 THEN 0
  ELSE CASE Base(input.specifier) = 10 -> 0
         [] Base(input.specifier) = 8 -> 1
         [] OTHER -> 2

SignLength ==
  IF IsSigned /\ (Intended < 0 \/ Has("+") \/ Has(" ")) THEN 1 ELSE 0

Size == WithZeros + Prefix + SignLength

(* The conversion buffer has a place for every character of the number.    *)
FitsBuffer ==
  Size <= NTOA_BUFFER_SIZE
    /\ (Has("0") /\ ~ Left /\ ~ HasPrecision => Wid <= NTOA_BUFFER_SIZE)

(* The prefix of the base does not displace a digit of a full field.       *)
PrefixHasRoom ==
  Prefix = 0 \/ HasPrecision \/ (~ Has("0") /\ Wid # NumberOfDigits)

(* What the characters of a number mean.                                   *)
Value(text, base) ==
  LET Weight(c) == LET i == SelectInSeq(Digits, LAMBDA d : d = c)
                       j == SelectInSeq(UpperDigits, LAMBDA d : d = c)
                   IN IF i > 0 THEN i - 1 ELSE j - 1
  IN FoldLeft(LAMBDA n, c : n * base + Weight(c), 0,
              SelectSeq(text, LAMBDA c : Weight(c) \in 0 .. base - 1))

(* The header's contract of snprintf: count is never exceeded, the text is *)
(* terminated, and what is returned is the length of the whole text, which *)
(* is all there exactly when it is less than count.  Without a buffer the  *)
(* text is only counted.                                                   *)
BufferIsRespected ==
  Done =>
    \A count \in {0, 1, 5, 64} :
      LET stored == Stored(FALSE, output, count)
      IN /\ DOMAIN Stored(TRUE, output, count) = {}
         /\ DOMAIN stored \subseteq 0 .. count - 1
         /\ count > 0 => \E i \in DOMAIN stored :
              /\ stored[i] = NUL
              /\ \A j \in 0 .. i - 1 : stored[j] = output[j + 1]
              /\ i = Least(Len(output), count - 1)

(* An integer is printed with the value that its length says it has, with  *)
(* its sign, whatever flags and fields surround it.                        *)
NumberReadsBack ==
  Done /\ IsInteger /\ FitsBuffer /\ PrefixHasRoom =>
    LET n == Value(Converted, Base(input.specifier))
    IN (IF Contains(Converted, "-") THEN -n ELSE n) = Intended

(* A conversion takes the width it is given, and more only if the number   *)
(* with its zeros, its sign and its prefix needs more.                     *)
FieldIsFilled ==
  Done =>
    /\ IsInteger /\ FitsBuffer /\ PrefixHasRoom =>
         Len(Converted) = IF Wid > Size THEN Wid ELSE Size
    /\ input.specifier \in FloatSpecifiers /\ input.value.special = ""
         /\ Wid <= FTOA_BUFFER_SIZE => Len(Converted) >= Wid
    /\ input.specifier \in {"s", "c"} => Len(Converted) >= Wid
    /\ Len(Converted) > Wid /\ ~ Has(" ") => ~ Contains(Converted, " ")

(* The number a float is printed as is the nearest of its precision.       *)
FloatIsNearest ==
  Done /\ input.specifier \in FloatSpecifiers /\ input.value.special = "" =>
    LET e == SelectInSeq(Converted, LAMBDA c : c \in {"e", "E"})
        mantissa == IF e = 0 THEN Converted ELSE SubSeq(Converted, 1, e - 1)
        exponent == IF e = 0 THEN <<>> ELSE SubSeq(Converted, e, Len(Converted))
        point == SelectInSeq(mantissa, LAMBDA c : c = ".")
        after == IF point = 0 THEN <<>>
                 ELSE SubSeq(mantissa, point, Len(mantissa))
        scale == (IF Contains(exponent, "-") THEN -1 ELSE 1) * Value(exponent, 10)
                   - Len(SelectSeq(after, IsDigit))
        n   == Value(mantissa, 10)
        num == input.value.num
        den == input.value.den
        unit == IF scale < 0 THEN den ELSE den * 10 ^ scale
        off == IF scale < 0 THEN n * den - num * 10 ^ (-scale) ELSE n * unit - num
    IN /\ Contains(mantissa, "-") <=> input.value.negative
       /\ IF num = 0 THEN n = 0 ELSE 2 * off <= unit /\ -2 * off <= unit

(* The rollover _ftoa speaks of ("case 0.99 with prec 1 is 1.0"): whatever *)
(* the fraction rounds to, as many digits follow the point as were asked.  *)
PlacesAreKept ==
  Done /\ input.specifier = "f" /\ input.value.special = "" =>
    LET point == SelectInSeq(Converted, LAMBDA c : c = ".")
        after == SubSeq(Converted, point + 1, Len(Converted))
    IN /\ point > 0
       /\ Len(SelectSeq(after, IsDigit)) = input.precision.value
=============================================================================
