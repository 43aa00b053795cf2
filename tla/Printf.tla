------------------------------- MODULE Printf -------------------------------
(***************************************************************************)
(* The printf of lib/printf/printf.c, with which the tests of the allocator*)
(* report: _vsnprintf reads the format character by character and fills    *)
(* the output, the conversions assemble a number backwards in a buffer of  *)
(* fixed size.                                                             *)
(*                                                                         *)
(* A character is a string of length one, NUL the character 0, a format    *)
(* and an output are sequences of characters.  A double is its sign and    *)
(* its magnitude num / den, exactly, or one of the special values.         *)
(***************************************************************************)
EXTENDS Integers, SequencesExt

CONSTANTS
  CHAR_BITS, SHORT_BITS, INT_BITS, LONG_BITS,   (* of the integer types     *)
  NTOA_BUFFER_SIZE,        (* PRINTF_NTOA_BUFFER_SIZE                       *)
  FTOA_BUFFER_SIZE,        (* PRINTF_FTOA_BUFFER_SIZE                       *)
  DEFAULT_PRECISION,       (* PRINTF_DEFAULT_FLOAT_PRECISION                *)
  MAX_PRECISION,           (* 9, the digits frac has room for               *)
  MANTISSA_BITS,           (* 53, of a double                               *)
  MAX_FLOAT,               (* PRINTF_MAX_FLOAT                              *)
  MAX_ADAPTED              (* 10^6, from which on %g writes an exponent     *)

VARIABLES
  format,       (* what is left of the format                               *)
  args,         (* what is left of the va_list                              *)
  phase,        (* the part of the format that is read next                 *)
  flags, width, precision,
  output        (* the characters passed to out, idx of them                *)

vars == <<format, args, phase, flags, width, precision, output>>

Digits == <<"0", "1", "2", "3", "4", "5", "6", "7", "8", "9",
            "a", "b", "c", "d", "e", "f">>

UpperDigits == [Digits EXCEPT ![11] = "A", ![12] = "B", ![13] = "C",
                              ![14] = "D", ![15] = "E", ![16] = "F"]

NUL == "NUL"

IsDigit(c) == \E i \in 1 .. 10 : Digits[i] = c

Least(m, n) == IF m < n THEN m ELSE n

Repeat(c, n) == [i \in 1 .. n |-> c]

-----------------------------------------------------------------------------
(* Where the output goes.  _out_buffer stores what fits, the terminating   *)
(* NUL included; _out_char and _out_fct pass everything on but NULs.       *)
OutBufferAtLimit(idx, maxlen) == idx <= maxlen        \* mutant: not <

OutBuffer(idx, maxlen) == idx < maxlen

(* _vsnprintf takes _out_null, which stores nothing, for a buffer that is  *)
(* NULL.                                                                   *)
Stores(isNull, idx, maxlen) == ~ isNull /\ OutBuffer(idx, maxlen)

(* Where _vsnprintf puts the NUL: behind the text, or in the last place.   *)
Terminator(isNull, length, maxlen) ==
  LET at == IF length < maxlen THEN length ELSE maxlen - 1
  IN IF at >= 0 /\ Stores(isNull, at, maxlen) THEN {at} ELSE {}

(* sprintf_, snprintf_, vsnprintf_: what is stored where.                  *)
Stored(isNull, text, maxlen) ==
  LET at  == {i \in 0 .. Len(text) - 1 : Stores(isNull, i, maxlen)}
      nul == Terminator(isNull, Len(text), maxlen)
  IN [i \in at \cup nul |-> IF i \in nul THEN NUL ELSE text[i + 1]]

(* printf_, vprintf_, fctprintf: what reaches the device.                  *)
Sent(text) == SelectSeq(text, LAMBDA c : c # NUL)

-----------------------------------------------------------------------------
(* _atoi: the digits a string starts with, and their value.                *)
LeadingDigits(s) == SelectInSeq(Append(s, NUL), LAMBDA c : ~ IsDigit(c)) - 1

Atoi(s) ==
  FoldLeft(LAMBDA i, c : i * 10 + SelectInSeq(Digits, LAMBDA d : d = c) - 1,
           0, SubSeq(s, 1, LeadingDigits(s)))

(* The buffers are filled from the last character to the first: buf grows  *)
(* to the left of the number, up to size characters.                       *)
Put(buf, c, size) == IF Len(buf) < size THEN Append(buf, c) ELSE buf

Fill(buf, c, n, size) == buf \o Repeat(c, Least(n, size) - Len(buf))

PutSign(buf, negative, f, size) ==
  CASE negative     -> Put(buf, "-", size)
    [] ~ negative /\ "PLUS" \in f -> Put(buf, "+", size)
    [] ~ negative /\ "PLUS" \notin f /\ "SPACE" \in f -> Put(buf, " ", size)
    [] OTHER        -> buf

(* _out_rev: the buffer backwards, in a field of w characters.             *)
OutRev(buf, w, f) ==
  LET spaces == Repeat(" ", w - Len(buf))
  IN CASE "LEFT" \in f    -> Reverse(buf) \o spaces
       [] "LEFT" \notin f /\ "ZEROPAD" \in f -> Reverse(buf)
       [] OTHER           -> spaces \o Reverse(buf)

(* The sign of a number padded with zeros is one of the w characters.      *)
SignNotCounted(w, negative, f) == w       \* mutant: width-- forgotten

SignCounted(w, negative, f) ==
  IF w > 0 /\ "ZEROPAD" \in f /\ (negative \/ f \cap {"PLUS", "SPACE"} # {})
  THEN w - 1 ELSE w

(* _ntoa_format: leading zeros, the prefix of the base, the sign.  A       *)
(* number that fills the field gives its first digits up for the prefix.   *)
PutPrefix(buf, base, prec, w, f) ==
  LET len == Len(buf)
      fills == "PRECISION" \notin f /\ len > 0 /\ len \in {prec, w}
      cut == IF ~ fills THEN 0 ELSE IF base = 16 /\ len > 1 THEN 2 ELSE 1
      kept == SubSeq(buf, 1, len - cut)
      letter == CASE base = 16 -> IF "UPPERCASE" \in f THEN "X" ELSE "x"
                  [] base = 2  -> "b"
                  [] OTHER     -> ""
      named == IF letter = "" THEN kept ELSE Put(kept, letter, NTOA_BUFFER_SIZE)
  IN IF "HASH" \in f THEN Put(named, "0", NTOA_BUFFER_SIZE) ELSE buf

NtoaFormat(buf, negative, base, prec, wid, f) ==
  LET w == IF "LEFT" \in f THEN wid ELSE SignCounted(wid, negative, f)
      zeros == IF "ZEROPAD" \in f /\ w > prec THEN w ELSE prec
      padded == IF "LEFT" \in f THEN buf
                ELSE Fill(buf, "0", zeros, NTOA_BUFFER_SIZE)
  IN OutRev(PutSign(PutPrefix(padded, base, prec, w, f), negative, f,
                    NTOA_BUFFER_SIZE), w, f)

(* The digits of v, the last one first, at most as many as there is room.  *)
DigitsOf(v, base, digits, room) ==
  LET convert[n \in Nat, left \in Nat] ==
        IF left = 0 THEN <<>>
        ELSE <<digits[(n % base) + 1]>> \o
               (IF n >= base THEN convert[n \div base, left - 1] ELSE <<>>)
  IN convert[v, room]

(* _ntoa_long, _ntoa_long_long                                             *)
NtoaLong(value, negative, base, prec, w, f) ==
  NtoaFormat(IF "PRECISION" \in f /\ value = 0 THEN <<>>
             ELSE DigitsOf(value, base,
                           IF "UPPERCASE" \in f THEN UpperDigits ELSE Digits,
                           NTOA_BUFFER_SIZE),
             negative, base, prec, w, IF value = 0 THEN f \ {"HASH"} ELSE f)

-----------------------------------------------------------------------------
(* A product of doubles: the nearest n with at most MANTISSA_BITS digits   *)
(* before its zeros, the even one of two.                                  *)
Product(n) ==
  LET shift == CHOOSE s \in 0 .. 30 :
                 /\ n < 2 ^ (MANTISSA_BITS + s)
                 /\ s > 0 => n >= 2 ^ (MANTISSA_BITS + s - 1)
      unit == 2 ^ shift
      low  == n \div unit
      up   == \/ 2 * (n % unit) > unit
              \/ 2 * (n % unit) = unit /\ low % 2 = 1
  IN IF up THEN (low + 1) * unit ELSE low * unit

(* _ftoa splits value into whole + frac / 10^p, rounded to the nearest; a  *)
(* tie goes to the even digit, without the rollover to whole.              *)
RoundWithoutCarry(value, p) ==            \* mutant: no rollover to whole
  LET rest == Product((value.num % value.den) * 10 ^ p)
      frac == rest \div value.den
  IN [whole |-> value.num \div value.den,
      frac  |-> IF 2 * (rest % value.den) > value.den
                THEN (frac + 1) % 10 ^ p ELSE frac]

Round(value, p) ==
  LET whole == value.num \div value.den
      rest  == Product((value.num % value.den) * 10 ^ p)
      frac  == rest \div value.den
      twice == 2 * (rest % value.den)
      tie   == twice = value.den
      up    == twice > value.den \/ (tie /\ (frac = 0 \/ frac % 2 = 1))
      carry == \/ twice > value.den /\ frac + 1 >= 10 ^ p
               \/ tie /\ p = 0 /\ whole % 2 = 1
  IN [whole |-> IF carry THEN whole + 1 ELSE whole,
      frac  |-> IF carry THEN 0 ELSE IF up THEN frac + 1 ELSE frac]

FtoaFinite(value, prec, wid, f) ==
  LET Room(buf) == FTOA_BUFFER_SIZE - Len(buf)
      Zeros(buf, n) == Fill(buf, "0", n, FTOA_BUFFER_SIZE)
      asked  == IF "PRECISION" \in f THEN prec ELSE DEFAULT_PRECISION
      beyond == Zeros(<<>>, asked - MAX_PRECISION)
      p      == asked - Len(beyond)
      parts  == Round(value, p)
      frac   == beyond \o DigitsOf(parts.frac, 10, Digits, Room(beyond))
      places == IF Len(frac) > asked THEN FTOA_BUFFER_SIZE ELSE asked
      tail   == IF p = 0 THEN beyond
                ELSE Put(Zeros(frac, places), ".", FTOA_BUFFER_SIZE)
      number == tail \o DigitsOf(parts.whole, 10, Digits, Room(tail))
      zeros  == "LEFT" \notin f /\ "ZEROPAD" \in f
      w      == IF zeros THEN SignCounted(wid, value.negative, f) ELSE wid
  IN OutRev(PutSign(IF zeros THEN Zeros(number, w) ELSE number,
                    value.negative, f, FTOA_BUFFER_SIZE), w, f)

(* The values that are no numbers.                                         *)
FtoaSpecial(value, w, f) ==
  OutRev(CASE value.special = "nan" -> <<"n", "a", "n">>
           [] value.special = "inf" /\ value.negative -> <<"f", "n", "i", "-">>
           [] OTHER -> <<"f", "n", "i">> \o
                         (IF "PLUS" \in f THEN <<"+">> ELSE <<>>), w, f)

(* The decimal exponent _etoa computes from the bits of the double.  That  *)
(* of 0.0 comes out as if it were the smallest number.                     *)
DecimalExponent(value) ==
  LET num == value.num
      den == value.den
  IN IF num = 0 THEN -308
     ELSE CHOOSE e \in -4 .. 9 :
            IF e < 0 THEN num * 10 ^ (-e) >= den /\ num * 10 ^ (-e - 1) < den
            ELSE num >= den * 10 ^ e /\ num < den * 10 ^ (e + 1)

(* value / 10^e                                                            *)
Rescale(value, e) ==
  IF value.num = 0 THEN value
  ELSE IF e < 0 THEN [value EXCEPT !.num = @ * 10 ^ (-e)]
  ELSE [value EXCEPT !.den = @ * 10 ^ e]

(* %g writes numbers from 10^-4 to MAX_ADAPTED as %f does.                 *)
FallsBack(value, f) ==
  /\ "ADAPT_EXP" \in f
  /\ value.num * 10000 >= value.den /\ value.num < value.den * MAX_ADAPTED

EtoaPrecision(value, prec, f) ==
  LET p == IF "PRECISION" \in f THEN prec ELSE DEFAULT_PRECISION
      e == DecimalExponent(value)
  IN CASE FallsBack(value, f) -> IF p > e THEN p - e - 1 ELSE 0
       [] ~ FallsBack(value, f) /\ "ADAPT_EXP" \in f ->
            IF p > 0 /\ "PRECISION" \in f THEN p - 1 ELSE p
       [] OTHER -> p

EtoaFinite(value, prec, wid, f) ==
  LET e == DecimalExponent(value)
      p == EtoaPrecision(value, prec, f)
      minwidth == IF e \in -99 .. 99 THEN 4 ELSE 5
      fwidth == IF "LEFT" \in f \/ wid <= minwidth THEN 0 ELSE wid - minwidth
      mantissa == FtoaFinite(Rescale(value, e), p, fwidth, f \ {"ADAPT_EXP"})
      exponent == NtoaLong(IF e < 0 THEN -e ELSE e, e < 0, 10, 0, minwidth - 1,
                           {"ZEROPAD", "PLUS"})
      text == mantissa \o <<IF "UPPERCASE" \in f THEN "E" ELSE "e">> \o exponent
  IN IF FallsBack(value, f)
     THEN FtoaFinite(value, p, wid, (f \ {"ADAPT_EXP"}) \cup {"PRECISION"})
     ELSE text \o (IF "LEFT" \in f THEN Repeat(" ", wid - Len(text)) ELSE <<>>)

Etoa(value, prec, w, f) ==
  IF value.special # "" THEN FtoaSpecial(value, w, f)
  ELSE EtoaFinite(value, prec, w, f)

Ftoa(value, prec, w, f) ==
  CASE value.special # "" -> FtoaSpecial(value, w, f)
    [] value.special = "" /\ value.num > MAX_FLOAT * value.den ->
         EtoaFinite(value, prec, w, f)
    [] OTHER -> FtoaFinite(value, prec, w, f)

-----------------------------------------------------------------------------
(* The integer an argument is taken for, which depends on the length field.*)
BitsShortFirst(f) ==                 \* mutant: %hh is SHORT and CHAR
  CASE f \cap {"LONG", "LONG_LONG"} # {} -> LONG_BITS
    [] "SHORT" \in f -> SHORT_BITS
    [] OTHER -> INT_BITS

Bits(f) ==
  CASE f \cap {"LONG", "LONG_LONG"} # {} -> LONG_BITS
    [] "CHAR" \in f -> CHAR_BITS
    [] "SHORT" \in f /\ "CHAR" \notin f -> SHORT_BITS
    [] OTHER -> INT_BITS

Unsigned(v, f) == v % 2 ^ Bits(f)

Signed(v, f) ==
  ((v + 2 ^ (Bits(f) - 1)) % 2 ^ Bits(f)) - 2 ^ (Bits(f) - 1)

IntegerSpecifiers == {"d", "i", "u", "x", "X", "o", "b"}

Base(c) ==
  CASE c \in {"x", "X"} -> 16 [] c = "o" -> 8 [] c = "b" -> 2 [] OTHER -> 10

(* Flags that a specifier sets or does not know.                           *)
IntegerFlags(c, f) ==
  (f \cup (IF c = "X" THEN {"UPPERCASE"} ELSE {}))
    \ ((IF Base(c) = 10 THEN {"HASH"} ELSE {})
         \cup (IF c \in {"d", "i"} THEN {} ELSE {"PLUS", "SPACE"})
         \cup (IF "PRECISION" \in f THEN {"ZEROPAD"} ELSE {}))

Integer(c, v, prec, w, f) ==
  LET n == IF c \in {"d", "i"} THEN Signed(v, f) ELSE Unsigned(v, f)
  IN NtoaLong(IF n < 0 THEN -n ELSE n, n < 0, Base(c), prec, w,
              IntegerFlags(c, f))

Float(c, v, prec, w, f) ==
  LET g == (f \cup (IF c \in {"F", "E", "G"} THEN {"UPPERCASE"} ELSE {}))
             \cup (IF c \in {"g", "G"} THEN {"ADAPT_EXP"} ELSE {})
  IN IF c \in {"f", "F"} THEN Ftoa(v, prec, w, g) ELSE Etoa(v, prec, w, g)

(* %c and %s: spaces on one side, and of the string as much as the         *)
(* precision allows.                                                       *)
Text(s, w, f) ==
  LET spaces == Repeat(" ", w - Len(s))
  IN IF "LEFT" \in f THEN s \o spaces ELSE spaces \o s

String(s, prec, w, f) ==
  Text(IF "PRECISION" \in f THEN SubSeq(s, 1, Least(prec, Len(s))) ELSE s, w, f)

Pointer(v, prec, f) ==
  NtoaLong(v, FALSE, 16, prec, LONG_BITS \div 4, f \cup {"ZEROPAD", "UPPERCASE"})

-----------------------------------------------------------------------------
(* _vsnprintf.  A format ends between directives.                          *)
From(i) == SubSeq(format, i, Len(format))

Char == Head(format)

Reads(p) == phase = p /\ format # <<>>

Start(f, a) ==
  /\ format = f
  /\ args = a
  /\ phase = "text"
  /\ flags = {} /\ width = 0 /\ precision = 0
  /\ output = <<>>

Literal ==
  /\ Reads("text") /\ Char # "%"
  /\ output' = Append(output, Char)
  /\ format' = Tail(format)
  /\ UNCHANGED <<args, phase, flags, width, precision>>

Percent ==
  /\ Reads("text") /\ Char = "%"
  /\ format' = Tail(format)
  /\ phase' = "flags"
  /\ flags' = {} /\ width' = 0 /\ precision' = 0
  /\ UNCHANGED <<args, output>>

FlagOf(c) ==
  CASE c = "0" -> {"ZEROPAD"} [] c = "-" -> {"LEFT"} [] c = "+" -> {"PLUS"}
    [] c = " " -> {"SPACE"} [] c = "#" -> {"HASH"} [] OTHER -> {}

Flag ==
  /\ Reads("flags") /\ FlagOf(Char) # {}
  /\ flags' = flags \cup FlagOf(Char)
  /\ format' = Tail(format)
  /\ UNCHANGED <<args, phase, width, precision, output>>

(* The width, given by digits, by an argument or not at all.  A negative   *)
(* argument means the other side.                                          *)
Width ==
  /\ Reads("flags") /\ FlagOf(Char) = {}
  /\ phase' = "precision"
  /\ \/ /\ Char # "*"
        /\ width' = Atoi(format)
        /\ format' = From(LeadingDigits(format) + 1)
        /\ UNCHANGED <<flags, args>>
     \/ /\ Char = "*"
        /\ width' = IF Head(args) < 0 THEN -Head(args) ELSE Head(args)
        /\ flags' = IF Head(args) < 0 THEN flags \cup {"LEFT"} ELSE flags
        /\ args' = Tail(args)
        /\ format' = Tail(format)
  /\ UNCHANGED <<precision, output>>

NoPrecision ==
  /\ Reads("precision") /\ Char # "."
  /\ phase' = "length"
  /\ UNCHANGED <<format, args, flags, width, precision, output>>

Precision ==
  /\ Reads("precision") /\ Char = "."
  /\ phase' = "length"
  /\ flags' = flags \cup {"PRECISION"}
  /\ \/ /\ format[2] # "*"
        /\ precision' = Atoi(From(2))
        /\ format' = From(LeadingDigits(From(2)) + 2)
        /\ UNCHANGED args
     \/ /\ format[2] = "*"
        /\ precision' = IF Head(args) > 0 THEN Head(args) ELSE 0
        /\ args' = Tail(args)
        /\ format' = From(3)
  /\ UNCHANGED <<width, output>>

(* long, ptrdiff_t, intmax_t and size_t are of one width.                  *)
LengthOf(c, twice) ==
  CASE c = "l" -> {"LONG"} \cup (IF twice THEN {"LONG_LONG"} ELSE {})
    [] c = "h" -> {"SHORT"} \cup (IF twice THEN {"CHAR"} ELSE {})
    [] c \in {"t", "j", "z"} -> {"LONG"}
    [] OTHER -> {}

Length ==
  LET twice == Char \in {"l", "h"} /\ format[2] = Char
      f == LengthOf(Char, twice)
  IN /\ Reads("length")
     /\ phase' = "specifier"
     /\ flags' = flags \cup f
     /\ format' = From(1 + Cardinality(f))
     /\ UNCHANGED <<args, width, precision, output>>

(* The conversion of a directive, with as many arguments as it takes.      *)
Converts(S, text, n) ==
  /\ Reads("specifier") /\ Char \in S
  /\ output' = output \o text
  /\ args' = SubSeq(args, 1 + n, Len(args))
  /\ format' = Tail(format)
  /\ phase' = "text"
  /\ UNCHANGED <<flags, width, precision>>

FloatSpecifiers == {"f", "F", "e", "E", "g", "G"}

ConvertInteger ==
  Converts(IntegerSpecifiers,
           Integer(Char, Head(args), precision, width, flags), 1)

ConvertFloat ==
  Converts(FloatSpecifiers, Float(Char, Head(args), precision, width, flags), 1)

ConvertCharacter == Converts({"c"}, Text(<<Head(args)>>, width, flags), 1)

ConvertString == Converts({"s"}, String(Head(args), precision, width, flags), 1)

ConvertPointer == Converts({"p"}, Pointer(Head(args), precision, flags), 1)

(* %%, and a specifier that is none: the character itself.                 *)
ConvertNothing ==
  /\ Reads("specifier")
  /\ Converts({Char} \ (IntegerSpecifiers \cup FloatSpecifiers \cup {"c", "s", "p"}),
              <<Char>>, 0)

Done == phase = "text" /\ format = <<>>

Step ==
  \/ Literal \/ Percent \/ Flag \/ Width \/ NoPrecision \/ Precision \/ Length
  \/ ConvertInteger \/ ConvertFloat \/ ConvertCharacter \/ ConvertString
  \/ ConvertPointer \/ ConvertNothing
=============================================================================
