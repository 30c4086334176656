------------------------------ MODULE Numbers ------------------------------
(***************************************************************************)
(* Numbers as text: the conversions of vsprintf() (kernel/c/vsprintf.c),   *)
(* and strtol() and strtoul() of the C library, in words of W values.      *)
(*                                                                         *)
(* A character is a number: a digit or letter is its value, 0 .. 35, and   *)
(* the rest lie below 0.                                                   *)
(***************************************************************************)
EXTENDS Integers, Sequences, SequencesExt, FiniteSetsExt

CONSTANT W   \* 2^32

ASSUME NumbersAssumption == W \in Nat /\ W > 1 /\ W % 2 = 0

Space == -1
Minus == -2
Plus  == -3
End   == -4    \* 0, which ends a string
X     == 33    \* 'x', and digits[33]

AsLong(w) == IF w >= W \div 2 THEN w - W ELSE w

Of(c, n) == [i \in 1 .. n |-> c]
At(s, i) == IF i <= Len(s) THEN s[i] ELSE End

-----------------------------------------------------------------------------
(* number(): the digits of a word, lowest first.                           *)
DigitsOf(num, base) ==
  LET D[n \in 0 .. W - 1] == IF n = 0 THEN << >> ELSE <<n % base>> \o D[n \div base]
  IN IF num = 0 THEN <<0>> ELSE D[num]

(* Mutant: the room of the sign is not taken off the width.                *)
RoomUnsigned(size, sign, prefix, precision) == size - Len(prefix) - precision

(* What is left of the width for padding.                                  *)
Room(size, sign, prefix, precision) == size - Len(sign) - Len(prefix) - precision

(* number(): padding or sign first, as the flags say.                      *)
Number(word, base, width, prec, flags) ==
  LET neg    == "SIGN" \in flags /\ AsLong(word) < 0
      num    == IF neg THEN W - word ELSE word
      zero   == "ZEROPAD" \in flags /\ "LEFT" \notin flags
      sign   == IF neg THEN <<Minus>> ELSE IF "PLUS" \in flags THEN <<Plus>>
                ELSE IF "SPACE" \in flags THEN <<Space>> ELSE << >>
      prefix == IF "SPECIAL" \notin flags THEN << >>
                ELSE CASE base = 8 -> <<0>> [] base = 16 -> <<0, X>> [] OTHER -> << >>
      digits == Reverse(DigitsOf(num, base))
      precision == Max({Len(digits), prec})
      room   == Max({0, Room(width, sign, prefix, precision)})
  IN Of(Space, IF zero \/ "LEFT" \in flags THEN 0 ELSE room)
       \o sign \o prefix
       \o Of(0, IF zero THEN room ELSE 0)
       \o Of(0, precision - Len(digits)) \o digits
       \o Of(Space, IF "LEFT" \in flags THEN room ELSE 0)

(* vsprintf(), the conversion of an integer argument: %d, %u, %o, %x, %p   *)
(* with flags, width and precision, -1 when not given.                     *)
Convert(conv, flags, width, prec, word) ==
  CASE conv = "d" -> Number(word, 10, width, prec, flags \cup {"SIGN"})
    [] conv = "u" -> Number(word, 10, width, prec, flags)
    [] conv = "o" -> Number(word, 8, width, prec, flags)
    [] conv = "x" -> Number(word, 16, width, prec, flags)
    [] conv = "p" -> IF width = -1 THEN Number(word, 16, 8, prec, flags \cup {"ZEROPAD"})
                     ELSE Number(word, 16, width, prec, flags)

(* vsprintf(): %s cuts at the precision and pads to the width.             *)
ConvertString(s, flags, width, prec) ==
  LET out == IF prec < 0 THEN s ELSE SubSeq(s, 1, Min({Len(s), prec}))
      pad == Of(Space, Max({0, width - Len(out)}))
  IN IF "LEFT" \in flags THEN out \o pad ELSE pad \o out

-----------------------------------------------------------------------------
(* What strtol() and strtoul() make of the start of a string: the sign,    *)
(* the base and the place of the first digit.                              *)
Begin(s, base) ==
  LET i == Min({k \in 1 .. Len(s) + 1 : At(s, k) # Space})
      j == IF At(s, i) \in {Minus, Plus} THEN i + 1 ELSE i
      hex == base \in {0, 16} /\ At(s, j) = 0 /\ At(s, j + 1) = X
  IN [neg  |-> At(s, i) = Minus,
      at   |-> IF hex THEN j + 2 ELSE j,
      base |-> IF hex THEN 16 ELSE IF base # 0 THEN base
               ELSE IF At(s, j) = 0 THEN 8 ELSE 10]

(* The characters from place i on that are digits of the base.             *)
DigitRun(s, i, base) ==
  LET stop == Min({k \in i .. Len(s) + i : At(s, k) \notin 0 .. base - 1})
  IN SubSeq(s, i, stop - 1)

(* The loop: any is -1 from the digit on that makes the number too large.  *)
Accumulate(digits, base, limit) ==
  LET cutoff == limit \div base
      cutlim == limit % base
      Take(a, c) ==
        IF a.any < 0 \/ a.acc > cutoff \/ (a.acc = cutoff /\ c > cutlim)
        THEN [a EXCEPT !.any = -1]
        ELSE [acc |-> (a.acc * base + c) % W, any |-> 1]
  IN FoldLeft(Take, [acc |-> 0, any |-> 0], digits)

(* The value, and how many characters are behind endptr.                   *)
Strtol(s, base) ==
  LET b == Begin(s, base)
      limit == IF b.neg THEN W \div 2 ELSE (W \div 2) - 1
      digits == DigitRun(s, b.at, b.base)
      a == Accumulate(digits, b.base, limit)
      acc == IF a.any < 0 THEN limit ELSE a.acc
  IN [val |-> IF b.neg THEN AsLong((W - acc) % W) ELSE acc,
      end |-> IF digits = << >> THEN 0 ELSE b.at + Len(digits) - 1]

Strtoul(s, base) ==
  LET b == Begin(s, base)
      digits == DigitRun(s, b.at, b.base)
      a == Accumulate(digits, b.base, W - 1)
  IN [val |-> IF a.any < 0 THEN W - 1 ELSE IF b.neg THEN (W - a.acc) % W ELSE a.acc,
      end |-> IF digits = << >> THEN 0 ELSE b.at + Len(digits) - 1]

(* strtoul() of the kernel (c/string.c): a 0 in front is a digit by        *)
(* itself, and the rest begins behind it.                                  *)
KStrtoul(s, base) ==
  LET i == Min({k \in 1 .. Len(s) + 1 : At(s, k) # Space})
      j == IF At(s, i) \in {Minus, Plus} THEN i + 1 ELSE i
      zero == base \in {0, 16} /\ At(s, j) = 0
      hex  == zero /\ At(s, j + 1) = X
      radix == IF hex THEN 16 ELSE IF base # 0 THEN base ELSE IF zero THEN 8 ELSE 10
      from == IF hex THEN j + 2 ELSE IF zero THEN j + 1 ELSE j
      digits == DigitRun(s, from, radix)
      a == Accumulate(digits, radix, W - 1)
  IN [val |-> IF a.any < 0 THEN W - 1 ELSE IF At(s, i) = Minus THEN (W - a.acc) % W ELSE a.acc,
      end |-> IF digits # << >> \/ (zero /\ ~hex) THEN from + Len(digits) - 1 ELSE 0]

(* strtol() of the kernel: strtoul() does what is behind the sign.         *)
KStrtol(s, base) ==
  LET i == Min({k \in 1 .. Len(s) + 1 : At(s, k) # Space})
      neg == At(s, i) = Minus
      j == IF At(s, i) \in {Minus, Plus} THEN i + 1 ELSE i
      u == KStrtoul(SubSeq(s, j, Len(s)), base)
      limit == IF neg THEN W \div 2 ELSE (W \div 2) - 1
      val == IF u.val > limit THEN limit ELSE u.val
  IN [val |-> IF neg THEN -val ELSE val, end |-> IF u.end = 0 THEN 0 ELSE j - 1 + u.end]

(* C's division, towards 0.                                                *)
Quot(a, b) == LET q == (IF a < 0 THEN -a ELSE a) \div (IF b < 0 THEN -b ELSE b)
              IN IF (a < 0) # (b < 0) THEN -q ELSE q
Rem(a, b) == a - b * Quot(a, b)

(* div() and ldiv().                                                       *)
Div(num, denom) ==
  LET turn == num > 0 /\ denom < 0
      n == IF turn THEN -num ELSE num
      d == IF turn THEN -denom ELSE denom
      up == n < 0 /\ d > 0 /\ Rem(n, d) > 0
  IN [quot |-> IF up THEN Quot(n, d) + 1 ELSE Quot(n, d),
      rem  |-> IF up THEN Rem(n, d) - d ELSE Rem(n, d)]

(* Quotient and remainder make up the number, but for a positive number    *)
(* divided by a negative one: both are turned around and the remainder     *)
(* then has the wrong sign (div.c:15).                                     *)
DivRight(num, denom) ==
  LET r == Div(num, denom)
      back == IF num > 0 /\ denom < 0 THEN -r.rem ELSE r.rem
  IN num = denom * r.quot + back

(* The kernel's strtoul() and strtol() read what the library's read, up to *)
(* the same place; but strtol() takes a second sign, or spaces, behind the *)
(* first.                                                                  *)
KernelReads(s, base) ==
  /\ KStrtoul(s, base) = Strtoul(s, base)
  /\ ~(\E i \in 1 .. Len(s) - 1 : s[i] \in {Plus, Minus} /\ s[i + 1] \in {Plus, Minus, Space})
       => KStrtol(s, base) = Strtol(s, base)

(* What is printed reads back as what it was, for every word, conversion,  *)
(* width, precision and set of flags (unless 0 and 0x prefixes meet a base *)
(* that takes none); and fills its width exactly when that is enough.      *)
PrintReads(conv, flags, width, prec, word) ==
  LET text == Convert(conv, flags, width, prec, word)
      base == CASE conv \in {"d", "u"} -> 10 [] conv = "o" -> 8 [] OTHER -> 16
      tight == Convert(conv, flags \ {"ZEROPAD"}, 0, prec, word)
  IN /\ IF conv = "d" THEN Strtol(text, base).val = AsLong(word)
        ELSE Strtoul(text, base).val = word
     /\ Len(text) = Max({Len(tight), IF conv = "p" /\ width = -1 THEN 8 ELSE width})

(* The number a run of digits stands for.                                  *)
Horner(digits, base) == FoldLeft(LAMBDA n, c : n * base + c, 0, digits)

(* strtol() and strtoul() give the number that is written, or the nearest  *)
(* that fits when it is too large, however many digits follow.             *)
ReadsRight(s, base) ==
  LET b == Begin(s, base)
      n == Horner(DigitRun(s, b.at, b.base), b.base)
      signed == IF b.neg THEN -n ELSE n
  IN /\ Strtol(s, base).val
          = Max({-(W \div 2), Min({(W \div 2) - 1, signed})})
     /\ Strtoul(s, base).val
          = IF n > W - 1 THEN W - 1 ELSE signed % W
=============================================================================
