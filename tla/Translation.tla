----------------------------- MODULE Translation ------------------------------
(***************************************************************************)
(* Lab4: the two implementations of Translation(long), tr_bin.cpp and      *)
(* tr_tri.cpp.  A text is a sign and the digits behind it.  BITS is the    *)
(* width of long, which is 64 in the code.                                 *)
(***************************************************************************)
EXTENDS Integers, Sequences

CONSTANT BITS

ASSUME TranslationAssumption == BITS \in Nat \ {0}

LeastLong == -(2^(BITS - 1))
Long      == LeastLong .. 2^(BITS - 1) - 1

Text(minus, digits) == [minus |-> minus, digits |-> digits]

\* What is left of x >= 0 after each round of a loop that divides it, or
\* shifts it to the right.
Divided(x, base) ==
  LET rest[k \in 0 .. BITS] == IF k = 0 THEN x ELSE rest[k - 1] \div base
  IN  rest

\* Where the first digit is that is not zero.
FirstDigit(temp) ==
  CHOOSE i \in DOMAIN temp : temp[i] # 0 /\ \A j \in 1 .. i - 1 : temp[j] = 0

\* Mutant: the usual -x.
MagnitudeNegated(x) == IF x < 0 THEN -x ELSE x

\* What is shifted out when x is negative: the digits of -(x + 1), inverted.
Magnitude(x) == IF x < 0 THEN -(x + 1) ELSE x

Bit(x, i) == Divided(Magnitude(x), 2)[BITS - i] % 2

\* tr_bin.cpp: a negative number is a minus and its two's complement.
TranslationBinary(x) ==
  LET temp == [i \in 1 .. BITS |-> IF x < 0 THEN 1 - Bit(x, i) ELSE Bit(x, i)]
  IN  IF x = 0 THEN Text(FALSE, <<0>>)
      ELSE Text(x < 0, SubSeq(temp, FirstDigit(temp), BITS))

\* How often n can be divided by 3.
Pos(n) ==
  CHOOSE k \in 0 .. BITS : /\ Divided(n, 3)[k] = 0
                           /\ \A j \in 0 .. k - 1 : Divided(n, 3)[j] > 0

\* tr_tri.cpp: sign and magnitude.  -x of the least long overflows; built as
\* the Makefile does it is the same number again, and the loop does nothing.
TranslationTernary(x) ==
  LET n   == IF x < 0 /\ x # LeastLong THEN -x ELSE x
      pos == IF n > 0 THEN Pos(n) ELSE 0
  IN  IF x = 0 THEN Text(FALSE, <<0>>)
      ELSE Text(x < 0, [i \in 1 .. pos |-> Divided(n, 3)[pos - i] % 3])
=============================================================================
