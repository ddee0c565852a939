-------------------------------- MODULE Rune --------------------------------
(***************************************************************************)
(* UTF-8 (libutf/rune.c): runes are numbers, strings sequences of bytes.   *)
(* Shifts and masks are written as division and remainder.  A function     *)
(* that is given a pointer gets the string s and an index i into it.       *)
(***************************************************************************)
EXTENDS Integers, Sequences

Rune1 == \h7F          \* the last rune of one byte, of two, and of three
Rune2 == \h7FF
Rune3 == \hFFFF
Runemax == \h10FFFF
Runeerror == \hFFFD

Tx == \h80             \* the first bytes of a rune of two bytes and more
T2 == \hC0
T3 == \hE0
T4 == \hF0
T5 == \hF8

Bitx == 64             \* one shift by Bitx
IsTx(b) == b \div 64 = 2
Bits(b) == b % 64

\* chartorune: the rune, the bytes it takes, and how many bytes were looked at
Decoded(r, n, seen) == [rune |-> r, n |-> n, seen |-> seen]
Bad(seen) == Decoded(Runeerror, 1, seen)

\* mutant: the overlong forms of two bytes accepted
chartoruneLong(s, i) ==
  LET c == s[i]
      two == (c % 32) * Bitx + Bits(s[i + 1])
  IN  IF c < Tx THEN Decoded(c, 1, 1)
      ELSE IF ~ IsTx(s[i + 1]) \/ c < T2 THEN Bad(2)
      ELSE IF c < T3 THEN Decoded(two, 2, 2)
      ELSE IF ~ IsTx(s[i + 2]) THEN Bad(3)
      ELSE IF c < T4 THEN Bad(3)
      ELSE Bad(4)

chartorune(s, i) ==
  LET c == s[i]
      two == (c % 32) * Bitx + Bits(s[i + 1])
      three == ((c % 16) * Bitx + Bits(s[i + 1])) * Bitx + Bits(s[i + 2])
      four == (((c % 8) * Bitx + Bits(s[i + 1])) * Bitx + Bits(s[i + 2])) * Bitx
                + Bits(s[i + 3])
  IN  IF c < Tx THEN Decoded(c, 1, 1)
      ELSE IF ~ IsTx(s[i + 1]) THEN Bad(2)
      ELSE IF c < T3
        THEN IF c < T2 \/ two <= Rune1 THEN Bad(2) ELSE Decoded(two, 2, 2)
      ELSE IF ~ IsTx(s[i + 2]) THEN Bad(3)
      ELSE IF c < T4
        THEN IF three <= Rune2 THEN Bad(3) ELSE Decoded(three, 3, 3)
      ELSE IF ~ IsTx(s[i + 3]) \/ c >= T5 \/ four <= Rune3 \/ four > Runemax
        THEN Bad(4)
      ELSE Decoded(four, 4, 4)

\* the bytes of a rune; a rune that is too large is written as Runeerror
runetochar(rune) ==
  LET c == IF rune > Runemax THEN Runeerror ELSE rune
      tail(shift) == Tx + ((c \div shift) % 64)
  IN  IF c <= Rune1 THEN <<c>>
      ELSE IF c <= Rune2 THEN <<T2 + (c \div Bitx), tail(1)>>
      ELSE IF c <= Rune3 THEN <<T3 + (c \div (Bitx * Bitx)), tail(Bitx), tail(1)>>
      ELSE <<T4 + (c \div (Bitx * Bitx * Bitx)), tail(Bitx * Bitx), tail(Bitx), tail(1)>>

runelen(c) == Len(runetochar(c))

\* the bytes that a sequence of runes takes
runenlen(r) ==
  LET bytes(c) == IF c <= Rune1 THEN 1 ELSE IF c <= Rune2 THEN 2
                  ELSE IF c <= Rune3 \/ c > Runemax THEN 3 ELSE 4
      sum[k \in 0 .. Len(r)] == IF k = 0 THEN 0 ELSE sum[k - 1] + bytes(r[k])
  IN  sum[Len(r)]

\* whether the n bytes at i hold a whole rune
fullrune(s, i, n) ==
  /\ n > 0
  /\ n >= (IF s[i] < Tx THEN 1 ELSE IF s[i] < T3 THEN 2 ELSE IF s[i] < T4 THEN 3 ELSE 4)

\* charntorune: chartorune when the rune is whole, no bytes otherwise
charntorune(s, i, n) ==
  IF fullrune(s, i, n) THEN chartorune(s, i) ELSE Decoded(0, 0, 1)

\* the runes of s up to its end or to a rune that is cut off (the loop of utf8_tolower)
RECURSIVE RunesOf(_, _)
RunesOf(s, i) ==
  IF i > Len(s) THEN <<>>
  ELSE LET d == charntorune(s, i, Len(s) - i + 1)
       IN  IF d.n = 0 THEN <<>> ELSE <<d.rune>> \o RunesOf(s, i + d.n)

=============================================================================
