------------------------------- MODULE Names -------------------------------
(***************************************************************************)
(* The names of variables (util.c): strrepl, strtrim, utf8_tolower and     *)
(* canonicalize, over strings of UTF-8 bytes without their final NUL.      *)
(***************************************************************************)
EXTENDS Rune, RuneType

Quote == 34
Backslash == 92
NewLine == 10
Return == 13
Space == 32
Underscore == 95
Letter_n == 110
Letter_r == 114

\* isspace in the C locale
isspace(r) == r \in {9, 10, 11, 12, 13, 32}

Fault == <<-1>>      \* no string: a byte outside of the string is written

\* where orig first is in s, 0 if it is not (strstr)
Find(s, orig) ==
  LET at == {i \in 1 .. Len(s) - Len(orig) + 1 : SubSeq(s, i, i + Len(orig) - 1) = orig}
  IN  IF at = {} THEN 0 ELSE CHOOSE i \in at : \A j \in at : i <= j

RECURSIVE strrepl(_, _, _)

\* every orig replaced, left to right; nothing is if the string would grow
strrepl(s, orig, new) ==
  LET i == Find(s, orig)
  IN  IF Len(orig) < Len(new) \/ i = 0 THEN s
      ELSE SubSeq(s, 1, i - 1) \o new \o strrepl(SubSeq(s, i + Len(orig), Len(s)), orig, new)

\* strtrim: white space dropped from the front, and from the back byte by byte until a
\* rune is whole there
RECURSIVE TrimFront(_), TrimBack(_, _)
TrimFront(s) ==
  LET d == charntorune(s, 1, Len(s))
  IN  IF d.n = 0 \/ d.rune = 0 \/ ~ isspace(d.rune) THEN s
      ELSE TrimFront(SubSeq(s, d.n + 1, Len(s)))

TrimBack(s, i) ==
  LET d == charntorune(s, Len(s) - i + 1, i)
  IN  IF s = << >> \/ d.n = 0 \/ (d.rune # Runeerror /\ ~ isspace(d.rune)) THEN s
      ELSE IF d.rune = Runeerror THEN TrimBack(s, i + 1)
      ELSE TrimBack(SubSeq(s, 1, Len(s) - i), 1)

strtrim(s) == TrimBack(TrimFront(s), 1)

(***************************************************************************)
(* utf8_tolower rewrites the string in place: the lower case of the rune   *)
(* read at src is written at doff of the same memory, which is neither     *)
(* ended with a NUL nor cleared behind the last byte written.  A string    *)
(* that grows gets memory of the new length first.                         *)
(***************************************************************************)
Overwrite(mem, at, bytes) ==
  [k \in DOMAIN mem |-> IF k > at /\ k <= at + Len(bytes) THEN bytes[k - at] ELSE mem[k]]

RECURSIVE LowerInPlace(_, _, _)
LowerInPlace(mem, src, doff) ==
  LET d == charntorune(mem, src + 1, Len(mem) - src)
      lower == runetochar(tolowerrune(d.rune))
  IN  IF d.n = 0 THEN mem
      ELSE LowerInPlace(Overwrite(mem, doff, lower), src + d.n, doff + Len(lower))

\* mutant: only ASCII letters
LowerASCII(r) == IF r \in 65 .. 90 THEN r + 32 ELSE r
utf8_tolowerASCII(s) ==
  [k \in DOMAIN s |-> LowerASCII(s[k])]

\* no rune of the tables of libutf has a longer lower case, so nothing is reallocated
Shrinks(r) == runelen(tolowerrune(r)) < runelen(r)
Grows(r)   == runelen(tolowerrune(r)) > runelen(r)

utf8_tolower(s) == LowerInPlace(s, 0, 0)

\* the replacements of canonicalize, in their order
Replacements == <<
  [orig |-> <<Backslash, Backslash>>, new |-> <<Backslash>>],
  [orig |-> <<Backslash, Letter_n>>,  new |-> <<Underscore>>],
  [orig |-> <<Backslash, Letter_r>>,  new |-> <<Underscore>>],
  [orig |-> <<NewLine>>,              new |-> <<Underscore>>],
  [orig |-> <<Return>>,               new |-> <<Underscore>>],
  [orig |-> <<Space>>,                new |-> <<Underscore>>] >>

Replaced(s) == FoldLeft(LAMBDA t, r : strrepl(t, r.orig, r.new), s, Replacements)

\* canonicalize: a name that is one quotation mark is quoted, too, and is ended at byte -1
canonicalize(n) ==
  LET quoted == Len(n) > 0 /\ n[1] = Quote /\ n[Len(n)] = Quote
  IN  IF quoted /\ Len(n) < 2 THEN Fault
      ELSE Replaced(utf8_tolower(IF quoted THEN SubSeq(n, 2, Len(n) - 1) ELSE n))

-----------------------------------------------------------------------------
(* What the functions are for                                              *)

\* the bytes of a sequence of runes
BytesOf(r) == FlattenSeq([k \in DOMAIN r |-> runetochar(r[k])])

Lowered(s) == LET r == RunesOf(s, 1) IN BytesOf([k \in DOMAIN r |-> tolowerrune(r[k])])

\* a name read from left to right, one escape or one byte at a time
RECURSIVE Unescaped(_)
Unescaped(s) ==
  IF s = << >> THEN << >>
  ELSE IF Len(s) > 1 /\ s[1] = Backslash /\ s[2] = Backslash
    THEN <<Backslash>> \o Unescaped(SubSeq(s, 3, Len(s)))
  ELSE IF Len(s) > 1 /\ s[1] = Backslash /\ s[2] \in {Letter_n, Letter_r}
    THEN <<Underscore>> \o Unescaped(SubSeq(s, 3, Len(s)))
  ELSE <<IF s[1] \in {NewLine, Return, Space} THEN Underscore ELSE s[1]>> \o Unescaped(Tail(s))

=============================================================================
