---------------------------- MODULE LexerProofs -----------------------------
(***************************************************************************)
(* Theorems about Lexer, for any equations, callers and sizes of buf: the  *)
(* tokens returned are those of the equation, each once, in order and at   *)
(* the place it gives, and every string has one owner.                     *)
(*                                                                         *)
(* The loops over runes are recursive functions.  That they have values at *)
(* all, and what these are, is shown by the least number at which it would *)
(* fail, counted from the end of the equation (LoopExists, Descending).    *)
(***************************************************************************)
EXTENDS Lexer, Arithmetic, SequenceTheorems

-----------------------------------------------------------------------------
(* Loops over the runes.  A loop at p either goes on at p + 1 with other   *)
(* flags or ends; behind the last rune it ends.                            *)

Turn(f, go, flags, at, p, c) == IF go[p][c] THEN f[p + 1][flags[p][c]] ELSE at[p][c]

IsLoop(f, n, C, go, flags, at) ==
  f = [p \in 1 .. n |-> [c \in C |-> Turn(f, go, flags, at, p, c)]]

LEMMA LoopExists ==
  ASSUME NEW n \in Nat \ {0}, NEW C,
         NEW go, NEW flags, NEW at, \A c \in C : ~ go[n][c]
  PROVE  \E f : IsLoop(f, n, C, go, flags, at)
<1> DEFINE Row(f, p) == [c \in C |-> Turn(f, go, flags, at, p, c)]
           Solves(f, a) == \A p \in a .. n : f[p] = Row(f, p)
           Fn(f) == f = [p \in 1 .. n |-> f[p]]
           Open == {m \in 0 .. n - 1 : ~ \E f : Fn(f) /\ Solves(f, n - m)}
<1>1. Open = {}
  <2> SUFFICES ASSUME Open # {} PROVE FALSE
    OBVIOUS
  <2>1. PICK m \in Open : \A y \in Open : m <= y
    <3>1. Open \in SUBSET Nat
      OBVIOUS
    <3> HIDE DEF Open
    <3> QED BY <3>1, LeastNat
  <2>2. m \in 0 .. n - 1 /\ ~ \E f : Fn(f) /\ Solves(f, n - m)
    BY <2>1
  <2>3. CASE m = 0
    <3> DEFINE f == [p \in 1 .. n |-> [c \in C |-> at[p][c]]]
    <3>1. Fn(f)
      OBVIOUS
    <3>2. f[n] = [c \in C |-> at[n][c]]
      OBVIOUS
    <3> HIDE DEF f
    <3>3. Row(f, n) = [c \in C |-> at[n][c]]
      BY DEF Turn
    <3>4. Solves(f, n - m)
      <4>1. \A p \in n - m .. n : p = n
        BY <2>3
      <4> QED BY <3>2, <3>3, <4>1
    <3> HIDE DEF Fn, Solves
    <3> QED BY <2>2, <3>1, <3>4
  <2>4. CASE m # 0
    <3>1. m - 1 \in 0 .. n - 1 /\ m - 1 \notin Open
      BY <2>1, <2>2, <2>4
    <3>2. PICK g : Fn(g) /\ Solves(g, n - (m - 1))
      BY <3>1
    <3> DEFINE q == n - m
               f == [p \in 1 .. n |-> IF p = q THEN Row(g, q) ELSE g[p]]
    <3>3. q \in 1 .. n - 1 /\ n - (m - 1) = q + 1
      BY <2>2, <2>4
    <3>4. Fn(f)
      OBVIOUS
    <3>5. f[q] = Row(g, q) /\ \A p \in q + 1 .. n : f[p] = g[p]
      BY <3>3
    <3> HIDE DEF f
    <3>6. ASSUME NEW p \in q .. n PROVE Row(f, p) = Row(g, p)
      <4>1. CASE p = n
        BY <4>1 DEF Turn
      <4>2. CASE p # n
        <5>1. p + 1 \in q + 1 .. n
          BY <3>3, <3>6, <4>2
        <5>2. f[p + 1] = g[p + 1]
          BY <3>5, <5>1
        <5> QED BY <5>2 DEF Turn
      <4> QED BY <4>1, <4>2
    <3>7. ASSUME NEW p \in q .. n PROVE f[p] = Row(f, p)
      <4>0. Row(f, p) = Row(g, p)
        BY <3>6
      <4> HIDE DEF Row
      <4>1. CASE p = q
        BY <3>5, <4>0, <4>1
      <4>2. CASE p # q
        <5>1. p \in q + 1 .. n /\ p \in n - (m - 1) .. n
          BY <3>3, <4>2
        <5> QED BY <3>2, <3>5, <4>0, <5>1
      <4> QED BY <4>1, <4>2
    <3>8. Solves(f, n - m)
      BY <3>7
    <3> HIDE DEF Fn, Solves
    <3> QED BY <2>2, <3>4, <3>8
  <2> QED BY <2>3, <2>4
<1>2. n - 1 \in 0 .. n - 1 /\ n - (n - 1) = 1
  OBVIOUS
<1>3. PICK f : Fn(f) /\ Solves(f, 1)
  BY <1>1, <1>2
<1>4. f = [p \in 1 .. n |-> Row(f, p)]
  BY <1>3
<1> QED BY <1>4 DEF IsLoop

LEMMA LoopBounds ==
  ASSUME NEW n \in Nat \ {0}, NEW C, NEW go, NEW flags, NEW at,
         \A c \in C : ~ go[n][c],
         \A p \in 1 .. n : \A c \in C : flags[p][c] \in C /\ at[p][c] \in p .. n,
         NEW f, IsLoop(f, n, C, go, flags, at)
  PROVE  \A p \in 1 .. n : \A c \in C : f[p][c] \in p .. n
<1> DEFINE T == {p \in 1 .. n : \A c \in C : f[p][c] \in p .. n}
<1>1. ASSUME NEW p \in 1 .. n, \A q \in p + 1 .. n : q \in T PROVE p \in T
  <2>1. ASSUME NEW c \in C PROVE f[p][c] \in p .. n
    <3>1. f[p][c] = Turn(f, go, flags, at, p, c)
      BY DEF IsLoop
    <3>2. CASE ~ go[p][c]
      BY <3>1, <3>2 DEF Turn
    <3>3. CASE go[p][c]
      <4>1. p # n
        BY <3>3
      <4>2. p + 1 \in p + 1 .. n /\ flags[p][c] \in C
        BY <4>1
      <4>3. f[p + 1][flags[p][c]] \in p + 1 .. n
        BY <1>1, <4>2
      <4>4. f[p][c] = f[p + 1][flags[p][c]]
        BY <3>1, <3>3 DEF Turn
      <4> QED BY <4>3, <4>4
    <3> QED BY <3>2, <3>3
  <2> QED BY <2>1
<1>2. \A p \in 1 .. n : p \in T
  <2> HIDE DEF T
  <2> QED BY <1>1, Descending
<1> QED BY <1>2

-----------------------------------------------------------------------------
(* skip_whitespace.                                                        *)

\* what its loop does at p, when f says what it does behind p
SkipTurn(f, p, in_comment) ==
  IF p > Len(src) THEN p
  ELSE IF in_comment THEN f[p + 1][RuneAt(p) # "}"]
  ELSE IF RuneAt(p) = "{" THEN f[p + 1][TRUE]
  ELSE IF space(RuneAt(p)) THEN f[p + 1][FALSE]
  ELSE p

LEMMA SkipUnfolds ==
  ASSUME src \in Seq(STRING)
  PROVE  SkipFrom = [p \in Places |-> [in_comment \in BOOLEAN |-> SkipTurn(SkipFrom, p, in_comment)]]
<1> DEFINE n == Len(src) + 1
           Is(f) == f = [p \in Places |-> [in_comment \in BOOLEAN |-> SkipTurn(f, p, in_comment)]]
           go == [p \in 1 .. n |-> [c \in BOOLEAN |->
                    p <= Len(src) /\ (c \/ RuneAt(p) = "{" \/ space(RuneAt(p)))]]
           flags == [p \in 1 .. n |-> [c \in BOOLEAN |-> IF c THEN RuneAt(p) # "}" ELSE RuneAt(p) = "{"]]
           at == [p \in 1 .. n |-> [c \in BOOLEAN |-> p]]
<1>1. n \in Nat \ {0} /\ Places = 1 .. n
  BY DEF Places
<1>2. SkipFrom = CHOOSE f : Is(f)
  BY DEF SkipFrom, SkipTurn
<1>3. \A c \in BOOLEAN : ~ go[n][c]
  <2>1. n \in 1 .. n /\ ~ (n <= Len(src))
    BY <1>1
  <2> HIDE DEF n
  <2> QED BY <2>1
<1>4. \E f : IsLoop(f, n, BOOLEAN, go, flags, at)
  <2> DEFINE C == BOOLEAN
  <2>1. n \in Nat \ {0} /\ \A c \in C : ~ go[n][c]
    BY <1>1, <1>3
  <2> HIDE DEF go, flags, at, n, C
  <2>2. \E f : IsLoop(f, n, C, go, flags, at)
    BY <2>1, LoopExists
  <2> QED BY <2>2 DEF C
<1>5. PICK f : f = [p \in 1 .. n |-> [c \in BOOLEAN |-> Turn(f, go, flags, at, p, c)]]
  BY <1>4 DEF IsLoop
<1>6. ASSUME NEW p \in 1 .. n, NEW c \in BOOLEAN
      PROVE  Turn(f, go, flags, at, p, c) = SkipTurn(f, p, c)
  <2>1. /\ go[p][c] <=> (p <= Len(src) /\ (c \/ RuneAt(p) = "{" \/ space(RuneAt(p))))
        /\ at[p][c] = p
    OBVIOUS
  <2>2. flags[p][c] = IF c THEN RuneAt(p) # "}" ELSE RuneAt(p) = "{"
    OBVIOUS
  <2> HIDE DEF go, flags, at
  <2>3. CASE c = TRUE
    <3>1. flags[p][c] = (RuneAt(p) # "}")
      BY <2>2, <2>3, Zenon
    <3>2. SkipTurn(f, p, c) = IF p > Len(src) THEN p ELSE f[p + 1][RuneAt(p) # "}"]
      BY <2>3, Zenon DEF SkipTurn
    <3>3. Turn(f, go, flags, at, p, c) = IF p <= Len(src) THEN f[p + 1][RuneAt(p) # "}"] ELSE p
      BY <2>1, <2>3, <3>1, Zenon DEF Turn
    <3>4. p > Len(src) <=> ~ (p <= Len(src))
      BY <1>1
    <3> QED BY <3>2, <3>3, <3>4, Zenon
  <2>4. CASE c = FALSE
    <3>1. flags[p][c] = (RuneAt(p) = "{")
      BY <2>2, <2>4, Zenon
    <3>2. Turn(f, go, flags, at, p, c) =
            IF p <= Len(src) /\ (RuneAt(p) = "{" \/ space(RuneAt(p)))
              THEN f[p + 1][RuneAt(p) = "{"] ELSE p
      BY <2>1, <2>4, <3>1, Zenon DEF Turn
    <3>3. p > Len(src) <=> ~ (p <= Len(src))
      BY <1>1
    <3>4. CASE RuneAt(p) = "{"
      <4>1. (RuneAt(p) = "{") = TRUE
        BY <3>4, Zenon
      <4> QED BY <2>4, <3>2, <3>3, <3>4, <4>1, Zenon DEF SkipTurn
    <3>5. CASE RuneAt(p) # "{"
      <4>1. (RuneAt(p) = "{") = FALSE
        BY <3>5, Zenon
      <4> QED BY <2>4, <3>2, <3>3, <3>5, <4>1, Zenon DEF SkipTurn
    <3> QED BY <3>4, <3>5
  <2> QED BY <2>3, <2>4
<1>7. Is(f)
  <2> HIDE DEF go, flags, at, n
  <2> QED BY <1>1, <1>5, <1>6
<1> HIDE DEF Is
<1>8. Is(SkipFrom)
  BY <1>2, <1>7
<1> QED BY <1>8 DEF Is

(* A point on the way is blank, or in the comment that the loop starts in. *)
LEMMA SkipFromBlank ==
  ASSUME src \in Seq(STRING)
  PROVE  \A p \in Places : \A in_comment \in BOOLEAN :
           LET q == SkipFrom[p][in_comment]
           IN  /\ q \in p .. Len(src) + 1
               /\ q <= Len(src) => ~ space(src[q]) /\ src[q] # "{"
               /\ \A k \in p .. q - 1 :
                    \/ BlankFrom(src, p, k)
                    \/ in_comment /\ \A j \in p .. k - 1 : src[j] # "}"
<1> DEFINE n == Len(src) + 1
           Blank(p, c, k) == BlankFrom(src, p, k) \/ (c = TRUE /\ \A j \in p .. k - 1 : src[j] # "}")
           Fine(p, c, q) == /\ q \in p .. n
                            /\ q <= Len(src) => ~ space(src[q]) /\ src[q] # "{"
                            /\ \A k \in p .. q - 1 : Blank(p, c, k)
           T == {p \in 1 .. n : \A c \in BOOLEAN : Fine(p, c, SkipFrom[p][c])}
<1>1. n \in Nat \ {0} /\ Places = 1 .. n /\ Len(src) \in Nat /\ n = Len(src) + 1
  BY DEF Places
<1> HIDE DEF n
<1>2. ASSUME NEW p \in 1 .. n, NEW c \in BOOLEAN PROVE SkipFrom[p][c] = SkipTurn(SkipFrom, p, c)
  BY <1>1, SkipUnfolds
<1>3. ASSUME NEW p \in 1 .. n, NEW c \in BOOLEAN, NEW d \in BOOLEAN, NEW q, p <= Len(src),
             Fine(p + 1, d, q), Blank(p, c, p),
             d = TRUE => \/ c = TRUE /\ src[p] # "}"
                         \/ src[p] = "{"
      PROVE  Fine(p, c, q)
  <2>a. Fine(p + 1, d, q)
    BY <1>3
  <2>b. q \in p + 1 .. n
    BY <2>a
  <2>0. p \in Nat /\ q \in Nat /\ n \in Nat /\ p < q /\ q <= n
    BY <1>1, <2>b
  <2>c. \A k \in p + 1 .. q - 1 : Blank(p + 1, d, k)
    BY <2>a
  <2>1. q \in p .. n
    BY <1>1, <2>0
  <2>2. ASSUME NEW k \in p .. q - 1 PROVE Blank(p, c, k)
    <3>1. CASE k = p
      BY <1>3, <3>1
    <3>2. CASE k # p
      <4>1. k \in p + 1 .. q - 1 /\ k \in Int
        BY <2>0, <3>2
      <4>2. CASE BlankFrom(src, p + 1, k)
        <5>1. \A o \in p + 1 .. k : o \in p .. k
          BY <2>0
        <5>2. BlankFrom(src, p, k)
          BY <4>2, <5>1, Zenon DEF BlankFrom
        <5> QED BY <5>2
      <4>3. CASE d = TRUE /\ \A j \in p + 1 .. k - 1 : src[j] # "}"
        <5>1. CASE c = TRUE /\ src[p] # "}"
          <6>1. \A j \in p .. k - 1 : src[j] # "}"
            <7> SUFFICES ASSUME NEW j \in p .. k - 1 PROVE src[j] # "}"
              OBVIOUS
            <7>1. j = p \/ j \in p + 1 .. k - 1
              BY <2>0, <4>1
            <7> QED BY <4>3, <5>1, <7>1
          <6> QED BY <5>1, <6>1
        <5>2. CASE src[p] = "{"
          <6>1. \A j \in p .. k - 1 : src[j] # "}"
            <7> SUFFICES ASSUME NEW j \in p .. k - 1 PROVE src[j] # "}"
              OBVIOUS
            <7>1. j = p \/ j \in p + 1 .. k - 1
              BY <2>0, <4>1
            <7> QED BY <4>3, <5>2, <7>1
          <6>2. p \in p .. k
            BY <2>0, <4>1
          <6>3. BlankFrom(src, p, k)
            BY <5>2, <6>1, <6>2, Zenon DEF BlankFrom
          <6> QED BY <6>3
        <5> QED BY <1>3, <4>3, <5>1, <5>2
      <4>4. Blank(p + 1, d, k)
        BY <2>c, <4>1
      <4> QED BY <4>2, <4>3, <4>4
    <3> QED BY <3>1, <3>2
  <2>3. q <= Len(src) => ~ space(src[q]) /\ src[q] # "{"
    BY <2>a
  <2> HIDE DEF Blank
  <2> QED BY <2>1, <2>2, <2>3
<1>4. ASSUME NEW p \in 1 .. n, \A q \in p + 1 .. n : q \in T, NEW c \in BOOLEAN
      PROVE  Fine(p, c, SkipFrom[p][c])
  <2>1. SkipFrom[p][c] = SkipTurn(SkipFrom, p, c)
    BY <1>2
  <2>2. CASE p > Len(src)
    <3>1. SkipFrom[p][c] = p
      BY <2>1, <2>2 DEF SkipTurn
    <3>2. p .. p - 1 = {} /\ p \in p .. n /\ ~ (p <= Len(src))
      BY <1>1, <2>2
    <3> HIDE DEF Blank
    <3> QED BY <3>1, <3>2
  <2>3. CASE p <= Len(src)
    <3>1. RuneAt(p) = src[p] /\ p + 1 \in p + 1 .. n /\ ~ (p > Len(src))
      BY <1>1, <2>3 DEF RuneAt
    <3>2. \A d \in BOOLEAN : Fine(p + 1, d, SkipFrom[p + 1][d])
      BY <1>4, <3>1
    <3>0. p .. p - 1 = {} /\ p \in p .. n /\ p \in p .. p
      BY <1>1
    <3> HIDE DEF Fine, Blank
    <3>3. CASE c = TRUE /\ src[p] = "}"
      <4>1. SkipFrom[p][c] = SkipFrom[p + 1][FALSE]
        <5>1. (RuneAt(p) # "}") = FALSE
          BY <3>1, <3>3, Zenon
        <5> QED BY <2>1, <3>1, <3>3, <5>1, Zenon DEF SkipTurn
      <4>2. Blank(p, c, p)
        BY <3>0, <3>3, Zenon DEF Blank
      <4>3. Fine(p + 1, FALSE, SkipFrom[p + 1][FALSE])
        BY <3>2
      <4>4. Fine(p, c, SkipFrom[p + 1][FALSE])
        BY <1>3, <2>3, <4>2, <4>3
      <4> QED BY <4>1, <4>4
    <3>4. CASE c = TRUE /\ src[p] # "}"
      <4>1. SkipFrom[p][c] = SkipFrom[p + 1][TRUE]
        <5>1. (RuneAt(p) # "}") = TRUE
          BY <3>1, <3>4, Zenon
        <5> QED BY <2>1, <3>1, <3>4, <5>1, Zenon DEF SkipTurn
      <4>2. Blank(p, c, p)
        BY <3>0, <3>4, Zenon DEF Blank
      <4>3. Fine(p + 1, TRUE, SkipFrom[p + 1][TRUE])
        BY <3>2
      <4>4. Fine(p, c, SkipFrom[p + 1][TRUE])
        BY <1>3, <2>3, <3>4, <4>2, <4>3
      <4> QED BY <4>1, <4>4
    <3>5. CASE c = FALSE /\ src[p] = "{"
      <4>1. SkipFrom[p][c] = SkipFrom[p + 1][TRUE]
        BY <2>1, <3>1, <3>5, Zenon DEF SkipTurn
      <4>2. Blank(p, c, p)
        <5>1. BlankFrom(src, p, p)
          BY <3>0, <3>5, Zenon DEF BlankFrom
        <5> QED BY <5>1 DEF Blank
      <4>3. Fine(p + 1, TRUE, SkipFrom[p + 1][TRUE])
        BY <3>2
      <4>4. Fine(p, c, SkipFrom[p + 1][TRUE])
        BY <1>3, <2>3, <3>5, <4>2, <4>3
      <4> QED BY <4>1, <4>4
    <3>6. CASE c = FALSE /\ src[p] # "{" /\ space(src[p])
      <4>1. SkipFrom[p][c] = SkipFrom[p + 1][FALSE]
        BY <2>1, <3>1, <3>6, Zenon DEF SkipTurn
      <4>2. Blank(p, c, p)
        BY <3>6 DEF Blank, BlankFrom
      <4>3. Fine(p + 1, FALSE, SkipFrom[p + 1][FALSE])
        BY <3>2
      <4>4. Fine(p, c, SkipFrom[p + 1][FALSE])
        BY <1>3, <2>3, <4>2, <4>3
      <4> QED BY <4>1, <4>4
    <3>7. CASE c = FALSE /\ src[p] # "{" /\ ~ space(src[p])
      <4>1. SkipFrom[p][c] = p
        BY <2>1, <3>1, <3>7, Zenon DEF SkipTurn
      <4>2. Fine(p, c, p)
        BY <3>0, <3>7 DEF Fine
      <4> QED BY <4>1, <4>2
    <3> QED BY <3>3, <3>4, <3>5, <3>6, <3>7
  <2>4. p > Len(src) \/ p <= Len(src)
    BY <1>1
  <2> HIDE DEF Fine
  <2> QED BY <2>2, <2>3, <2>4
<1>5. \A p \in 1 .. n : p \in T
  <2>1. ASSUME NEW p \in 1 .. n, \A q \in p + 1 .. n : q \in T PROVE p \in T
    BY <1>4, <2>1
  <2> HIDE DEF T
  <2> QED BY <1>1, <2>1, Descending
<1>6. ASSUME NEW p \in Places, NEW c \in BOOLEAN PROVE Fine(p, c, SkipFrom[p][c])
  BY <1>1, <1>5
<1> QED BY <1>1, <1>6, Zenon

-----------------------------------------------------------------------------
(* The ends of numbers and names.                                          *)

\* the flags after a rune r of a number, and whether it is one
NumberGoes(r, have) ==
  \/ digit(r)
  \/ r = "." /\ ~ have.have_e /\ ~ have.have_dot1
  \/ r = "." /\ have.have_e /\ ~ have.have_dot2
  \/ r = "e" /\ ~ have.have_e
NumberHas(r, have) ==
  IF digit(r) THEN have
  ELSE IF r = "." /\ ~ have.have_e /\ ~ have.have_dot1 THEN [have EXCEPT !.have_dot1 = TRUE]
  ELSE IF r = "." /\ have.have_e /\ ~ have.have_dot2 THEN [have EXCEPT !.have_dot2 = TRUE]
  ELSE [have EXCEPT !.have_e = TRUE]

NumberTurn(f, p, have) ==
  LET r == RuneAt(p)
  IN  IF digit(r) THEN f[p + 1][have]
      ELSE IF r = "." /\ ~ have.have_e /\ ~ have.have_dot1
        THEN f[p + 1][[have EXCEPT !.have_dot1 = TRUE]]
      ELSE IF r = "." /\ have.have_e /\ ~ have.have_dot2
        THEN f[p + 1][[have EXCEPT !.have_dot2 = TRUE]]
      ELSE IF r = "e" /\ ~ have.have_e THEN f[p + 1][[have EXCEPT !.have_e = TRUE]]
      ELSE p

LEMMA NumberEndBounds ==
  ASSUME src \in Seq(STRING)
  PROVE  \A p \in Places : \A have \in NumberFlags : NumberEnd[p][have] \in p .. Len(src) + 1
<1> DEFINE n == Len(src) + 1
           Is(f) == f = [p \in Places |-> [have \in NumberFlags |-> NumberTurn(f, p, have)]]
           go == [p \in 1 .. n |-> [have \in NumberFlags |-> NumberGoes(RuneAt(p), have)]]
           flags == [p \in 1 .. n |-> [have \in NumberFlags |-> NumberHas(RuneAt(p), have)]]
           at == [p \in 1 .. n |-> [have \in NumberFlags |-> p]]
<1>1. n \in Nat \ {0} /\ Places = 1 .. n /\ n \in 1 .. n
  BY DEF Places
<1>2. NumberEnd = CHOOSE f : Is(f)
  BY DEF NumberEnd, NumberTurn
<1>3. RuneAt(n) = "NUL"
  BY DEF RuneAt
<1> HIDE DEF n
<1>4. ASSUME NEW p \in 1 .. n, NEW have \in NumberFlags
      PROVE  /\ go[p][have] <=> NumberGoes(RuneAt(p), have)
             /\ flags[p][have] = NumberHas(RuneAt(p), have)
             /\ at[p][have] = p
  OBVIOUS
<1> HIDE DEF go, flags, at
<1>5. \A have \in NumberFlags : ~ go[n][have]
  BY <1>1, <1>3, <1>4 DEF NumberGoes, digit
<1>6. \A f : IsLoop(f, n, NumberFlags, go, flags, at) <=> Is(f)
  <2> TAKE f
  <2>1. ASSUME NEW p \in 1 .. n, NEW have \in NumberFlags
        PROVE  Turn(f, go, flags, at, p, have) = NumberTurn(f, p, have)
    <3> DEFINE r == RuneAt(p)
    <3>1. go[p][have] <=> NumberGoes(r, have)
      BY <1>4
    <3>2. flags[p][have] = NumberHas(r, have) /\ at[p][have] = p
      BY <1>4
    <3>3. CASE NumberGoes(r, have)
      <4>1. Turn(f, go, flags, at, p, have) = f[p + 1][NumberHas(r, have)]
        BY <3>1, <3>2, <3>3, Zenon DEF Turn
      <4>2. NumberTurn(f, p, have) = f[p + 1][NumberHas(r, have)]
        BY <3>3, Zenon DEF NumberTurn, NumberGoes, NumberHas
      <4> QED BY <4>1, <4>2
    <3>4. CASE ~ NumberGoes(r, have)
      <4>1. Turn(f, go, flags, at, p, have) = p
        BY <3>1, <3>2, <3>4, Zenon DEF Turn
      <4>2. NumberTurn(f, p, have) = p
        BY <3>4, Zenon DEF NumberTurn, NumberGoes
      <4> QED BY <4>1, <4>2
    <3> QED BY <3>3, <3>4
  <2> QED BY <1>1, <2>1 DEF IsLoop
<1>7. \A p \in 1 .. n : \A have \in NumberFlags : flags[p][have] \in NumberFlags /\ at[p][have] \in p .. n
  <2> TAKE p \in 1 .. n
  <2> TAKE have \in NumberFlags
  <2>1. NumberHas(RuneAt(p), have) \in NumberFlags
    BY DEF NumberHas, NumberFlags
  <2> QED BY <1>1, <1>4, <2>1
<1>8. \E f : IsLoop(f, n, NumberFlags, go, flags, at)
  BY <1>1, <1>5, LoopExists
<1>9. IsLoop(NumberEnd, n, NumberFlags, go, flags, at)
  <2>1. \E f : Is(f)
    BY <1>6, <1>8
  <2> HIDE DEF Is
  <2> QED BY <1>2, <1>6, <2>1
<1>10. \A p \in 1 .. n : \A have \in NumberFlags : NumberEnd[p][have] \in p .. n
  BY <1>1, <1>5, <1>7, <1>9, LoopBounds
<1> QED BY <1>1, <1>10 DEF n

IdentTurn(f, p, quoted) ==
  LET r == RuneAt(p)
  IN  IF alpha(r) \/ digit(r) \/ (quoted /\ space(r)) THEN f[p + 1][quoted]
      ELSE IF quoted /\ r = "\"" THEN nextrune(p)
      ELSE p

LEMMA IdentEndBounds ==
  ASSUME src \in Seq(STRING)
  PROVE  \A p \in Places : \A quoted \in BOOLEAN : IdentEnd[p][quoted] \in p .. Len(src) + 1
<1> DEFINE n == Len(src) + 1
           C == BOOLEAN
           Goes(p, quoted) == LET r == RuneAt(p) IN alpha(r) \/ digit(r) \/ (quoted /\ space(r))
           Ends(p, quoted) == IF quoted /\ RuneAt(p) = "\"" THEN nextrune(p) ELSE p
           Is(f) == f = [p \in Places |-> [quoted \in BOOLEAN |-> IdentTurn(f, p, quoted)]]
           go == [p \in 1 .. n |-> [quoted \in C |-> Goes(p, quoted)]]
           flags == [p \in 1 .. n |-> [quoted \in C |-> quoted]]
           at == [p \in 1 .. n |-> [quoted \in C |-> Ends(p, quoted)]]
<1>1. n \in Nat \ {0} /\ Places = 1 .. n /\ n \in 1 .. n
  BY DEF Places
<1>2. IdentEnd = CHOOSE f : Is(f)
  BY DEF IdentEnd, IdentTurn
<1>3. RuneAt(n) = "NUL"
  BY DEF RuneAt
<1>4. \A p \in 1 .. n : nextrune(p) \in p .. n
  BY DEF nextrune
<1> HIDE DEF n
<1>5. ASSUME NEW p \in 1 .. n, NEW quoted \in C
      PROVE  /\ go[p][quoted] <=> Goes(p, quoted)
             /\ flags[p][quoted] = quoted
             /\ at[p][quoted] = Ends(p, quoted)
  <2> HIDE DEF Goes, Ends, C
  <2> QED OBVIOUS
<1> HIDE DEF go, flags, at
<1>6. \A quoted \in C : ~ go[n][quoted]
  BY <1>1, <1>3, <1>5 DEF alpha, digit, space
<1>7. \A f : IsLoop(f, n, C, go, flags, at) <=> Is(f)
  <2> TAKE f
  <2>1. ASSUME NEW p \in 1 .. n, NEW quoted \in C
        PROVE  Turn(f, go, flags, at, p, quoted) = IdentTurn(f, p, quoted)
    <3>1. (go[p][quoted] <=> Goes(p, quoted)) /\ flags[p][quoted] = quoted
      BY <1>5
    <3>2. at[p][quoted] = Ends(p, quoted)
      BY <1>5
    <3>3. CASE Goes(p, quoted)
      <4>1. Turn(f, go, flags, at, p, quoted) = f[p + 1][quoted]
        <5> HIDE DEF Goes, Ends
        <5> QED BY <3>1, <3>3, Zenon DEF Turn
      <4>2. IdentTurn(f, p, quoted) = f[p + 1][quoted]
        BY <3>3, Zenon DEF IdentTurn
      <4> QED BY <4>1, <4>2
    <3>4. CASE ~ Goes(p, quoted)
      <4>1. Turn(f, go, flags, at, p, quoted) = at[p][quoted]
        <5> HIDE DEF Goes, Ends
        <5> QED BY <3>1, <3>4, Zenon DEF Turn
      <4>2. IdentTurn(f, p, quoted) = Ends(p, quoted)
        BY <3>4, Zenon DEF IdentTurn
      <4> QED BY <3>2, <4>1, <4>2, Zenon
    <3> QED BY <3>3, <3>4
  <2> QED BY <1>1, <2>1 DEF IsLoop
<1>8. \A p \in 1 .. n : \A quoted \in C : flags[p][quoted] \in C /\ at[p][quoted] \in p .. n
  <2> TAKE p \in 1 .. n
  <2> TAKE quoted \in C
  <2>1. Ends(p, quoted) \in {p, nextrune(p)}
    OBVIOUS
  <2>2. p \in p .. n /\ nextrune(p) \in p .. n
    BY <1>1, <1>4
  <2>3. flags[p][quoted] = quoted /\ at[p][quoted] = Ends(p, quoted)
    BY <1>5
  <2> HIDE DEF C, Ends
  <2> QED BY <2>1, <2>2, <2>3
<1> HIDE DEF C
<1>9. \E f : IsLoop(f, n, C, go, flags, at)
  BY <1>1, <1>6, LoopExists
<1>10. IsLoop(IdentEnd, n, C, go, flags, at)
  <2>1. \E f : Is(f)
    BY <1>7, <1>9
  <2> HIDE DEF Is
  <2> QED BY <1>2, <1>7, <2>1
<1>11. \A p \in 1 .. n : \A quoted \in C : IdentEnd[p][quoted] \in p .. n
  BY <1>1, <1>6, <1>8, <1>10, LoopBounds
<1> QED BY <1>1, <1>11 DEF n, C

-----------------------------------------------------------------------------
(* One token.                                                              *)

TokenTypes == {"none", "number", "ident", "token"}

\* a token is not empty and ends in the source
LEMMA ScanTypes ==
  ASSUME src \in Seq(STRING), NEW p \in 1 .. Len(src)
  PROVE  /\ Scan(p).from = p
         /\ Scan(p).to \in p + 1 .. Len(src) + 1
         /\ Scan(p).type \in TokenTypes
<1>1. Len(src) \in Nat /\ p + 1 \in Places /\ nextrune(p) = p + 1
  BY DEF Places, nextrune
<1>2. lex_number(p) \in p + 1 .. Len(src) + 1
  <2>1. [have_e |-> FALSE, have_dot1 |-> FALSE, have_dot2 |-> FALSE] \in NumberFlags
    BY DEF NumberFlags
  <2> QED BY <1>1, <2>1, NumberEndBounds DEF lex_number
<1>3. lex_ident(p) \in p + 1 .. Len(src) + 1
  <2>1. nextrune(p + 1) \in Places /\ nextrune(p + 1) >= p + 1
    BY <1>1 DEF Places, nextrune
  <2>2. IdentEnd[nextrune(p + 1)][TRUE] \in nextrune(p + 1) .. Len(src) + 1
    BY <2>1, IdentEndBounds
  <2>3. IdentEnd[p + 1][FALSE] \in p + 1 .. Len(src) + 1
    BY <1>1, IdentEndBounds
  <2>4. nextrune(p + 1) \in Int
    BY <1>1 DEF nextrune
  <2>5. IdentEnd[nextrune(p + 1)][TRUE] \in p + 1 .. Len(src) + 1
    <3> DEFINE q == nextrune(p + 1)
    <3>1. q \in Int /\ q >= p + 1 /\ p \in Int /\ Len(src) + 1 \in Int
      BY <1>1, <2>1, <2>4
    <3>2. \A k \in q .. Len(src) + 1 : k \in p + 1 .. Len(src) + 1
      <4> HIDE DEF q
      <4> QED BY <3>1
    <3> QED BY <2>2, <3>2, Zenon
  <2> QED BY <1>1, <2>3, <2>5, Zenon DEF lex_ident
<1>4. lex_op(p) \in p + 1 .. Len(src) + 1
  <2>1. CASE p + 1 <= Len(src)
    BY <1>1, <2>1 DEF lex_op
  <2>2. CASE ~ (p + 1 <= Len(src))
    <3>1. RuneAt(p + 1) = "NUL"
      BY <2>2 DEF RuneAt
    <3>2. lex_op(p) = p + 1
      BY <3>1 DEF lex_op
    <3> QED BY <1>1, <3>2
  <2> QED BY <2>1, <2>2
<1> QED BY <1>2, <1>3, <1>4 DEF Scan, TokenTypes

-----------------------------------------------------------------------------
(* Types.                                                                  *)

Token == [start : Int, from : Nat, to : Nat, type : TokenTypes, loc : Nat \X Int]

TypeOK ==
  /\ src \in Seq(STRING)
  /\ pos \in 0 .. Len(src) + 1
  /\ line \in Nat /\ lstart \in Nat
  /\ havetpeek \in BOOLEAN
  /\ tpeek \in Token
  /\ tok \in [Callers -> Token]
  /\ heap \in SUBSET (Nat \ {0}) /\ IsFiniteSet(heap)
  /\ lost \in BOOLEAN
  /\ out \in Seq(Token)

LEMMA NoTokenType == NoToken \in Token
BY DEF NoToken, Token, TokenTypes, Nil

\* a new string
LEMMA FreshIsNew ==
  ASSUME NEW h \in SUBSET (Nat \ {0}), IsFiniteSet(h)
  PROVE  Fresh(h) \in Nat \ {0} /\ Fresh(h) \notin h
<1> DEFINE n == Cardinality(h) + 1
<1>1. Cardinality(h) \in Nat
  BY FS_CardinalityType
<1>2. \E x \in 1 .. n : x \notin h
  <2> SUFFICES ASSUME 1 .. n \subseteq h PROVE FALSE
    OBVIOUS
  <2>1. Cardinality(1 .. n) <= Cardinality(h)
    BY FS_Subset
  <2>2. Cardinality(1 .. n) = n
    BY <1>1, FS_Interval
  <2> QED BY <1>1, <2>1, <2>2
<1>3. Fresh(h) \in 1 .. n /\ Fresh(h) \notin h
  BY <1>2 DEF Fresh
<1> QED BY <1>1, <1>3

\* what skip_whitespace skips
LEMMA SkippedFacts ==
  ASSUME src \in Seq(STRING), pos \in 1 .. Len(src) + 1
  PROVE  /\ Skipped \in pos .. Len(src) + 1
         /\ ~ AtEOF => /\ Skipped \in 1 .. Len(src)
                       /\ ~ space(src[Skipped]) /\ src[Skipped] # "{"
         /\ AtEOF => Skipped = Len(src) + 1
         /\ \A k \in pos .. Skipped - 1 : BlankFrom(src, pos, k)
<1>1. pos \in Places
  BY DEF Places
<1>2. Skipped = SkipFrom[pos][FALSE]
  BY DEF Skipped, skip_whitespace
<1>3. /\ Skipped \in pos .. Len(src) + 1
      /\ Skipped <= Len(src) => ~ space(src[Skipped]) /\ src[Skipped] # "{"
      /\ \A k \in pos .. Skipped - 1 : BlankFrom(src, pos, k)
  BY <1>1, <1>2, SkipFromBlank, Zenon
<1>4. Skipped \in pos .. Len(src) + 1
  BY <1>3
<1>5. Skipped \in 1 .. Len(src) + 1 /\ Len(src) \in Nat
  BY <1>4
<1>6. /\ ~ AtEOF => Skipped <= Len(src) /\ Skipped \in 1 .. Len(src)
      /\ AtEOF => Skipped = Len(src) + 1
  BY <1>5 DEF AtEOF
<1> QED BY <1>3, <1>6, Zenon

\* lines are counted from their new lines, which are in the source
LEMMA NewLinesFacts ==
  ASSUME src \in Seq(STRING), pos \in 1 .. Len(src) + 1
  PROVE  /\ NewLines = {p \in pos .. Skipped - 1 : src[p] = "\n"}
         /\ NewLines \in SUBSET (0 .. Len(src)) /\ IsFiniteSet(NewLines)
         /\ Cardinality(NewLines) \in Nat
         /\ NewLines # {} => /\ Max(NewLines) \in NewLines
                             /\ \A p \in NewLines : p <= Max(NewLines)
<1>1. Skipped \in pos .. Len(src) + 1 /\ Len(src) \in Nat
  <2>1. Skipped \in pos .. Len(src) + 1
    BY SkippedFacts, Zenon
  <2> QED BY <2>1
<1>2. \A p \in pos .. Skipped - 1 : p \in 1 .. Len(src) /\ RuneAt(p) = src[p]
  BY <1>1 DEF RuneAt
<1>3. NewLines = {p \in pos .. Skipped - 1 : src[p] = "\n"}
  BY <1>2 DEF NewLines
<1>4. NewLines \in SUBSET (0 .. Len(src)) /\ NewLines \in SUBSET (1 .. Len(src))
  BY <1>1, <1>2 DEF NewLines
<1>5. IsFiniteSet(NewLines)
  <2>1. IsFiniteSet(0 .. Len(src))
    BY <1>1, FS_Interval
  <2> QED BY <1>4, <2>1, FS_Subset
<1>6. Cardinality(NewLines) \in Nat
  BY <1>5, FS_CardinalityType
<1> QED BY <1>1, <1>3, <1>4, <1>5, <1>6, MaxOfNats

LEMMA LineStartType ==
  ASSUME src \in Seq(STRING), pos \in 1 .. Len(src) + 1, lstart \in Nat
  PROVE  LineStart \in Nat
<1>1. CASE NewLines = {}
  BY <1>1 DEF LineStart
<1>2. CASE NewLines # {}
  <2>1. Max(NewLines) \in 0 .. Len(src)
    BY <1>2, NewLinesFacts
  <2> QED BY <1>2, <2>1 DEF LineStart
<1> QED BY <1>1, <1>2

\* the tokens that lexer_nexttok may make
LEMMA LexedToken ==
  ASSUME TypeOK, Alive, ~ AtEOF, NEW t \in Token, NEW new \in Lexed(t)
  PROVE  /\ new \in Token
         /\ \/ new = NoToken
            \/ /\ new # NoToken
               /\ new.start \in {Buf, Fresh(FreedHeap(t.start))}
               /\ new.from = Skipped /\ new.to = Scan(Skipped).to
               /\ new.loc = <<line + Cardinality(NewLines), Skipped - LineStart>>
<1> DEFINE Made(start) == [start |-> start, from |-> Scan(Skipped).from, to |-> Scan(Skipped).to,
                           type |-> Scan(Skipped).type,
                           loc |-> <<line + Cardinality(NewLines), Scan(Skipped).from - LineStart>>]
           h == FreedHeap(t.start)
<1>1. src \in Seq(STRING) /\ pos \in 1 .. Len(src) + 1 /\ line \in Nat /\ lstart \in Nat
  BY DEF TypeOK, Alive
<1>2. Skipped \in 1 .. Len(src) /\ Len(src) \in Nat
  <2>1. Skipped \in 1 .. Len(src)
    BY <1>1, SkippedFacts, Zenon
  <2> QED BY <1>1, <2>1
<1>3. /\ Scan(Skipped).from = Skipped
      /\ Scan(Skipped).to \in Skipped + 1 .. Len(src) + 1
      /\ Scan(Skipped).type \in TokenTypes
  BY <1>1, <1>2, ScanTypes
<1>4. Cardinality(NewLines) \in Nat /\ LineStart \in Nat
  BY <1>1, NewLinesFacts, LineStartType
<1>5. /\ Skipped \in Nat /\ Scan(Skipped).to \in Nat
      /\ line + Cardinality(NewLines) \in Nat /\ Skipped - LineStart \in Int
  BY <1>1, <1>2, <1>3, <1>4
<1>6. Fresh(h) \in Nat \ {0}
  <2>1. h \in SUBSET (Nat \ {0}) /\ IsFiniteSet(h)
    BY FS_Subset DEF TypeOK, FreedHeap
  <2> QED BY <2>1, FreshIsNew
<1>7. new = NoToken \/ new = Made(Buf) \/ new = Made(Fresh(h))
  BY Zenon DEF Lexed
<1> HIDE DEF h
<1>8. ASSUME NEW x \in {Buf, Fresh(h)}
      PROVE  /\ Made(x) \in Token /\ Made(x) # NoToken
             /\ Made(x).start = x /\ Made(x).from = Skipped /\ Made(x).to = Scan(Skipped).to
             /\ Made(x).loc = <<line + Cardinality(NewLines), Skipped - LineStart>>
  <2>1. x \in Int /\ x # 0
    BY <1>6 DEF Buf
  <2>2. <<line + Cardinality(NewLines), Skipped - LineStart>> \in Nat \X Int
    BY <1>5
  <2> DEFINE y == Made(x)
  <2>3. /\ y.start = x /\ y.from = Skipped /\ y.to = Scan(Skipped).to
        /\ y.loc = <<line + Cardinality(NewLines), Skipped - LineStart>>
    BY <1>3
  <2>4. y \in Token
    BY <1>3, <1>5, <2>1, <2>2 DEF Token
  <2>5. y # NoToken
    <3>1. NoToken.start = 0
      BY DEF NoToken, Nil
    <3> QED BY <2>1, <2>3, <3>1
  <2> QED BY <2>3, <2>4, <2>5
<1> HIDE DEF Made
<1>9. NoToken \in Token
  BY NoTokenType
<1>10. h = FreedHeap(t.start)
  BY DEF h
<1>11. CASE new = NoToken
  BY <1>9, <1>11
<1>12. CASE new = Made(Buf)
  <2>1. Buf \in {Buf, Fresh(h)}
    OBVIOUS
  <2> QED BY <1>8, <1>10, <1>12, <2>1
<1>13. CASE new = Made(Fresh(h))
  <2>1. Fresh(h) \in {Buf, Fresh(h)}
    OBVIOUS
  <2> QED BY <1>8, <1>10, <1>13, <2>1
<1> QED BY <1>7, <1>11, <1>12, <1>13

\* heaps stay finite sets of strings
Heap(h) == h \in SUBSET (Nat \ {0}) /\ IsFiniteSet(h)

LEMMA HeapChanges ==
  ASSUME NEW h, Heap(h), NEW x
  PROVE  /\ Heap(h \ {x})
         /\ x \in Nat \ {0} => Heap(h \cup {x})
BY FS_Subset, FS_AddElement, FS_RemoveElement DEF Heap

LEMMA LexedHeap ==
  ASSUME TypeOK, Alive, ~ AtEOF, NEW t \in Token, NEW new \in Lexed(t)
  PROVE  /\ Heap(HeapWith(t, new)) /\ Heap(FreedHeap(t.start))
         /\ new.start \in {Nil, Buf} => HeapWith(t, new) = FreedHeap(t.start)
         /\ new.start \notin {Nil, Buf} =>
              /\ new.start = Fresh(FreedHeap(t.start))
              /\ new.start \in Nat \ {0} /\ new.start \notin FreedHeap(t.start)
              /\ HeapWith(t, new) = FreedHeap(t.start) \cup {new.start}
<1> DEFINE h == FreedHeap(t.start)
<1>1. Heap(h)
  BY HeapChanges DEF TypeOK, Heap, FreedHeap
<1>2. Fresh(h) \in Nat \ {0} /\ Fresh(h) \notin h
  BY <1>1, FreshIsNew DEF Heap
<1>3. HeapWith(t, new) = h \cup ({new.start} \ {Nil, Buf})
  BY DEF HeapWith
<1> HIDE DEF h
<1>4. CASE new.start \in {Nil, Buf}
  BY <1>1, <1>3, <1>4 DEF h
<1>5. CASE new.start \notin {Nil, Buf}
  <2>1. new # NoToken
    BY <1>5 DEF NoToken
  <2>2. new.start = Fresh(h)
    BY <1>5, <2>1, LexedToken DEF h
  <2>3. HeapWith(t, new) = h \cup {new.start}
    BY <1>3, <1>5
  <2>4. Heap(h \cup {new.start})
    BY <1>1, <1>2, <2>2, HeapChanges
  <2> QED BY <1>1, <1>2, <1>5, <2>2, <2>3, <2>4 DEF h
<1> QED BY <1>4, <1>5

LEMMA CopyToken ==
  ASSUME NEW t \in Token, NEW h, Heap(h), NEW copy \in Copies(t, h)
  PROVE  /\ copy \in Token
         /\ \/ copy.start \in {Nil, Buf} /\ h \cup ({copy.start} \ {Nil, Buf}) = h
            \/ /\ copy.start \in Nat \ {0} /\ copy.start \notin h
               /\ h \cup ({copy.start} \ {Nil, Buf}) = h \cup {copy.start}
         /\ Heap(h \cup ({copy.start} \ {Nil, Buf}))
<1>1. Fresh(h) \in Nat \ {0} /\ Fresh(h) \notin h
  BY FreshIsNew DEF Heap
<1>2. CASE t.start = Buf
  <2>1. copy = t
    BY <1>2 DEF Copies
  <2>2. h \cup ({Buf} \ {Nil, Buf}) = h
    OBVIOUS
  <2> QED BY <1>2, <2>1, <2>2
<1>3. CASE t.start # Buf /\ copy = [t EXCEPT !.start = Fresh(h)]
  <2>1. copy \in Token /\ copy.start = Fresh(h)
    BY <1>1, <1>3 DEF Token
  <2>2. h \cup ({Fresh(h)} \ {Nil, Buf}) = h \cup {Fresh(h)}
    BY <1>1 DEF Nil, Buf
  <2>3. Heap(h \cup {Fresh(h)})
    BY <1>1, HeapChanges
  <2> QED BY <1>1, <2>1, <2>2, <2>3
<1>4. CASE t.start # Buf /\ copy = [t EXCEPT !.start = Nil]
  <2>1. copy \in Token /\ copy.start = Nil
    <3>1. Nil \in Int
      BY DEF Nil
    <3> QED BY <1>4, <3>1 DEF Token
  <2>2. h \cup ({Nil} \ {Nil, Buf}) = h
    OBVIOUS
  <2> QED BY <2>1, <2>2
<1> QED BY <1>2, <1>3, <1>4 DEF Copies

\* what skip_whitespace and one token do to the place of the lexer
LEMMA AdvanceTypes ==
  ASSUME TypeOK, Alive, src' = src, NEW p \in 1 .. Len(src) + 1, Advance(p)
  PROVE  /\ src' \in Seq(STRING) /\ pos' \in 0 .. Len(src') + 1 /\ Alive'
         /\ line' \in Nat /\ lstart' \in Nat
<1>1. src \in Seq(STRING) /\ pos \in 1 .. Len(src) + 1 /\ line \in Nat /\ lstart \in Nat
  BY DEF TypeOK, Alive
<1>2. Cardinality(NewLines) \in Nat /\ LineStart \in Nat
  BY <1>1, NewLinesFacts, LineStartType
<1>3. pos' = p /\ line' = line + Cardinality(NewLines) /\ lstart' = LineStart
  BY DEF Advance
<1>4. p \in 0 .. Len(src) + 1 /\ p > 0
  OBVIOUS
<1>5. Len(src') = Len(src)
  OBVIOUS
<1>6. Alive' <=> pos' > 0
  BY DEF Alive
<1> QED BY <1>1, <1>2, <1>3, <1>4, <1>5, <1>6

\* after a token, and at the end
LEMMA AdvanceTo ==
  ASSUME TypeOK, Alive
  PROVE  /\ ~ AtEOF => Scan(Skipped).to \in 1 .. Len(src) + 1
         /\ AtEOF => Skipped \in 1 .. Len(src) + 1
<1>1. src \in Seq(STRING) /\ pos \in 1 .. Len(src) + 1
  BY DEF TypeOK, Alive
<1>2. CASE AtEOF
  <2>1. Skipped = Len(src) + 1
    BY <1>1, <1>2, SkippedFacts, Zenon
  <2> QED BY <1>1, <1>2, <2>1
<1>3. CASE ~ AtEOF
  <2>1. Skipped \in 1 .. Len(src)
    BY <1>1, <1>3, SkippedFacts, Zenon
  <2>2. Scan(Skipped).to \in Skipped + 1 .. Len(src) + 1
    BY <1>1, <2>1, ScanTypes
  <2> QED BY <1>1, <1>3, <2>1, <2>2
<1> QED BY <1>2, <1>3

LEMMA TypeInit == LexerInit => TypeOK
<1> SUFFICES ASSUME LexerInit PROVE TypeOK
  OBVIOUS
<1>1. src \in Seq(STRING) /\ pos = 1 /\ pos \in 0 .. Len(src) + 1
  BY LexerAssumption DEF LexerInit
<1>2. NoToken \in Token /\ IsFiniteSet({})
  BY NoTokenType, FS_EmptySet
<1>3. havetpeek \in BOOLEAN /\ lost \in BOOLEAN
  BY DEF LexerInit
<1>4. tpeek \in Token /\ tok \in [Callers -> Token] /\ out \in Seq(Token)
  BY <1>2 DEF LexerInit
<1>5. line \in Nat /\ lstart \in Nat /\ heap \in SUBSET (Nat \ {0}) /\ IsFiniteSet(heap)
  BY <1>2 DEF LexerInit
<1> QED BY <1>1, <1>3, <1>4, <1>5 DEF TypeOK

LEMMA TypeStep == TypeOK /\ [LexerNext]_lexerVars => TypeOK'
<1> SUFFICES ASSUME TypeOK, [LexerNext]_lexerVars PROVE TypeOK'
  OBVIOUS
<1>0. Heap(heap) /\ NoToken \in Token
  BY NoTokenType DEF TypeOK, Heap
<1>1. ASSUME NEW c \in Callers, nexttok_peeked(c) PROVE TypeOK'
  <2>1. [tpeek EXCEPT !.start = Nil] \in Token
    <3>1. tpeek \in Token
      BY DEF TypeOK
    <3>2. Nil \in Int
      BY DEF Nil
    <3> QED BY <3>1, <3>2 DEF Token
  <2>2. [tok EXCEPT ![c] = tpeek] \in [Callers -> Token]
    BY DEF TypeOK
  <2>3. Append(out, tpeek) \in Seq(Token)
    BY DEF TypeOK
  <2>4. Heap(heap')
    BY <1>0, <1>1, HeapChanges DEF nexttok_peeked, FreedHeap
  <2> QED BY <1>1, <2>1, <2>2, <2>3, <2>4 DEF nexttok_peeked, TypeOK, Heap
<1>2. ASSUME NEW c \in Callers, nexttok_lexed(c) PROVE TypeOK'
  <2>1. Alive /\ ~ AtEOF /\ tok[c] \in Token /\ src' = src
    BY <1>2 DEF nexttok_lexed, TypeOK
  <2>2. PICK new \in Lexed(tok[c]) :
          /\ tok' = [tok EXCEPT ![c] = new]
          /\ heap' = HeapWith(tok[c], new)
          /\ lost' = (lost \/ new = NoToken)
          /\ out' = IF new = NoToken THEN out ELSE Append(out, new)
    BY <1>2 DEF nexttok_lexed
  <2>3. new \in Token /\ Heap(heap')
    BY <2>1, <2>2, LexedToken, LexedHeap
  <2>4. tok' \in [Callers -> Token] /\ out' \in Seq(Token) /\ lost' \in BOOLEAN
    BY <2>2, <2>3 DEF TypeOK
  <2>5. /\ src' \in Seq(STRING) /\ pos' \in 0 .. Len(src') + 1
        /\ line' \in Nat /\ lstart' \in Nat
    BY <1>2, <2>1, AdvanceTo, AdvanceTypes DEF nexttok_lexed
  <2> QED BY <1>2, <2>3, <2>4, <2>5 DEF nexttok_lexed, TypeOK, Heap
<1>3. ASSUME nexttok_eof PROVE TypeOK'
  <2>1. /\ src' \in Seq(STRING) /\ pos' \in 0 .. Len(src') + 1
        /\ line' \in Nat /\ lstart' \in Nat
    BY <1>3, AdvanceTo, AdvanceTypes DEF nexttok_eof
  <2> QED BY <1>3, <2>1 DEF nexttok_eof, TypeOK
<1>4. ASSUME NEW c \in Callers, peek_again(c) PROVE TypeOK'
  <2>1. PICK copy \in Copies(tpeek, heap) :
          /\ tok' = [tok EXCEPT ![c] = copy]
          /\ heap' = heap \cup ({copy.start} \ {Nil, Buf})
    BY <1>4 DEF peek_again
  <2>2. copy \in Token /\ Heap(heap')
    BY <1>0, <2>1, CopyToken DEF TypeOK
  <2>3. tok' \in [Callers -> Token]
    BY <2>1, <2>2 DEF TypeOK
  <2> QED BY <1>4, <2>2, <2>3 DEF peek_again, TypeOK, Heap
<1>5. ASSUME NEW c \in Callers, peek_lexed(c) PROVE TypeOK'
  <2>1. Alive /\ ~ AtEOF /\ tpeek \in Token /\ src' = src /\ out' = out
    BY <1>5 DEF peek_lexed, TypeOK
  <2>2. PICK new \in Lexed(tpeek) :
          LET h == HeapWith(tpeek, new)
          IN  /\ tpeek' = new
              /\ havetpeek' = (new # NoToken)
              /\ lost' = (lost \/ new = NoToken)
              /\ IF new = NoToken
                   THEN heap' = h /\ UNCHANGED tok
                   ELSE \E copy \in Copies(new, h) :
                          /\ tok' = [tok EXCEPT ![c] = copy]
                          /\ heap' = h \cup ({copy.start} \ {Nil, Buf})
    BY <1>5 DEF peek_lexed
  <2> DEFINE h == HeapWith(tpeek, new)
  <2>3. new \in Token /\ Heap(h)
    BY <2>1, LexedToken, LexedHeap
  <2> HIDE DEF h
  <2>4. \A copy \in Copies(new, h) : copy \in Token /\ Heap(h \cup ({copy.start} \ {Nil, Buf}))
    BY <2>3, CopyToken
  <2>5. tok' \in [Callers -> Token] /\ Heap(heap')
    BY <2>2, <2>3, <2>4 DEF TypeOK, h
  <2>6. tpeek' \in Token /\ havetpeek' \in BOOLEAN /\ lost' \in BOOLEAN
    BY <2>2, <2>3
  <2>7. /\ src' \in Seq(STRING) /\ pos' \in 0 .. Len(src') + 1
        /\ line' \in Nat /\ lstart' \in Nat
    BY <1>5, <2>1, AdvanceTo, AdvanceTypes DEF peek_lexed
  <2> QED BY <2>1, <2>5, <2>6, <2>7 DEF TypeOK, Heap
<1>6. ASSUME NEW c \in Callers, token_free(c) PROVE TypeOK'
  <2>1. Heap(heap')
    BY <1>0, <1>6, HeapChanges DEF token_free, FreedHeap
  <2> QED BY <1>0, <1>6, <2>1 DEF token_free, TypeOK, Heap
<1>7. ASSUME lexer_free PROVE TypeOK'
  <2>1. Heap(heap')
    BY <1>0, <1>7, HeapChanges DEF lexer_free, FreedHeap
  <2>2. 0 \in 0 .. Len(src) + 1
    BY DEF TypeOK
  <2> QED BY <1>7, <2>1, <2>2 DEF lexer_free, TypeOK, Heap
<1>8. ASSUME UNCHANGED lexerVars PROVE TypeOK'
  BY <1>8 DEF lexerVars, TypeOK
<1> QED BY <1>1, <1>2, <1>3, <1>4, <1>5, <1>6, <1>7, <1>8 DEF LexerNext

(***************************************************************************)
(* The calls of lexer_nexttok, lexer_peek, token_free and lexer_free keep  *)
(* the types of their state: l->pos stays inside the equation or right     *)
(* behind it, so no loop reads beyond its end, and the heap is finite.     *)
(***************************************************************************)
THEOREM Typed == LexerSpec => []TypeOK
<1>1. LexerInit => TypeOK
  BY TypeInit
<1>2. TypeOK /\ [LexerNext]_lexerVars => TypeOK'
  BY TypeStep
<1> QED BY <1>1, <1>2, PTL DEF LexerSpec

-----------------------------------------------------------------------------
(* Ownership.  S is what each owner has for a start.                       *)

Own(S, h) ==
  /\ S \in [Owners -> Int]
  /\ Heap(h)
  /\ \A o \in Owners : S[o] \in {Nil, Buf} \cup h
  /\ \A x \in h : \E o \in Owners : S[o] = x
  /\ \A o, q \in Owners : S[o] = S[q] /\ S[o] \in h => o = q

\* the owners of the lexer: after lexer_free there is nothing to own
OwnedInv ==
  /\ faults = {}
  /\ Own(Starts, heap)
  /\ Alive /\ ~ havetpeek => tpeek.start = Nil
  /\ ~ Alive => heap = {} /\ \A c \in Callers : tok[c] = NoToken

\* an owner frees its string
LEMMA OwnFree ==
  ASSUME NEW S, NEW h, Own(S, h), NEW o \in Owners, NEW v \in {Nil, Buf}
  PROVE  Own([S EXCEPT ![o] = v], h \ {S[o]})
<1> DEFINE R == [S EXCEPT ![o] = v]
           g == h \ {S[o]}
<1>1. S \in [Owners -> Int] /\ Heap(h) /\ v \in Int /\ v \notin h
  BY DEF Own, Nil, Buf, Heap
<1>2. R \in [Owners -> Int] /\ R[o] = v /\ \A q \in Owners : q # o => R[q] = S[q]
  BY <1>1
<1>3. Heap(g)
  BY <1>1, HeapChanges
<1> HIDE DEF R
<1>4. \A q \in Owners : R[q] \in {Nil, Buf} \cup g
  <2> TAKE q \in Owners
  <2>1. CASE q = o
    BY <1>2, <2>1
  <2>2. CASE q # o
    BY <1>2, <2>2 DEF Own
  <2> QED BY <2>1, <2>2
<1>5. \A x \in g : \E q \in Owners : R[q] = x
  <2> TAKE x \in g
  <2>1. PICK q \in Owners : S[q] = x
    BY DEF Own
  <2>2. q # o
    BY <2>1
  <2> QED BY <1>2, <2>1, <2>2
<1>6. \A p, q \in Owners : R[p] = R[q] /\ R[p] \in g => p = q
  <2> SUFFICES ASSUME NEW p \in Owners, NEW q \in Owners, R[p] = R[q], R[p] \in g PROVE p = q
    OBVIOUS
  <2>1. p # o /\ q # o
    BY <1>1, <1>2
  <2> QED BY <1>2, <2>1 DEF Own
<1> QED BY <1>2, <1>3, <1>4, <1>5, <1>6 DEF Own, R

\* an owner without a string gets a new one
LEMMA OwnAlloc ==
  ASSUME NEW S, NEW h, Own(S, h), NEW o \in Owners, S[o] \in {Nil, Buf},
         NEW x \in Nat \ {0}, x \notin h
  PROVE  Own([S EXCEPT ![o] = x], h \cup {x})
<1> DEFINE R == [S EXCEPT ![o] = x]
           g == h \cup {x}
<1>1. S \in [Owners -> Int] /\ Heap(h) /\ x \in Int /\ x \notin {Nil, Buf}
  BY DEF Own, Nil, Buf
<1>2. R \in [Owners -> Int] /\ R[o] = x /\ \A q \in Owners : q # o => R[q] = S[q]
  BY <1>1
<1>3. Heap(g)
  BY <1>1, HeapChanges
<1> HIDE DEF R
<1>4. \A q \in Owners : q # o => R[q] # x /\ R[q] \in {Nil, Buf} \cup h
  BY <1>1, <1>2 DEF Own
<1>5. \A q \in Owners : R[q] \in {Nil, Buf} \cup g
  BY <1>2, <1>4
<1>6. \A y \in g : \E q \in Owners : R[q] = y
  <2> TAKE y \in g
  <2>1. CASE y = x
    BY <1>2, <2>1
  <2>2. CASE y # x
    <3>1. y \in h
      BY <2>2
    <3>2. PICK q \in Owners : S[q] = y
      BY <3>1 DEF Own
    <3>3. y \notin {Nil, Buf}
      BY <1>1, <3>1 DEF Heap, Nil, Buf
    <3>4. q # o
      BY <3>2, <3>3
    <3> QED BY <1>2, <3>2, <3>4
  <2> QED BY <2>1, <2>2
<1>7. \A p, q \in Owners : R[p] = R[q] /\ R[p] \in g => p = q
  <2> SUFFICES ASSUME NEW p \in Owners, NEW q \in Owners, R[p] = R[q], R[p] \in g PROVE p = q
    OBVIOUS
  <2>1. CASE p = o
    BY <1>2, <1>4, <2>1
  <2>2. CASE q = o
    BY <1>2, <1>4, <2>2
  <2>3. CASE p # o /\ q # o
    <3>1. S[p] = S[q] /\ S[p] \in h
      BY <1>2, <1>4, <2>3
    <3> QED BY <3>1 DEF Own
  <2> QED BY <2>1, <2>2, <2>3
<1> QED BY <1>2, <1>3, <1>5, <1>6, <1>7 DEF Own, R

\* an owner without a string takes over another's
LEMMA OwnMove ==
  ASSUME NEW S, NEW h, Own(S, h), NEW o \in Owners, NEW q \in Owners, o # q, S[o] \in {Nil, Buf}
  PROVE  Own([S EXCEPT ![o] = S[q], ![q] = Nil], h)
<1> DEFINE R == [S EXCEPT ![o] = S[q], ![q] = Nil]
<1>1. S \in [Owners -> Int] /\ Heap(h) /\ Nil \in Int /\ Nil \notin h /\ Buf \notin h
  BY DEF Own, Nil, Buf, Heap
<1>2. /\ R \in [Owners -> Int] /\ R[o] = S[q] /\ R[q] = Nil
      /\ \A p \in Owners : p # o /\ p # q => R[p] = S[p]
  BY <1>1
<1> HIDE DEF R
<1>3. \A p \in Owners : R[p] \in {Nil, Buf} \cup h
  BY <1>2 DEF Own
<1>4. \A x \in h : \E p \in Owners : R[p] = x
  <2> TAKE x \in h
  <2>1. PICK p \in Owners : S[p] = x
    BY DEF Own
  <2>2. p # o
    BY <1>1, <2>1
  <2>3. CASE p = q
    BY <1>2, <2>1, <2>3
  <2>4. CASE p # q
    BY <1>2, <2>1, <2>2, <2>4
  <2> QED BY <2>3, <2>4
<1>5. \A p, r \in Owners : R[p] = R[r] /\ R[p] \in h => p = r
  <2> DEFINE Was(p) == IF p = o THEN q ELSE p
  <2>1. ASSUME NEW p \in Owners, R[p] \in h
        PROVE  p # q /\ Was(p) \in Owners /\ S[Was(p)] = R[p]
    BY <1>1, <1>2, <2>1
  <2> TAKE p, r \in Owners
  <2> HAVE R[p] = R[r] /\ R[p] \in h
  <2>2. Was(p) = Was(r)
    <3>1. S[Was(p)] = S[Was(r)] /\ S[Was(p)] \in h /\ Was(p) \in Owners /\ Was(r) \in Owners
      BY <2>1
    <3> HIDE DEF Was
    <3> QED BY <3>1 DEF Own
  <2> QED BY <2>1, <2>2
<1> QED BY <1>1, <1>2, <1>3, <1>4, <1>5 DEF Own, R

\* the starts, after a change of one Token
StartsOf(t, peeked) == [o \in Owners |-> IF o \in Callers THEN t[o].start ELSE peeked]

LEMMA StartsChange ==
  ASSUME NEW t \in [Callers -> Token], NEW peeked \in Int
  PROVE  /\ \A c \in Callers : StartsOf(t, peeked)[c] = t[c].start
         /\ StartsOf(t, peeked)["tpeek"] = peeked
         /\ \A p \in Int : StartsOf(t, p) = [StartsOf(t, peeked) EXCEPT !["tpeek"] = p]
<1>1. "tpeek" \notin Callers /\ Owners = Callers \cup {"tpeek"}
  BY LexerAssumption DEF Owners
<1>2. /\ \A c \in Callers : StartsOf(t, peeked)[c] = t[c].start
      /\ StartsOf(t, peeked)["tpeek"] = peeked
  BY <1>1 DEF StartsOf
<1>3. ASSUME NEW p \in Int
      PROVE  StartsOf(t, p) = [StartsOf(t, peeked) EXCEPT !["tpeek"] = p]
  <2>1. ASSUME NEW o \in Owners
        PROVE  StartsOf(t, p)[o] = [StartsOf(t, peeked) EXCEPT !["tpeek"] = p][o]
    BY <1>1 DEF StartsOf
  <2> QED BY <2>1 DEF StartsOf
<1> QED BY <1>2, <1>3

Put(S, o, x) == [S EXCEPT ![o] = x]

LEMMA StartsWith ==
  ASSUME NEW t \in [Callers -> Token], NEW peeked \in Int, NEW c \in Callers, NEW new \in Token,
         NEW u, u = Put(t, c, new)
  PROVE  StartsOf(u, peeked) = Put(StartsOf(t, peeked), c, new.start)
<1>1. "tpeek" \notin Callers /\ Owners = Callers \cup {"tpeek"}
  BY LexerAssumption DEF Owners
<1>2. u[c] = new /\ \A o \in Callers : o # c => u[o] = t[o]
  BY DEF Put
<1>3. ASSUME NEW o \in Owners
      PROVE  StartsOf(u, peeked)[o] = Put(StartsOf(t, peeked), c, new.start)[o]
  BY <1>1, <1>2 DEF StartsOf, Put
<1> QED BY <1>3 DEF StartsOf, Put

LEMMA StartsAre ==
  ASSUME TypeOK
  PROVE  /\ Alive => Starts = StartsOf(tok, tpeek.start)
         /\ ~ Alive => Starts = StartsOf(tok, Nil)
         /\ tok \in [Callers -> Token] /\ tpeek \in Token /\ tpeek.start \in Int /\ Nil \in Int
BY DEF Starts, StartsOf, TypeOK, Token, Nil

\* a Token that may be freed
LEMMA FreesOwn ==
  ASSUME NEW S, Own(S, heap), NEW o \in Owners
  PROVE  FreeFault(S[o]) = {} /\ FreedHeap(S[o]) = heap \ {S[o]}
BY DEF Own, FreeFault, FreedHeap

\* lexer_nexttok into the Token of an owner
LEMMA OwnLexed ==
  ASSUME TypeOK, Alive, ~ AtEOF, NEW S, Own(S, heap), NEW o \in Owners,
         NEW t \in Token, S[o] = t.start, NEW new \in Lexed(t)
  PROVE  Own([S EXCEPT ![o] = new.start], HeapWith(t, new))
<1> DEFINE R == [S EXCEPT ![o] = Nil]
           h == FreedHeap(t.start)
<1>1. S \in [Owners -> Int] /\ Nil \in {Nil, Buf} /\ h = heap \ {S[o]}
  BY DEF Own, FreedHeap
<1>2. CASE new.start \in {Nil, Buf}
  <2>1. HeapWith(t, new) = h
    BY <1>2, LexedHeap
  <2>2. Own([S EXCEPT ![o] = new.start], heap \ {S[o]})
    BY <1>2, OwnFree
  <2> QED BY <1>1, <2>1, <2>2
<1>3. CASE new.start \notin {Nil, Buf}
  <2>1. /\ new.start \in Nat \ {0} /\ new.start \notin h
        /\ HeapWith(t, new) = h \cup {new.start}
    BY <1>3, LexedHeap
  <2>2. Own(R, h)
    <3>1. Own(R, heap \ {S[o]})
      BY <1>1, OwnFree
    <3> QED BY <1>1, <3>1
  <2>3. R[o] \in {Nil, Buf} /\ [R EXCEPT ![o] = new.start] = [S EXCEPT ![o] = new.start]
    BY <1>1
  <2> HIDE DEF R, h
  <2>4. Own([R EXCEPT ![o] = new.start], h \cup {new.start})
    BY <2>1, <2>2, <2>3, OwnAlloc
  <2> QED BY <2>1, <2>3, <2>4
<1> QED BY <1>2, <1>3

\* lexer_peek copies a token into the Token of an owner without a string
LEMMA OwnCopy ==
  ASSUME NEW S, NEW h, Own(S, h), NEW o \in Owners, S[o] \in {Nil, Buf}, NEW t \in Token,
         NEW copy \in Copies(t, h)
  PROVE  Own([S EXCEPT ![o] = copy.start], h \cup ({copy.start} \ {Nil, Buf}))
<1>1. Heap(h) /\ S[o] \notin h
  BY DEF Own, Heap, Nil, Buf
<1>2. CASE copy.start \in {Nil, Buf} /\ h \cup ({copy.start} \ {Nil, Buf}) = h
  <2>1. h = h \ {S[o]}
    BY <1>1
  <2>2. Own([S EXCEPT ![o] = copy.start], h \ {S[o]})
    BY <1>2, OwnFree
  <2> QED BY <1>2, <2>1, <2>2
<1>3. CASE /\ copy.start \in Nat \ {0} /\ copy.start \notin h
           /\ h \cup ({copy.start} \ {Nil, Buf}) = h \cup {copy.start}
  <2>1. Own([S EXCEPT ![o] = copy.start], h \cup {copy.start})
    BY <1>3, OwnAlloc
  <2> QED BY <1>3, <2>1
<1> QED BY <1>1, <1>2, <1>3, CopyToken

LEMMA OwnedInit == LexerInit => OwnedInv
<1> SUFFICES ASSUME LexerInit PROVE OwnedInv
  OBVIOUS
<1>1. TypeOK
  BY TypeInit
<1>2. Alive
  BY DEF LexerInit, Alive
<1>3. tpeek.start = Nil /\ \A c \in Callers : tok[c].start = Nil
  BY DEF LexerInit, NoToken
<1>4. Starts = [o \in Owners |-> Nil]
  BY <1>2, <1>3 DEF Starts
<1>5. Heap({})
  BY FS_EmptySet DEF Heap
<1>6. Own([o \in Owners |-> Nil], {})
  BY <1>5 DEF Own, Nil
<1> QED BY <1>2, <1>3, <1>4, <1>6 DEF LexerInit, OwnedInv

LEMMA OwnedStep == TypeOK /\ TypeOK' /\ OwnedInv /\ [LexerNext]_lexerVars => OwnedInv'
<1> SUFFICES ASSUME TypeOK, TypeOK', OwnedInv, [LexerNext]_lexerVars PROVE OwnedInv'
  OBVIOUS
<1>0. /\ Own(Starts, heap) /\ faults = {} /\ Nil \in {Nil, Buf} /\ "tpeek" \in Owners
      /\ \A c \in Callers : c \in Owners /\ c # "tpeek"
  BY LexerAssumption DEF OwnedInv, Owners
<1>a. ASSUME Alive, Alive', havetpeek' = FALSE => tpeek'.start = Nil,
             faults' = {}, Own(StartsOf(tok', tpeek'.start), heap')
      PROVE  OwnedInv'
  <2>1. Starts' = StartsOf(tok', tpeek'.start)
    BY <1>a DEF Starts, StartsOf
  <2>2. havetpeek' \in BOOLEAN
    BY DEF TypeOK
  <2> QED BY <1>a, <2>1, <2>2 DEF OwnedInv
<1>1. ASSUME NEW c \in Callers, nexttok_peeked(c) PROVE OwnedInv'
  <2> DEFINE S == StartsOf(tok, tpeek.start)
             R == [S EXCEPT ![c] = Nil]
  <2>1. Alive /\ Alive' /\ havetpeek' = FALSE
    BY <1>1 DEF nexttok_peeked, Alive
  <2>2. S = Starts /\ S[c] = tok[c].start /\ S["tpeek"] = tpeek.start /\ S \in [Owners -> Int]
    BY <1>0, <2>1, StartsAre, StartsChange DEF Own
  <2>3. faults' = {} /\ heap' = heap \ {S[c]}
    BY <1>0, <1>1, <2>2, FreesOwn DEF nexttok_peeked
  <2>4. Own(R, heap')
    BY <1>0, <2>2, <2>3, OwnFree
  <2>5. tpeek' = [tpeek EXCEPT !.start = Nil] /\ tok' = [tok EXCEPT ![c] = tpeek]
    BY <1>1 DEF nexttok_peeked
  <2>6. tpeek'.start = Nil /\ tpeek \in Token /\ tok' \in [Callers -> Token]
    BY <2>5, StartsAre DEF TypeOK, Token
  <2>7. StartsOf(tok', tpeek.start) = [S EXCEPT ![c] = tpeek.start]
    <3>1. tok' = Put(tok, c, tpeek)
      BY <2>5 DEF Put
    <3>2. tok \in [Callers -> Token] /\ tpeek.start \in Int /\ tpeek \in Token
      BY <2>5, StartsAre
    <3>3. StartsOf(tok', tpeek.start) = Put(S, c, tpeek.start)
      BY <3>1, <3>2, StartsWith
    <3> QED BY <2>5, <3>3 DEF Put
  <2>8. StartsOf(tok', Nil) = [[S EXCEPT ![c] = tpeek.start] EXCEPT !["tpeek"] = Nil]
    BY <2>6, <2>7, StartsAre, StartsChange
  <2> HIDE DEF S
  <2>9. R[c] = Nil /\ R["tpeek"] = tpeek.start
    BY <1>0, <2>2
  <2>10. [R EXCEPT ![c] = R["tpeek"], !["tpeek"] = Nil]
           = [[S EXCEPT ![c] = tpeek.start] EXCEPT !["tpeek"] = Nil]
    BY <1>0, <2>2, <2>9
  <2> HIDE DEF R
  <2>11. Own([R EXCEPT ![c] = R["tpeek"], !["tpeek"] = Nil], heap')
    BY <1>0, <2>4, <2>9, OwnMove
  <2>12. Own(StartsOf(tok', tpeek'.start), heap')
    BY <2>6, <2>8, <2>10, <2>11
  <2> QED BY <1>a, <2>1, <2>3, <2>6, <2>12
<1>2. ASSUME NEW c \in Callers, nexttok_lexed(c) PROVE OwnedInv'
  <2> DEFINE S == StartsOf(tok, tpeek.start)
  <2>1. /\ Alive /\ ~ AtEOF /\ tok[c] \in Token /\ src' = src /\ ~ havetpeek
        /\ tpeek' = tpeek /\ havetpeek' = havetpeek /\ Advance(Scan(Skipped).to)
    BY <1>2 DEF nexttok_lexed, TypeOK
  <2>2. Alive'
    BY <2>1, AdvanceTo, AdvanceTypes
  <2>3. S = Starts /\ S[c] = tok[c].start
    BY <2>1, StartsAre, StartsChange
  <2>4. faults' = {}
    BY <1>0, <1>2, <2>3, FreesOwn DEF nexttok_lexed
  <2>5. PICK new \in Lexed(tok[c]) : tok' = [tok EXCEPT ![c] = new] /\ heap' = HeapWith(tok[c], new)
    BY <1>2 DEF nexttok_lexed
  <2>6. new \in Token
    BY <2>1, LexedToken
  <2>7. StartsOf(tok', tpeek.start) = [S EXCEPT ![c] = new.start]
    <3>1. tok' = Put(tok, c, new)
      BY <2>5, <2>6 DEF Put
    <3>2. tok \in [Callers -> Token] /\ tpeek.start \in Int /\ new \in Token
      BY <2>5, <2>6, StartsAre
    <3>3. StartsOf(tok', tpeek.start) = Put(S, c, new.start)
      BY <3>1, <3>2, StartsWith
    <3> QED BY <2>5, <2>6, <3>3 DEF Put
  <2> HIDE DEF S
  <2>8. Own([S EXCEPT ![c] = new.start], heap')
    BY <1>0, <2>1, <2>3, <2>5, OwnLexed
  <2>9. tpeek.start = Nil
    BY <2>1 DEF OwnedInv
  <2> QED BY <1>a, <2>1, <2>2, <2>4, <2>7, <2>8, <2>9
<1>3. ASSUME nexttok_eof PROVE OwnedInv'
  <2>1. /\ Alive /\ AtEOF /\ src' = src /\ Advance(Skipped) /\ havetpeek' = havetpeek
        /\ tpeek' = tpeek /\ tok' = tok /\ heap' = heap /\ faults' = faults
    BY <1>3 DEF nexttok_eof
  <2>2. Alive'
    BY <2>1, AdvanceTo, AdvanceTypes
  <2>3. Own(StartsOf(tok, tpeek.start), heap)
    BY <1>0, <2>1, StartsAre
  <2> QED BY <1>0, <1>a, <2>1, <2>2, <2>3 DEF OwnedInv
<1>4. ASSUME NEW c \in Callers, peek_again(c) PROVE OwnedInv'
  <2> DEFINE S == StartsOf(tok, tpeek.start)
  <2>1. /\ Alive /\ Alive' /\ tok[c].start \in {Nil, Buf} /\ tpeek' = tpeek /\ havetpeek /\ havetpeek'
        /\ faults' = faults
    BY <1>4 DEF peek_again, Alive
  <2>a. PICK copy \in Copies(tpeek, heap) :
          /\ tok' = [tok EXCEPT ![c] = copy]
          /\ heap' = heap \cup ({copy.start} \ {Nil, Buf})
    BY <1>4 DEF peek_again
  <2>2. S = Starts /\ S[c] = tok[c].start /\ tpeek \in Token
    BY <2>1, StartsAre, StartsChange
  <2>3. copy \in Token
    BY <1>0, <2>2, CopyToken DEF Own
  <2>4. StartsOf(tok', tpeek.start) = [S EXCEPT ![c] = copy.start]
    <3>1. tok' = Put(tok, c, copy)
      BY <2>a, <2>3 DEF Put
    <3>2. tok \in [Callers -> Token] /\ tpeek.start \in Int /\ copy \in Token
      BY <2>1, <2>3, StartsAre
    <3>3. StartsOf(tok', tpeek.start) = Put(S, c, copy.start)
      BY <3>1, <3>2, StartsWith
    <3> QED BY <2>a, <2>3, <3>3 DEF Put
  <2> HIDE DEF S
  <2>5. Own([S EXCEPT ![c] = copy.start], heap')
    BY <1>0, <2>a, <2>1, <2>2, OwnCopy
  <2> QED BY <1>0, <1>a, <2>1, <2>4, <2>5
<1>5. ASSUME NEW c \in Callers, peek_lexed(c) PROVE OwnedInv'
  <2> DEFINE S == StartsOf(tok, tpeek.start)
  <2>1. /\ Alive /\ ~ AtEOF /\ tpeek \in Token /\ src' = src /\ ~ havetpeek
        /\ tok[c].start \in {Nil, Buf} /\ Advance(Scan(Skipped).to)
        /\ faults' = faults \cup FreeFault(tpeek.start)
    BY <1>5 DEF peek_lexed, TypeOK
  <2>2. Alive'
    BY <2>1, AdvanceTo, AdvanceTypes
  <2>3. PICK new \in Lexed(tpeek) :
          LET h == HeapWith(tpeek, new)
          IN  /\ tpeek' = new
              /\ havetpeek' = (new # NoToken)
              /\ lost' = (lost \/ new = NoToken)
              /\ IF new = NoToken
                   THEN heap' = h /\ UNCHANGED tok
                   ELSE \E copy \in Copies(new, h) :
                          /\ tok' = [tok EXCEPT ![c] = copy]
                          /\ heap' = h \cup ({copy.start} \ {Nil, Buf})
    BY <1>5 DEF peek_lexed
  <2> DEFINE h == HeapWith(tpeek, new)
             R == StartsOf(tok, new.start)
  <2>4. /\ S = Starts /\ S[c] = tok[c].start /\ S["tpeek"] = tpeek.start
        /\ R[c] = tok[c].start /\ new \in Token /\ new.start \in Int
        /\ R = [S EXCEPT !["tpeek"] = new.start]
    <3>1. new \in Token
      BY <2>1, LexedToken
    <3>2. new.start \in Int
      BY <3>1 DEF Token
    <3> QED BY <2>1, <3>1, <3>2, StartsAre, StartsChange
  <2>5. faults' = {}
    BY <1>0, <2>1, <2>4, FreesOwn
  <2>6. Own(R, h)
    <3> HIDE DEF S, R
    <3> QED BY <1>0, <2>1, <2>4, OwnLexed
  <2>7. CASE new = NoToken
    <3>1. tok' = tok /\ heap' = h /\ tpeek' = new /\ new.start = Nil
      BY <2>3, <2>7 DEF NoToken
    <3> QED BY <1>a, <2>1, <2>2, <2>5, <2>6, <3>1
  <2>8. CASE new # NoToken
    <3>1. PICK copy \in Copies(new, h) :
            /\ tok' = [tok EXCEPT ![c] = copy] /\ tpeek' = new /\ havetpeek' = TRUE
            /\ heap' = h \cup ({copy.start} \ {Nil, Buf})
      BY <2>3, <2>8
    <3> HIDE DEF h
    <3>2. copy \in Token
      BY <2>4, <2>6, CopyToken DEF Own
    <3>3. StartsOf(tok', new.start) = [R EXCEPT ![c] = copy.start]
      <4>1. tok' = Put(tok, c, copy)
        BY <2>4, <3>1, <3>2 DEF Put
      <4>2. tok \in [Callers -> Token] /\ new.start \in Int /\ copy \in Token
        BY <2>4, <3>1, <3>2, StartsAre
      <4>3. StartsOf(tok', new.start) = Put(R, c, copy.start)
        BY <4>1, <4>2, StartsWith
      <4> QED BY <2>4, <3>1, <3>2, <4>3 DEF Put
    <3> HIDE DEF R
    <3>4. Own([R EXCEPT ![c] = copy.start], heap')
      BY <1>0, <2>1, <2>4, <2>6, <3>1, OwnCopy
    <3> QED BY <1>a, <2>1, <2>2, <2>5, <3>1, <3>3, <3>4
  <2> QED BY <2>7, <2>8
<1>6. ASSUME NEW c \in Callers, token_free(c) PROVE OwnedInv'
  <2> DEFINE S == StartsOf(tok, tpeek.start)
  <2>1. /\ Alive /\ Alive' /\ tpeek' = tpeek /\ havetpeek' = havetpeek
        /\ tok' = [tok EXCEPT ![c] = NoToken] /\ NoToken \in Token /\ NoToken.start = Nil
    <3>1. Alive
      BY <1>6 DEF token_free, OwnedInv
    <3> QED BY <1>6, <3>1, NoTokenType DEF token_free, Alive, NoToken
  <2>2. S = Starts /\ S[c] = tok[c].start
    BY <2>1, StartsAre, StartsChange
  <2>3. faults' = {} /\ heap' = heap \ {S[c]}
    BY <1>0, <1>6, <2>2, FreesOwn DEF token_free
  <2>4. StartsOf(tok', tpeek.start) = [S EXCEPT ![c] = Nil]
    <3>1. tok' = Put(tok, c, NoToken)
      BY <2>1 DEF Put
    <3>2. tok \in [Callers -> Token] /\ tpeek.start \in Int /\ NoToken \in Token
      BY <2>1, StartsAre
    <3>3. StartsOf(tok', tpeek.start) = Put(S, c, NoToken.start)
      BY <3>1, <3>2, StartsWith
    <3> QED BY <2>1, <3>3 DEF Put
  <2> HIDE DEF S
  <2>5. Own([S EXCEPT ![c] = Nil], heap')
    BY <1>0, <2>2, <2>3, OwnFree
  <2> QED BY <1>0, <1>a, <2>1, <2>3, <2>4, <2>5 DEF OwnedInv
<1>7. ASSUME lexer_free PROVE OwnedInv'
  <2> DEFINE S == StartsOf(tok, tpeek.start)
  <2>1. /\ Alive /\ ~ Alive' /\ tok' = tok /\ \A c \in Callers : tok[c] = NoToken
    BY <1>7 DEF lexer_free, Alive
  <2>2. S = Starts /\ S["tpeek"] = tpeek.start /\ \A c \in Callers : S[c] = Nil
    BY <2>1, StartsAre, StartsChange DEF NoToken
  <2>3. faults' = {} /\ heap' = heap \ {S["tpeek"]}
    <3>1. CASE havetpeek
      BY <1>0, <1>7, <2>2, <3>1, FreesOwn DEF lexer_free
    <3>2. CASE ~ havetpeek
      <4>1. S["tpeek"] = Nil /\ Nil \notin heap
        BY <1>0, <2>1, <2>2, <3>2 DEF OwnedInv, Own, Heap, Nil
      <4> QED BY <1>0, <1>7, <3>2, <4>1 DEF lexer_free
    <3> QED BY <3>1, <3>2
  <2>4. StartsOf(tok, Nil) = [S EXCEPT !["tpeek"] = Nil]
    BY StartsAre, StartsChange
  <2> HIDE DEF S
  <2>5. Own([S EXCEPT !["tpeek"] = Nil], heap')
    BY <1>0, <2>2, <2>3, OwnFree
  <2>6. Starts' = StartsOf(tok, Nil)
    BY <2>1 DEF Starts, StartsOf
  <2>7. heap' = {}
    <3>1. S \in [Owners -> Int] /\ Nil \notin heap'
      BY <1>0, <2>2, <2>5 DEF Own, Heap, Nil
    <3>2. \A o \in Owners : [S EXCEPT !["tpeek"] = Nil][o] = Nil
      BY <2>2, <3>1 DEF Owners
    <3> QED BY <2>5, <3>1, <3>2 DEF Own
  <2> QED BY <2>1, <2>3, <2>4, <2>5, <2>6, <2>7 DEF OwnedInv
<1>8. ASSUME UNCHANGED lexerVars PROVE OwnedInv'
  <2>1. Starts' = Starts /\ (Alive' <=> Alive)
    BY <1>8 DEF lexerVars, Starts, Alive
  <2> QED BY <1>8, <2>1 DEF lexerVars, OwnedInv
<1> QED BY <1>1, <1>2, <1>3, <1>4, <1>5, <1>6, <1>7, <1>8 DEF LexerNext

LEMMA OwnedGives == OwnedInv => OneOwner
<1> SUFFICES ASSUME OwnedInv PROVE OneOwner
  OBVIOUS
<1>1. ASSUME NEW h \in heap PROVE Cardinality({o \in Owners : Starts[o] = h}) = 1
  <2>1. PICK o \in Owners : Starts[o] = h
    BY DEF OwnedInv, Own
  <2>2. {q \in Owners : Starts[q] = h} = {o}
    BY <2>1 DEF OwnedInv, Own
  <2> QED BY <2>2, FS_Singleton
<1> QED BY <1>1 DEF OneOwner, OwnedInv, Own

(***************************************************************************)
(* However lexer_nexttok, lexer_peek and token_free are mixed between any  *)
(* number of callers, and whichever allocations fail, each string of the   *)
(* lexer has one owner, is freed once, and none is left.                   *)
(***************************************************************************)
THEOREM Ownership == LexerSpec => []OneOwner
<1>1. LexerInit => TypeOK /\ OwnedInv
  BY TypeInit, OwnedInit
<1>2. TypeOK /\ OwnedInv /\ [LexerNext]_lexerVars => (TypeOK /\ OwnedInv)'
  BY TypeStep, OwnedStep
<1>3. OwnedInv => OneOwner
  BY OwnedGives
<1> QED BY <1>1, <1>2, <1>3, PTL DEF LexerSpec

-----------------------------------------------------------------------------
(* The tokens tile the source.  toks are the tokens read so far, the       *)
(* peeked one included.                                                    *)

\* t may come after the tokens before it
IsNextToken(text, before, t) ==
  /\ Follows(text, EndOf(before), t)
  /\ t.to \in 1 .. Len(text) + 1
  /\ LineInToken(text, before) \/ t.loc = Place(text, t.from)

Tiles(text, toks) ==
  /\ toks \in Seq(Token)
  /\ \A k \in 1 .. Len(toks) : IsNextToken(text, SubSeq(toks, 1, k - 1), toks[k])

\* the lexer at p, in the line ln that starts at start, has read them
Behind(text, toks, p, ln, start) ==
  /\ EndOf(toks) \in 1 .. p
  /\ \A q \in EndOf(toks) .. p - 1 : BlankFrom(text, EndOf(toks), q)
  /\ LineInToken(text, toks) \/ (ln = Cardinality(LinesBefore(text, p)) /\ start = LineOf(text, p))

TiledInv ==
  lost = FALSE =>
    /\ Tiles(src, Seen)
    /\ Alive => Behind(src, Seen, pos, line, lstart)

LEMMA AppendedToken ==
  ASSUME NEW text, NEW toks, Tiles(text, toks), NEW t \in Token, IsNextToken(text, toks, t)
  PROVE  Tiles(text, Append(toks, t)) /\ EndOf(Append(toks, t)) = t.to
<1> DEFINE n == Len(toks)
           more == Append(toks, t)
<1>1. toks \in Seq(Token) /\ n \in Nat
  BY DEF Tiles
<1>2. more \in Seq(Token) /\ Len(more) = n + 1 /\ more[n + 1] = t /\ \A k \in 1 .. n : more[k] = toks[k]
  BY <1>1
<1>3. SubSeq(toks, 1, n) = toks
  BY <1>1
<1> HIDE DEF n, more
<1>4. ASSUME NEW k \in 1 .. n + 1 PROVE SubSeq(more, 1, k - 1) = SubSeq(toks, 1, k - 1)
  <2>1. k - 1 <= n /\ k - 1 \in Nat
    BY <1>1, <1>4
  <2>2. /\ SubSeq(more, 1, k - 1) \in Seq(Token) /\ Len(SubSeq(more, 1, k - 1)) = k - 1
        /\ \A j \in 1 .. k - 1 : SubSeq(more, 1, k - 1)[j] = more[j]
    BY <1>1, <1>2, <2>1, SubSeqProperties
  <2>3. /\ SubSeq(toks, 1, k - 1) \in Seq(Token) /\ Len(SubSeq(toks, 1, k - 1)) = k - 1
        /\ \A j \in 1 .. k - 1 : SubSeq(toks, 1, k - 1)[j] = toks[j]
    BY <1>1, <2>1, SubSeqProperties DEF n
  <2>4. \A j \in 1 .. k - 1 : j \in 1 .. n
    BY <1>1, <2>1
  <2>5. \A j \in 1 .. k - 1 : SubSeq(more, 1, k - 1)[j] = SubSeq(toks, 1, k - 1)[j]
    BY <1>2, <2>2, <2>3, <2>4
  <2> HIDE DEF n
  <2> QED BY <2>2, <2>3, <2>5, SeqEqual
<1>5. ASSUME NEW k \in 1 .. n + 1 PROVE IsNextToken(text, SubSeq(more, 1, k - 1), more[k])
  <2>1. SubSeq(more, 1, k - 1) = SubSeq(toks, 1, k - 1)
    BY <1>4
  <2>2. CASE k = n + 1
    <3>1. k - 1 = n
      BY <1>1, <2>2
    <3> QED BY <1>2, <1>3, <2>1, <2>2, <3>1
  <2>3. CASE k # n + 1
    <3>1. k \in 1 .. n
      BY <1>1, <2>3
    <3> QED BY <1>2, <2>1, <3>1 DEF Tiles, n
  <2> QED BY <2>2, <2>3
<1>6. Tiles(text, more)
  BY <1>2, <1>5 DEF Tiles
<1>7. EndOf(more) = t.to
  <2>1. more # << >> /\ Last(more) = t
    BY <1>1, <1>2 DEF Last
  <2> QED BY <2>1 DEF EndOf
<1> QED BY <1>6, <1>7 DEF more

\* lines go up by the new lines passed
LEMMA LinesPassed ==
  ASSUME NEW text, NEW p \in Nat \ {0}, NEW q \in Nat, p <= q
  PROVE  LET new == {r \in p .. q - 1 : text[r] = "\n"}
         IN  /\ Cardinality(LinesBefore(text, q)) = Cardinality(LinesBefore(text, p)) + Cardinality(new)
             /\ LineOf(text, q) = IF new = {} THEN LineOf(text, p) ELSE Max(new) + 1
<1> DEFINE A == LinesBefore(text, p)
           N == {r \in p .. q - 1 : text[r] = "\n"}
           B == LinesBefore(text, q)
<1>1. A \in SUBSET (1 .. p - 1) /\ N \in SUBSET (p .. q - 1) /\ B \in SUBSET (1 .. q - 1)
  BY DEF LinesBefore
<1>2. B = A \cup N
  <2>1. \A r : r \in 1 .. q - 1 <=> (r \in 1 .. p - 1 \/ r \in p .. q - 1)
    OBVIOUS
  <2> QED BY <2>1 DEF LinesBefore
<1> HIDE DEF A, N, B
<1>3. A \cap N = {}
  BY <1>1
<1>4. IsFiniteSet(A) /\ IsFiniteSet(N)
  <2>1. IsFiniteSet(1 .. p - 1) /\ IsFiniteSet(p .. q - 1)
    BY FS_Interval
  <2> QED BY <1>1, <2>1, FS_Subset
<1>5. Cardinality(B) = Cardinality(A) + Cardinality(N)
  <2>1. Cardinality({}) = 0
    BY FS_EmptySet
  <2>2. Cardinality(A) \in Nat /\ Cardinality(N) \in Nat
    BY <1>4, FS_CardinalityType
  <2>3. Cardinality(A \cup N) = Cardinality(A) + Cardinality(N) - Cardinality(A \cap N)
    BY <1>4, FS_Union
  <2> QED BY <1>2, <1>3, <2>1, <2>2, <2>3
<1>6. CASE N = {}
  <2>1. B = A
    BY <1>2, <1>6
  <2>2. LineOf(text, q) = LineOf(text, p)
    BY <2>1 DEF LineOf, A, B
  <2> QED BY <1>5, <1>6, <2>2 DEF A, N, B
<1>7. CASE N # {}
  <2>1. A \in SUBSET (0 .. q) /\ N \in SUBSET (0 .. q) /\ B \in SUBSET (0 .. q) /\ B # {}
    BY <1>1, <1>2, <1>7
  <2>2. Max(N) \in N /\ \A r \in N : r <= Max(N)
    BY <1>7, <2>1, MaxOfNats
  <2>3. Max(B) \in B /\ \A r \in B : r <= Max(B)
    BY <2>1, MaxOfNats
  <2>4. Max(N) \in p .. q - 1 /\ Max(N) <= Max(B)
    BY <1>1, <1>2, <2>2, <2>3
  <2>5. Max(B) \in N
    <3>1. Max(B) \notin 1 .. p - 1
      BY <2>4
    <3> QED BY <1>1, <1>2, <2>3, <3>1
  <2>6. Max(B) <= Max(N) /\ Max(B) \in p .. q - 1
    BY <1>1, <2>2, <2>5
  <2>7. Max(B) = Max(N)
    BY <2>4, <2>6
  <2>8. LineOf(text, q) = Max(N) + 1
    BY <2>1, <2>7 DEF LineOf, B
  <2> QED BY <1>5, <1>7, <2>8 DEF A, N, B
<1> QED BY <1>6, <1>7

\* skip_whitespace goes on from where the lexer is
LEMMA BehindSkipped ==
  ASSUME TypeOK, Alive, NEW toks \in Seq(Token), Behind(src, toks, pos, line, lstart)
  PROVE  Behind(src, toks, Skipped, line + Cardinality(NewLines), LineStart)
<1> DEFINE e == EndOf(toks)
<1>1. src \in Seq(STRING) /\ pos \in 1 .. Len(src) + 1 /\ line \in Nat /\ Len(src) \in Nat
  BY DEF TypeOK, Alive
<1>2. Skipped \in pos .. Len(src) + 1 /\ \A k \in pos .. Skipped - 1 : BlankFrom(src, pos, k)
  BY <1>1, SkippedFacts, Zenon
<1>3. e \in 1 .. pos /\ \A q \in e .. pos - 1 : BlankFrom(src, e, q)
  BY DEF Behind
<1> HIDE DEF e
<1>4. Skipped \in Nat /\ pos \in Nat \ {0} /\ e \in Nat /\ e <= pos /\ pos <= Skipped
  BY <1>1, <1>2, <1>3
<1>5. \A q \in e .. Skipped - 1 : BlankFrom(src, e, q)
  <2> TAKE q \in e .. Skipped - 1
  <2>1. CASE q < pos
    <3>1. q \in e .. pos - 1
      BY <1>4, <2>1
    <3> QED BY <1>3, <3>1
  <2>2. CASE ~ (q < pos)
    <3>1. q \in pos .. Skipped - 1 /\ \A o \in pos .. q : o \in e .. q
      BY <1>4, <2>2
    <3>2. BlankFrom(src, pos, q)
      BY <1>2, <3>1
    <3> QED BY <3>1, <3>2, Zenon DEF BlankFrom
  <2> QED BY <2>1, <2>2
<1>6. e \in 1 .. Skipped
  BY <1>3, <1>4
<1>7. NewLines = {r \in pos .. Skipped - 1 : src[r] = "\n"} /\ Cardinality(NewLines) \in Nat
  BY <1>1, NewLinesFacts
<1>8. ASSUME ~ LineInToken(src, toks)
      PROVE  /\ line + Cardinality(NewLines) = Cardinality(LinesBefore(src, Skipped))
             /\ LineStart = LineOf(src, Skipped)
  <2>1. line = Cardinality(LinesBefore(src, pos)) /\ lstart = LineOf(src, pos)
    BY <1>8 DEF Behind
  <2>2. /\ Cardinality(LinesBefore(src, Skipped)) = Cardinality(LinesBefore(src, pos)) + Cardinality(NewLines)
        /\ LineOf(src, Skipped) = IF NewLines = {} THEN LineOf(src, pos) ELSE Max(NewLines) + 1
    BY <1>4, <1>7, LinesPassed
  <2> QED BY <2>1, <2>2 DEF LineStart
<1> QED BY <1>5, <1>6, <1>8 DEF Behind, e

\* a token is read behind the others
LEMMA TokenRead ==
  ASSUME TypeOK, Alive, ~ AtEOF, NEW t \in Token, NEW new \in Lexed(t), new # NoToken,
         NEW toks, Tiles(src, toks), Behind(src, toks, pos, line, lstart)
  PROVE  LET to == Scan(Skipped).to
         IN  /\ Tiles(src, Append(toks, new))
             /\ Behind(src, Append(toks, new), to, line + Cardinality(NewLines), LineStart)
<1> DEFINE to == Scan(Skipped).to
           ln == line + Cardinality(NewLines)
           more == Append(toks, new)
<1>1. src \in Seq(STRING) /\ pos \in 1 .. Len(src) + 1 /\ Len(src) \in Nat /\ toks \in Seq(Token)
  BY DEF TypeOK, Alive, Tiles
<1>2. Skipped \in 1 .. Len(src) /\ ~ space(src[Skipped]) /\ src[Skipped] # "{"
  BY <1>1, SkippedFacts, Zenon
<1>3. Scan(Skipped).to \in Skipped + 1 .. Len(src) + 1
  BY <1>1, <1>2, ScanTypes
<1>4. new \in Token /\ new.from = Skipped /\ new.to = to /\ new.loc = <<ln, Skipped - LineStart>>
  BY LexedToken
<1>5. Behind(src, toks, Skipped, ln, LineStart)
  BY <1>1, BehindSkipped
<1>a. to \in Skipped + 1 .. Len(src) + 1
  BY <1>3
<1> HIDE DEF ln, to
<1>b. Skipped \in Nat \ {0} /\ to \in Nat /\ Skipped < to /\ to <= Len(src) + 1
  <2>1. Skipped \in 1 .. Len(src)
    BY <1>2, Zenon
  <2>2. Len(src) \in Nat
    BY <1>1
  <2>3. \A l \in Nat : \A s \in 1 .. l : \A u \in s + 1 .. l + 1 :
           s \in Nat \ {0} /\ u \in Nat /\ s < u /\ u <= l + 1
    OBVIOUS
  <2> QED BY <1>a, <2>1, <2>2, <2>3, Zenon
<1>6. IsNextToken(src, toks, new)
  <2>1. Follows(src, EndOf(toks), new)
    <3>1. /\ EndOf(toks) \in 1 .. Skipped
          /\ \A q \in EndOf(toks) .. Skipped - 1 : BlankFrom(src, EndOf(toks), q)
      BY <1>5 DEF Behind
    <3>2. EndOf(toks) <= Skipped /\ Skipped < to
      BY <1>b, <3>1
    <3> QED BY <1>2, <1>4, <3>1, <3>2 DEF Follows
  <2>2. new.to \in 1 .. Len(src) + 1
    BY <1>1, <1>b, <1>4
  <2>3. LineInToken(src, toks) \/ new.loc = Place(src, new.from)
    BY <1>4, <1>5 DEF Behind, Place
  <2> QED BY <2>1, <2>2, <2>3 DEF IsNextToken
<1>7. Tiles(src, more) /\ EndOf(more) = new.to
  BY <1>4, <1>6, AppendedToken
<1>8. /\ Len(more) = Len(toks) + 1 /\ more[Len(toks) + 1] = new /\ Len(toks) + 1 \in DOMAIN more
      /\ \A j \in DOMAIN toks : j \in DOMAIN more /\ more[j] = toks[j]
  BY <1>1, <1>4
<1> HIDE DEF more
<1>9. ASSUME ~ LineInToken(src, more)
      PROVE  ln = Cardinality(LinesBefore(src, to)) /\ LineStart = LineOf(src, to)
  <2>1. ~ LineInToken(src, toks)
    BY <1>8, <1>9 DEF LineInToken
  <2>2. ln = Cardinality(LinesBefore(src, Skipped)) /\ LineStart = LineOf(src, Skipped)
    BY <1>5, <2>1 DEF Behind
  <2>3. \A p \in Skipped .. to - 1 : src[p] # "\n"
    BY <1>4, <1>8, <1>9 DEF LineInToken
  <2>4. LinesBefore(src, to) = LinesBefore(src, Skipped)
    <3>1. \A r : r \in 1 .. to - 1 <=> (r \in 1 .. Skipped - 1 \/ r \in Skipped .. to - 1)
      BY <1>b
    <3> QED BY <2>3, <3>1 DEF LinesBefore
  <2>5. LineOf(src, to) = LineOf(src, Skipped)
    BY <2>4, Zenon DEF LineOf
  <2> QED BY <2>2, <2>4, <2>5
<1>10. EndOf(more) = to /\ to \in 1 .. to /\ to .. to - 1 = {}
  BY <1>b, <1>4, <1>7
<1>11. Behind(src, more, to, ln, LineStart)
  BY <1>9, <1>10 DEF Behind
<1> QED BY <1>7, <1>11 DEF more, ln, to

LEMMA TiledInit == LexerInit => TiledInv
<1> SUFFICES ASSUME LexerInit PROVE TiledInv
  OBVIOUS
<1>1. Seen = << >> /\ pos = 1 /\ line = 0 /\ lstart = 1
  BY DEF LexerInit, Seen
<1>2. Tiles(src, << >>)
  BY DEF Tiles
<1>3. EndOf(<< >>) = 1 /\ 1 .. 0 = {} /\ LinesBefore(src, 1) = {} /\ 1 \in 1 .. 1
  BY DEF EndOf, LinesBefore
<1>4. Behind(src, << >>, 1, 0, 1)
  <2>1. Cardinality({}) = 0
    BY FS_EmptySet
  <2>2. LineOf(src, 1) = 1
    BY <1>3 DEF LineOf
  <2> QED BY <1>3, <2>1, <2>2 DEF Behind
<1> QED BY <1>1, <1>2, <1>4 DEF TiledInv

LEMMA TiledStep == TypeOK /\ TiledInv /\ [LexerNext]_lexerVars => TiledInv'
<1> SUFFICES ASSUME TypeOK, TiledInv, [LexerNext]_lexerVars, lost' = FALSE
             PROVE  Tiles(src', Seen') /\ (Alive' => Behind(src', Seen', pos', line', lstart'))
  BY DEF TiledInv
<1>1. ASSUME src' = src, Seen' = Seen, lost' = lost,
             Alive' => Alive /\ pos' = pos /\ line' = line /\ lstart' = lstart
      PROVE  Tiles(src', Seen') /\ (Alive' => Behind(src', Seen', pos', line', lstart'))
  BY <1>1 DEF TiledInv
<1>2. ASSUME NEW c \in Callers, nexttok_peeked(c)
      PROVE  Tiles(src', Seen') /\ (Alive' => Behind(src', Seen', pos', line', lstart'))
  <2>1. Seen' = Seen
    BY <1>2 DEF nexttok_peeked, Seen
  <2> QED BY <1>1, <1>2, <2>1 DEF nexttok_peeked
<1>3. ASSUME NEW t \in Token, NEW new \in Lexed(t), Alive, ~ AtEOF, ~ havetpeek, src' = src,
             lost' = (lost \/ new = NoToken), Advance(Scan(Skipped).to),
             new # NoToken => Seen' = Append(out, new)
      PROVE  Tiles(src', Seen') /\ (Alive' => Behind(src', Seen', pos', line', lstart'))
  <2>1. lost = FALSE /\ new # NoToken
    BY <1>3 DEF TypeOK
  <2>2. Seen = out
    BY <1>3 DEF Seen
  <2>3. Tiles(src, out) /\ Behind(src, out, pos, line, lstart)
    BY <1>3, <2>1, <2>2 DEF TiledInv
  <2>4. /\ Tiles(src, Append(out, new))
        /\ Behind(src, Append(out, new), Scan(Skipped).to, line + Cardinality(NewLines), LineStart)
    BY <1>3, <2>1, <2>3, TokenRead
  <2> QED BY <1>3, <2>1, <2>4 DEF Advance
<1>4. ASSUME NEW c \in Callers, nexttok_lexed(c)
      PROVE  Tiles(src', Seen') /\ (Alive' => Behind(src', Seen', pos', line', lstart'))
  <2>1. PICK new \in Lexed(tok[c]) :
          /\ lost' = (lost \/ new = NoToken)
          /\ out' = IF new = NoToken THEN out ELSE Append(out, new)
    BY <1>4 DEF nexttok_lexed
  <2>2. tok[c] \in Token
    BY DEF TypeOK
  <2>3. new # NoToken => Seen' = Append(out, new)
    BY <1>4, <2>1 DEF nexttok_lexed, Seen
  <2> QED BY <1>3, <1>4, <2>1, <2>2, <2>3 DEF nexttok_lexed
<1>5. ASSUME nexttok_eof
      PROVE  Tiles(src', Seen') /\ (Alive' => Behind(src', Seen', pos', line', lstart'))
  <2>1. Seen' = Seen /\ src' = src /\ lost = FALSE /\ Alive
    BY <1>5 DEF nexttok_eof, Seen
  <2>2. Tiles(src, Seen) /\ Behind(src, Seen, pos, line, lstart)
    BY <2>1 DEF TiledInv
  <2>3. Behind(src, Seen, Skipped, line + Cardinality(NewLines), LineStart)
    BY <2>1, <2>2, BehindSkipped DEF Tiles
  <2> QED BY <1>5, <2>1, <2>2, <2>3 DEF nexttok_eof, Advance
<1>6. ASSUME NEW c \in Callers, peek_again(c)
      PROVE  Tiles(src', Seen') /\ (Alive' => Behind(src', Seen', pos', line', lstart'))
  <2>1. Seen' = Seen /\ Alive
    BY <1>6 DEF peek_again, Seen
  <2> QED BY <1>1, <1>6, <2>1 DEF peek_again
<1>7. ASSUME NEW c \in Callers, peek_lexed(c)
      PROVE  Tiles(src', Seen') /\ (Alive' => Behind(src', Seen', pos', line', lstart'))
  <2>1. PICK new \in Lexed(tpeek) :
          /\ tpeek' = new
          /\ havetpeek' = (new # NoToken)
          /\ lost' = (lost \/ new = NoToken)
    BY <1>7 DEF peek_lexed
  <2>2. tpeek \in Token
    BY DEF TypeOK
  <2>3. new # NoToken => Seen' = Append(out, new)
    BY <1>7, <2>1 DEF peek_lexed, Seen
  <2> QED BY <1>3, <1>7, <2>1, <2>2, <2>3 DEF peek_lexed
<1>8. ASSUME NEW c \in Callers, token_free(c)
      PROVE  Tiles(src', Seen') /\ (Alive' => Behind(src', Seen', pos', line', lstart'))
  <2>1. Seen' = Seen /\ (Alive' <=> Alive)
    BY <1>8 DEF token_free, Seen, Alive
  <2> QED BY <1>1, <1>8, <2>1 DEF token_free
<1>9. ASSUME lexer_free
      PROVE  Tiles(src', Seen') /\ (Alive' => Behind(src', Seen', pos', line', lstart'))
  <2>1. Seen' = Seen /\ ~ Alive'
    BY <1>9 DEF lexer_free, Seen, Alive
  <2> QED BY <1>1, <1>9, <2>1 DEF lexer_free
<1>10. ASSUME UNCHANGED lexerVars
       PROVE  Tiles(src', Seen') /\ (Alive' => Behind(src', Seen', pos', line', lstart'))
  <2>1. Seen' = Seen /\ (Alive' <=> Alive)
    BY <1>10 DEF lexerVars, Seen, Alive
  <2> QED BY <1>1, <1>10, <2>1 DEF lexerVars
<1> QED BY <1>2, <1>4, <1>5, <1>6, <1>7, <1>8, <1>9, <1>10 DEF LexerNext

LEMMA TiledGives == TypeOK /\ TiledInv => TokensTileSource
<1> SUFFICES ASSUME TypeOK, TiledInv, lost = FALSE PROVE TokensTileSource
  BY DEF TypeOK, TokensTileSource
<1>1. Tiles(src, Seen) /\ (Alive => Behind(src, Seen, pos, line, lstart))
  BY DEF TiledInv
<1>2. Seen \in Seq(Token) /\ DOMAIN Seen = 1 .. Len(Seen)
  BY <1>1 DEF Tiles
<1>3. ASSUME NEW k \in DOMAIN Seen PROVE IsNextToken(src, SubSeq(Seen, 1, k - 1), Seen[k])
  BY <1>1, <1>2 DEF Tiles
<1>4. ASSUME NEW k \in DOMAIN out
      PROVE  k \in DOMAIN Seen /\ Seen[k] = out[k] /\ SubSeq(Seen, 1, k - 1) = SubSeq(out, 1, k - 1)
  <2>1. out \in Seq(Token) /\ tpeek \in Token
    BY DEF TypeOK
  <2>2. CASE ~ havetpeek
    BY <2>2 DEF Seen
  <2>3. CASE havetpeek
    <3>1. Seen = Append(out, tpeek)
      BY <2>3 DEF Seen
    <3>2. /\ Len(Seen) = Len(out) + 1 /\ \A j \in 1 .. Len(out) : Seen[j] = out[j]
          /\ Len(out) \in Nat /\ k \in 1 .. Len(out)
      BY <2>1, <3>1
    <3>3. k \in DOMAIN Seen
      BY <1>2, <3>2
    <3>4. k - 1 \in Nat /\ k - 1 <= Len(out) /\ k - 1 <= Len(Seen) /\ \A j \in 1 .. k - 1 : j \in 1 .. Len(out)
      BY <3>2
    <3>5. /\ SubSeq(Seen, 1, k - 1) \in Seq(Token) /\ Len(SubSeq(Seen, 1, k - 1)) = k - 1
          /\ \A j \in 1 .. k - 1 : SubSeq(Seen, 1, k - 1)[j] = Seen[j]
      BY <1>2, <3>4, SubSeqProperties
    <3>6. /\ SubSeq(out, 1, k - 1) \in Seq(Token) /\ Len(SubSeq(out, 1, k - 1)) = k - 1
          /\ \A j \in 1 .. k - 1 : SubSeq(out, 1, k - 1)[j] = out[j]
      BY <2>1, <3>4, SubSeqProperties
    <3>7. \A j \in 1 .. k - 1 : SubSeq(Seen, 1, k - 1)[j] = SubSeq(out, 1, k - 1)[j]
      BY <3>2, <3>4, <3>5, <3>6
    <3>8. SubSeq(Seen, 1, k - 1) = SubSeq(out, 1, k - 1)
      BY <3>5, <3>6, <3>7, SeqEqual
    <3> QED BY <3>2, <3>3, <3>8
  <2> QED BY <2>2, <2>3
<1>5. \A k \in DOMAIN Seen : Follows(src, EndOf(SubSeq(Seen, 1, k - 1)), Seen[k])
  BY <1>3 DEF IsNextToken
<1>6. \A k \in DOMAIN out : LineInToken(src, SubSeq(out, 1, k - 1)) \/ out[k].loc = Place(src, out[k].from)
  BY <1>3, <1>4 DEF IsNextToken
<1>7. Alive => \A p \in EndOf(Seen) .. pos - 1 : BlankFrom(src, EndOf(Seen), p)
  BY <1>1 DEF Behind
<1> QED BY <1>5, <1>6, <1>7 DEF TokensTileSource

(***************************************************************************)
(* Of any equation, with any number of callers that peek and read in any   *)
(* order, lexer_nexttok returns the tokens each once and in order with     *)
(* nothing but spaces and comments around them, and at their places.       *)
(***************************************************************************)
THEOREM Tiling == LexerSpec => []TokensTileSource
<1>1. LexerInit => TypeOK /\ TiledInv
  BY TypeInit, TiledInit
<1>2. TypeOK /\ TiledInv /\ [LexerNext]_lexerVars => (TypeOK /\ TiledInv)'
  BY TypeStep, TiledStep
<1>3. TypeOK /\ TiledInv => TokensTileSource
  BY TiledGives
<1> QED BY <1>1, <1>2, <1>3, PTL DEF LexerSpec

=============================================================================
