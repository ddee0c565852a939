-------------------------- MODULE XmlBuilderProofs --------------------------
(***************************************************************************)
(* The theorem about XmlBuilder: for every document, however it is nested  *)
(* and wherever it ends, the builders are owned once and all released.     *)
(***************************************************************************)
EXTENDS XmlBuilder, Arithmetic, SequenceTheorems

-----------------------------------------------------------------------------
(* References.  refs are the counts of the builders b, held those that are *)
(* not from a parent; a builder with a reference keeps its children.       *)

\* no element twice
Distinct(s) == \A i, j \in DOMAIN s : s[i] = s[j] => i = j

\* the builders of the first n elements; the children of one started behind it
Tree(b, n) ==
  /\ DOMAIN b \subseteq 1 .. n
  /\ \A e \in DOMAIN b :
       /\ DOMAIN b[e] = {"xmile", "refcount", "freed", "attrs", "content", "children"}
       /\ b[e].refcount \in Int /\ b[e].freed \in BOOLEAN
       /\ b[e].children \in Seq(DOMAIN b) /\ Distinct(b[e].children)
       /\ \A k \in DOMAIN b[e].children : b[e].children[k] > e

ParentsOf(b, refs, e) == {p \in DOMAIN b : refs[p] # 0 /\ e \in Range(b[p].children)}

Counted(b, refs, held) ==
  /\ refs \in [DOMAIN b -> Nat]
  /\ held \in [DOMAIN b -> Nat]
  /\ \A e \in DOMAIN b : refs[e] = held[e] + Cardinality(ParentsOf(b, refs, e))

\* one more is held of each builder of es behind the first k
Plus(D, held, es, k) ==
  [e \in D |-> held[e] + IF \E j \in k + 1 .. Len(es) : es[j] = e THEN 1 ELSE 0]

Zero(b) == [e \in DOMAIN b |-> 0]

\* what the stack holds
Holds(b, es) == Plus(DOMAIN b, Zero(b), es, 0)

-----------------------------------------------------------------------------
(* The invariant.                                                          *)

Rising(s) == \A i, j \in DOMAIN s : i < j => s[i] < s[j]

\* the stack and the open elements; a start tag without a builder leaves the stack behind
StackOK ==
  /\ elems \in Seq(Range(elems))
  /\ openElems \in Seq(DOMAIN elems)
  /\ stack \in Seq(DOMAIN bld) /\ Rising(stack)
  /\ Len(stack) <= Len(openElems)
  /\ (Reading /\ ~ nomem) => stack = openElems

IInv ==
  /\ StackOK
  /\ Tree(bld, Len(elems))
  /\ Counted(bld, Refcounts(bld), Holds(bld, stack))
  /\ \A e \in DOMAIN bld : bld[e].refcount <= 1 /\ (bld[e].freed <=> bld[e].refcount = 0)
  /\ nomem \in BOOLEAN
  /\ returned = "overflow" => Len(openElems) > STACKLEN
  /\ returned = "underflow" => nomem
  /\ returned = "ok" => openElems = << >>
  /\ returned = "bad_xml" => stack = << >>

-----------------------------------------------------------------------------
(* Releasing in turn.                                                      *)

\* the loop of InTurn
After(a, release, es, refs, n) ==
  a = [k \in 0 .. n |-> IF k = 0 THEN refs ELSE release[es[k]][a[k - 1]]]

LEMMA AfterExists ==
  ASSUME NEW release, NEW es, NEW refs, NEW n \in Nat
  PROVE  \E a : After(a, release, es, refs, n)
<1> DEFINE Open == {k \in Nat : ~ \E a : After(a, release, es, refs, k)}
<1>1. SUFFICES ASSUME Open # {} PROVE FALSE
  OBVIOUS
<1>2. PICK n1 \in Open : \A y \in Open : n1 <= y
  <2>1. Open \in SUBSET Nat
    OBVIOUS
  <2> HIDE DEF Open
  <2> QED BY <1>1, <2>1, LeastNat
<1>3. CASE n1 = 0
  <2> DEFINE a == [k \in 0 .. 0 |-> refs]
  <2>1. a = [k \in 0 .. 0 |-> IF k = 0 THEN refs ELSE release[es[k]][a[k - 1]]]
    OBVIOUS
  <2> HIDE DEF a
  <2>2. After(a, release, es, refs, 0)
    BY <2>1 DEF After
  <2> QED BY <1>2, <1>3, <2>2
<1>4. CASE n1 # 0
  <2>1. n1 - 1 \in Nat /\ n1 - 1 \notin Open
    BY <1>2, <1>4
  <2>2. PICK g : After(g, release, es, refs, n1 - 1)
    BY <2>1
  <2> DEFINE a == [k \in 0 .. n1 |-> IF k = 0 THEN refs ELSE release[es[k]][g[k - 1]]]
  <2>3. \A k \in 0 .. n1 - 1 : a[k] = g[k]
    <3>1. \A k \in 0 .. n1 - 1 : g[k] = IF k = 0 THEN refs ELSE release[es[k]][g[k - 1]]
      BY <2>2 DEF After
    <3>2. \A k \in 0 .. n1 - 1 : k \in 0 .. n1
      BY <1>2
    <3> QED BY <3>1, <3>2
  <2>4. \A k \in 0 .. n1 : k # 0 => k - 1 \in 0 .. n1 - 1
    BY <1>2
  <2>5. a = [k \in 0 .. n1 |-> IF k = 0 THEN refs ELSE release[es[k]][a[k - 1]]]
    <3>1. \A k \in 0 .. n1 : a[k] = IF k = 0 THEN refs ELSE release[es[k]][a[k - 1]]
      BY <2>3, <2>4
    <3>2. a = [k \in 0 .. n1 |-> a[k]]
      OBVIOUS
    <3> HIDE DEF a
    <3> QED BY <3>1, <3>2
  <2> HIDE DEF a
  <2>6. After(a, release, es, refs, n1)
    BY <2>5 DEF After
  <2> QED BY <1>2, <2>6
<1> QED BY <1>3, <1>4

LEMMA InTurnIs ==
  ASSUME NEW release, NEW es, NEW refs, Len(es) \in Nat
  PROVE  \E a : After(a, release, es, refs, Len(es)) /\ InTurn(release, es, refs) = a[Len(es)]
<1> DEFINE a == CHOOSE a : After(a, release, es, refs, Len(es))
<1>1. After(a, release, es, refs, Len(es))
  BY AfterExists
<1>2. InTurn(release, es, refs) = a[Len(es)]
  BY DEF InTurn, After
<1> QED BY <1>1, <1>2

\* only the functions of the builders released matter
LEMMA InTurnSame ==
  ASSUME NEW f, NEW g, NEW es, NEW refs, Len(es) \in Nat,
         \A k \in 1 .. Len(es) : f[es[k]] = g[es[k]]
  PROVE  InTurn(f, es, refs) = InTurn(g, es, refs)
<1> DEFINE n == Len(es)
<1>1. PICK a : After(a, f, es, refs, n) /\ InTurn(f, es, refs) = a[n]
  BY InTurnIs
<1>2. PICK c : After(c, g, es, refs, n) /\ InTurn(g, es, refs) = c[n]
  BY InTurnIs
<1>3. /\ n \in Nat
      /\ \A k \in 0 .. n : a[k] = IF k = 0 THEN refs ELSE f[es[k]][a[k - 1]]
      /\ \A k \in 0 .. n : c[k] = IF k = 0 THEN refs ELSE f[es[k]][c[k - 1]]
  <2>1. \A k \in 0 .. n : a[k] = IF k = 0 THEN refs ELSE f[es[k]][a[k - 1]]
    BY <1>1 DEF After
  <2>2. \A k \in 0 .. n : c[k] = IF k = 0 THEN refs ELSE g[es[k]][c[k - 1]]
    BY <1>2 DEF After
  <2>3. \A k \in 0 .. n : k # 0 => k \in 1 .. n
    OBVIOUS
  <2> QED BY <2>1, <2>2, <2>3
<1> HIDE DEF n
<1> DEFINE Bad == {k \in 0 .. n : a[k] # c[k]}
<1>4. Bad = {}
  <2> SUFFICES ASSUME Bad # {} PROVE FALSE
    OBVIOUS
  <2>1. Bad \in SUBSET Nat
    BY <1>3
  <2> HIDE DEF Bad
  <2>2. PICK k \in Bad : \A y \in Bad : k <= y
    BY <2>1, LeastNat
  <2>3. k \in 0 .. n /\ a[k] # c[k]
    BY DEF Bad
  <2>4. k # 0
    BY <1>3, <2>3
  <2>5. k - 1 \in 0 .. n /\ ~ (k <= k - 1)
    BY <1>3, <2>3, <2>4
  <2>6. a[k - 1] = c[k - 1]
    BY <2>2, <2>5 DEF Bad
  <2> QED BY <1>3, <2>3, <2>4, <2>6
<1>5. n \in 0 .. n
  BY <1>3
<1> QED BY <1>1, <1>2, <1>4, <1>5 DEF n

-----------------------------------------------------------------------------
(* The function that releases.                                             *)

Released(f, b, e, refs) ==
  LET less == [refs EXCEPT ![e] = @ - 1]
  IN  IF refs[e] # 1 THEN less ELSE InTurn(f, b[e].children, less)

Releases(f, b, S) == f = [e \in S |-> [refs \in [DOMAIN b -> Int] |-> Released(f, b, e, refs)]]

LEMMA ReleasesExists ==
  ASSUME NEW b, NEW n \in Nat, Tree(b, n)
  PROVE  \E f : Releases(f, b, DOMAIN b)
<1> DEFINE From(p) == {e \in DOMAIN b : e >= p}
           T == {p \in 1 .. n : \E f : Releases(f, b, From(p))}
<1>1. \A e \in DOMAIN b : e \in 1 .. n
  BY DEF Tree
<1>2. \E f : Releases(f, b, From(n + 1))
  <2>1. From(n + 1) = {}
    BY <1>1
  <2> HIDE DEF From
  <2> DEFINE f == [e \in {} |-> n]
  <2>2. Releases(f, b, {})
    BY DEF Releases
  <2> QED BY <2>1, <2>2
<1>3. ASSUME NEW p \in 1 .. n, NEW g, Releases(g, b, From(p + 1))
      PROVE  \E f : Releases(f, b, From(p))
  <2> DEFINE f == [e \in From(p) |-> [refs \in [DOMAIN b -> Int] |-> Released(g, b, e, refs)]]
  <2>1. \A e \in From(p + 1) : e \in From(p)
    BY <1>1
  <2>2. \A e \in From(p + 1) : f[e] = g[e]
    BY <1>3, <2>1 DEF Releases
  <2>3. ASSUME NEW e \in From(p), NEW refs PROVE Released(f, b, e, refs) = Released(g, b, e, refs)
    <3>1. b[e].children \in Seq(DOMAIN b) /\ \A k \in DOMAIN b[e].children : b[e].children[k] > e
      BY DEF Tree
    <3>2. /\ Len(b[e].children) \in Nat
          /\ \A k \in 1 .. Len(b[e].children) : b[e].children[k] \in DOMAIN b /\ b[e].children[k] > e
      BY <3>1
    <3>3. \A k \in 1 .. Len(b[e].children) : b[e].children[k] \in From(p + 1)
      BY <1>1, <3>2
    <3>4. \A k \in 1 .. Len(b[e].children) : f[b[e].children[k]] = g[b[e].children[k]]
      BY <2>2, <3>3
    <3> HIDE DEF f
    <3>5. \A r : InTurn(f, b[e].children, r) = InTurn(g, b[e].children, r)
      BY <3>2, <3>4, InTurnSame
    <3> QED BY <3>5 DEF Released
  <2>4. f = [e \in From(p) |-> [refs \in [DOMAIN b -> Int] |-> Released(f, b, e, refs)]]
    <3> DEFINE h == [e \in From(p) |-> [refs \in [DOMAIN b -> Int] |-> Released(f, b, e, refs)]]
    <3>1. \A e \in From(p) : f[e] = h[e]
      <4> TAKE e \in From(p)
      <4>1. f[e] = [refs \in [DOMAIN b -> Int] |-> Released(g, b, e, refs)]
        OBVIOUS
      <4>2. h[e] = [refs \in [DOMAIN b -> Int] |-> Released(f, b, e, refs)]
        OBVIOUS
      <4> HIDE DEF f, h
      <4> QED BY <2>3, <4>1, <4>2
    <3>2. f = [e \in From(p) |-> f[e]] /\ h = [e \in From(p) |-> h[e]]
      OBVIOUS
    <3>3. f = h
      <4> HIDE DEF f, h
      <4> QED BY <3>1, <3>2
    <3> QED BY <3>3
  <2> HIDE DEF f
  <2>5. Releases(f, b, From(p))
    BY <2>4 DEF Releases
  <2> QED BY <2>5
<1>4. ASSUME NEW p \in 1 .. n, \A q \in p + 1 .. n : q \in T PROVE p \in T
  <2> HIDE DEF From
  <2>1. CASE p = n
    BY <1>2, <1>3, <2>1
  <2>2. CASE p # n
    <3>1. p + 1 \in p + 1 .. n
      BY <2>2
    <3> QED BY <1>3, <1>4, <3>1
  <2> QED BY <2>1, <2>2
<1>5. CASE n = 0
  <2>1. From(1) = From(n + 1)
    BY <1>5
  <2>2. From(1) = DOMAIN b
    BY <1>1
  <2> HIDE DEF From
  <2> QED BY <1>2, <2>1, <2>2
<1>6. CASE n # 0
  <2>1. 1 \in 1 .. n
    BY <1>6
  <2>2. 1 \in T
    <3> HIDE DEF T
    <3> QED BY <1>4, <2>1, Descending
  <2>3. From(1) = DOMAIN b
    BY <1>1
  <2> HIDE DEF From
  <2> QED BY <2>2, <2>3
<1> QED BY <1>5, <1>6

LEMMA ReleasesIs ==
  ASSUME NEW b, NEW n \in Nat, Tree(b, n)
  PROVE  /\ Releases(releases(b), b, DOMAIN b)
         /\ \A e \in DOMAIN b : \A refs \in [DOMAIN b -> Int] :
              releases(b)[e][refs] = Released(releases(b), b, e, refs)
<1>1. releases(b) = CHOOSE f : Releases(f, b, DOMAIN b)
  BY DEF releases, Releases, Released
<1>2. Releases(releases(b), b, DOMAIN b)
  BY <1>1, ReleasesExists
<1> DEFINE f == releases(b)
<1>3. f = [e \in DOMAIN b |-> [refs \in [DOMAIN b -> Int] |-> Released(f, b, e, refs)]]
  BY <1>2 DEF Releases
<1> HIDE DEF f
<1>4. ASSUME NEW e \in DOMAIN b, NEW refs \in [DOMAIN b -> Int]
      PROVE  f[e][refs] = Released(f, b, e, refs)
  <2>1. f[e] = [r \in [DOMAIN b -> Int] |-> Released(f, b, e, r)]
    BY <1>3
  <2> QED BY <2>1
<1> QED BY <1>2, <1>4 DEF f

-----------------------------------------------------------------------------
(* What a release does to the counts.                                      *)

Less(held, e) == [held EXCEPT ![e] = @ - 1]

\* a reference held of e is released: the counts are those without it
Sound(f, b, e) ==
  \A refs, held \in [DOMAIN b -> Nat] :
    Counted(b, refs, held) /\ held[e] >= 1 =>
      /\ Counted(b, f[e][refs], Less(held, e))
      /\ \A x \in DOMAIN b : f[e][refs][x] <= refs[x]

LEMMA ParentsFinite ==
  ASSUME NEW b, NEW n \in Nat, Tree(b, n), NEW refs, NEW e
  PROVE  /\ IsFiniteSet(ParentsOf(b, refs, e))
         /\ Cardinality(ParentsOf(b, refs, e)) \in Nat
<1>1. ParentsOf(b, refs, e) \in SUBSET (1 .. n)
  BY DEF ParentsOf, Tree
<1>2. IsFiniteSet(1 .. n)
  BY FS_Interval
<1> QED BY <1>1, <1>2, FS_Subset, FS_CardinalityType

\* e keeps another reference
LEMMA LessCounts ==
  ASSUME NEW b, NEW n \in Nat, Tree(b, n), NEW e \in DOMAIN b,
         NEW refs, NEW held, Counted(b, refs, held), held[e] >= 1, refs[e] # 1
  PROVE  Counted(b, Less(refs, e), Less(held, e))
<1>1. /\ refs \in [DOMAIN b -> Nat] /\ held \in [DOMAIN b -> Nat]
      /\ \A x \in DOMAIN b : refs[x] = held[x] + Cardinality(ParentsOf(b, refs, x))
      /\ \A x \in DOMAIN b : Cardinality(ParentsOf(b, refs, x)) \in Nat
  BY ParentsFinite DEF Counted
<1>2. refs[e] \in Nat /\ held[e] \in Nat /\ refs[e] >= held[e]
  BY <1>1
<1>3. refs[e] - 1 \in Nat /\ held[e] - 1 \in Nat /\ refs[e] # 0 /\ refs[e] - 1 # 0
  BY <1>2
<1>4. /\ Less(refs, e) \in [DOMAIN b -> Nat] /\ Less(held, e) \in [DOMAIN b -> Nat]
      /\ \A x \in DOMAIN b : Less(refs, e)[x] = (IF x = e THEN refs[e] - 1 ELSE refs[x])
      /\ \A x \in DOMAIN b : Less(held, e)[x] = (IF x = e THEN held[e] - 1 ELSE held[x])
  BY <1>1, <1>3 DEF Less
<1>5. \A x : ParentsOf(b, Less(refs, e), x) = ParentsOf(b, refs, x)
  BY <1>3, <1>4 DEF ParentsOf
<1>6. ASSUME NEW x \in DOMAIN b
      PROVE  Less(refs, e)[x] = Less(held, e)[x] + Cardinality(ParentsOf(b, Less(refs, e), x))
  <2>1. refs[x] = held[x] + Cardinality(ParentsOf(b, refs, x))
    BY <1>1
  <2>2. Cardinality(ParentsOf(b, refs, x)) \in Nat /\ refs[x] \in Nat /\ held[x] \in Nat
    BY <1>1
  <2>3. ParentsOf(b, Less(refs, e), x) = ParentsOf(b, refs, x)
    BY <1>5
  <2> QED BY <1>4, <2>1, <2>2, <2>3
<1> QED BY <1>4, <1>6 DEF Counted

\* e is freed, and the references to its children are left
LEMMA FreedCounts ==
  ASSUME NEW b, NEW n \in Nat, Tree(b, n), NEW e \in DOMAIN b,
         NEW refs, NEW held, Counted(b, refs, held), held[e] >= 1, refs[e] = 1
  PROVE  Counted(b, Less(refs, e), Plus(DOMAIN b, Less(held, e), b[e].children, 0))
<1> DEFINE D == DOMAIN b
           ch == b[e].children
           less == Less(refs, e)
           more == Plus(D, Less(held, e), ch, 0)
<1>1. /\ refs \in [D -> Nat] /\ held \in [D -> Nat]
      /\ \A x \in D : refs[x] = held[x] + Cardinality(ParentsOf(b, refs, x))
      /\ \A x \in D : IsFiniteSet(ParentsOf(b, refs, x)) /\ Cardinality(ParentsOf(b, refs, x)) \in Nat
  BY ParentsFinite DEF Counted
<1>2. held[e] = 1 /\ Cardinality(ParentsOf(b, refs, e)) = 0
  <2>1. refs[e] = held[e] + Cardinality(ParentsOf(b, refs, e))
        /\ held[e] \in Nat /\ Cardinality(ParentsOf(b, refs, e)) \in Nat
    BY <1>1
  <2> QED BY <2>1
<1>3. ParentsOf(b, refs, e) = {}
  BY <1>1, <1>2, FS_EmptySet
<1>4. /\ less \in [D -> Nat] /\ less[e] = 0
      /\ \A x \in D : x # e => less[x] = refs[x]
  BY <1>1 DEF Less
<1>5. /\ Less(held, e) \in [D -> Nat] /\ Less(held, e)[e] = 0
      /\ \A x \in D : x # e => Less(held, e)[x] = held[x]
  BY <1>1, <1>2 DEF Less
<1>6. /\ ch \in Seq(D) /\ Len(ch) \in Nat /\ DOMAIN ch = 1 .. Len(ch) /\ e \notin Range(ch)
  <2>1. ch \in Seq(D) /\ \A k \in DOMAIN ch : ch[k] > e
    BY DEF Tree
  <2>2. e \in Nat /\ ~ (e > e)
    BY DEF Tree
  <2> QED BY <2>1, <2>2 DEF Range
<1>7. /\ more \in [D -> Nat]
      /\ \A x \in D : more[x] = Less(held, e)[x] + IF x \in Range(ch) THEN 1 ELSE 0
  <2>1. \A x \in D : (\E j \in 0 + 1 .. Len(ch) : ch[j] = x) <=> x \in Range(ch)
    BY <1>6 DEF Range
  <2> QED BY <1>5, <2>1 DEF Plus
<1>8. \A x : ParentsOf(b, less, x) = ParentsOf(b, refs, x) \ {e}
  BY <1>4 DEF ParentsOf
<1>9. \A x : e \in ParentsOf(b, refs, x) <=> x \in Range(ch)
  BY DEF ParentsOf
<1> HIDE DEF less, more, ch
<1>10. ASSUME NEW x \in D PROVE less[x] = more[x] + Cardinality(ParentsOf(b, less, x))
  <2>1. CASE x = e
    <3>1. Cardinality(ParentsOf(b, less, e)) = 0
      <4>1. ParentsOf(b, less, e) = {}
        BY <1>3, <1>8
      <4> QED BY <4>1, FS_EmptySet
    <3>2. more[e] = 0
      BY <1>5, <1>6, <1>7
    <3> QED BY <1>4, <2>1, <3>1, <3>2
  <2>2. CASE x # e /\ x \in Range(ch)
    <3>1. Cardinality(ParentsOf(b, less, x)) = Cardinality(ParentsOf(b, refs, x)) - 1
      <4>1. e \in ParentsOf(b, refs, x) /\ IsFiniteSet(ParentsOf(b, refs, x))
        BY <1>1, <1>9, <2>2
      <4>2. Cardinality(ParentsOf(b, refs, x) \ {e}) = Cardinality(ParentsOf(b, refs, x)) - 1
        BY <4>1, FS_RemoveElement
      <4> QED BY <1>8, <4>2
    <3>2. more[x] = held[x] + 1 /\ less[x] = refs[x]
      BY <1>4, <1>5, <1>7, <2>2
    <3>3. refs[x] = held[x] + Cardinality(ParentsOf(b, refs, x))
          /\ held[x] \in Nat /\ Cardinality(ParentsOf(b, refs, x)) \in Nat
      BY <1>1
    <3> QED BY <3>1, <3>2, <3>3
  <2>3. CASE x # e /\ x \notin Range(ch)
    <3>1. ParentsOf(b, less, x) = ParentsOf(b, refs, x)
      BY <1>8, <1>9, <2>3
    <3>2. more[x] = held[x] + 0 /\ less[x] = refs[x]
      BY <1>4, <1>5, <1>7, <2>3
    <3>3. refs[x] = held[x] + Cardinality(ParentsOf(b, refs, x)) /\ held[x] \in Nat
      BY <1>1
    <3> QED BY <3>1, <3>2, <3>3
  <2> QED BY <2>1, <2>2, <2>3
<1>11. Counted(b, less, more)
  BY <1>4, <1>7, <1>10 DEF Counted
<1> QED BY <1>11 DEF less, more, ch

LEMMA PlusStep ==
  ASSUME NEW D, NEW held \in [D -> Nat], NEW es \in Seq(D), Distinct(es), NEW k \in 1 .. Len(es)
  PROVE  /\ Plus(D, held, es, k - 1) \in [D -> Nat]
         /\ Plus(D, held, es, k - 1)[es[k]] >= 1
         /\ Less(Plus(D, held, es, k - 1), es[k]) = Plus(D, held, es, k)
<1> DEFINE P == Plus(D, held, es, k - 1)
           Q == Plus(D, held, es, k)
<1>1. Len(es) \in Nat /\ DOMAIN es = 1 .. Len(es) /\ es[k] \in D /\ k \in k - 1 + 1 .. Len(es)
  OBVIOUS
<1>2. P \in [D -> Nat] /\ Q \in [D -> Nat]
  BY DEF Plus
<1>3. P[es[k]] = held[es[k]] + 1
  BY <1>1 DEF Plus
<1>4. Q[es[k]] = held[es[k]]
  <2>1. ~ \E j \in k + 1 .. Len(es) : es[j] = es[k]
    BY <1>1 DEF Distinct
  <2> QED BY <1>1, <2>1 DEF Plus
<1>5. ASSUME NEW x \in D, x # es[k] PROVE P[x] = Q[x]
  <2>1. (\E j \in k - 1 + 1 .. Len(es) : es[j] = x) <=> (\E j \in k + 1 .. Len(es) : es[j] = x)
    <3>1. \A j \in k - 1 + 1 .. Len(es) : j = k \/ j \in k + 1 .. Len(es)
      BY <1>1
    <3>2. \A j \in k + 1 .. Len(es) : j \in k - 1 + 1 .. Len(es)
      BY <1>1
    <3> QED BY <1>5, <3>1, <3>2
  <2> QED BY <2>1 DEF Plus
<1> HIDE DEF P, Q
<1>6. held[es[k]] \in Nat
  BY <1>1
<1>7. Less(P, es[k]) = Q
  <2>1. \A x \in D : Less(P, es[k])[x] = Q[x]
    <3> TAKE x \in D
    <3>1. Less(P, es[k])[x] = IF x = es[k] THEN P[x] - 1 ELSE P[x]
      BY <1>2 DEF Less
    <3>2. x = es[k] => P[x] - 1 = Q[x]
      BY <1>3, <1>4, <1>6
    <3> QED BY <1>5, <3>1, <3>2
  <2>2. Less(P, es[k]) = [x \in D |-> Less(P, es[k])[x]] /\ Q = [x \in D |-> Q[x]]
    BY <1>2 DEF Less
  <2> QED BY <2>1, <2>2
<1> QED BY <1>2, <1>3, <1>6, <1>7 DEF P, Q

LEMMA PlusNone ==
  ASSUME NEW D, NEW held \in [D -> Nat], NEW es \in Seq(D)
  PROVE  Plus(D, held, es, Len(es)) = held
<1>1. Len(es) \in Nat /\ \A j \in Len(es) + 1 .. Len(es) : FALSE
  OBVIOUS
<1>2. \A x \in D : Plus(D, held, es, Len(es))[x] = held[x]
  BY <1>1 DEF Plus
<1>3. Plus(D, held, es, Len(es)) = [x \in D |-> Plus(D, held, es, Len(es))[x]] /\ held = [x \in D |-> held[x]]
  BY DEF Plus
<1> QED BY <1>2, <1>3

LEMMA InTurnCounts ==
  ASSUME NEW f, NEW b, NEW es \in Seq(DOMAIN b), Distinct(es),
         NEW refs, NEW held \in [DOMAIN b -> Nat],
         Counted(b, refs, Plus(DOMAIN b, held, es, 0)),
         \A k \in 1 .. Len(es) : Sound(f, b, es[k])
  PROVE  /\ Counted(b, InTurn(f, es, refs), held)
         /\ \A x \in DOMAIN b : InTurn(f, es, refs)[x] <= refs[x]
<1> DEFINE n == Len(es)
           D == DOMAIN b
<1>1. n \in Nat
  OBVIOUS
<1>2. PICK a : After(a, f, es, refs, n) /\ InTurn(f, es, refs) = a[n]
  BY <1>1, InTurnIs
<1>3. /\ \A k \in 0 .. n : a[k] = IF k = 0 THEN refs ELSE f[es[k]][a[k - 1]]
  BY <1>2 DEF After
<1> DEFINE OK(k) == /\ Counted(b, a[k], Plus(D, held, es, k))
                    /\ \A x \in D : a[k][x] <= refs[x]
           Bad == {k \in 0 .. n : ~ OK(k)}
<1>4. refs \in [D -> Nat]
  BY DEF Counted
<1>5. OK(0)
  <2>1. a[0] = refs
    BY <1>1, <1>3
  <2>2. \A x \in D : refs[x] <= refs[x]
    BY <1>4
  <2> QED BY <2>1, <2>2
<1>6. ASSUME NEW k \in 1 .. n, OK(k - 1) PROVE OK(k)
  <2>1. a[k] = f[es[k]][a[k - 1]]
    BY <1>1, <1>3
  <2> DEFINE P == Plus(D, held, es, k - 1)
  <2>2. P \in [D -> Nat] /\ P[es[k]] >= 1 /\ Less(P, es[k]) = Plus(D, held, es, k)
    BY PlusStep
  <2>3. Counted(b, a[k - 1], P) /\ a[k - 1] \in [D -> Nat] /\ \A x \in D : a[k - 1][x] <= refs[x]
    BY <1>6 DEF Counted
  <2>4. Sound(f, b, es[k])
    OBVIOUS
  <2>5. /\ Counted(b, f[es[k]][a[k - 1]], Less(P, es[k]))
        /\ \A x \in D : f[es[k]][a[k - 1]][x] <= a[k - 1][x]
    <3> HIDE DEF P
    <3> QED BY <2>2, <2>3, <2>4 DEF Sound
  <2>6. a[k] \in [D -> Nat]
    BY <2>1, <2>5 DEF Counted
  <2>7. \A x \in D : a[k][x] <= refs[x]
    <3> TAKE x \in D
    <3>1. a[k][x] <= a[k - 1][x] /\ a[k - 1][x] <= refs[x]
          /\ a[k][x] \in Nat /\ a[k - 1][x] \in Nat /\ refs[x] \in Nat
      BY <1>4, <2>1, <2>3, <2>5, <2>6
    <3> QED BY <3>1
  <2> QED BY <2>1, <2>2, <2>5, <2>7
<1>7. Bad = {}
  <2> HIDE DEF OK
  <2> SUFFICES ASSUME Bad # {} PROVE FALSE
    OBVIOUS
  <2>1. Bad \in SUBSET Nat
    BY <1>1
  <2> HIDE DEF Bad
  <2>2. PICK k \in Bad : \A y \in Bad : k <= y
    BY <2>1, LeastNat
  <2>3. k \in 0 .. n /\ ~ OK(k)
    BY DEF Bad
  <2>4. k # 0
    BY <1>5, <2>3
  <2>5. k - 1 \in 0 .. n /\ ~ (k <= k - 1) /\ k \in 1 .. n
    BY <1>1, <2>3, <2>4
  <2>6. OK(k - 1)
    BY <2>2, <2>5 DEF Bad
  <2> QED BY <1>6, <2>3, <2>5, <2>6
<1>8. OK(n)
  <2>1. n \in 0 .. n
    BY <1>1
  <2> HIDE DEF OK
  <2> QED BY <1>7, <2>1
<1>9. Plus(D, held, es, n) = held
  BY PlusNone
<1> QED BY <1>2, <1>8, <1>9

LEMMA ReleaseSound ==
  ASSUME NEW b, NEW n \in Nat, Tree(b, n)
  PROVE  \A e \in DOMAIN b : Sound(releases(b), b, e)
<1> DEFINE f == releases(b)
           D == DOMAIN b
           T == {p \in 1 .. n : p \in D => Sound(f, b, p)}
<1>1. ASSUME NEW e \in D, \A c \in D : c > e => Sound(f, b, c) PROVE Sound(f, b, e)
  <2> SUFFICES ASSUME NEW refs \in [D -> Nat], NEW held \in [D -> Nat],
                      Counted(b, refs, held), held[e] >= 1
               PROVE  /\ Counted(b, f[e][refs], Less(held, e))
                      /\ \A x \in D : f[e][refs][x] <= refs[x]
    BY DEF Sound
  <2>1. refs \in [D -> Int]
    OBVIOUS
  <2>2. f[e][refs] = Released(f, b, e, refs)
    BY <2>1, ReleasesIs
  <2>3. \A x \in D : Less(refs, e)[x] <= refs[x]
    BY DEF Less
  <2>4. CASE refs[e] # 1
    <3>1. f[e][refs] = Less(refs, e)
      BY <2>2, <2>4 DEF Released, Less
    <3> QED BY <2>3, <2>4, <3>1, LessCounts
  <2>5. CASE refs[e] = 1
    <3> DEFINE ch == b[e].children
    <3>1. f[e][refs] = InTurn(f, ch, Less(refs, e))
      BY <2>2, <2>5 DEF Released, Less
    <3>2. Counted(b, Less(refs, e), Plus(D, Less(held, e), ch, 0))
      BY <2>5, FreedCounts
    <3>3. ch \in Seq(D) /\ Distinct(ch) /\ \A k \in DOMAIN ch : ch[k] > e
      BY DEF Tree
    <3>4. \A k \in 1 .. Len(ch) : Sound(f, b, ch[k])
      BY <1>1, <3>3
    <3>5. Less(held, e) \in [D -> Nat] /\ Less(refs, e) \in [D -> Nat]
      BY <2>5 DEF Less
    <3> HIDE DEF ch, f
    <3>6. /\ Counted(b, InTurn(f, ch, Less(refs, e)), Less(held, e))
          /\ \A x \in D : InTurn(f, ch, Less(refs, e))[x] <= Less(refs, e)[x]
      BY <3>2, <3>3, <3>4, <3>5, InTurnCounts
    <3>7. \A x \in D : f[e][refs][x] <= refs[x]
      <4> TAKE x \in D
      <4>1. f[e][refs] \in [D -> Nat]
        BY <3>1, <3>6 DEF Counted
      <4>2. f[e][refs][x] <= Less(refs, e)[x] /\ Less(refs, e)[x] <= refs[x]
            /\ f[e][refs][x] \in Nat /\ Less(refs, e)[x] \in Nat /\ refs[x] \in Nat
        BY <2>3, <3>1, <3>5, <3>6, <4>1
      <4> QED BY <4>2
    <3> QED BY <3>1, <3>6, <3>7
  <2> QED BY <2>4, <2>5
<1>2. D \subseteq 1 .. n
  BY DEF Tree
<1> HIDE DEF f
<1>3. ASSUME NEW p \in 1 .. n, \A q \in p + 1 .. n : q \in T PROVE p \in T
  <2> SUFFICES ASSUME p \in D PROVE Sound(f, b, p)
    OBVIOUS
  <2>1. \A c \in D : c > p => c \in p + 1 .. n
    BY <1>2
  <2> QED BY <1>1, <1>3, <2>1
<1>4. \A p \in 1 .. n : p \in T
  <2> HIDE DEF T
  <2> QED BY <1>3, Descending
<1> QED BY <1>2, <1>4 DEF f

-----------------------------------------------------------------------------
(* The builders after a release.                                           *)

LEMMA HoldsIs ==
  ASSUME NEW b, NEW es \in Seq(DOMAIN b)
  PROVE  /\ Holds(b, es) \in [DOMAIN b -> Nat]
         /\ \A x \in DOMAIN b : Holds(b, es)[x] = IF x \in Range(es) THEN 1 ELSE 0
<1>1. \A x \in DOMAIN b : (\E j \in 0 + 1 .. Len(es) : es[j] = x) <=> x \in Range(es)
  <2>1. DOMAIN es = 0 + 1 .. Len(es)
    OBVIOUS
  <2> QED BY <2>1 DEF Range
<1> QED BY <1>1 DEF Holds, Plus, Zero

\* a builder that is not held and has no parent is freed, so without a hold all are
LEMMA AllFreed ==
  ASSUME NEW b, NEW n \in Nat, Tree(b, n), NEW refs, Counted(b, refs, Zero(b))
  PROVE  \A e \in DOMAIN b : refs[e] = 0
<1> DEFINE Kept == {e \in DOMAIN b : refs[e] # 0}
<1>1. SUFFICES ASSUME Kept # {} PROVE FALSE
  OBVIOUS
<1>2. Kept \in SUBSET Nat
  BY DEF Tree
<1> HIDE DEF Kept
<1>3. PICK e \in Kept : \A y \in Kept : e <= y
  BY <1>1, <1>2, LeastNat
<1>4. e \in DOMAIN b /\ refs[e] # 0
  BY DEF Kept
<1>5. refs[e] = 0 + Cardinality(ParentsOf(b, refs, e))
  BY <1>4 DEF Counted, Zero
<1>6. ParentsOf(b, refs, e) # {}
  BY <1>4, <1>5, FS_EmptySet
<1>7. PICK p \in DOMAIN b : refs[p] # 0 /\ e \in Range(b[p].children)
  BY <1>6 DEF ParentsOf
<1>8. e > p
  <2>1. \A k \in DOMAIN b[p].children : b[p].children[k] > p
    BY DEF Tree
  <2> QED BY <1>7, <2>1 DEF Range
<1>9. p \in Kept /\ p \in Nat /\ e \in Nat
  BY <1>2, <1>4, <1>7 DEF Kept
<1> QED BY <1>3, <1>8, <1>9

\* builders with the same children have the same parents
LEMMA SameParents ==
  ASSUME NEW b, NEW c, NEW refs, NEW held, DOMAIN c = DOMAIN b,
         \A e \in DOMAIN b : c[e].children = b[e].children
  PROVE  Counted(c, refs, held) <=> Counted(b, refs, held)
<1>1. \A e : ParentsOf(c, refs, e) = ParentsOf(b, refs, e)
  BY DEF ParentsOf
<1> QED BY <1>1 DEF Counted

LEMMA UnrefIs ==
  ASSUME NEW b, NEW n \in Nat, Tree(b, n), NEW es \in Seq(DOMAIN b), Distinct(es),
         NEW held \in [DOMAIN b -> Nat],
         Counted(b, Refcounts(b), Plus(DOMAIN b, held, es, 0)),
         \A e \in DOMAIN b : b[e].freed <=> b[e].refcount = 0
  PROVE  LET c == unref(b, es)
         IN  /\ DOMAIN c = DOMAIN b
             /\ Tree(c, n)
             /\ Counted(c, Refcounts(c), held)
             /\ \A e \in DOMAIN b : /\ c[e].refcount <= b[e].refcount
                                    /\ c[e].freed <=> c[e].refcount = 0
<1> DEFINE D == DOMAIN b
           left == InTurn(releases(b), es, Refcounts(b))
           c == unref(b, es)
<1>1. /\ Counted(b, left, held)
      /\ \A x \in D : left[x] <= Refcounts(b)[x]
  <2>1. \A k \in 1 .. Len(es) : Sound(releases(b), b, es[k])
    BY ReleaseSound
  <2> QED BY <2>1, InTurnCounts
<1>2. left \in [D -> Nat]
  BY <1>1 DEF Counted
<1>3. c = [e \in D |-> [b[e] EXCEPT !.refcount = left[e], !.freed = @ \/ left[e] <= 0]]
  BY DEF unref
<1> HIDE DEF left, c
<1>4. ASSUME NEW e \in D
      PROVE  /\ DOMAIN c[e] = DOMAIN b[e]
             /\ c[e].refcount = left[e] /\ c[e].children = b[e].children
             /\ c[e].freed = (b[e].freed \/ left[e] <= 0)
  <2>1. /\ DOMAIN b[e] = {"xmile", "refcount", "freed", "attrs", "content", "children"}
        /\ b[e].freed \in BOOLEAN
    BY DEF Tree
  <2>2. c[e] = [b[e] EXCEPT !.refcount = left[e], !.freed = @ \/ left[e] <= 0]
    BY <1>3
  <2> QED BY <2>1, <2>2
<1>5. DOMAIN c = D
  BY <1>3
<1>6. Refcounts(c) = left
  <2>1. Refcounts(c) = [e \in D |-> left[e]]
    BY <1>4, <1>5 DEF Refcounts
  <2> QED BY <1>2, <2>1
<1>7. Tree(c, n)
  <2>1. ASSUME NEW e \in D
        PROVE  /\ DOMAIN c[e] = {"xmile", "refcount", "freed", "attrs", "content", "children"}
               /\ c[e].refcount \in Int /\ c[e].freed \in BOOLEAN
               /\ c[e].children \in Seq(D) /\ Distinct(c[e].children)
               /\ \A k \in DOMAIN c[e].children : c[e].children[k] > e
    <3>1. left[e] \in Int
      BY <1>2
    <3>2. c[e].freed \in BOOLEAN
      BY <1>4
    <3> QED BY <1>4, <3>1, <3>2 DEF Tree
  <2> QED BY <1>5, <2>1 DEF Tree
<1>8. Counted(c, Refcounts(c), held)
  BY <1>1, <1>4, <1>5, <1>6, SameParents
<1>9. ASSUME NEW e \in D
      PROVE  c[e].refcount <= b[e].refcount /\ (c[e].freed <=> c[e].refcount = 0)
  <2>1. left[e] <= b[e].refcount /\ left[e] \in Nat
    BY <1>1, <1>2 DEF Refcounts
  <2>2. Refcounts(b)[e] \in Nat /\ b[e].refcount = Refcounts(b)[e]
    BY DEF Counted, Refcounts
  <2>3. b[e].freed <=> b[e].refcount = 0
    OBVIOUS
  <2>4. left[e] <= 0 <=> left[e] = 0
    BY <2>1
  <2>5. b[e].refcount = 0 => left[e] = 0
    BY <2>1
  <2> QED BY <1>4, <2>1, <2>3, <2>4, <2>5
<1> QED BY <1>5, <1>7, <1>8, <1>9 DEF c

-----------------------------------------------------------------------------
(* The steps.                                                              *)

LEMMA InitOK == BuilderInit => IInv
<1> SUFFICES ASSUME BuilderInit PROVE IInv
  OBVIOUS
<1>1. /\ elems = << >> /\ openElems = << >> /\ stack = << >> /\ bld = << >>
      /\ returned = "parsing" /\ nomem = FALSE
  BY DEF BuilderInit
<1>2. DOMAIN bld = {} /\ Len(elems) = 0 /\ Len(stack) = 0 /\ Len(openElems) = 0
  BY <1>1
<1>3. StackOK
  BY <1>1, <1>2 DEF StackOK, Rising, Reading
<1>4. Tree(bld, Len(elems))
  BY <1>2 DEF Tree
<1>5. Counted(bld, Refcounts(bld), Holds(bld, stack))
  BY <1>2 DEF Counted, Refcounts, Holds, Plus, Zero
<1> QED BY <1>1, <1>2, <1>3, <1>4, <1>5 DEF IInv

\* a sequence of any elements
LEMMA AnySeq ==
  ASSUME NEW s, NEW S, s \in Seq(S)
  PROVE  s \in Seq(Range(s))
BY DEF Range

LEMMA IInvFacts ==
  ASSUME IInv
  PROVE  /\ Len(elems) \in Nat /\ DOMAIN elems = 1 .. Len(elems)
         /\ Len(stack) \in Nat /\ DOMAIN stack = 1 .. Len(stack)
         /\ Len(openElems) \in Nat
         /\ DOMAIN bld \subseteq 1 .. Len(elems)
BY DEF IInv, StackOK, Tree

LEMMA OpenTagFacts ==
  ASSUME IInv, NEW tag, NEW attrs, OpenTag(tag, attrs)
  PROVE  /\ Reading
         /\ elems' \in Seq(Range(elems')) /\ Len(elems') = Len(elems) + 1
         /\ openElems' \in Seq(DOMAIN elems') /\ Len(openElems') = Len(openElems) + 1
         /\ openElems' = Append(openElems, Len(elems) + 1)
<1> DEFINE new == [depth |-> Len(openElems), tag |-> tag, attrs |-> attrs, text |-> << >>]
<1>1. /\ elems \in Seq(Range(elems)) /\ Len(elems) \in Nat
      /\ openElems \in Seq(DOMAIN elems) /\ DOMAIN elems = 1 .. Len(elems)
  BY IInvFacts DEF IInv, StackOK
<1>2. Reading /\ elems' = Append(elems, new) /\ openElems' = Append(openElems, Len(elems) + 1)
  BY DEF OpenTag
<1> HIDE DEF new
<1>3. elems' \in Seq(Range(elems) \cup {new}) /\ Len(elems') = Len(elems) + 1
  BY <1>1, <1>2
<1>4. DOMAIN elems' = 1 .. Len(elems) + 1
  BY <1>3
<1>5. openElems \in Seq(DOMAIN elems') /\ Len(elems) + 1 \in DOMAIN elems'
  <2>1. DOMAIN elems \subseteq DOMAIN elems'
    BY <1>1, <1>4
  <2> QED BY <1>1, <1>4, <2>1
<1>6. elems' \in Seq(Range(elems'))
  BY <1>3, AnySeq
<1>7. openElems' \in Seq(DOMAIN elems') /\ Len(openElems') = Len(openElems) + 1
  BY <1>2, <1>5
<1> QED BY <1>2, <1>3, <1>6, <1>7

\* what else the invariant says when nothing has been returned yet
Rest ==
  /\ \A e \in DOMAIN bld : bld[e].refcount <= 1 /\ (bld[e].freed <=> bld[e].refcount = 0)
  /\ nomem \in BOOLEAN
  /\ returned = "overflow" => Len(openElems) > STACKLEN
  /\ returned = "underflow" => nomem
  /\ returned = "ok" => openElems = << >>
  /\ returned = "bad_xml" => stack = << >>

LEMMA TreeGrows ==
  ASSUME NEW b, NEW n \in Nat, Tree(b, n)
  PROVE  Tree(b, n + 1)
<1>1. 1 .. n \subseteq 1 .. n + 1
  OBVIOUS
<1> QED BY <1>1 DEF Tree

LEMMA NomemOK ==
  ASSUME IInv, NEW tag, NEW attrs, start_element_nomem(tag, attrs)
  PROVE  IInv'
<1>1. /\ OpenTag(tag, attrs) /\ ~ nomem /\ nomem' = TRUE
      /\ stack' = stack /\ bld' = bld /\ returned' = returned
  BY DEF start_element_nomem
<1>2. /\ Reading
      /\ elems' \in Seq(Range(elems')) /\ Len(elems') = Len(elems) + 1
      /\ openElems' \in Seq(DOMAIN elems') /\ Len(openElems') = Len(openElems) + 1
  BY <1>1, OpenTagFacts
<1>3. /\ Len(elems) \in Nat /\ Len(stack) \in Nat /\ Len(openElems) \in Nat
      /\ stack \in Seq(DOMAIN bld) /\ Rising(stack) /\ Len(stack) <= Len(openElems)
  BY IInvFacts DEF IInv, StackOK
<1>4. StackOK'
  <2>1. Len(stack') <= Len(openElems')
    BY <1>1, <1>2, <1>3
  <2> QED BY <1>1, <1>2, <1>3, <2>1 DEF StackOK, Rising
<1>5. Tree(bld', Len(elems'))
  BY <1>1, <1>2, <1>3, TreeGrows DEF IInv
<1>6. Counted(bld', Refcounts(bld'), Holds(bld', stack'))
  BY <1>1 DEF IInv
<1>7. Rest'
  BY <1>1, <1>2 DEF IInv, Rest, Reading
<1> QED BY <1>4, <1>5, <1>6, <1>7 DEF IInv, Rest

LEMMA StartOK ==
  ASSUME IInv, NEW tag, NEW attrs, start_element(tag, attrs)
  PROVE  IInv'
<1> DEFINE new == Len(elems) + 1
           D == DOMAIN bld
<1>1. OpenTag(tag, attrs) /\ nomem' = nomem
  BY DEF start_element
<1>2. /\ Reading
      /\ elems' \in Seq(Range(elems')) /\ Len(elems') = Len(elems) + 1
      /\ openElems' \in Seq(DOMAIN elems') /\ Len(openElems') = Len(openElems) + 1
      /\ openElems' = Append(openElems, Len(elems) + 1)
  BY <1>1, OpenTagFacts
<1>3. /\ Len(elems) \in Nat /\ Len(stack) \in Nat /\ Len(openElems) \in Nat
      /\ stack \in Seq(D) /\ Rising(stack) /\ Len(stack) <= Len(openElems)
      /\ DOMAIN stack = 1 .. Len(stack) /\ D \subseteq 1 .. Len(elems)
      /\ Reading /\ ~ nomem => stack = openElems
  BY IInvFacts DEF IInv, StackOK
<1>4. CASE Len(stack) < STACKLEN
  <2>1. /\ bld' = [e \in D \cup {new} |-> IF e \in D THEN bld[e] ELSE NewBuilder(attrs)]
        /\ stack' = Append(stack, new) /\ returned' = returned
    BY <1>4 DEF start_element
  <2>2. new \in Nat /\ new \notin D /\ \A e \in D : e < new
    BY <1>3
  <2>3. DOMAIN bld' = D \cup {new}
    BY <2>1
  <2>4. \A e \in D : bld'[e] = bld[e]
    BY <2>1
  <2>5. bld'[new] = NewBuilder(attrs)
    BY <2>1, <2>2
  <2>6. /\ DOMAIN bld'[new] = {"xmile", "refcount", "freed", "attrs", "content", "children"}
        /\ bld'[new].refcount = 1 /\ bld'[new].freed = FALSE /\ bld'[new].children = << >>
    BY <2>5 DEF NewBuilder
  <2> HIDE DEF D, new
  <2>7. stack' \in Seq(D \cup {new}) /\ Len(stack') = Len(stack) + 1 /\ DOMAIN stack' = 1 .. Len(stack) + 1
        /\ stack'[Len(stack) + 1] = new /\ \A i \in 1 .. Len(stack) : stack'[i] = stack[i]
    BY <1>3, <2>1
  <2>8. StackOK'
    <3>1. Rising(stack')
      <4>1. ASSUME NEW i \in DOMAIN stack', NEW j \in DOMAIN stack', i < j PROVE stack'[i] < stack'[j]
        <5>1. i \in 1 .. Len(stack) /\ stack[i] \in D /\ stack'[i] = stack[i]
          BY <1>3, <2>7, <4>1
        <5>2. CASE j = Len(stack) + 1
          BY <2>2, <2>7, <5>1, <5>2
        <5>3. CASE j # Len(stack) + 1
          <6>1. j \in 1 .. Len(stack)
            BY <1>3, <2>7, <5>3
          <6> QED BY <1>3, <2>7, <4>1, <5>1, <6>1 DEF Rising
        <5> QED BY <5>2, <5>3
      <4> QED BY <4>1 DEF Rising
    <3>2. Len(stack') <= Len(openElems')
      BY <1>2, <1>3, <2>7
    <3>3. (Reading /\ ~ nomem)' => stack' = openElems'
      BY <1>1, <1>2, <1>3, <2>1 DEF new
    <3> QED BY <1>2, <2>3, <2>7, <3>1, <3>2, <3>3 DEF StackOK
  <2>9. Tree(bld', Len(elems'))
    <3>1. DOMAIN bld' \subseteq 1 .. Len(elems')
      <4>1. Len(elems') = new /\ new \in Nat /\ \A e \in D : e \in 1 .. new
        <5>1. Len(elems) \in Nat /\ Len(elems') = Len(elems) + 1 /\ \A e \in D : e \in 1 .. Len(elems)
          BY <1>2, <1>3
        <5> QED BY <5>1 DEF new
      <4>2. new \in 1 .. new
        <5>1. new = Len(elems) + 1 /\ Len(elems) \in Nat
          BY <1>3 DEF new
        <5> QED BY <5>1
      <4> QED BY <2>3, <4>1, <4>2
    <3>2. ASSUME NEW e \in D
          PROVE  /\ DOMAIN bld'[e] = {"xmile", "refcount", "freed", "attrs", "content", "children"}
                 /\ bld'[e].refcount \in Int /\ bld'[e].freed \in BOOLEAN
                 /\ bld'[e].children \in Seq(D \cup {new}) /\ Distinct(bld'[e].children)
                 /\ \A k \in DOMAIN bld'[e].children : bld'[e].children[k] > e
      <4>1. Tree(bld, Len(elems)) /\ bld'[e] = bld[e]
        BY <2>4 DEF IInv
      <4>2. bld[e].children \in Seq(D)
        BY <4>1 DEF Tree, D
      <4>3. bld[e].children \in Seq(D \cup {new})
        BY <4>2
      <4> QED BY <4>1, <4>3 DEF Tree, D
    <3>3. /\ bld'[new].refcount \in Int /\ bld'[new].freed \in BOOLEAN
          /\ bld'[new].children \in Seq(D \cup {new}) /\ Distinct(bld'[new].children)
          /\ \A k \in DOMAIN bld'[new].children : bld'[new].children[k] > new
      <4>1. DOMAIN << >> = {} /\ << >> \in Seq(D \cup {new})
        OBVIOUS
      <4>2. Distinct(bld'[new].children)
        BY <2>6, <4>1 DEF Distinct
      <4>3. \A k \in DOMAIN bld'[new].children : bld'[new].children[k] > new
        BY <2>6, <4>1
      <4>4. bld'[new].freed \in BOOLEAN
        <5>1. bld'[new].freed = FALSE
          BY <2>6
        <5> QED BY <5>1
      <4>5. bld'[new].refcount \in Int /\ bld'[new].children \in Seq(D \cup {new})
        BY <2>6, <4>1
      <4> QED BY <4>2, <4>3, <4>4, <4>5
    <3> QED BY <2>3, <2>6, <3>1, <3>2, <3>3 DEF Tree
  <2>10. Counted(bld', Refcounts(bld'), Holds(bld', stack'))
    <3> DEFINE refs == Refcounts(bld)
               refs2 == Refcounts(bld')
               held == Holds(bld, stack)
               held2 == Holds(bld', stack')
    <3>1. /\ refs \in [D -> Nat]
          /\ \A x \in D : refs[x] = held[x] + Cardinality(ParentsOf(bld, refs, x))
      BY DEF IInv, Counted, D
    <3>2. /\ \A x \in D : held[x] = IF x \in Range(stack) THEN 1 ELSE 0
      BY <1>3, HoldsIs DEF D
    <3>3. /\ held2 \in [D \cup {new} -> Nat]
          /\ \A x \in D \cup {new} : held2[x] = IF x \in Range(stack') THEN 1 ELSE 0
      BY <2>3, <2>7, HoldsIs
    <3>4. refs2 = [x \in D \cup {new} |-> IF x \in D THEN refs[x] ELSE 1]
      BY <2>2, <2>3, <2>4, <2>6 DEF Refcounts, D
    <3>5. Range(stack') = Range(stack) \cup {new}
      <4>1. \A x \in Range(stack') : x \in Range(stack) \cup {new}
        <5>1. \A j \in 1 .. Len(stack) + 1 : j \in 1 .. Len(stack) \/ j = Len(stack) + 1
          BY <1>3
        <5> QED BY <1>3, <2>7, <5>1 DEF Range
      <4>2. \A x \in Range(stack) : x \in Range(stack')
        <5>1. \A j \in 1 .. Len(stack) : j \in 1 .. Len(stack) + 1
          BY <1>3
        <5> QED BY <1>3, <2>7, <5>1 DEF Range
      <4>3. new \in Range(stack')
        <5>1. Len(stack) + 1 \in 1 .. Len(stack) + 1
          BY <1>3
        <5> QED BY <2>7, <5>1 DEF Range
      <4> QED BY <4>1, <4>2, <4>3
    <3>6. ASSUME NEW x PROVE ParentsOf(bld', refs2, x) = ParentsOf(bld, refs, x)
      <4>1. x \notin Range(bld'[new].children)
        BY <2>6 DEF Range
      <4>2. \A p \in D : refs2[p] = refs[p] /\ bld'[p].children = bld[p].children
        BY <2>4, <3>4
      <4> QED BY <2>3, <4>1, <4>2 DEF ParentsOf, D
    <3>7. ParentsOf(bld, refs, new) = {}
      <4>1. \A p \in D : bld[p].children \in Seq(D)
        BY DEF IInv, Tree, D
      <4>2. \A p \in D : new \notin Range(bld[p].children)
        BY <2>2, <4>1 DEF Range
      <4> QED BY <4>2 DEF ParentsOf, D
    <3> HIDE DEF refs, refs2, held, held2
    <3>8. ASSUME NEW x \in D \cup {new} PROVE refs2[x] = held2[x] + Cardinality(ParentsOf(bld', refs2, x))
      <4>1. CASE x \in D
        <5>1. held2[x] = held[x] /\ refs2[x] = refs[x]
          BY <2>2, <3>2, <3>3, <3>4, <3>5, <4>1
        <5> QED BY <3>1, <3>6, <4>1, <5>1
      <4>2. CASE x = new
        <5>1. held2[x] = 1 /\ refs2[x] = 1
          BY <2>2, <3>3, <3>4, <3>5, <4>2
        <5>2. Cardinality(ParentsOf(bld', refs2, x)) = 0
          BY <3>6, <3>7, <4>2, FS_EmptySet
        <5> QED BY <5>1, <5>2
      <4> QED BY <4>1, <4>2
    <3>9. refs2 \in [D \cup {new} -> Nat]
      BY <3>1, <3>4
    <3>10. Counted(bld', refs2, held2)
      BY <2>3, <3>3, <3>8, <3>9 DEF Counted
    <3> QED BY <3>10 DEF refs2, held2
  <2>11. Rest'
    <3>1. \A e \in DOMAIN bld' : bld'[e].refcount <= 1 /\ (bld'[e].freed <=> bld'[e].refcount = 0)
      <4>1. \A e \in D : bld[e].refcount <= 1 /\ (bld[e].freed <=> bld[e].refcount = 0)
        BY DEF IInv, D
      <4> QED BY <2>3, <2>4, <2>6, <4>1
    <3> QED BY <1>1, <1>2, <2>1, <3>1 DEF IInv, Rest, Reading
  <2> QED BY <2>8, <2>9, <2>10, <2>11 DEF IInv, Rest
<1>5. CASE ~ (Len(stack) < STACKLEN)
  <2>1. bld' = bld /\ stack' = stack /\ returned' = "overflow"
    BY <1>5 DEF start_element
  <2>2. Len(openElems') > STACKLEN
    BY <1>2, <1>3, <1>5, BuilderAssumption
  <2>3. StackOK'
    <3>1. Len(stack') <= Len(openElems')
      BY <1>2, <1>3, <2>1
    <3> QED BY <1>2, <1>3, <2>1, <3>1 DEF StackOK, Rising, Reading
  <2>4. Tree(bld', Len(elems'))
    BY <1>2, <1>3, <2>1, TreeGrows DEF IInv
  <2>5. Rest'
    BY <1>1, <2>1, <2>2 DEF IInv, Rest
  <2> QED BY <2>1, <2>3, <2>4, <2>5 DEF IInv, Rest
<1> QED BY <1>4, <1>5

LEMMA FrontIs ==
  ASSUME NEW S, NEW s \in Seq(S), s # << >>
  PROVE  /\ Len(s) \in Nat \ {0} /\ DOMAIN s = 1 .. Len(s)
         /\ Front(s) \in Seq(S) /\ Len(Front(s)) = Len(s) - 1 /\ DOMAIN Front(s) = 1 .. Len(s) - 1
         /\ \A i \in 1 .. Len(s) - 1 : Front(s)[i] = s[i]
         /\ Last(s) = s[Len(s)] /\ s[Len(s)] \in S
<1>1. Len(s) \in Nat /\ DOMAIN s = 1 .. Len(s) /\ Len(s) # 0
  OBVIOUS
<1>2. Len(s) \in Nat \ {0} /\ Len(s) \in 1 .. Len(s)
  BY <1>1
<1>3. Last(s) = s[Len(s)] /\ s[Len(s)] \in S
  BY <1>2 DEF Last
<1>4. Front(s) = SubSeq(s, 1, Len(s) - 1)
  BY DEF Front
<1>5. /\ Front(s) \in Seq(S) /\ Len(Front(s)) = Len(s) - 1
      /\ \A i \in 1 .. Len(s) - 1 : Front(s)[i] = s[i]
  <2> DEFINE n == Len(s) - 1
  <2>1. n \in Nat /\ n \in Int /\ 1 \in Int /\ \A i \in 1 .. n : s[i] \in S
    BY <1>2
  <2> HIDE DEF n
  <2>2. /\ SubSeq(s, 1, n) \in Seq(S) /\ Len(SubSeq(s, 1, n)) = (IF 1 <= n THEN n - 1 + 1 ELSE 0)
        /\ \A i \in 1 .. n - 1 + 1 : SubSeq(s, 1, n)[i] = s[1 + i - 1]
    BY <2>1, SubSeqProperties
  <2>3. Len(SubSeq(s, 1, n)) = n /\ \A i \in 1 .. n : SubSeq(s, 1, n)[i] = s[i]
    BY <2>1, <2>2
  <2> QED BY <1>4, <2>2, <2>3 DEF n
<1>6. DOMAIN Front(s) = 1 .. Len(s) - 1
  BY <1>5
<1> QED BY <1>1, <1>2, <1>3, <1>5, <1>6

\* the builder that is popped and those that stay
LEMMA Popped ==
  ASSUME IInv, stack # << >>
  PROVE  /\ Front(stack) \in Seq(DOMAIN bld) /\ Rising(Front(stack))
         /\ Last(stack) \in DOMAIN bld
         /\ Range(stack) = Range(Front(stack)) \cup {Last(stack)}
         /\ Last(stack) \notin Range(Front(stack))
         /\ \A x \in Range(Front(stack)) : x < Last(stack)
         /\ Len(Front(stack)) = Len(stack) - 1
<1> DEFINE n == Len(stack)
           s == stack
           rest == Front(stack)
<1>1. /\ s \in Seq(DOMAIN bld) /\ Rising(s) /\ DOMAIN bld \subseteq Nat
  BY IInvFacts DEF IInv, StackOK
<1>2. /\ n \in Nat \ {0} /\ DOMAIN s = 1 .. n
      /\ rest \in Seq(DOMAIN bld) /\ Len(rest) = n - 1 /\ DOMAIN rest = 1 .. n - 1
      /\ \A i \in 1 .. n - 1 : rest[i] = s[i]
      /\ Last(s) = s[n] /\ s[n] \in DOMAIN bld
  BY <1>1, FrontIs
<1> HIDE DEF n, s, rest
<1>3. n \in 1 .. n /\ \A i \in 1 .. n - 1 : i \in 1 .. n /\ i < n
  BY <1>2
<1>4. \A i \in 1 .. n : i = n \/ i \in 1 .. n - 1
  BY <1>2
<1>5. \A i, j \in 1 .. n - 1 : i < j => rest[i] < rest[j]
  BY <1>1, <1>2, <1>3 DEF Rising
<1>6. Rising(rest)
  BY <1>2, <1>5 DEF Rising
<1>7. \A i \in 1 .. n - 1 : rest[i] < Last(s)
  BY <1>1, <1>2, <1>3 DEF Rising
<1>8. Range(s) = Range(rest) \cup {Last(s)}
  <2>1. \A i \in 1 .. n : s[i] \in Range(rest) \cup {Last(s)}
    BY <1>2, <1>4 DEF Range
  <2>2. \A i \in 1 .. n - 1 : rest[i] \in Range(s)
    BY <1>2, <1>3 DEF Range
  <2>3. Last(s) \in Range(s)
    BY <1>2, <1>3 DEF Range
  <2> QED BY <1>2, <2>1, <2>2, <2>3 DEF Range
<1>9. \A x \in Range(rest) : x < Last(s)
  BY <1>2, <1>7 DEF Range
<1>10. Last(s) \notin Range(rest)
  <2>1. Last(s) \in Nat
    BY <1>1, <1>2
  <2>2. ~ (Last(s) < Last(s))
    BY <2>1
  <2> QED BY <1>9, <2>2
<1> QED BY <1>2, <1>6, <1>8, <1>9, <1>10 DEF s, rest, n

\* the singleton of a release
LEMMA OneOf ==
  ASSUME NEW D, NEW e \in D, NEW held \in [D -> Nat]
  PROVE  /\ <<e>> \in Seq(D) /\ Distinct(<<e>>)
         /\ Plus(D, held, <<e>>, 0) \in [D -> Nat]
         /\ \A x \in D : Plus(D, held, <<e>>, 0)[x] = held[x] + IF x = e THEN 1 ELSE 0
<1>1. <<e>> \in Seq(D) /\ DOMAIN <<e>> = 1 .. 1 /\ Len(<<e>>) = 1 /\ <<e>>[1] = e
  OBVIOUS
<1>2. Distinct(<<e>>)
  BY <1>1 DEF Distinct
<1>3. \A x \in D : (\E j \in 0 + 1 .. Len(<<e>>) : <<e>>[j] = x) <=> x = e
  <2>1. \A j : j \in 0 + 1 .. 1 <=> j = 1
    OBVIOUS
  <2> QED BY <1>1, <2>1
<1> QED BY <1>1, <1>2, <1>3 DEF Plus

\* what the invariant says of the builders and the stack
Owned(b, es) ==
  /\ Tree(b, Len(elems))
  /\ Counted(b, Refcounts(b), Holds(b, es))
  /\ \A e \in DOMAIN b : b[e].refcount <= 1 /\ (b[e].freed <=> b[e].refcount = 0)

LEMMA HeldPopped ==
  ASSUME IInv, stack # << >>
  PROVE  Holds(bld, stack) = Plus(DOMAIN bld, Holds(bld, Front(stack)), <<Last(stack)>>, 0)
<1> DEFINE D == DOMAIN bld
           c == Last(stack)
           H == Holds(bld, stack)
           R == Holds(bld, Front(stack))
           P == Plus(D, R, <<c>>, 0)
<1>1. stack \in Seq(D)
  BY DEF IInv, StackOK
<1>2. /\ Front(stack) \in Seq(D) /\ c \in D /\ Range(stack) = Range(Front(stack)) \cup {c}
      /\ c \notin Range(Front(stack))
  BY Popped
<1>3. H \in [D -> Nat] /\ \A x \in D : H[x] = IF x \in Range(stack) THEN 1 ELSE 0
  BY <1>1, HoldsIs
<1>4. R \in [D -> Nat] /\ \A x \in D : R[x] = IF x \in Range(Front(stack)) THEN 1 ELSE 0
  BY <1>2, HoldsIs
<1>5. P \in [D -> Nat] /\ \A x \in D : P[x] = R[x] + IF x = c THEN 1 ELSE 0
  BY <1>2, <1>4, OneOf
<1> HIDE DEF H, R, P, c
<1>6. \A x \in D : H[x] = P[x]
  <2> TAKE x \in D
  <2>1. x \in Range(stack) <=> x \in Range(Front(stack)) \/ x = c
    BY <1>2
  <2>2. x = c => x \notin Range(Front(stack))
    BY <1>2
  <2>3. /\ H[x] = IF x \in Range(stack) THEN 1 ELSE 0
        /\ R[x] = IF x \in Range(Front(stack)) THEN 1 ELSE 0
        /\ P[x] = R[x] + IF x = c THEN 1 ELSE 0
    BY <1>3, <1>4, <1>5
  <2> HIDE DEF D
  <2> QED BY <2>1, <2>2, <2>3
<1>7. H = [x \in D |-> H[x]] /\ P = [x \in D |-> P[x]]
  BY <1>3, <1>5
<1>8. H = P
  BY <1>6, <1>7
<1> QED BY <1>8 DEF H, R, P, c

\* the builder popped is not kept: what it holds goes with it
LEMMA ReleasedOwned ==
  ASSUME IInv, stack # << >>
  PROVE  /\ DOMAIN unref(bld, <<Last(stack)>>) = DOMAIN bld
         /\ Owned(unref(bld, <<Last(stack)>>), Front(stack))
<1> DEFINE D == DOMAIN bld
           child == Last(stack)
           c == unref(bld, <<child>>)
           R == Holds(bld, Front(stack))
<1>1. Front(stack) \in Seq(D) /\ child \in D
  BY Popped
<1>2. R \in [D -> Nat]
  BY <1>1, HoldsIs
<1>3. Counted(bld, Refcounts(bld), Plus(D, R, <<child>>, 0))
  BY HeldPopped DEF IInv
<1>4. <<child>> \in Seq(D) /\ Distinct(<<child>>)
  BY <1>1, <1>2, OneOf
<1>5. /\ Tree(bld, Len(elems)) /\ Len(elems) \in Nat
      /\ \A e \in D : bld[e].refcount <= 1 /\ (bld[e].freed <=> bld[e].refcount = 0)
  BY IInvFacts DEF IInv
<1> HIDE DEF R, child
<1>6. /\ DOMAIN c = D /\ Tree(c, Len(elems)) /\ Counted(c, Refcounts(c), R)
      /\ \A e \in D : c[e].refcount <= bld[e].refcount /\ (c[e].freed <=> c[e].refcount = 0)
  BY <1>2, <1>3, <1>4, <1>5, UnrefIs
<1> HIDE DEF c
<1>7. R = Holds(c, Front(stack))
  BY <1>6 DEF R, Holds, Zero
<1>8. \A e \in D : c[e].refcount <= 1
  <2> TAKE e \in D
  <2>1. c[e].refcount <= bld[e].refcount /\ bld[e].refcount <= 1
    BY <1>5, <1>6
  <2>2. c[e].refcount \in Int /\ bld[e].refcount \in Int
    BY <1>5, <1>6 DEF Tree
  <2> QED BY <2>1, <2>2
<1>9. Owned(c, Front(stack))
  BY <1>6, <1>7, <1>8 DEF Owned
<1> QED BY <1>6, <1>9 DEF c, child

\* the builder popped is kept as a child of the one below it
Keeps(b) == b = [bld EXCEPT ![Last(Front(stack))].children = Append(@, Last(stack)),
                            ![Last(stack)].refcount = @ + 1]

LEMMA KeptOwned ==
  ASSUME IInv, stack # << >>, Front(stack) # << >>, NEW b, Keeps(b)
  PROVE  /\ DOMAIN unref(b, <<Last(stack)>>) = DOMAIN bld
         /\ Owned(unref(b, <<Last(stack)>>), Front(stack))
<1> DEFINE D == DOMAIN bld
           child == Last(stack)
           rest == Front(stack)
           p == Last(rest)
           n == Len(elems)
           refs == Refcounts(bld)
           more == Refcounts(b)
           H == Holds(bld, stack)
           R == Holds(bld, rest)
           P == Plus(D, R, <<child>>, 0)
           c == unref(b, <<child>>)
<1>1. /\ rest \in Seq(D) /\ child \in D /\ child \notin Range(rest)
      /\ \A x \in Range(rest) : x < child
  BY Popped
<1>2. p \in D /\ p \in Range(rest) /\ p < child /\ p # child
  <2>1. p = rest[Len(rest)] /\ rest[Len(rest)] \in D /\ Len(rest) \in Nat \ {0} /\ DOMAIN rest = 1 .. Len(rest)
    BY <1>1, FrontIs
  <2>2. Len(rest) \in DOMAIN rest
    BY <2>1
  <2>3. p \in Range(rest)
    BY <2>1, <2>2 DEF Range
  <2> QED BY <1>1, <2>1, <2>3
<1>3. /\ Tree(bld, n) /\ n \in Nat /\ D \subseteq 1 .. n
      /\ \A e \in D : bld[e].refcount <= 1 /\ (bld[e].freed <=> bld[e].refcount = 0)
  BY IInvFacts DEF IInv
<1>4. /\ refs \in [D -> Nat] /\ \A x \in D : refs[x] = bld[x].refcount
      /\ \A x \in D : refs[x] = H[x] + Cardinality(ParentsOf(bld, refs, x))
      /\ \A x \in D : IsFiniteSet(ParentsOf(bld, refs, x)) /\ Cardinality(ParentsOf(bld, refs, x)) \in Nat
  BY <1>3, ParentsFinite DEF IInv, Counted, Refcounts
<1>5. H = P
  BY HeldPopped
<1>6. R \in [D -> Nat] /\ \A x \in D : R[x] = IF x \in Range(rest) THEN 1 ELSE 0
  BY <1>1, HoldsIs
<1>7. /\ <<child>> \in Seq(D) /\ Distinct(<<child>>)
      /\ P \in [D -> Nat] /\ \A x \in D : P[x] = R[x] + IF x = child THEN 1 ELSE 0
  BY <1>1, <1>6, OneOf
<1>8. /\ DOMAIN b = D
      /\ b[p] = [bld[p] EXCEPT !.children = Append(@, child)]
      /\ b[child] = [bld[child] EXCEPT !.refcount = @ + 1]
      /\ \A x \in D : x # p /\ x # child => b[x] = bld[x]
  BY <1>1, <1>2 DEF Keeps
<1> HIDE DEF D, child, rest, p, n, refs, more, H, R, P, c
<1>9. refs[child] = 1 /\ ParentsOf(bld, refs, child) = {}
  <2>1. R[child] = 0
    BY <1>1, <1>6
  <2>2. H[child] = 1
    BY <1>1, <1>5, <1>7, <2>1
  <2>3. refs[child] <= 1 /\ refs[child] \in Nat
    BY <1>1, <1>3, <1>4
  <2>4. refs[child] = 1 + Cardinality(ParentsOf(bld, refs, child))
        /\ Cardinality(ParentsOf(bld, refs, child)) \in Nat /\ IsFiniteSet(ParentsOf(bld, refs, child))
    BY <1>1, <1>4, <2>2
  <2>5. refs[child] = 1 /\ Cardinality(ParentsOf(bld, refs, child)) = 0
    BY <2>3, <2>4
  <2> QED BY <2>4, <2>5, FS_EmptySet
<1>10. refs[p] # 0
  <2>1. P[p] = 1
    BY <1>2, <1>6, <1>7
  <2>2. refs[p] = 1 + Cardinality(ParentsOf(bld, refs, p)) /\ Cardinality(ParentsOf(bld, refs, p)) \in Nat
    BY <1>2, <1>4, <1>5, <2>1
  <2> QED BY <2>2
<1>11. ASSUME NEW x \in D
       PROVE  /\ DOMAIN b[x] = {"xmile", "refcount", "freed", "attrs", "content", "children"}
              /\ b[x].refcount = (IF x = child THEN 2 ELSE refs[x])
              /\ b[x].freed = bld[x].freed
              /\ b[x].children = (IF x = p THEN Append(bld[x].children, child) ELSE bld[x].children)
  <2>1. DOMAIN bld[x] = {"xmile", "refcount", "freed", "attrs", "content", "children"}
    BY <1>3 DEF Tree, D
  <2>2. bld[x].refcount = refs[x]
    BY <1>4
  <2>3. CASE x = p
    BY <1>2, <1>8, <2>1, <2>2, <2>3
  <2>4. CASE x = child
    <3>1. bld[child].refcount + 1 = 2
      BY <1>9, <2>2, <2>4
    <3> QED BY <1>2, <1>8, <2>1, <2>4, <3>1
  <2>5. CASE x # p /\ x # child
    BY <1>8, <2>1, <2>2, <2>5
  <2> QED BY <2>3, <2>4, <2>5
<1>12. more = [x \in D |-> IF x = child THEN 2 ELSE refs[x]]
  BY <1>8, <1>11 DEF more, Refcounts
<1>13. child \notin Range(bld[p].children)
  <2>1. p \notin ParentsOf(bld, refs, child)
    BY <1>9
  <2> QED BY <1>2, <1>10, <2>1 DEF ParentsOf, D
<1>14. Range(b[p].children) = Range(bld[p].children) \cup {child}
  <2> DEFINE ch == bld[p].children
  <2>1. ch \in Seq(D)
    BY <1>2, <1>3 DEF Tree, D
  <2>2. b[p].children = Append(ch, child)
    BY <1>2, <1>11
  <2> HIDE DEF ch
  <2>3. /\ Len(ch) \in Nat /\ DOMAIN ch = 1 .. Len(ch) /\ DOMAIN Append(ch, child) = 1 .. Len(ch) + 1
        /\ Append(ch, child)[Len(ch) + 1] = child
        /\ \A i \in 1 .. Len(ch) : Append(ch, child)[i] = ch[i]
    BY <1>1, <2>1
  <2>4. \A i \in 1 .. Len(ch) + 1 : i \in 1 .. Len(ch) \/ i = Len(ch) + 1
    BY <2>3
  <2>5. Len(ch) + 1 \in 1 .. Len(ch) + 1 /\ \A i \in 1 .. Len(ch) : i \in 1 .. Len(ch) + 1
    BY <2>3
  <2>6. Range(Append(ch, child)) = Range(ch) \cup {child}
    BY <2>3, <2>4, <2>5 DEF Range
  <2> QED BY <2>2, <2>6 DEF ch
<1>15. Tree(b, n)
  <2>1. ASSUME NEW x \in D
        PROVE  /\ b[x].refcount \in Int /\ b[x].freed \in BOOLEAN
               /\ b[x].children \in Seq(D) /\ Distinct(b[x].children)
               /\ \A k \in DOMAIN b[x].children : b[x].children[k] > x
    <3>1. /\ bld[x].freed \in BOOLEAN /\ bld[x].children \in Seq(D) /\ Distinct(bld[x].children)
          /\ \A k \in DOMAIN bld[x].children : bld[x].children[k] > x
      BY <1>3 DEF Tree, D
    <3>2. b[x].refcount \in Int
      BY <1>4, <1>11
    <3>3. b[x].freed \in BOOLEAN
      BY <1>11, <3>1
    <3>4. CASE x # p
      BY <1>11, <3>1, <3>2, <3>3, <3>4
    <3>5. CASE x = p
      <4> DEFINE ch == bld[p].children
                 new == Append(ch, child)
      <4>1. b[x].children = new /\ ch \in Seq(D)
        BY <1>11, <3>1, <3>5
      <4>2. /\ new \in Seq(D) /\ Len(ch) \in Nat /\ DOMAIN ch = 1 .. Len(ch) /\ DOMAIN new = 1 .. Len(ch) + 1
            /\ new[Len(ch) + 1] = child
            /\ \A i \in 1 .. Len(ch) : new[i] = ch[i]
        BY <1>1, <4>1
      <4>3. \A i \in 1 .. Len(ch) : ch[i] # child
        BY <1>13, <4>2 DEF Range
      <4>4. Distinct(ch) /\ \A i \in 1 .. Len(ch) : ch[i] > p
        BY <3>1, <3>5, <4>2
      <4> HIDE DEF ch, new
      <4>5. \A i \in 1 .. Len(ch) + 1 : i \in 1 .. Len(ch) \/ i = Len(ch) + 1
        BY <4>2
      <4>6. ASSUME NEW i \in 1 .. Len(ch) + 1, NEW j \in 1 .. Len(ch) + 1, new[i] = new[j]
            PROVE  i = j
        <5>1. CASE i \in 1 .. Len(ch) /\ j \in 1 .. Len(ch)
          BY <4>2, <4>4, <4>6, <5>1 DEF Distinct
        <5>2. CASE i \in 1 .. Len(ch) /\ j = Len(ch) + 1
          BY <4>2, <4>3, <4>6, <5>2
        <5>3. CASE j \in 1 .. Len(ch) /\ i = Len(ch) + 1
          BY <4>2, <4>3, <4>6, <5>3
        <5> QED BY <4>5, <5>1, <5>2, <5>3
      <4>7. Distinct(new)
        BY <4>2, <4>6 DEF Distinct
      <4>8. child > p
        BY <1>1, <1>2, <1>3
      <4>9. \A i \in DOMAIN new : new[i] > p
        BY <4>2, <4>4, <4>5, <4>8
      <4> QED BY <3>2, <3>3, <3>5, <4>1, <4>2, <4>7, <4>9
    <3> QED BY <3>4, <3>5
  <2> QED BY <1>3, <1>8, <1>11, <2>1 DEF Tree
<1>16. ASSUME NEW x \in D
       PROVE  ParentsOf(b, more, x) = IF x = child THEN {p} ELSE ParentsOf(bld, refs, x)
  <2>1. \A q \in D : more[q] # 0 <=> refs[q] # 0
    BY <1>9, <1>12
  <2>2. \A q \in D : x \in Range(b[q].children) <=> x \in Range(bld[q].children) \/ (q = p /\ x = child)
    BY <1>2, <1>11, <1>14
  <2>3. ParentsOf(b, more, x) = ParentsOf(bld, refs, x) \cup {q \in {p} : x = child}
    BY <1>2, <1>8, <1>10, <2>1, <2>2 DEF ParentsOf, D
  <2> QED BY <1>9, <2>3
<1>17. Counted(b, more, P)
  <2>1. more \in [D -> Nat]
    BY <1>4, <1>12
  <2>2. ASSUME NEW x \in D PROVE more[x] = P[x] + Cardinality(ParentsOf(b, more, x))
    <3>1. CASE x = child
      <4>1. P[x] = 1
        BY <1>1, <1>6, <1>7, <3>1
      <4>2. Cardinality(ParentsOf(b, more, x)) = 1
        BY <1>16, <3>1, FS_Singleton
      <4> QED BY <1>12, <3>1, <4>1, <4>2
    <3>2. CASE x # child
      BY <1>4, <1>5, <1>12, <1>16, <3>2
    <3> QED BY <3>1, <3>2
  <2> QED BY <1>7, <1>8, <2>1, <2>2 DEF Counted
<1>18. \A x \in D : b[x].freed <=> b[x].refcount = 0
  <2> TAKE x \in D
  <2>1. bld[x].freed <=> refs[x] = 0
    BY <1>3, <1>4
  <2> QED BY <1>9, <1>11, <2>1
<1>19. /\ DOMAIN c = D /\ Tree(c, n) /\ Counted(c, Refcounts(c), R)
       /\ \A e \in D : c[e].refcount <= b[e].refcount /\ (c[e].freed <=> c[e].refcount = 0)
  <2>1. Counted(b, Refcounts(b), Plus(DOMAIN b, R, <<child>>, 0))
    BY <1>8, <1>17 DEF P, more
  <2>2. /\ <<child>> \in Seq(DOMAIN b) /\ Distinct(<<child>>) /\ R \in [DOMAIN b -> Nat]
        /\ n \in Nat /\ Tree(b, n)
        /\ \A e \in DOMAIN b : b[e].freed <=> b[e].refcount = 0
    BY <1>3, <1>6, <1>7, <1>8, <1>15, <1>18
  <2>3. /\ DOMAIN c = DOMAIN b /\ Tree(c, n) /\ Counted(c, Refcounts(c), R)
        /\ \A e \in DOMAIN b : c[e].refcount <= b[e].refcount /\ (c[e].freed <=> c[e].refcount = 0)
    BY <2>1, <2>2, UnrefIs DEF c
  <2> QED BY <1>8, <2>3
<1>20. c[child].refcount = 1
  <2>1. releases(b)[child][more] = Less(more, child)
    <3>1. more \in [DOMAIN b -> Int] /\ child \in DOMAIN b /\ more[child] # 1
      BY <1>1, <1>4, <1>8, <1>12
    <3>2. releases(b)[child][more] = Released(releases(b), b, child, more)
      BY <1>3, <1>15, <3>1, ReleasesIs
    <3> QED BY <3>1, <3>2 DEF Released, Less
  <2>2. InTurn(releases(b), <<child>>, more) = Less(more, child)
    <3>1. Len(<<child>>) = 1 /\ <<child>>[1] = child
      OBVIOUS
    <3>2. PICK a : After(a, releases(b), <<child>>, more, 1) /\ InTurn(releases(b), <<child>>, more) = a[1]
      BY <3>1, InTurnIs
    <3>3. a[1] = releases(b)[<<child>>[1]][a[1 - 1]] /\ a[0] = more
      BY <3>2 DEF After
    <3>4. 1 - 1 = 0
      OBVIOUS
    <3> QED BY <2>1, <3>1, <3>2, <3>3, <3>4
  <2>3. Less(more, child)[child] = 1
    BY <1>1, <1>12 DEF Less
  <2>4. c[child] = [b[child] EXCEPT !.refcount = Less(more, child)[child], !.freed = @ \/ Less(more, child)[child] <= 0]
    BY <1>1, <1>8, <2>2 DEF c, unref, more
  <2> QED BY <1>1, <1>11, <2>3, <2>4
<1>21. \A e \in D : c[e].refcount <= 1
  <2> TAKE e \in D
  <2>1. CASE e = child
    BY <1>20, <2>1
  <2>2. CASE e # child
    <3>1. c[e].refcount <= refs[e] /\ refs[e] <= 1 /\ refs[e] \in Nat
      BY <1>3, <1>4, <1>11, <1>19, <2>2
    <3>2. c[e].refcount \in Int
      BY <1>19 DEF Tree
    <3> QED BY <3>1, <3>2
  <2> QED BY <2>1, <2>2
<1>22. R = Holds(c, rest)
  BY <1>19 DEF R, Holds, Zero, D
<1>23. Owned(c, rest)
  BY <1>19, <1>21, <1>22 DEF Owned, n
<1> QED BY <1>19, <1>23 DEF c, rest, child, D

LEMMA EndOK ==
  ASSUME IInv, end_element
  PROVE  IInv'
<1> DEFINE D == DOMAIN bld
<1>1. /\ Reading /\ openElems # << >> /\ openElems' = Front(openElems)
      /\ elems' = elems /\ returned' = returned /\ nomem' = nomem
  BY DEF end_element
<1>2. /\ elems \in Seq(Range(elems)) /\ openElems \in Seq(DOMAIN elems)
      /\ stack \in Seq(D) /\ Rising(stack) /\ Len(stack) <= Len(openElems)
      /\ Reading /\ ~ nomem => stack = openElems
      /\ Len(stack) \in Nat /\ Len(openElems) \in Nat /\ nomem \in BOOLEAN
  BY IInvFacts DEF IInv, StackOK
<1>3. openElems' \in Seq(DOMAIN elems') /\ Len(openElems') = Len(openElems) - 1 /\ Len(openElems) \in Nat \ {0}
  BY <1>1, <1>2, FrontIs
<1>4. CASE stack = << >>
  <2>1. stack' = stack /\ bld' = bld
    BY <1>4 DEF end_element
  <2>2. Len(stack') <= Len(openElems')
    BY <1>3, <1>4, <2>1
  <2>3. ~ nomem => FALSE
    BY <1>1, <1>2, <1>4
  <2>4. StackOK'
    BY <1>1, <1>2, <1>3, <2>1, <2>2, <2>3 DEF StackOK, Rising
  <2>5. Rest'
    BY <1>1, <2>1 DEF IInv, Rest, Reading
  <2> QED BY <1>1, <2>1, <2>4, <2>5 DEF IInv, Rest
<1>5. CASE stack # << >>
  <2> DEFINE child == Last(stack)
             rest == Front(stack)
  <2>1. /\ stack' = rest
        /\ bld' = unref(IF rest = << >> \/ bld[Last(rest)].xmile THEN bld
                        ELSE [bld EXCEPT ![Last(rest)].children = Append(@, child),
                                         ![child].refcount = @ + 1], <<child>>)
    BY <1>5 DEF end_element
  <2>2. DOMAIN bld' = D /\ Owned(bld', rest)
    <3>1. CASE rest = << >> \/ bld[Last(rest)].xmile
      <4>1. bld' = unref(bld, <<child>>)
        BY <2>1, <3>1
      <4> QED BY <1>5, <4>1, ReleasedOwned
    <3>2. CASE ~ (rest = << >> \/ bld[Last(rest)].xmile)
      <4> DEFINE b == [bld EXCEPT ![Last(rest)].children = Append(@, child),
                                  ![child].refcount = @ + 1]
      <4>1. bld' = unref(b, <<child>>)
        BY <2>1, <3>2
      <4>2. Keeps(b)
        BY DEF Keeps
      <4> HIDE DEF b
      <4> QED BY <1>5, <3>2, <4>1, <4>2, KeptOwned
    <3> QED BY <3>1, <3>2
  <2>3. rest \in Seq(D) /\ Rising(rest) /\ Len(rest) = Len(stack) - 1
    BY <1>5, Popped
  <2>4. Len(rest) <= Len(openElems')
    BY <1>2, <1>3, <2>3
  <2>5. StackOK'
    <3>1. (Reading /\ ~ nomem)' => stack' = openElems'
      BY <1>1, <1>2, <2>1
    <3> QED BY <1>1, <1>2, <1>3, <2>1, <2>2, <2>3, <2>4, <3>1 DEF StackOK, Rising
  <2>6. /\ Tree(bld', Len(elems')) /\ Counted(bld', Refcounts(bld'), Holds(bld', stack'))
        /\ \A e \in DOMAIN bld' : bld'[e].refcount <= 1 /\ (bld'[e].freed <=> bld'[e].refcount = 0)
    BY <1>1, <2>1, <2>2 DEF Owned
  <2>7. returned' = "parsing" /\ nomem' \in BOOLEAN
    BY <1>1, <1>2 DEF Reading
  <2> QED BY <2>5, <2>6, <2>7 DEF IInv
<1> QED BY <1>4, <1>5

LEMMA CharactersOK ==
  ASSUME IInv, NEW piece, characters(piece)
  PROVE  IInv'
<1> DEFINE D == DOMAIN bld
           e == Last(openElems)
<1>1. /\ Reading /\ openElems # << >>
      /\ elems' = [elems EXCEPT ![e].text = Append(@, piece)]
      /\ openElems' = openElems /\ stack' = stack /\ nomem' = nomem
  BY DEF characters
<1>2. /\ elems \in Seq(Range(elems)) /\ openElems \in Seq(DOMAIN elems)
      /\ stack \in Seq(D) /\ Rising(stack) /\ Len(stack) <= Len(openElems)
      /\ Reading /\ ~ nomem => stack = openElems
      /\ DOMAIN elems = 1 .. Len(elems) /\ Len(elems) \in Nat /\ nomem \in BOOLEAN
  BY IInvFacts DEF IInv, StackOK
<1>3. /\ elems' \in Seq(Range(elems')) /\ Len(elems') = Len(elems) /\ DOMAIN elems' = DOMAIN elems
  <2>1. DOMAIN elems' = 1 .. Len(elems)
    BY <1>1, <1>2
  <2>2. elems' = [i \in 1 .. Len(elems) |-> elems'[i]]
    BY <1>1, <1>2
  <2>3. \A i \in 1 .. Len(elems) : elems'[i] \in Range(elems')
    BY <2>1 DEF Range
  <2>4. elems' \in [1 .. Len(elems) -> Range(elems')]
    BY <2>2, <2>3
  <2>5. elems' \in Seq(Range(elems')) /\ Len(elems') = Len(elems)
    <3> DEFINE n == Len(elems)
               s == elems'
               S == Range(elems')
    <3>1. n \in Nat /\ s \in [1 .. n -> S]
      BY <1>2, <2>4
    <3> HIDE DEF n, s, S
    <3>2. s \in Seq(S) /\ Len(s) = n
      BY <3>1
    <3> QED BY <3>2 DEF n, s, S
  <2> QED BY <1>2, <2>1, <2>5
<1>4. StackOK'
  <2>1. Len(stack') <= Len(openElems')
    BY <1>1, <1>2
  <2>2. DOMAIN bld' = D
    BY DEF characters
  <2> QED BY <1>1, <1>2, <1>3, <2>1, <2>2 DEF StackOK, Rising, Reading
<1>5. CASE stack = << >>
  <2>1. bld' = bld /\ returned' = "underflow"
    BY <1>5 DEF characters
  <2>2. nomem
    BY <1>1, <1>2, <1>5
  <2>3. Rest'
    BY <1>1, <2>1, <2>2 DEF IInv, Rest
  <2> QED BY <1>1, <1>3, <1>4, <2>1, <2>3 DEF IInv, Rest
<1>6. CASE stack # << >>
  <2> DEFINE p == Last(stack)
  <2>1. /\ returned' = returned
        /\ bld' = IF bld[p].xmile THEN bld
                  ELSE [bld EXCEPT ![p].content = node_builder_characters(@, piece)]
    BY <1>6 DEF characters
  <2>2. ASSUME NEW x \in D
        PROVE  /\ DOMAIN bld'[x] = DOMAIN bld[x]
               /\ bld'[x].refcount = bld[x].refcount /\ bld'[x].freed = bld[x].freed
               /\ bld'[x].children = bld[x].children
    <3>1. DOMAIN bld[x] = {"xmile", "refcount", "freed", "attrs", "content", "children"}
      BY DEF IInv, Tree
    <3>2. bld'[x] = bld[x] \/ \E text : bld'[x] = [bld[x] EXCEPT !.content = text]
      BY <2>1
    <3> QED BY <3>1, <3>2
  <2>3. DOMAIN bld' = D
    BY <2>1
  <2>4. Refcounts(bld') = Refcounts(bld)
    BY <2>2, <2>3 DEF Refcounts
  <2>5. Holds(bld', stack') = Holds(bld, stack)
    BY <1>1, <2>3 DEF Holds, Zero
  <2> HIDE DEF D
  <2>6. Tree(bld', Len(elems'))
    <3>1. Tree(bld, Len(elems))
      BY DEF IInv
    <3> QED BY <1>3, <2>2, <2>3, <3>1 DEF Tree, D
  <2>7. Counted(bld', Refcounts(bld'), Holds(bld', stack'))
    <3>1. Counted(bld, Refcounts(bld), Holds(bld, stack))
      BY DEF IInv
    <3>2. DOMAIN bld' = DOMAIN bld /\ \A x \in DOMAIN bld : bld'[x].children = bld[x].children
      BY <2>2, <2>3 DEF D
    <3> QED BY <2>4, <2>5, <3>1, <3>2, SameParents
  <2>8. Rest'
    <3>1. \A x \in D : bld[x].refcount <= 1 /\ (bld[x].freed <=> bld[x].refcount = 0)
      BY DEF IInv, D
    <3>2. \A x \in DOMAIN bld' : bld'[x].refcount <= 1 /\ (bld'[x].freed <=> bld'[x].refcount = 0)
      BY <2>2, <2>3, <3>1
    <3> QED BY <1>1, <1>2, <2>1, <3>2 DEF IInv, Rest, Reading
  <2> QED BY <1>4, <2>6, <2>7, <2>8 DEF IInv, Rest
<1> QED BY <1>5, <1>6

LEMMA DoneOK ==
  ASSUME IInv, parse_done
  PROVE  IInv'
<1>1. /\ openElems = << >> /\ returned' = "ok"
      /\ elems' = elems /\ openElems' = openElems /\ stack' = stack /\ bld' = bld /\ nomem' = nomem
  BY DEF parse_done
<1>2. StackOK'
  BY <1>1 DEF IInv, StackOK, Rising, Reading
<1>3. Rest'
  BY <1>1 DEF IInv, Rest
<1> QED BY <1>1, <1>2, <1>3 DEF IInv, Rest

\* the error path gives up all that is on the stack
LEMMA ErrorOK ==
  ASSUME IInv, parse_error
  PROVE  IInv'
<1> DEFINE D == DOMAIN bld
           es == Reverse(stack)
           c == unref(bld, es)
<1>1. /\ Reading /\ returned' = "bad_xml" /\ stack' = << >> /\ bld' = c
      /\ elems' = elems /\ openElems' = openElems /\ nomem' = nomem
  BY DEF parse_error
<1>2. /\ stack \in Seq(D) /\ Rising(stack) /\ D \subseteq Nat
      /\ Len(stack) \in Nat /\ DOMAIN stack = 1 .. Len(stack)
      /\ Len(elems) \in Nat /\ Len(openElems) \in Nat
  BY IInvFacts DEF IInv, StackOK
<1>3. /\ es \in Seq(D) /\ Len(es) = Len(stack) /\ DOMAIN es = 1 .. Len(stack)
      /\ \A i \in 1 .. Len(stack) : Len(stack) - i + 1 \in 1 .. Len(stack) /\ es[i] = stack[Len(stack) - i + 1]
  <2> DEFINE n == Len(stack)
  <2>1. \A i \in 1 .. n : n - i + 1 \in 1 .. n
    BY <1>2
  <2>2. es = [i \in 1 .. n |-> stack[(n - i) + 1]]
    BY <1>2 DEF Reverse
  <2>3. \A i \in 1 .. n : stack[(n - i) + 1] \in D
    BY <1>2, <2>1
  <2> HIDE DEF n, es, D
  <2>4. es \in [1 .. n -> D] /\ n \in Nat
    BY <1>2, <2>2, <2>3 DEF n
  <2>5. es \in Seq(D) /\ Len(es) = n /\ DOMAIN es = 1 .. n
    BY <2>4
  <2> QED BY <2>1, <2>2, <2>5 DEF n
<1>4. Distinct(es)
  <2> DEFINE n == Len(stack)
  <2>1. ASSUME NEW i \in 1 .. n, NEW j \in 1 .. n, es[i] = es[j] PROVE i = j
    <3> DEFINE k == n - i + 1
               l == n - j + 1
    <3>1. k \in 1 .. n /\ l \in 1 .. n /\ stack[k] = stack[l]
      BY <1>3, <2>1
    <3>2. stack[k] \in Nat /\ stack[l] \in Nat
      BY <1>2, <3>1
    <3>3. ~ (k < l) /\ ~ (l < k)
      <4> HIDE DEF k, l
      <4> QED BY <1>2, <3>1, <3>2 DEF Rising
    <3> QED BY <1>2, <3>3
  <2> QED BY <1>3, <2>1 DEF Distinct
<1>5. Range(es) = Range(stack)
  <2>1. \A i \in 1 .. Len(stack) : stack[i] \in Range(es)
    <3> TAKE i \in 1 .. Len(stack)
    <3> DEFINE k == Len(stack) - i + 1
    <3>1. k \in 1 .. Len(stack) /\ es[k] = stack[Len(stack) - k + 1]
      BY <1>3
    <3>2. Len(stack) - k + 1 = i
      BY <1>2
    <3> QED BY <1>3, <3>1, <3>2 DEF Range
  <2>2. \A i \in 1 .. Len(stack) : es[i] \in Range(stack)
    BY <1>2, <1>3 DEF Range
  <2> QED BY <1>2, <1>3, <2>1, <2>2 DEF Range
<1> HIDE DEF es
<1>6. Counted(bld, Refcounts(bld), Plus(D, Zero(bld), es, 0))
  <2> DEFINE H == Holds(bld, stack)
             G == Holds(bld, es)
  <2>1. H \in [D -> Nat] /\ \A x \in D : H[x] = IF x \in Range(stack) THEN 1 ELSE 0
    BY <1>2, HoldsIs
  <2>2. G \in [D -> Nat] /\ \A x \in D : G[x] = IF x \in Range(es) THEN 1 ELSE 0
    BY <1>3, HoldsIs
  <2>3. Counted(bld, Refcounts(bld), H)
    BY DEF IInv
  <2>4. G = Plus(D, Zero(bld), es, 0)
    BY DEF Holds
  <2> HIDE DEF H, G
  <2>5. \A x \in D : H[x] = G[x]
    BY <1>5, <2>1, <2>2
  <2>6. H = [x \in D |-> H[x]] /\ G = [x \in D |-> G[x]]
    BY <2>1, <2>2
  <2>7. H = G
    BY <2>5, <2>6
  <2> QED BY <2>3, <2>4, <2>7
<1>7. /\ Tree(bld, Len(elems))
      /\ \A e \in D : bld[e].refcount <= 1 /\ (bld[e].freed <=> bld[e].refcount = 0)
  BY DEF IInv
<1>8. Zero(bld) \in [D -> Nat]
  BY DEF Zero
<1>9. /\ DOMAIN c = D /\ Tree(c, Len(elems)) /\ Counted(c, Refcounts(c), Zero(bld))
      /\ \A e \in D : c[e].refcount <= bld[e].refcount /\ (c[e].freed <=> c[e].refcount = 0)
  BY <1>2, <1>3, <1>4, <1>6, <1>7, <1>8, UnrefIs
<1> HIDE DEF c
<1>10. \A e \in D : c[e].refcount <= 1
  <2> TAKE e \in D
  <2>1. c[e].refcount <= bld[e].refcount /\ bld[e].refcount <= 1
    BY <1>7, <1>9
  <2>2. c[e].refcount \in Int /\ bld[e].refcount \in Int
    BY <1>7, <1>9 DEF Tree
  <2> QED BY <2>1, <2>2
<1>11. Holds(c, << >>) = Zero(bld)
  <2>1. << >> \in Seq(DOMAIN c) /\ Range(<< >>) = {}
    BY DEF Range
  <2>2. Holds(c, << >>) \in [DOMAIN c -> Nat] /\ \A x \in DOMAIN c : Holds(c, << >>)[x] = 0
    BY <2>1, HoldsIs
  <2>3. Holds(c, << >>) = [x \in DOMAIN c |-> Holds(c, << >>)[x]]
    BY <2>2
  <2>4. Zero(bld) = [x \in DOMAIN c |-> 0]
    BY <1>9 DEF Zero
  <2> QED BY <2>2, <2>3, <2>4
<1>12. StackOK'
  <2>1. Len(stack') <= Len(openElems')
    BY <1>1, <1>2
  <2>2. stack' \in Seq(DOMAIN bld') /\ Rising(stack')
    BY <1>1 DEF Rising
  <2>3. ~ Reading'
    BY <1>1 DEF Reading
  <2> QED BY <1>1, <2>1, <2>2, <2>3 DEF IInv, StackOK
<1>13. Counted(bld', Refcounts(bld'), Holds(bld', stack'))
  BY <1>1, <1>9, <1>11
<1>14. Rest'
  <2>1. nomem' \in BOOLEAN /\ returned' = "bad_xml" /\ stack' = << >>
    BY <1>1 DEF IInv
  <2>2. \A e \in DOMAIN bld' : bld'[e].refcount <= 1 /\ (bld'[e].freed <=> bld'[e].refcount = 0)
    BY <1>1, <1>9, <1>10
  <2> QED BY <2>1, <2>2 DEF Rest
<1> QED BY <1>1, <1>9, <1>12, <1>13, <1>14 DEF IInv, Rest


LEMMA StepOK == IInv /\ [BuilderNext]_builderVars => IInv'
<1> SUFFICES ASSUME IInv, [BuilderNext]_builderVars PROVE IInv'
  OBVIOUS
<1>1. ASSUME NEW tag, NEW attrs, start_element(tag, attrs) PROVE IInv'
  BY <1>1, StartOK
<1>2. ASSUME NEW tag, NEW attrs, start_element_nomem(tag, attrs) PROVE IInv'
  BY <1>2, NomemOK
<1>3. CASE end_element
  BY <1>3, EndOK
<1>4. ASSUME NEW piece, characters(piece) PROVE IInv'
  BY <1>4, CharactersOK
<1>5. CASE parse_done
  BY <1>5, DoneOK
<1>6. CASE parse_error
  BY <1>6, ErrorOK
<1>7. CASE UNCHANGED builderVars
  <2>1. /\ elems' = elems /\ openElems' = openElems /\ stack' = stack /\ bld' = bld
        /\ returned' = returned /\ nomem' = nomem
    BY <1>7 DEF builderVars
  <2>2. StackOK'
    BY <2>1 DEF IInv, StackOK, Rising, Reading
  <2> QED BY <2>1, <2>2 DEF IInv
<1> QED BY <1>1, <1>2, <1>3, <1>4, <1>5, <1>6, <1>7 DEF BuilderNext

-----------------------------------------------------------------------------
(* What the invariant says of the builders.                                *)

\* a place on the stack is what the stack holds
LEMMA OwnersCounted ==
  ASSUME IInv, NEW e \in DOMAIN bld
  PROVE  Cardinality({s \in DOMAIN stack : stack[s] = e}) = Holds(bld, stack)[e]
<1> DEFINE owners == {s \in DOMAIN stack : stack[s] = e}
<1>1. stack \in Seq(DOMAIN bld) /\ Rising(stack)
  BY DEF IInv, StackOK
<1>2. Holds(bld, stack)[e] = IF e \in Range(stack) THEN 1 ELSE 0
  BY <1>1, HoldsIs
<1>3. CASE e \in Range(stack)
  <2>1. PICK s \in DOMAIN stack : stack[s] = e
    BY <1>3 DEF Range
  <2>2. \A r \in DOMAIN stack : r \in Nat /\ (stack[r] = e => e \in Nat /\ r = s)
    <3>1. DOMAIN stack = 1 .. Len(stack) /\ Len(stack) \in Nat /\ e \in Nat
      BY <1>1, IInvFacts
    <3>2. \A r \in DOMAIN stack : r < s => stack[r] < e
      BY <1>1, <2>1 DEF Rising
    <3>3. \A r \in DOMAIN stack : s < r => e < stack[r]
      BY <1>1, <2>1 DEF Rising
    <3> QED BY <2>1, <3>1, <3>2, <3>3
  <2>3. owners = {s}
    BY <2>1, <2>2
  <2> HIDE DEF owners
  <2>4. Cardinality(owners) = 1
    BY <2>3, FS_Singleton
  <2> QED BY <1>2, <1>3, <2>4 DEF owners
<1>4. CASE e \notin Range(stack)
  <2>1. owners = {}
    BY <1>4 DEF Range
  <2> HIDE DEF owners
  <2>2. Cardinality(owners) = 0
    BY <2>1, FS_EmptySet
  <2> QED BY <1>2, <1>4, <2>2 DEF owners
<1> QED BY <1>3, <1>4

\* when project_parse_file has returned, nothing is left
LEMMA ReturnedFreed ==
  ASSUME IInv, returned \in {"ok", "bad_xml"}
  PROVE  \A e \in DOMAIN bld : bld[e].freed
<1>1. stack = << >>
  <2>1. CASE returned = "ok"
    <3>1. openElems = << >> /\ stack \in Seq(DOMAIN bld) /\ Len(stack) <= Len(openElems)
      BY <2>1 DEF IInv, StackOK
    <3>2. Len(stack) \in Nat /\ Len(openElems) = 0
      BY <3>1
    <3>3. Len(stack) = 0
      BY <3>1, <3>2
    <3> QED BY <3>1, <3>3
  <2>2. CASE returned = "bad_xml"
    BY <2>2 DEF IInv
  <2> QED BY <2>1, <2>2
<1>2. Holds(bld, stack) = Zero(bld)
  <2>1. 0 + 1 .. Len(stack) = {}
    BY <1>1
  <2> QED BY <2>1 DEF Holds, Plus, Zero
<1>3. Tree(bld, Len(elems)) /\ Len(elems) \in Nat /\ Counted(bld, Refcounts(bld), Zero(bld))
  BY <1>2, IInvFacts DEF IInv
<1>4. \A e \in DOMAIN bld : Refcounts(bld)[e] = 0
  BY <1>3, AllFreed
<1> QED BY <1>4 DEF IInv, Refcounts

LEMMA OwnedOnce == IInv => BuildersOwnedOnce
<1> SUFFICES ASSUME IInv PROVE BuildersOwnedOnce
  OBVIOUS
<1>1. /\ (Reading /\ ~ nomem) => stack = openElems
      /\ returned = "overflow" => Len(openElems) > STACKLEN
      /\ returned = "underflow" => nomem
  BY DEF IInv, StackOK
<1>2. ASSUME NEW e \in DOMAIN bld
      PROVE  LET owners == {s \in DOMAIN stack : stack[s] = e}
                 parents == {p \in Live : e \in Range(bld[p].children)}
             IN  /\ bld[e].refcount = Cardinality(owners) + Cardinality(parents)
                 /\ bld[e].freed <=> bld[e].refcount = 0
                 /\ returned \in {"ok", "bad_xml"} => bld[e].freed
  <2> DEFINE owners == {s \in DOMAIN stack : stack[s] = e}
             parents == {p \in Live : e \in Range(bld[p].children)}
             P == ParentsOf(bld, Refcounts(bld), e)
  <2>1. \A p \in DOMAIN bld : bld[p].freed <=> Refcounts(bld)[p] = 0
    BY DEF IInv, Refcounts
  <2>2. parents = P
    BY <2>1 DEF Live, ParentsOf
  <2>3. Refcounts(bld)[e] = Holds(bld, stack)[e] + Cardinality(P)
    BY DEF IInv, Counted
  <2>4. Refcounts(bld)[e] = bld[e].refcount
    BY DEF Refcounts
  <2>5. Cardinality(owners) = Holds(bld, stack)[e]
    BY OwnersCounted
  <2>6. bld[e].freed <=> bld[e].refcount = 0
    BY DEF IInv
  <2>7. returned \in {"ok", "bad_xml"} => bld[e].freed
    BY ReturnedFreed
  <2> HIDE DEF owners, parents, P
  <2>8. bld[e].refcount = Cardinality(owners) + Cardinality(parents)
    BY <2>2, <2>3, <2>4, <2>5
  <2> QED BY <2>6, <2>7, <2>8 DEF owners, parents
<1> QED BY <1>1, <1>2, Zenon DEF BuildersOwnedOnce

(***************************************************************************)
(* Whatever elements and pieces of text expat reports, whichever builder   *)
(* cannot be allocated and wherever XML_Parse gives up, a builder has one  *)
(* reference for its place on bs.stack or for its parent, is freed by its  *)
(* last one, and none is left when project_parse_file returns              *)
(* (builder_stack_start_element, builder_stack_end_element and             *)
(* node_builder_unref).                                                    *)
(***************************************************************************)
THEOREM BuildersOwned == BuilderSpec => []BuildersOwnedOnce
<1>1. BuilderInit => IInv
  BY InitOK
<1>2. IInv /\ [BuilderNext]_builderVars => IInv'
  BY StepOK
<1>3. IInv => BuildersOwnedOnce
  BY OwnedOnce
<1> QED BY <1>1, <1>2, <1>3, PTL DEF BuilderSpec
=============================================================================
