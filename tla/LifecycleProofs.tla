-------------------------- MODULE LifecycleProofs ---------------------------
(***************************************************************************)
(* Theorems about Lifecycle: for any number of threads, simulations and    *)
(* modules the reference counts are those of the holders, and nothing is   *)
(* used after it was freed.                                                *)
(***************************************************************************)
EXTENDS Lifecycle, Arithmetic, SequenceTheorems, FunctionTheorems

-----------------------------------------------------------------------------
(* The invariant.                                                          *)

Releases == {"model_unref", "project_unref", "project_free", "sim_unref", "sim_free"}

Operation == [op : Releases \cup Constructing, s : Sims \cup {0}, m : Models \cup {0},
              built : Seq(Models)]

\* what is left when a call only gives back
Release ==
  {o \in Operation :
     /\ o.op \in Releases /\ o.built = << >>
     /\ o.op = "model_unref" => o.m \in Models
     /\ o.op \in {"sim_unref", "sim_free"} => o.s \in Sims}

\* where a call of sd_sim_new has got to
Construction ==
  {o \in Operation :
     /\ o.op \in Constructing /\ o.s \in Sims
     /\ o.op \in {"get_model", "module"} => o.m \in Models
     /\ o.op = "init" => o.built = << >>}

Lists == [Threads -> Seq(Operation)]

Handles(X) == [Threads -> [X -> Nat]]

Counted == [refcount : Int, freed : BOOLEAN]

SimRecord == [refcount : Int, freed : BOOLEAN, modules : Seq(Models), project : BOOLEAN]

TypeOK ==
  /\ have \in SUBSET Models
  /\ project \in Counted
  /\ model \in [Models -> Counted]
  /\ sim \in [Sims -> SimRecord]
  /\ ph \in [Threads -> Nat]
  /\ mh \in Handles(Models)
  /\ sh \in Handles(Sims)
  /\ todo \in Lists
  /\ leaked \in [Models -> Nat]

ListOK(l) == l \in Seq(Release) \/ (Len(l) = 1 /\ l[1] \in Construction)

CallsOK == \A t \in Threads : ListOK(todo[t])

\* the simulation as it is while it is made
Unfinished(o, x) ==
  /\ x.refcount = 1
  /\ IF o.op = "init" THEN x.project ELSE x = [NoSim EXCEPT !.refcount = 1]

MakersOK ==
  \A t \in Threads : todo[t] # << >> /\ Head(todo[t]).op \in Constructing =>
    /\ ph[t] > 0
    /\ Unfinished(Head(todo[t]), sim[Head(todo[t]).s])

SharedKeepProject == \A t \in Threads, s \in Sims : sh[t][s] > 0 => sim[s].project

ProjectCount == project.refcount = SumOf(ph) + InCalls(todo, "project", Root) + KeptProject(sim)

\* the references that threads hold to x
Held(h, x) == SumOf([t \in Threads |-> h[t][x]])

SimCount == \A s \in Sims : sim[s].refcount = Held(sh, s) + InCalls(todo, "sim", s)

FileKeeps(m) == IF m \in have /\ project.refcount > 0 THEN 1 ELSE 0

ModelCount ==
  \A m \in Models :
    model[m].refcount =
      Held(mh, m) + InCalls(todo, "model", m) + KeptModel(sim, m) + FileKeeps(m) + leaked[m]

AsNum(b) == IF b THEN 1 ELSE 0

\* referred to, about to be freed, or freed: one at a time
ProjectLife ==
  AsNum(project.refcount > 0) + InCalls(todo, "project_free", Root) + AsNum(project.freed) = 1

Stages(s) == AsNum(sim[s].refcount > 0) + InCalls(todo, "sim_free", s) + AsNum(sim[s].freed)

SimLife == \A s \in Sims : Stages(s) = 1 \/ (Stages(s) = 0 /\ sim[s] = NoSim)

ModelLife ==
  \A m \in Models :
    /\ model[m].freed => model[m].refcount = 0
    /\ m \in have /\ model[m].refcount = 0 => model[m].freed

IInv ==
  /\ TypeOK
  /\ CallsOK
  /\ MakersOK
  /\ SharedKeepProject
  /\ ProjectCount
  /\ SimCount
  /\ ModelCount
  /\ ProjectLife
  /\ SimLife
  /\ ModelLife
  /\ faults = {}

-----------------------------------------------------------------------------
(* Sums.                                                                   *)

Bars(w) == UNION {{x} \X (1 .. w[x]) : x \in DOMAIN w}

LEMMA BarSize ==
  ASSUME NEW x, NEW n \in Nat
  PROVE  IsFiniteSet({x} \X (1 .. n)) /\ Cardinality({x} \X (1 .. n)) = n
<1>1. IsFiniteSet({x}) /\ Cardinality({x}) = 1
  BY FS_Singleton
<1>2. IsFiniteSet(1 .. n) /\ Cardinality(1 .. n) = n
  BY FS_Interval
<1>3. /\ IsFiniteSet({x} \X (1 .. n))
      /\ Cardinality({x} \X (1 .. n)) = Cardinality({x}) * Cardinality(1 .. n)
  BY <1>1, <1>2, FS_Product, Zenon
<1>4. 1 * n = n
  OBVIOUS
<1> QED BY <1>1, <1>2, <1>3, <1>4

LEMMA BarsFinite ==
  ASSUME NEW S, IsFiniteSet(S), NEW w \in [S -> Nat]
  PROVE  IsFiniteSet(Bars(w)) /\ SumOf(w) = Cardinality(Bars(w))
<1> DEFINE bar == [x \in S |-> {x} \X (1 .. w[x])]
           T == {bar[x] : x \in S}
<1>1. IsFiniteSet(T)
  <2>1. bar \in [S -> T] /\ \A y \in T : \E x \in S : bar[x] = y
    OBVIOUS
  <2>2. bar \in Surjection(S, T)
    BY <2>1 DEF Surjection
  <2> QED BY <2>2, FS_Surjection
<1>2. ASSUME NEW y \in T PROVE IsFiniteSet(y)
  <2>1. PICK x \in S : y = {x} \X (1 .. w[x])
    OBVIOUS
  <2>2. w[x] \in Nat
    OBVIOUS
  <2> QED BY <2>1, <2>2, BarSize
<1>3. IsFiniteSet(UNION T)
  BY <1>1, <1>2, FS_UNION
<1>4. Bars(w) = UNION T
  BY DEF Bars
<1> QED BY <1>3, <1>4 DEF SumOf, Bars

LEMMA SumType ==
  ASSUME NEW S, IsFiniteSet(S), NEW w \in [S -> Nat]
  PROVE  SumOf(w) \in Nat
BY BarsFinite, FS_CardinalityType

Without(w, t) == [x \in (DOMAIN w) \ {t} |-> w[x]]

(* A sum is one of its numbers and the sum of the others.                  *)
LEMMA SumSplit ==
  ASSUME NEW S, IsFiniteSet(S), NEW w \in [S -> Nat], NEW t \in S
  PROVE  /\ Without(w, t) \in [S \ {t} -> Nat] /\ IsFiniteSet(S \ {t})
         /\ SumOf(Without(w, t)) \in Nat
         /\ SumOf(w) = SumOf(Without(w, t)) + w[t]
<1> DEFINE v == Without(w, t)
           one == {t} \X (1 .. w[t])
<1>1. v \in [S \ {t} -> Nat] /\ IsFiniteSet(S \ {t})
  BY FS_Difference DEF Without
<1>2. /\ IsFiniteSet(Bars(v)) /\ SumOf(v) = Cardinality(Bars(v))
      /\ IsFiniteSet(Bars(w)) /\ SumOf(w) = Cardinality(Bars(w))
  BY <1>1, BarsFinite
<1>3. IsFiniteSet(one) /\ Cardinality(one) = w[t]
  <2>1. w[t] \in Nat
    OBVIOUS
  <2> QED BY <2>1, BarSize
<1>4. Bars(w) = Bars(v) \cup one
  <2>1. DOMAIN w = (DOMAIN v) \cup {t} /\ \A x \in DOMAIN v : v[x] = w[x]
    BY <1>1 DEF Without
  <2>2. Bars(v) = UNION {{x} \X (1 .. w[x]) : x \in DOMAIN v}
    BY <2>1 DEF Bars
  <2> QED BY <2>1, <2>2 DEF Bars
<1>5. Bars(v) \cap one = {}
  BY <1>1 DEF Bars, Without
<1>6. SumOf(v) \in Nat
  BY <1>1, SumType
<1>7. Cardinality(Bars(w)) = Cardinality(Bars(v)) + Cardinality(one) - Cardinality(Bars(v) \cap one)
  BY <1>2, <1>3, <1>4, FS_Union
<1>8. Cardinality(Bars(v) \cap one) = 0
  BY <1>5, FS_EmptySet
<1> HIDE DEF v, one
<1>9. SumOf(w) = SumOf(v) + w[t]
  BY <1>2, <1>3, <1>6, <1>7, <1>8
<1> QED BY <1>1, <1>6, <1>9 DEF v

(* Sums of functions that differ at one place only.                        *)
LEMMA SumStep ==
  ASSUME NEW S, IsFiniteSet(S), NEW w \in [S -> Nat], NEW v \in [S -> Nat], NEW t \in S,
         \A x \in S : x # t => v[x] = w[x]
  PROVE  SumOf(v) + w[t] = SumOf(w) + v[t]
<1>1. Without(w, t) = Without(v, t)
  BY DEF Without
<1>2. SumOf(Without(w, t)) \in Nat /\ SumOf(w) = SumOf(Without(w, t)) + w[t]
  BY SumSplit, Zenon
<1>3. SumOf(v) = SumOf(Without(v, t)) + v[t]
  BY SumSplit, Zenon
<1>4. w[t] \in Nat /\ v[t] \in Nat
  OBVIOUS
<1> QED BY <1>1, <1>2, <1>3, <1>4

LEMMA SumZero ==
  ASSUME NEW S, NEW w, DOMAIN w = S, \A x \in S : w[x] = 0
  PROVE  SumOf(w) = 0
<1>1. Bars(w) = {}
  BY DEF Bars
<1> QED BY <1>1, FS_EmptySet DEF SumOf, Bars

LEMMA SumAtLeast ==
  ASSUME NEW S, IsFiniteSet(S), NEW w \in [S -> Nat], NEW t \in S
  PROVE  w[t] <= SumOf(w)
<1>1. SumOf(Without(w, t)) \in Nat /\ SumOf(w) = SumOf(Without(w, t)) + w[t]
  BY SumSplit, Zenon
<1>2. w[t] \in Nat
  OBVIOUS
<1> QED BY <1>1, <1>2

LEMMA SumBounds ==
  ASSUME NEW S, IsFiniteSet(S), NEW w \in [S -> Nat]
  PROVE  /\ SumOf(w) \in Nat
         /\ \A t \in S : w[t] <= SumOf(w)
         /\ \A t, u \in S : t # u => w[t] + w[u] <= SumOf(w)
         /\ SumOf(w) = 0 <=> \A t \in S : w[t] = 0
<1>1. SumOf(w) \in Nat
  BY SumType
<1>2. ASSUME NEW t \in S PROVE w[t] <= SumOf(w)
  BY SumAtLeast, Zenon
<1>3. ASSUME NEW t \in S, NEW u \in S, t # u PROVE w[t] + w[u] <= SumOf(w)
  <2>1. /\ Without(w, t) \in [S \ {t} -> Nat] /\ IsFiniteSet(S \ {t})
        /\ SumOf(Without(w, t)) \in Nat
        /\ SumOf(w) = SumOf(Without(w, t)) + w[t]
    BY SumSplit
  <2>2. u \in S \ {t} /\ Without(w, t)[u] = w[u]
    BY <1>3 DEF Without
  <2> DEFINE v == Without(w, t)
             R == S \ {t}
  <2>3. v \in [R -> Nat] /\ IsFiniteSet(R) /\ u \in R /\ v[u] = w[u]
    BY <2>1, <2>2
  <2> HIDE DEF v, R
  <2>4. v[u] <= SumOf(v)
    <3>1. ASSUME NEW T, IsFiniteSet(T), NEW f \in [T -> Nat], NEW y \in T PROVE f[y] <= SumOf(f)
      BY <3>1, SumAtLeast, Zenon
    <3> QED BY <2>3, <3>1
  <2>5. w[u] \in Nat /\ w[t] \in Nat
    OBVIOUS
  <2> QED BY <2>1, <2>3, <2>4, <2>5 DEF v
<1>4. (\A t \in S : w[t] = 0) => SumOf(w) = 0
  BY SumZero
<1>5. SumOf(w) = 0 => \A t \in S : w[t] = 0
  BY <1>2
<1> QED BY <1>1, <1>2, <1>3, <1>4, <1>5

(* The sum of a single number.                                             *)
LEMMA SumOne ==
  ASSUME NEW S, NEW x, S = {x}, NEW w \in [S -> Nat]
  PROVE  SumOf(w) = w[x]
<1>1. IsFiniteSet(S) /\ x \in S
  BY FS_Singleton
<1>2. SumOf(w) = SumOf(Without(w, x)) + w[x]
  BY <1>1, SumSplit, Zenon
<1>3. DOMAIN Without(w, x) = {} /\ \A y \in {} : Without(w, x)[y] = 0
  BY DEF Without
<1>4. SumOf(Without(w, x)) = 0
  BY <1>3, SumZero, Zenon
<1>5. w[x] \in Nat
  BY <1>1
<1> QED BY <1>2, <1>4, <1>5

(* The sum of one list of numbers behind another.                          *)
LEMMA SumConcat ==
  ASSUME NEW a \in Nat, NEW b \in Nat, NEW v \in [1 .. a -> Nat], NEW w \in [1 .. b -> Nat],
         NEW c \in [1 .. a + b -> Nat],
         \A k \in 1 .. a : c[k] = v[k], \A k \in 1 .. b : c[a + k] = w[k]
  PROVE  SumOf(c) = SumOf(v) + SumOf(w)
<1> DEFINE moved == {<<a + p[1], p[2]>> : p \in Bars(w)}
           move == [p \in Bars(w) |-> <<a + p[1], p[2]>>]
<1>1. /\ IsFiniteSet(1 .. a) /\ IsFiniteSet(1 .. b) /\ IsFiniteSet(1 .. a + b)
      /\ a + b \in Nat
  BY FS_Interval
<1>2. /\ IsFiniteSet(Bars(v)) /\ SumOf(v) = Cardinality(Bars(v)) /\ SumOf(v) \in Nat
      /\ IsFiniteSet(Bars(w)) /\ SumOf(w) = Cardinality(Bars(w)) /\ SumOf(w) \in Nat
      /\ SumOf(c) = Cardinality(Bars(c))
  BY <1>1, BarsFinite, SumType
<1>3. Bars(w) = UNION {{x} \X (1 .. w[x]) : x \in 1 .. b}
  BY DEF Bars
<1>4. \A p \in Bars(w) : \E x \in 1 .. b : \E y \in 1 .. w[x] : p = <<x, y>>
  BY <1>3
<1>5. IsFiniteSet(moved) /\ Cardinality(moved) = Cardinality(Bars(w))
  <2>1. move \in [Bars(w) -> moved] /\ \A y \in moved : \E p \in Bars(w) : move[p] = y
    OBVIOUS
  <2>2. ASSUME NEW p \in Bars(w), NEW q \in Bars(w), move[p] = move[q] PROVE p = q
    <3>1. a + p[1] = a + q[1] /\ p[2] = q[2]
      BY <2>2
    <3>2. PICK x \in 1 .. b : \E y \in 1 .. w[x] : p = <<x, y>>
      BY <1>4
    <3>3. PICK z \in 1 .. b : \E y \in 1 .. w[z] : q = <<z, y>>
      BY <1>4
    <3> QED BY <3>1, <3>2, <3>3
  <2>3. move \in Bijection(Bars(w), moved)
    <3> HIDE DEF move, moved
    <3> QED BY <2>1, <2>2 DEF Bijection, Injection, Surjection, IsInjective
  <2>4. ExistsBijection(Bars(w), moved)
    BY <2>3 DEF ExistsBijection
  <2> QED BY <1>2, <2>4, FS_Bijection
<1>6. Bars(c) = Bars(v) \cup moved
  <2>1. Bars(v) = UNION {{x} \X (1 .. v[x]) : x \in 1 .. a}
    BY DEF Bars
  <2>2. Bars(c) = UNION {{x} \X (1 .. c[x]) : x \in 1 .. a + b}
    BY DEF Bars
  <2>3. ASSUME NEW p \in Bars(c) PROVE p \in Bars(v) \cup moved
    <3>1. PICK x \in 1 .. a + b : \E y \in 1 .. c[x] : p = <<x, y>>
      BY <2>2
    <3>2. PICK y \in 1 .. c[x] : p = <<x, y>>
      BY <3>1
    <3>3. CASE x <= a
      <4>1. x \in 1 .. a /\ y \in 1 .. v[x]
        BY <3>3
      <4> QED BY <2>1, <3>2, <4>1
    <3>4. CASE x > a
      <4>1. x - a \in 1 .. b /\ a + (x - a) = x
        BY <3>4
      <4>2. c[x] = w[x - a]
        BY <4>1
      <4>3. \A z \in 1 .. b : \A i \in 1 .. w[z] : <<z, i>> \in Bars(w)
        BY <1>3
      <4>5. <<x - a, y>> \in Bars(w)
        BY <4>1, <4>2, <4>3
      <4>4. p = <<a + <<x - a, y>>[1], <<x - a, y>>[2]>>
        BY <3>2, <4>1
      <4> QED BY <4>4, <4>5
    <3> QED BY <3>3, <3>4
  <2>4. ASSUME NEW p \in Bars(v) PROVE p \in Bars(c)
    <3>1. PICK x \in 1 .. a : \E y \in 1 .. v[x] : p = <<x, y>>
      BY <2>1
    <3>2. x \in 1 .. a + b /\ c[x] = v[x]
      OBVIOUS
    <3>3. PICK y \in 1 .. c[x] : p = <<x, y>>
      BY <3>1, <3>2
    <3>4. \A z \in 1 .. a + b : \A i \in 1 .. c[z] : <<z, i>> \in Bars(c)
      BY <2>2
    <3> QED BY <3>2, <3>3, <3>4
  <2>5. ASSUME NEW p \in moved PROVE p \in Bars(c)
    <3>1. PICK q \in Bars(w) : p = <<a + q[1], q[2]>>
      OBVIOUS
    <3>2. PICK x \in 1 .. b : \E y \in 1 .. w[x] : q = <<x, y>>
      BY <1>4
    <3>3. PICK y \in 1 .. w[x] : q = <<x, y>>
      BY <3>2
    <3>4. a + x \in 1 .. a + b /\ c[a + x] = w[x] /\ p = <<a + x, y>>
      BY <3>1, <3>3
    <3> QED BY <2>2, <3>4
  <2> QED BY <2>3, <2>4, <2>5
<1>7. Bars(v) \cap moved = {}
  <2>1. Bars(v) = UNION {{x} \X (1 .. v[x]) : x \in 1 .. a}
    BY DEF Bars
  <2>2. SUFFICES ASSUME NEW p \in Bars(v), p \in moved PROVE FALSE
    OBVIOUS
  <2>3. PICK x \in 1 .. a : \E y \in 1 .. v[x] : p = <<x, y>>
    BY <2>1
  <2>4. PICK q \in Bars(w) : p = <<a + q[1], q[2]>>
    BY <2>2
  <2>5. PICK z \in 1 .. b : \E y \in 1 .. w[z] : q = <<z, y>>
    BY <1>4
  <2>6. p[1] = x /\ p[1] = a + z
    BY <2>3, <2>4, <2>5
  <2> QED BY <2>6
<1>8. Cardinality(Bars(c)) = Cardinality(Bars(v)) + Cardinality(moved) - Cardinality(Bars(v) \cap moved)
  BY <1>2, <1>5, <1>6, FS_Union
<1>9. Cardinality(Bars(v) \cap moved) = 0
  BY <1>7, FS_EmptySet
<1> HIDE DEF moved, move
<1> QED BY <1>2, <1>5, <1>8, <1>9

-----------------------------------------------------------------------------
(* Counting in sequences and in calls.                                     *)

LEMMA CountType ==
  ASSUME NEW S, NEW l \in Seq(S), NEW x
  PROVE  Count(l, x) \in Nat
<1>1. Len(l) \in Nat /\ DOMAIN l = 1 .. Len(l)
  OBVIOUS
<1>2. IsFiniteSet(1 .. Len(l))
  BY <1>1, FS_Interval
<1>3. [k \in DOMAIN l |-> IF l[k] = x THEN 1 ELSE 0] \in [1 .. Len(l) -> Nat]
  BY <1>1
<1> QED BY <1>2, <1>3, SumType, Zenon DEF Count

LEMMA CountEmpty ==
  ASSUME NEW x
  PROVE  Count(<< >>, x) = 0
<1> DEFINE w == [k \in DOMAIN << >> |-> IF << >>[k] = x THEN 1 ELSE 0]
<1>1. DOMAIN w = {} /\ \A k \in {} : w[k] = 0
  OBVIOUS
<1> HIDE DEF w
<1>2. SumOf(w) = 0
  BY <1>1, SumZero, Zenon
<1> QED BY <1>2 DEF Count, w

LEMMA CountAppend ==
  ASSUME NEW S, NEW l \in Seq(S), NEW y \in S, NEW x
  PROVE  Count(Append(l, y), x) = Count(l, x) + AsNum(y = x)
<1> DEFINE a == Append(l, y)
           v == [k \in DOMAIN l |-> IF l[k] = x THEN 1 ELSE 0]
           w == [k \in 1 .. 1 |-> AsNum(y = x)]
           c == [k \in DOMAIN a |-> IF a[k] = x THEN 1 ELSE 0]
<1>1. /\ Len(l) \in Nat /\ DOMAIN l = 1 .. Len(l)
      /\ DOMAIN a = 1 .. Len(l) + 1
      /\ \A k \in 1 .. Len(l) : a[k] = l[k]
      /\ a[Len(l) + 1] = y
  OBVIOUS
<1>2. v \in [1 .. Len(l) -> Nat] /\ w \in [1 .. 1 -> Nat] /\ c \in [1 .. Len(l) + 1 -> Nat]
  BY <1>1 DEF AsNum
<1>3. (\A k \in 1 .. Len(l) : c[k] = v[k]) /\ \A k \in 1 .. 1 : c[Len(l) + k] = w[k]
  BY <1>1 DEF AsNum
<1>4. Count(a, x) = SumOf(c) /\ Count(l, x) = SumOf(v) /\ w[1] = AsNum(y = x)
  BY DEF Count
<1> HIDE DEF v, w, c, a
<1>5. SumOf(c) = SumOf(v) + SumOf(w)
  <2>1. Len(l) \in Nat /\ 1 \in Nat
    BY <1>1
  <2> QED BY <1>2, <1>3, <2>1, SumConcat, Zenon
<1>6. SumOf(w) = w[1]
  <2>1. 1 .. 1 = {1}
    OBVIOUS
  <2> QED BY <1>2, <2>1, SumOne, Zenon
<1> QED BY <1>4, <1>5, <1>6 DEF a

LEMMA CountPositive ==
  ASSUME NEW S, NEW l \in Seq(S), NEW k \in DOMAIN l
  PROVE  Count(l, l[k]) >= 1
<1> DEFINE w == [i \in DOMAIN l |-> IF l[i] = l[k] THEN 1 ELSE 0]
<1>1. Len(l) \in Nat /\ DOMAIN l = 1 .. Len(l)
  OBVIOUS
<1>2. IsFiniteSet(DOMAIN l)
  BY <1>1, FS_Interval
<1>3. w \in [DOMAIN l -> Nat] /\ w[k] = 1 /\ SumOf(w) = Count(l, l[k])
  BY DEF Count
<1> HIDE DEF w
<1>4. w[k] <= SumOf(w)
  BY <1>2, <1>3, SumAtLeast, Zenon
<1>5. Count(l, l[k]) \in Nat
  BY CountType
<1> QED BY <1>3, <1>4, <1>5

Whats == {"project", "model", "sim", "project_free", "sim_free"}

LEMMA InHandType ==
  ASSUME NEW o \in Operation, NEW what \in Whats, NEW x
  PROVE  InHand(o, what, x) \in Nat
<1>1. CASE what = "model"
  <2>1. ModelsOf(o) \in Seq(Models \cup {0})
    BY DEF Operation, ModelsOf
  <2>2. Count(ModelsOf(o), x) \in Nat
    BY <2>1, CountType
  <2> QED BY <1>1, <2>2 DEF InHand
<1>2. CASE what # "model"
  BY <1>2 DEF InHand, Whats
<1> QED BY <1>1, <1>2

Chart(l, what, x) == [k \in DOMAIN l |-> InHand(l[k], what, x)]

LEMMA InListType ==
  ASSUME NEW l \in Seq(Operation), NEW what \in Whats, NEW x
  PROVE  /\ Chart(l, what, x) \in [1 .. Len(l) -> Nat]
         /\ IsFiniteSet(1 .. Len(l))
         /\ InList(l, what, x) \in Nat
<1>1. Len(l) \in Nat /\ DOMAIN l = 1 .. Len(l) /\ \A k \in 1 .. Len(l) : l[k] \in Operation
  OBVIOUS
<1>2. Chart(l, what, x) \in [1 .. Len(l) -> Nat]
  BY <1>1, InHandType DEF Chart
<1>3. IsFiniteSet(1 .. Len(l))
  BY <1>1, FS_Interval
<1> QED BY <1>2, <1>3, SumType, Zenon DEF InList, Chart

LEMMA InListEmpty ==
  ASSUME NEW what, NEW x
  PROVE  InList(<< >>, what, x) = 0
<1> DEFINE w == [k \in DOMAIN << >> |-> InHand(<< >>[k], what, x)]
<1>1. DOMAIN w = {} /\ \A k \in {} : w[k] = 0
  OBVIOUS
<1> HIDE DEF w
<1>2. SumOf(w) = 0
  BY <1>1, SumZero, Zenon
<1> QED BY <1>2 DEF InList, w

LEMMA InListOne ==
  ASSUME NEW o \in Operation, NEW what \in Whats, NEW x
  PROVE  InList(<<o>>, what, x) = InHand(o, what, x)
<1> DEFINE w == [k \in DOMAIN <<o>> |-> InHand(<<o>>[k], what, x)]
<1>1. DOMAIN <<o>> = {1} /\ <<o>>[1] = o
  OBVIOUS
<1>2. InHand(o, what, x) \in Nat
  BY InHandType
<1>3. w \in [{1} -> Nat] /\ w[1] = InHand(o, what, x) /\ SumOf(w) = InList(<<o>>, what, x)
  BY <1>1, <1>2 DEF InList
<1> HIDE DEF w
<1>4. SumOf(w) = w[1]
  BY <1>3, SumOne, Zenon
<1> QED BY <1>3, <1>4

LEMMA InListConcat ==
  ASSUME NEW p \in Seq(Operation), NEW q \in Seq(Operation), NEW what \in Whats, NEW x
  PROVE  InList(p \o q, what, x) = InList(p, what, x) + InList(q, what, x)
<1> DEFINE pq == p \o q
           v == Chart(p, what, x)
           w == Chart(q, what, x)
           c == Chart(pq, what, x)
<1>1. /\ Len(p) \in Nat /\ DOMAIN p = 1 .. Len(p) /\ Len(q) \in Nat /\ DOMAIN q = 1 .. Len(q)
      /\ pq \in Seq(Operation) /\ Len(pq) = Len(p) + Len(q) /\ DOMAIN pq = 1 .. Len(pq)
      /\ \A k \in 1 .. Len(p) : pq[k] = p[k]
      /\ \A k \in 1 .. Len(q) : pq[Len(p) + k] = q[k]
  OBVIOUS
<1>2. /\ v \in [1 .. Len(p) -> Nat] /\ w \in [1 .. Len(q) -> Nat]
      /\ c \in [1 .. Len(p) + Len(q) -> Nat]
  <2>1. pq \in Seq(Operation) /\ Len(pq) = Len(p) + Len(q)
    BY <1>1
  <2>2. v \in [1 .. Len(p) -> Nat] /\ w \in [1 .. Len(q) -> Nat]
    BY InListType
  <2>3. c \in [1 .. Len(pq) -> Nat]
    <3> HIDE DEF pq
    <3> QED BY <2>1, InListType
  <2> QED BY <2>1, <2>2, <2>3
<1>3. /\ \A k \in 1 .. Len(p) : c[k] = v[k]
      /\ \A k \in 1 .. Len(q) : c[Len(p) + k] = w[k]
  BY <1>1 DEF Chart
<1>4. InList(pq, what, x) = SumOf(c) /\ InList(p, what, x) = SumOf(v) /\ InList(q, what, x) = SumOf(w)
  BY DEF InList, Chart
<1> HIDE DEF v, w, c, pq
<1>5. SumOf(c) = SumOf(v) + SumOf(w)
  <2>1. Len(p) \in Nat /\ Len(q) \in Nat
    BY <1>1
  <2> QED BY <1>2, <1>3, <2>1, SumConcat, Zenon
<1> QED BY <1>4, <1>5 DEF pq

LEMMA InListHead ==
  ASSUME NEW l \in Seq(Operation), l # << >>, NEW what \in Whats, NEW x
  PROVE  InList(l, what, x) = InHand(Head(l), what, x) + InList(Tail(l), what, x)
<1>1. Head(l) \in Operation /\ Tail(l) \in Seq(Operation) /\ <<Head(l)>> \in Seq(Operation)
  OBVIOUS
<1> DEFINE h == <<Head(l)>>
           r == Tail(l)
<1>2. l = h \o r /\ h \in Seq(Operation) /\ r \in Seq(Operation)
  OBVIOUS
<1>3. InList(h \o r, what, x) = InList(h, what, x) + InList(r, what, x)
  <2> HIDE DEF h, r
  <2> QED BY <1>2, InListConcat
<1>4. InList(<<Head(l)>>, what, x) = InHand(Head(l), what, x)
  BY <1>1, InListOne, Zenon
<1> QED BY <1>2, <1>3, <1>4

LEMMA InListHas ==
  ASSUME NEW l \in Seq(Operation), NEW k \in DOMAIN l, NEW what \in Whats, NEW x
  PROVE  InHand(l[k], what, x) <= InList(l, what, x)
<1> DEFINE w == Chart(l, what, x)
<1>1. DOMAIN l = 1 .. Len(l)
  OBVIOUS
<1>2. w \in [1 .. Len(l) -> Nat] /\ IsFiniteSet(1 .. Len(l)) /\ k \in 1 .. Len(l)
  <2>1. w \in [1 .. Len(l) -> Nat] /\ IsFiniteSet(1 .. Len(l))
    BY InListType, Zenon
  <2> QED BY <1>1, <2>1
<1>3. w[k] = InHand(l[k], what, x) /\ SumOf(w) = InList(l, what, x)
  BY DEF InList, Chart
<1> HIDE DEF w
<1>4. w[k] <= SumOf(w)
  BY <1>2, SumAtLeast, Zenon
<1> QED BY <1>3, <1>4

\* the releases of models are the models
LEMMA InListModels ==
  ASSUME NEW b \in Seq(Models), NEW what \in Whats, NEW x
  PROVE  /\ avar_free(b) \in Seq(Release) /\ avar_free(b) \in Seq(Operation)
         /\ InList(avar_free(b), what, x) = IF what = "model" THEN Count(b, x) ELSE 0
<1> DEFINE l == avar_free(b)
<1>1. Len(b) \in Nat /\ DOMAIN b = 1 .. Len(b) /\ \A k \in 1 .. Len(b) : b[k] \in Models
  OBVIOUS
<1>2. \A m \in Models : model_unref(m) \in Release
  BY DEF Release, Operation, model_unref, Op, Releases
<1>3. /\ DOMAIN l = 1 .. Len(b) /\ \A k \in 1 .. Len(b) : l[k] = model_unref(b[k])
      /\ l \in [1 .. Len(b) -> Release]
  BY <1>1, <1>2 DEF avar_free
<1>4. l \in Seq(Release)
  BY <1>1, <1>3 DEF avar_free
<1>5. l \in Seq(Operation)
  BY <1>4 DEF Release
<1>6. \A m \in Models : InHand(model_unref(m), what, x) = IF what = "model" THEN AsNum(m = x) ELSE 0
  <2> TAKE m \in Models
  <2>1. CASE what = "model"
    <3>1. ModelsOf(model_unref(m)) = Append(<< >>, m)
      BY DEF ModelsOf, model_unref, Op
    <3>2. << >> \in Seq(Models)
      OBVIOUS
    <3>3. Count(Append(<< >>, m), x) = Count(<< >>, x) + AsNum(m = x)
      <4>1. \A l0 \in Seq(Models) : Count(Append(l0, m), x) = Count(l0, x) + AsNum(m = x)
        BY CountAppend
      <4> QED BY <3>2, <4>1, Zenon
    <3>4. AsNum(m = x) \in Nat
      BY DEF AsNum
    <3> QED BY <2>1, <3>1, <3>3, <3>4, CountEmpty DEF InHand
  <2>2. CASE what # "model"
    BY <2>2 DEF InHand, Whats, model_unref, Op, Constructing
  <2> QED BY <2>1, <2>2
<1>7. CASE what = "model"
  <2>1. [k \in DOMAIN l |-> InHand(l[k], what, x)] = [k \in DOMAIN b |-> IF b[k] = x THEN 1 ELSE 0]
    BY <1>1, <1>3, <1>6, <1>7 DEF AsNum
  <2> QED BY <1>4, <1>5, <1>7, <2>1 DEF InList, Count
<1>8. CASE what # "model"
  <2> DEFINE w == [k \in DOMAIN l |-> InHand(l[k], what, x)]
  <2>1. DOMAIN w = 1 .. Len(b) /\ \A k \in 1 .. Len(b) : w[k] = 0
    BY <1>1, <1>3, <1>6, <1>8
  <2> HIDE DEF w
  <2>2. SumOf(w) = 0
    BY <2>1, SumZero, Zenon
  <2> QED BY <1>4, <1>5, <1>8, <2>2 DEF InList, w
<1> QED BY <1>7, <1>8

-----------------------------------------------------------------------------
(* Totals over the threads and the simulations.                            *)

Elsewhere(old, new, t) == \A u \in Threads : u # t => new[u] = old[u]

LEMMA CallsType ==
  ASSUME NEW lists \in Lists, NEW what \in Whats, NEW x
  PROVE  /\ InCalls(lists, what, x) \in Nat
         /\ \A t \in Threads : InList(lists[t], what, x) <= InCalls(lists, what, x)
         /\ \A t, u \in Threads : t # u =>
              InList(lists[t], what, x) + InList(lists[u], what, x) <= InCalls(lists, what, x)
         /\ InCalls(lists, what, x) = 0 <=> \A t \in Threads : InList(lists[t], what, x) = 0
<1> DEFINE w == [t \in Threads |-> InList(lists[t], what, x)]
<1>1. \A t \in Threads : InList(lists[t], what, x) \in Nat
  <2>1. \A l \in Seq(Operation) : InList(l, what, x) \in Nat
    BY InListType
  <2> QED BY <2>1 DEF Lists
<1>2. w \in [Threads -> Nat] /\ SumOf(w) = InCalls(lists, what, x)
  BY <1>1 DEF InCalls
<1>3. \A t \in Threads : w[t] = InList(lists[t], what, x)
  OBVIOUS
<1>4. IsFiniteSet(Threads)
  BY LifecycleAssumption
<1> HIDE DEF w
<1>5. /\ SumOf(w) \in Nat
      /\ \A t \in Threads : w[t] <= SumOf(w)
      /\ \A t, u \in Threads : t # u => w[t] + w[u] <= SumOf(w)
      /\ SumOf(w) = 0 <=> \A t \in Threads : w[t] = 0
  BY <1>2, <1>4, SumBounds
<1> QED BY <1>2, <1>3, <1>5

LEMMA CallsStep ==
  ASSUME NEW old \in Lists, NEW new \in Lists, NEW t \in Threads, Elsewhere(old, new, t),
         NEW what \in Whats, NEW x
  PROVE  InCalls(new, what, x) + InList(old[t], what, x) = InCalls(old, what, x) + InList(new[t], what, x)
<1> DEFINE w == [u \in Threads |-> InList(old[u], what, x)]
           v == [u \in Threads |-> InList(new[u], what, x)]
<1>1. \A u \in Threads : InList(old[u], what, x) \in Nat /\ InList(new[u], what, x) \in Nat
  <2>1. \A l \in Seq(Operation) : InList(l, what, x) \in Nat
    BY InListType
  <2> QED BY <2>1 DEF Lists
<1>2. /\ w \in [Threads -> Nat] /\ SumOf(w) = InCalls(old, what, x)
      /\ v \in [Threads -> Nat] /\ SumOf(v) = InCalls(new, what, x)
  BY <1>1 DEF InCalls
<1>3. /\ w[t] = InList(old[t], what, x) /\ v[t] = InList(new[t], what, x)
      /\ \A u \in Threads : u # t => v[u] = w[u]
  BY DEF Elsewhere
<1>4. IsFiniteSet(Threads)
  BY LifecycleAssumption
<1> HIDE DEF w, v
<1>5. SumOf(v) + w[t] = SumOf(w) + v[t]
  BY <1>2, <1>3, <1>4, SumStep
<1> QED BY <1>2, <1>3, <1>5

LEMMA HeldType ==
  ASSUME NEW X, NEW h \in Handles(X), NEW x \in X
  PROVE  /\ Held(h, x) \in Nat
         /\ \A t \in Threads : h[t][x] \in Nat /\ h[t][x] <= Held(h, x)
         /\ Held(h, x) = 0 <=> \A t \in Threads : h[t][x] = 0
<1> DEFINE w == [t \in Threads |-> h[t][x]]
<1>1. w \in [Threads -> Nat] /\ SumOf(w) = Held(h, x) /\ \A t \in Threads : w[t] = h[t][x]
  BY DEF Held, Handles
<1>2. IsFiniteSet(Threads)
  BY LifecycleAssumption
<1> HIDE DEF w
<1>3. /\ SumOf(w) \in Nat
      /\ \A t \in Threads : w[t] <= SumOf(w)
      /\ SumOf(w) = 0 <=> \A t \in Threads : w[t] = 0
  BY <1>1, <1>2, SumBounds
<1> QED BY <1>1, <1>3

LEMMA HeldStep ==
  ASSUME NEW X, NEW old \in Handles(X), NEW new \in Handles(X), NEW t \in Threads, NEW y \in X,
         \A u \in Threads, x \in X : u # t \/ x # y => new[u][x] = old[u][x]
  PROVE  /\ Held(new, y) + old[t][y] = Held(old, y) + new[t][y]
         /\ \A x \in X : x # y => Held(new, x) = Held(old, x)
<1>1. Held(new, y) + old[t][y] = Held(old, y) + new[t][y]
  <2> DEFINE w == [u \in Threads |-> old[u][y]]
             v == [u \in Threads |-> new[u][y]]
  <2>1. /\ w \in [Threads -> Nat] /\ SumOf(w) = Held(old, y) /\ w[t] = old[t][y]
        /\ v \in [Threads -> Nat] /\ SumOf(v) = Held(new, y) /\ v[t] = new[t][y]
        /\ \A u \in Threads : u # t => v[u] = w[u]
    BY DEF Held, Handles
  <2>2. IsFiniteSet(Threads)
    BY LifecycleAssumption
  <2> HIDE DEF w, v
  <2>3. SumOf(v) + w[t] = SumOf(w) + v[t]
    BY <2>1, <2>2, SumStep
  <2> QED BY <2>1, <2>3
<1>2. ASSUME NEW x \in X, x # y PROVE Held(new, x) = Held(old, x)
  <2>1. [u \in Threads |-> new[u][x]] = [u \in Threads |-> old[u][x]]
    BY <1>2
  <2> QED BY <2>1 DEF Held
<1> QED BY <1>1, <1>2

\* what one simulation keeps
KeepsProject(x) == IF x.project /\ x.refcount > 0 THEN 1 ELSE 0

Keeps(x, m) == IF x.refcount > 0 THEN Count(x.modules, m) ELSE 0

LEMMA KeptType ==
  ASSUME NEW sims \in [Sims -> SimRecord], NEW m
  PROVE  /\ KeptProject(sims) \in Nat /\ KeptModel(sims, m) \in Nat
         /\ \A s \in Sims : /\ KeepsProject(sims[s]) \in Nat /\ Keeps(sims[s], m) \in Nat
                            /\ KeepsProject(sims[s]) <= KeptProject(sims)
                            /\ Keeps(sims[s], m) <= KeptModel(sims, m)
<1> DEFINE w == [s \in Sims |-> KeepsProject(sims[s])]
           v == [s \in Sims |-> Keeps(sims[s], m)]
<1>1. \A s \in Sims : Count(sims[s].modules, m) \in Nat
  <2>1. \A l \in Seq(Models) : Count(l, m) \in Nat
    BY CountType
  <2> QED BY <2>1 DEF SimRecord
<1>2. /\ w \in [Sims -> Nat] /\ SumOf(w) = KeptProject(sims)
      /\ v \in [Sims -> Nat] /\ SumOf(v) = KeptModel(sims, m)
  BY <1>1 DEF KeptProject, KeptModel, KeepsProject, Keeps
<1>3. \A s \in Sims : w[s] = KeepsProject(sims[s]) /\ v[s] = Keeps(sims[s], m)
  OBVIOUS
<1>4. IsFiniteSet(Sims)
  BY LifecycleAssumption
<1> HIDE DEF w, v
<1>5. SumOf(w) \in Nat /\ \A s \in Sims : w[s] <= SumOf(w)
  BY <1>2, <1>4, SumBounds
<1>6. SumOf(v) \in Nat /\ \A s \in Sims : v[s] <= SumOf(v)
  BY <1>2, <1>4, SumBounds
<1> QED BY <1>2, <1>3, <1>5, <1>6

LEMMA KeptStep ==
  ASSUME NEW old \in [Sims -> SimRecord], NEW new \in [Sims -> SimRecord], NEW s \in Sims,
         \A r \in Sims : r # s => new[r] = old[r], NEW m
  PROVE  /\ KeptProject(new) + KeepsProject(old[s]) = KeptProject(old) + KeepsProject(new[s])
         /\ KeptModel(new, m) + Keeps(old[s], m) = KeptModel(old, m) + Keeps(new[s], m)
<1> DEFINE w == [r \in Sims |-> KeepsProject(old[r])]
           v == [r \in Sims |-> KeepsProject(new[r])]
           a == [r \in Sims |-> Keeps(old[r], m)]
           b == [r \in Sims |-> Keeps(new[r], m)]
<1>1. \A r \in Sims : Count(old[r].modules, m) \in Nat /\ Count(new[r].modules, m) \in Nat
  <2>1. \A l \in Seq(Models) : Count(l, m) \in Nat
    BY CountType
  <2> QED BY <2>1 DEF SimRecord
<1>2. /\ w \in [Sims -> Nat] /\ SumOf(w) = KeptProject(old)
      /\ v \in [Sims -> Nat] /\ SumOf(v) = KeptProject(new)
      /\ a \in [Sims -> Nat] /\ SumOf(a) = KeptModel(old, m)
      /\ b \in [Sims -> Nat] /\ SumOf(b) = KeptModel(new, m)
  BY <1>1 DEF KeptProject, KeptModel, KeepsProject, Keeps
<1>3. /\ w[s] = KeepsProject(old[s]) /\ v[s] = KeepsProject(new[s])
      /\ a[s] = Keeps(old[s], m) /\ b[s] = Keeps(new[s], m)
      /\ \A r \in Sims : r # s => v[r] = w[r] /\ b[r] = a[r]
  OBVIOUS
<1>4. IsFiniteSet(Sims)
  BY LifecycleAssumption
<1> HIDE DEF w, v, a, b
<1>5. SumOf(v) + w[s] = SumOf(w) + v[s]
  BY <1>2, <1>3, <1>4, SumStep
<1>6. SumOf(b) + a[s] = SumOf(a) + b[s]
  BY <1>2, <1>3, <1>4, SumStep
<1> QED BY <1>2, <1>3, <1>5, <1>6

LEMMA ModelsFinite == IsFiniteSet(Models)
<1>1. Subs \in Seq(Models)
  BY LifecycleAssumption
<1> DEFINE n == Len(Subs)
<1>2. n \in Nat /\ Subs \in [1 .. n -> Range(Subs)] /\ \A y \in Range(Subs) : \E k \in 1 .. n : Subs[k] = y
  BY <1>1 DEF Range
<1>3. IsFiniteSet(1 .. n)
  BY <1>2, FS_Interval
<1> HIDE DEF n
<1>4. Subs \in Surjection(1 .. n, Range(Subs))
  BY <1>2 DEF Surjection
<1>5. IsFiniteSet(Range(Subs))
  BY <1>3, <1>4, FS_Surjection
<1>6. IsFiniteSet({Root})
  BY FS_Singleton
<1> QED BY <1>5, <1>6, FS_Union DEF Models

(* file_free goes through the models of the file, each once.               *)
LEMMA ModelsInFile ==
  ASSUME NEW S \in SUBSET Models
  PROVE  /\ SetToSeq(S) \in Seq(Models)
         /\ \A m \in Models : Count(SetToSeq(S), m) = IF m \in S THEN 1 ELSE 0
<1> DEFINE n == Cardinality(S)
           f == SetToSeq(S)
<1>1. IsFiniteSet(S)
  BY ModelsFinite, FS_Subset
<1>2. n \in Nat /\ ExistsBijection(1 .. n, S)
  BY <1>1, FS_CardinalityType
<1>3. \E g \in [1 .. n -> S] : IsInjective(g)
  BY <1>2 DEF ExistsBijection, Bijection, Injection
<1>4. f \in [1 .. n -> S] /\ IsInjective(f)
  BY <1>3 DEF SetToSeq
<1>5. IsFiniteSet(1 .. n) /\ Cardinality(1 .. n) = n
  <2>1. n \in Int /\ 1 \in Int
    BY <1>2
  <2>2. Cardinality(1 .. n) = IF 1 > n THEN 0 ELSE n - 1 + 1
    BY <2>1, FS_Interval, Zenon
  <2> QED BY <1>2, <2>1, <2>2, FS_Interval
<1> HIDE DEF f
<1>6. f \in Injection(1 .. n, S)
  BY <1>4 DEF Injection
<1>7. f \in Surjection(1 .. n, S)
  <2>1. Cardinality(1 .. n) = Cardinality(S) <=> f \in Surjection(1 .. n, S)
    BY <1>1, <1>6, FS_Injection
  <2> QED BY <1>5, <2>1
<1>8. f \in Seq(Models) /\ DOMAIN f = 1 .. n
  BY <1>2, <1>4
<1>9. ASSUME NEW m \in Models PROVE Count(f, m) = IF m \in S THEN 1 ELSE 0
  <2> DEFINE w == [k \in DOMAIN f |-> IF f[k] = m THEN 1 ELSE 0]
  <2>1. w \in [1 .. n -> Nat] /\ SumOf(w) = Count(f, m) /\ \A k \in 1 .. n : w[k] = IF f[k] = m THEN 1 ELSE 0
    BY <1>8 DEF Count
  <2> HIDE DEF w
  <2>2. CASE m \in S
    <3>1. PICK k \in 1 .. n : f[k] = m
      BY <1>7, <2>2 DEF Surjection
    <3>2. \A i \in 1 .. n : i # k => w[i] = 0
      BY <1>4, <1>8, <2>1, <3>1 DEF IsInjective
    <3>3. w[k] = 1
      BY <2>1, <3>1
    <3>4. SumOf(w) = SumOf(Without(w, k)) + w[k]
      <4>1. w \in [1 .. n -> Nat] /\ IsFiniteSet(1 .. n) /\ k \in 1 .. n
        BY <1>5, <2>1
      <4>2. ASSUME NEW T, IsFiniteSet(T), NEW g \in [T -> Nat], NEW y \in T
            PROVE  SumOf(g) = SumOf(Without(g, y)) + g[y]
        BY <4>2, SumSplit, Zenon
      <4> QED BY <4>1, <4>2
    <3>5. DOMAIN Without(w, k) = 1 .. n \ {k} /\ \A i \in 1 .. n \ {k} : Without(w, k)[i] = 0
      BY <2>1, <3>2 DEF Without
    <3>6. SumOf(Without(w, k)) = 0
      BY <3>5, SumZero, Zenon
    <3> QED BY <2>1, <2>2, <3>3, <3>4, <3>6
  <2>3. CASE m \notin S
    <3>1. DOMAIN w = 1 .. n /\ \A i \in 1 .. n : w[i] = 0
      BY <1>4, <2>1, <2>3
    <3>2. SumOf(w) = 0
      BY <3>1, SumZero, Zenon
    <3> QED BY <2>1, <2>3, <3>2
  <2> QED BY <2>2, <2>3
<1> QED BY <1>8, <1>9 DEF f

-----------------------------------------------------------------------------
(* What a step does to the calls.                                          *)

LEMMA ReleaseFacts ==
  /\ Release \subseteq Operation /\ Construction \subseteq Operation
  /\ \A o \in Release : o.op \in Releases /\ o.op \notin Constructing
  /\ \A o \in Construction : o.op \in Constructing /\ o.op \notin Releases
BY DEF Release, Construction, Releases, Constructing

\* the call a client makes
Started(t, o) == todo' = [todo EXCEPT ![t] = <<o>>]

LEMMA StartOK ==
  ASSUME todo \in Lists, CallsOK, NEW t \in Threads, Idle(t), NEW o \in Release \cup Construction,
         Started(t, o)
  PROVE  /\ todo' \in Lists /\ CallsOK'
         /\ todo'[t] = <<o>> /\ Elsewhere(todo, todo', t)
         /\ \A what \in Whats : \A x :
              InCalls(todo', what, x) = InCalls(todo, what, x) + InHand(o, what, x)
<1>1. o \in Operation
  BY ReleaseFacts
<1>2. todo' \in Lists /\ todo'[t] = <<o>> /\ Elsewhere(todo, todo', t)
  BY <1>1 DEF Lists, Started, Elsewhere
<1>3. ListOK(<<o>>)
  BY DEF ListOK
<1>4. CallsOK'
  BY <1>2, <1>3 DEF CallsOK, Elsewhere
<1>5. ASSUME NEW what \in Whats, NEW x
      PROVE  InCalls(todo', what, x) = InCalls(todo, what, x) + InHand(o, what, x)
  <2>1. InCalls(todo', what, x) + InList(todo[t], what, x) = InCalls(todo, what, x) + InList(todo'[t], what, x)
    BY <1>2, CallsStep
  <2>2. InList(todo[t], what, x) = 0
    BY InListEmpty DEF Idle
  <2>3. InList(todo'[t], what, x) = InHand(o, what, x)
    BY <1>1, <1>2, InListOne
  <2>4. InCalls(todo', what, x) \in Nat
    BY <1>2, CallsType
  <2> QED BY <2>1, <2>2, <2>3, <2>4
<1> QED BY <1>2, <1>4, <1>5

(* The operation done is replaced by others; only sd_sim_new goes on with  *)
(* something else than releases.                                           *)
LEMMA ThenOK ==
  ASSUME todo \in Lists, CallsOK, NEW t \in Threads, todo[t] # << >>,
         NEW next \in Seq(Operation), ListOK(next),
         Head(todo[t]) \in Release => next \in Seq(Release),
         Then(t, next)
  PROVE  /\ Head(todo[t]) \in Release \cup Construction
         /\ todo' \in Lists /\ CallsOK' /\ Elsewhere(todo, todo', t)
         /\ Head(todo[t]) \in Construction => todo'[t] = next
         /\ Head(todo[t]) \in Release => todo'[t] \in Seq(Release)
         /\ \A what \in Whats : \A x :
              InCalls(todo', what, x) + InHand(Head(todo[t]), what, x)
                = InCalls(todo, what, x) + InList(next, what, x)
<1>1. todo[t] \in Seq(Operation) /\ ListOK(todo[t])
  BY DEF Lists, CallsOK
<1> DEFINE l == todo[t]
           h == Head(l)
           r == Tail(l)
<1>2. h \in Operation /\ r \in Seq(Operation) /\ todo'[t] = next \o r /\ todo' \in Lists
      /\ Elsewhere(todo, todo', t)
  BY <1>1 DEF Then, Lists, Elsewhere
<1>3. \/ h \in Release /\ r \in Seq(Release)
      \/ h \in Construction /\ r = << >>
  <2>1. CASE l \in Seq(Release)
    BY <2>1
  <2>2. CASE Len(l) = 1 /\ l[1] \in Construction
    <3>1. l \in Seq(Operation) /\ h = l[1]
      BY <1>1
    <3>2. r \in Seq(Operation) /\ Len(r) = 0
      BY <2>2, <3>1
    <3>3. r = << >>
      <4> HIDE DEF r
      <4> QED BY <3>2, EmptySeq
    <3> QED BY <2>2, <3>1, <3>3
  <2> QED BY <1>1, <2>1, <2>2 DEF ListOK
<1>4. h \in Construction => todo'[t] = next
  <2>1. h \notin Release \/ h \notin Construction
    BY ReleaseFacts
  <2>2. next \o << >> = next
    OBVIOUS
  <2>3. h \in Construction => r = << >>
    BY <1>3, <2>1
  <2> HIDE DEF h, r
  <2> QED BY <1>2, <2>2, <2>3
<1>5. h \in Release => todo'[t] \in Seq(Release)
  <2>1. h \notin Release \/ h \notin Construction
    BY ReleaseFacts
  <2>2. SUFFICES ASSUME h \in Release PROVE next \o r \in Seq(Release)
    BY <1>2
  <2>3. next \in Seq(Release) /\ r \in Seq(Release)
    BY <1>3, <2>1, <2>2
  <2> HIDE DEF h, r
  <2> QED BY <2>3
<1>6. ListOK(todo'[t])
  BY <1>3, <1>4, <1>5 DEF ListOK
<1>7. CallsOK'
  BY <1>2, <1>6 DEF CallsOK, Elsewhere
<1>8. ASSUME NEW what \in Whats, NEW x
      PROVE  InCalls(todo', what, x) + InHand(h, what, x) = InCalls(todo, what, x) + InList(next, what, x)
  <2>1. InCalls(todo', what, x) + InList(l, what, x) = InCalls(todo, what, x) + InList(todo'[t], what, x)
    <3>1. todo' \in Lists /\ Elsewhere(todo, todo', t)
      BY <1>2
    <3> HIDE DEF h, r
    <3> QED BY <3>1, CallsStep
  <2>2. InList(l, what, x) = InHand(h, what, x) + InList(r, what, x)
    BY <1>1, InListHead
  <2> HIDE DEF l, h, r
  <2>3. InList(todo'[t], what, x) = InList(next, what, x) + InList(r, what, x)
    BY <1>2, InListConcat
  <2>4. InCalls(todo', what, x) \in Nat /\ InCalls(todo, what, x) \in Nat
    BY <1>2, CallsType
  <2>5. InList(r, what, x) \in Nat /\ InHand(h, what, x) \in Nat /\ InList(next, what, x) \in Nat
    BY <1>2, InListType, InHandType
  <2> QED BY <2>1, <2>2, <2>3, <2>4, <2>5
<1> QED BY <1>2, <1>3, <1>4, <1>5, <1>7, <1>8

(* What each operation has in hand.                                        *)
LEMMA ReleaseHands ==
  ASSUME NEW o \in Release, NEW x
  PROVE  /\ InHand(o, "project", x) = AsNum(o.op = "project_unref")
         /\ InHand(o, "model", x) = AsNum(o.op = "model_unref" /\ o.m = x)
         /\ InHand(o, "sim", x) = AsNum(o.op = "sim_unref" /\ o.s = x)
         /\ InHand(o, "project_free", x) = AsNum(o.op = "project_free")
         /\ InHand(o, "sim_free", x) = AsNum(o.op = "sim_free" /\ o.s = x)
<1>1. o.op \in Releases /\ o.built = << >> /\ (o.op = "model_unref" => o.m \in Models)
  BY DEF Release
<1>2. InHand(o, "model", x) = AsNum(o.op = "model_unref" /\ o.m = x)
  <2>1. CASE o.op = "model_unref"
    <3>1. \A l \in Seq(Models) : Count(Append(l, o.m), x) = Count(l, x) + AsNum(o.m = x)
      <4>1. o.m \in Models
        BY <1>1, <2>1
      <4> QED BY <4>1, CountAppend
    <3>2. << >> \in Seq(Models)
      OBVIOUS
    <3>3. Count(Append(o.built, o.m), x) = AsNum(o.m = x)
      <4>1. AsNum(o.m = x) \in Nat
        BY DEF AsNum
      <4>2. Count(Append(<< >>, o.m), x) = Count(<< >>, x) + AsNum(o.m = x)
        BY <3>1, <3>2, Zenon
      <4>3. Count(<< >>, x) = 0
        BY CountEmpty
      <4>4. Count(Append(<< >>, o.m), x) = AsNum(o.m = x)
        BY <4>1, <4>2, <4>3
      <4> QED BY <1>1, <4>4
    <3> QED BY <2>1, <3>3 DEF InHand, ModelsOf, AsNum
  <2>2. CASE o.op # "model_unref"
    BY <1>1, <2>2, CountEmpty DEF InHand, ModelsOf, AsNum, Releases
  <2> QED BY <2>1, <2>2
<1>3. InHand(o, "sim", x) = AsNum(o.op = "sim_unref" /\ o.s = x)
  BY <1>1 DEF InHand, AsNum, Releases, Constructing
<1>4. /\ InHand(o, "project", x) = AsNum(o.op = "project_unref")
      /\ InHand(o, "project_free", x) = AsNum(o.op = "project_free")
      /\ InHand(o, "sim_free", x) = AsNum(o.op = "sim_free" /\ o.s = x)
  BY DEF InHand, AsNum
<1> QED BY <1>2, <1>3, <1>4

LEMMA ConstructionHands ==
  ASSUME NEW o \in Construction, NEW x
  PROVE  /\ InHand(o, "project", x) = 0 /\ InHand(o, "project_free", x) = 0
         /\ InHand(o, "sim_free", x) = 0
         /\ InHand(o, "sim", x) = AsNum(o.s = x)
         /\ InHand(o, "model", x) = Count(o.built, x) + AsNum(o.op = "module" /\ o.m = x)
<1>1. o.op \in Constructing /\ o.built \in Seq(Models) /\ (o.op = "module" => o.m \in Models)
  BY DEF Construction, Operation
<1>2. InHand(o, "model", x) = Count(o.built, x) + AsNum(o.op = "module" /\ o.m = x)
  <2>1. CASE o.op = "module"
    <3>1. Count(Append(o.built, o.m), x) = Count(o.built, x) + AsNum(o.m = x)
      <4>1. o.m \in Models
        BY <1>1, <2>1
      <4> QED BY <1>1, <4>1, CountAppend
    <3> QED BY <2>1, <3>1 DEF InHand, ModelsOf, AsNum
  <2>2. CASE o.op # "module"
    <3>1. Count(o.built, x) \in Nat
      BY <1>1, CountType
    <3> QED BY <1>1, <2>2, <3>1 DEF InHand, ModelsOf, AsNum, Constructing
  <2> QED BY <2>1, <2>2
<1> QED BY <1>1, <1>2 DEF InHand, AsNum, Constructing

LEMMA ReleaseTypes ==
  /\ project_unref \in Release /\ project_free \in Release
  /\ \A m \in Models : model_unref(m) \in Release
  /\ \A s \in Sims : sim_unref(s) \in Release /\ sim_free(s) \in Release
BY DEF Release, Releases, Operation, project_unref, project_free, model_unref, sim_unref, sim_free, Op

\* the state a thread's call is in, and who it keeps alive
LEMMA HeadFacts ==
  ASSUME TypeOK, CallsOK, NEW t \in Threads, todo[t] # << >>
  PROVE  /\ Head(todo[t]) \in Release \cup Construction
         /\ \A what \in Whats : \A x : InHand(Head(todo[t]), what, x) <= InCalls(todo, what, x)
         /\ \A what \in Whats : \A x : \A u \in Threads : u # t /\ todo[u] # << >> =>
              InHand(Head(todo[t]), what, x) + InHand(Head(todo[u]), what, x) <= InCalls(todo, what, x)
<1>1. todo \in Lists
  BY DEF TypeOK, Lists
<1>2. ASSUME NEW u \in Threads, todo[u] # << >>, NEW what \in Whats, NEW x
      PROVE  InHand(Head(todo[u]), what, x) <= InList(todo[u], what, x)
  <2>1. todo[u] \in Seq(Operation) /\ 1 \in DOMAIN todo[u] /\ Head(todo[u]) = todo[u][1]
    BY <1>1, <1>2 DEF Lists
  <2> QED BY <2>1, InListHas
<1>3. ASSUME NEW u \in Threads, todo[u] # << >>, NEW what \in Whats, NEW x
      PROVE  InHand(Head(todo[u]), what, x) \in Nat /\ InList(todo[u], what, x) \in Nat
  <2>1. todo[u] \in Seq(Operation) /\ Head(todo[u]) \in Operation
    BY <1>1, <1>3 DEF Lists
  <2> QED BY <2>1, InHandType, InListType
<1>4. Head(todo[t]) \in Release \cup Construction
  <2>1. ListOK(todo[t]) /\ todo[t] \in Seq(Operation)
    BY <1>1 DEF CallsOK, Lists
  <2> QED BY <2>1 DEF ListOK
<1>5. ASSUME NEW what \in Whats, NEW x
      PROVE  InHand(Head(todo[t]), what, x) <= InCalls(todo, what, x)
  <2>1. InCalls(todo, what, x) \in Nat /\ InList(todo[t], what, x) <= InCalls(todo, what, x)
    BY <1>1, CallsType
  <2>2. InHand(Head(todo[t]), what, x) <= InList(todo[t], what, x)
    BY <1>2
  <2>3. InHand(Head(todo[t]), what, x) \in Nat /\ InList(todo[t], what, x) \in Nat
    BY <1>3
  <2> QED BY <2>1, <2>2, <2>3
<1>6. ASSUME NEW what \in Whats, NEW x, NEW u \in Threads, u # t, todo[u] # << >>
      PROVE  InHand(Head(todo[t]), what, x) + InHand(Head(todo[u]), what, x) <= InCalls(todo, what, x)
  <2>1. /\ InCalls(todo, what, x) \in Nat
        /\ InList(todo[t], what, x) + InList(todo[u], what, x) <= InCalls(todo, what, x)
    BY <1>1, <1>6, CallsType
  <2>2. /\ InHand(Head(todo[t]), what, x) <= InList(todo[t], what, x)
        /\ InHand(Head(todo[u]), what, x) <= InList(todo[u], what, x)
    BY <1>2, <1>6
  <2>3. /\ InHand(Head(todo[t]), what, x) \in Nat /\ InList(todo[t], what, x) \in Nat
        /\ InHand(Head(todo[u]), what, x) \in Nat /\ InList(todo[u], what, x) \in Nat
    BY <1>3, <1>6
  <2> QED BY <2>1, <2>2, <2>3
<1> QED BY <1>4, <1>5, <1>6

-----------------------------------------------------------------------------
(* What the invariant says of what is alive.                               *)

LEMMA Types ==
  ASSUME TypeOK
  PROVE  /\ todo \in Lists /\ mh \in Handles(Models) /\ sh \in Handles(Sims)
         /\ sim \in [Sims -> SimRecord] /\ SumOf(ph) \in Nat
         /\ \A t \in Threads : ph[t] \in Nat /\ ph[t] <= SumOf(ph)
         /\ KeptProject(sim) \in Nat
         /\ \A what \in Whats : \A x : InCalls(todo, what, x) \in Nat
         /\ \A s \in Sims : Held(sh, s) \in Nat
         /\ \A m \in Models : Held(mh, m) \in Nat /\ KeptModel(sim, m) \in Nat /\ leaked[m] \in Nat
<1>1. todo \in Lists /\ mh \in Handles(Models) /\ sh \in Handles(Sims)
  BY DEF TypeOK
<1>2. sim \in [Sims -> SimRecord] /\ \A m \in Models : leaked[m] \in Nat
  BY DEF TypeOK
<1>3. SumOf(ph) \in Nat /\ \A t \in Threads : ph[t] \in Nat /\ ph[t] <= SumOf(ph)
  <2>1. ph \in [Threads -> Nat] /\ IsFiniteSet(Threads)
    BY LifecycleAssumption DEF TypeOK
  <2> QED BY <2>1, SumBounds
<1>4. \A what \in Whats : \A x : InCalls(todo, what, x) \in Nat
  BY <1>1, CallsType
<1>5. \A s \in Sims : Held(sh, s) \in Nat
  BY <1>1, HeldType
<1>6. \A m \in Models : Held(mh, m) \in Nat
  BY <1>1, HeldType
<1>7. KeptProject(sim) \in Nat /\ \A m \in Models : KeptModel(sim, m) \in Nat
  BY <1>2, KeptType
<1> QED BY <1>1, <1>2, <1>3, <1>4, <1>5, <1>6, <1>7

(* Whoever holds or is about to release the project has it.                *)
LEMMA ProjectAlive ==
  ASSUME IInv
  PROVE  /\ project.refcount \in Nat
         /\ SumOf(ph) + InCalls(todo, "project", Root) + KeptProject(sim) > 0 =>
              /\ project.refcount > 0 /\ InCalls(todo, "project_free", Root) = 0
              /\ ~ project.freed
         /\ InCalls(todo, "project_free", Root) > 0 =>
              /\ InCalls(todo, "project_free", Root) = 1
              /\ project.refcount = 0 /\ ~ project.freed
<1>1. TypeOK /\ ProjectCount /\ ProjectLife
  BY DEF IInv
<1>2. /\ SumOf(ph) \in Nat /\ KeptProject(sim) \in Nat /\ InCalls(todo, "project", Root) \in Nat
      /\ InCalls(todo, "project_free", Root) \in Nat
  BY <1>1, Types DEF Whats
<1> QED BY <1>1, <1>2 DEF ProjectCount, ProjectLife, AsNum

(* A reference to a simulation, or a call that makes or frees it.          *)
LEMMA SimAlive ==
  ASSUME IInv, NEW s \in Sims
  PROVE  /\ sim[s].refcount \in Nat
         /\ Held(sh, s) + InCalls(todo, "sim", s) > 0 =>
              /\ sim[s].refcount > 0 /\ InCalls(todo, "sim_free", s) = 0
              /\ ~ sim[s].freed
         /\ InCalls(todo, "sim_free", s) > 0 =>
              /\ InCalls(todo, "sim_free", s) = 1
              /\ sim[s].refcount = 0 /\ ~ sim[s].freed
<1>1. TypeOK /\ SimCount /\ SimLife
  BY DEF IInv
<1>2. /\ Held(sh, s) \in Nat /\ InCalls(todo, "sim", s) \in Nat
      /\ InCalls(todo, "sim_free", s) \in Nat
  BY <1>1, Types DEF Whats
<1> QED BY <1>1, <1>2 DEF SimCount, SimLife, Stages, AsNum, NoSim

(* A model with a reference is not freed, and a model of a file is there   *)
(* as long as the project.                                                 *)
LEMMA ModelAlive ==
  ASSUME IInv, NEW m \in Models
  PROVE  /\ model[m].refcount \in Nat
         /\ (Held(mh, m) + InCalls(todo, "model", m) + KeptModel(sim, m) > 0
               \/ (m \in have /\ project.refcount > 0)) =>
              model[m].refcount > 0 /\ ~ model[m].freed
<1>1. TypeOK /\ ModelCount /\ ModelLife
  BY DEF IInv
<1>2. /\ Held(mh, m) \in Nat /\ InCalls(todo, "model", m) \in Nat
      /\ KeptModel(sim, m) \in Nat /\ leaked[m] \in Nat
  BY <1>1, Types DEF Whats
<1> QED BY <1>1, <1>2 DEF ModelCount, ModelLife, FileKeeps

LEMMA ClosingIsFree ==
  ASSUME TypeOK, CallsOK
  PROVE  Closing <=> InCalls(todo, "project_free", Root) > 0
<1>1. todo \in Lists
  BY Types
<1>2. /\ InCalls(todo, "project_free", Root) \in Nat
      /\ InCalls(todo, "project_free", Root) = 0 <=>
           \A t \in Threads : InList(todo[t], "project_free", Root) = 0
  BY <1>1, CallsType DEF Whats
<1>3. ASSUME NEW t \in Threads
      PROVE  /\ InList(todo[t], "project_free", Root) \in Nat
             /\ InList(todo[t], "project_free", Root) = 0 <=>
                  \A k \in DOMAIN todo[t] : todo[t][k].op # "project_free"
  <2> DEFINE l == todo[t]
             w == Chart(l, "project_free", Root)
  <2>1. l \in Seq(Operation) /\ DOMAIN l = 1 .. Len(l)
    BY <1>1 DEF Lists
  <2>2. w \in [1 .. Len(l) -> Nat] /\ IsFiniteSet(1 .. Len(l))
    <3> HIDE DEF l
    <3> QED BY <2>1, InListType DEF Whats
  <2>3. SumOf(w) = InList(l, "project_free", Root)
    BY DEF Chart, InList
  <2>4. \A k \in 1 .. Len(l) : w[k] = AsNum(l[k].op = "project_free")
    BY <2>1 DEF Chart, InHand, AsNum
  <2> HIDE DEF w, l
  <2>5. SumOf(w) \in Nat /\ (SumOf(w) = 0 <=> \A k \in 1 .. Len(l) : w[k] = 0)
    BY <2>2, SumBounds
  <2>6. InList(l, "project_free", Root) = 0 <=> \A k \in DOMAIN l : l[k].op # "project_free"
    BY <2>1, <2>3, <2>4, <2>5 DEF AsNum
  <2> QED BY <2>3, <2>5, <2>6 DEF l
<1>4. (\A t \in Threads : InList(todo[t], "project_free", Root) = 0) <=> ~ Closing
  BY <1>3 DEF Closing
<1> QED BY <1>2, <1>4

-----------------------------------------------------------------------------
(* The initial states.                                                     *)

LEMMA InitOK == Init => IInv
<1> SUFFICES ASSUME Init PROVE IInv
  OBVIOUS
<1>1. TypeOK
  BY DEF Init, TypeOK, NoSim, Counted, SimRecord, Handles, Lists
<1>2. CallsOK /\ MakersOK /\ SharedKeepProject /\ ModelLife /\ faults = {}
  BY DEF Init, CallsOK, ListOK, MakersOK, SharedKeepProject, ModelLife
<1>3. /\ todo \in Lists /\ mh \in Handles(Models) /\ sh \in Handles(Sims)
      /\ sim \in [Sims -> SimRecord]
  BY <1>1, Types
<1>4. ASSUME NEW what \in Whats, NEW x PROVE InCalls(todo, what, x) = 0
  <2>1. \A t \in Threads : InList(todo[t], what, x) = 0
    BY InListEmpty DEF Init
  <2> QED BY <1>3, <2>1, CallsType
<1>5. \A s \in Sims : Held(sh, s) = 0
  <2>1. \A t \in Threads, s \in Sims : sh[t][s] = 0
    BY DEF Init
  <2> QED BY <1>3, <2>1, HeldType
<1>6. \A m \in Models : Held(mh, m) = 0
  <2>1. \A t \in Threads, m \in Models : mh[t][m] = 0
    BY DEF Init
  <2> QED BY <1>3, <2>1, HeldType
<1>7. KeptProject(sim) = 0 /\ \A m \in Models : KeptModel(sim, m) = 0
  <2>1. ASSUME NEW w, DOMAIN w = Sims, \A s \in Sims : w[s] = 0 PROVE SumOf(w) = 0
    BY <2>1, SumZero
  <2> QED BY <2>1 DEF KeptProject, KeptModel, Init, NoSim
<1>8. SumOf(ph) = 1
  <2>1. PICK t \in Threads : ph = [u \in Threads |-> IF u = t THEN 1 ELSE 0]
    BY DEF Init
  <2>2. ph \in [Threads -> Nat] /\ IsFiniteSet(Threads) /\ ph[t] = 1
    BY <2>1, LifecycleAssumption
  <2>3. SumOf(ph) = SumOf(Without(ph, t)) + ph[t]
    <3>1. ASSUME NEW T, IsFiniteSet(T), NEW g \in [T -> Nat], NEW y \in T
          PROVE  SumOf(g) = SumOf(Without(g, y)) + g[y]
      BY <3>1, SumSplit, Zenon
    <3> QED BY <2>2, <3>1
  <2>4. SumOf(Without(ph, t)) = 0
    <3> DEFINE r == Without(ph, t)
    <3>1. DOMAIN r = Threads \ {t} /\ \A u \in Threads \ {t} : r[u] = 0
      BY <2>1 DEF Without
    <3> HIDE DEF r
    <3>2. SumOf(r) = 0
      BY <3>1, SumZero, Zenon
    <3> QED BY <3>2 DEF r
  <2> QED BY <2>2, <2>3, <2>4
<1>9. ProjectCount /\ ProjectLife
  BY <1>4, <1>7, <1>8 DEF ProjectCount, ProjectLife, AsNum, Init, Whats
<1>10. SimCount /\ SimLife
  <2>1. ASSUME NEW s \in Sims
        PROVE  sim[s] = NoSim /\ sim[s].refcount = 0 /\ sim[s].freed = FALSE
    BY DEF Init, NoSim
  <2>2. \A s \in Sims : InCalls(todo, "sim", s) = 0 /\ InCalls(todo, "sim_free", s) = 0
    BY <1>4 DEF Whats
  <2>3. ASSUME NEW s \in Sims
        PROVE  Stages(s) = 0 /\ sim[s].refcount = Held(sh, s) + InCalls(todo, "sim", s)
    <3>1. sim[s].refcount = 0 /\ sim[s].freed = FALSE
      BY <2>1
    <3>2. InCalls(todo, "sim", s) = 0 /\ InCalls(todo, "sim_free", s) = 0
      BY <2>2
    <3>3. Held(sh, s) = 0
      BY <1>5
    <3> QED BY <3>1, <3>2, <3>3 DEF Stages, AsNum
  <2>4. SimLife
    BY <2>1, <2>3 DEF SimLife
  <2>5. SimCount
    BY <2>3 DEF SimCount
  <2> QED BY <2>4, <2>5
<1>11. ModelCount
  <2>1. \A m \in Models :
          /\ model[m].refcount = (IF m \in have THEN 1 ELSE 0) /\ leaked[m] = 0
          /\ FileKeeps(m) = IF m \in have THEN 1 ELSE 0
    BY DEF Init, FileKeeps
  <2>2. \A m \in Models : InCalls(todo, "model", m) = 0
    BY <1>4 DEF Whats
  <2> QED BY <1>6, <1>7, <2>1, <2>2 DEF ModelCount
<1> QED BY <1>1, <1>2, <1>9, <1>10, <1>11 DEF IInv

-----------------------------------------------------------------------------
(* What clients call.                                                      *)

LEMMA StartRelease ==
  ASSUME TypeOK, CallsOK, NEW t \in Threads, Idle(t), NEW o \in Release, Started(t, o)
  PROVE  /\ todo' \in Lists /\ CallsOK' /\ Elsewhere(todo, todo', t)
         /\ Head(todo'[t]).op \notin Constructing
         /\ \A x :
              /\ InCalls(todo', "project", x) = InCalls(todo, "project", x) + AsNum(o.op = "project_unref")
              /\ InCalls(todo', "model", x)
                   = InCalls(todo, "model", x) + AsNum(o.op = "model_unref" /\ o.m = x)
              /\ InCalls(todo', "sim", x) = InCalls(todo, "sim", x) + AsNum(o.op = "sim_unref" /\ o.s = x)
              /\ InCalls(todo', "project_free", x)
                   = InCalls(todo, "project_free", x) + AsNum(o.op = "project_free")
              /\ InCalls(todo', "sim_free", x)
                   = InCalls(todo, "sim_free", x) + AsNum(o.op = "sim_free" /\ o.s = x)
<1>1. /\ todo' \in Lists /\ CallsOK' /\ todo'[t] = <<o>> /\ Elsewhere(todo, todo', t)
      /\ \A what \in Whats : \A x :
           InCalls(todo', what, x) = InCalls(todo, what, x) + InHand(o, what, x)
  BY Types, StartOK
<1>2. Head(todo'[t]).op \notin Constructing
  BY <1>1, ReleaseFacts
<1> QED BY <1>1, <1>2, ReleaseHands DEF Whats

(* A simulation that is being made has no reference but the maker's.       *)
LEMMA MakerAlone ==
  ASSUME IInv, NEW u \in Threads, todo[u] # << >>, Head(todo[u]).op \in Constructing,
         NEW s, s = Head(todo[u]).s
  PROVE  /\ Head(todo[u]) \in Construction /\ s \in Sims
         /\ Unfinished(Head(todo[u]), sim[s])
         /\ ph[u] > 0
         /\ \A t \in Threads : sh[t][s] = 0
         /\ InCalls(todo, "sim", s) = 1 /\ InCalls(todo, "sim_free", s) = 0
         /\ \A t \in Threads : t # u /\ todo[t] # << >> => InHand(Head(todo[t]), "sim", s) <= 0
<1>1. TypeOK /\ CallsOK /\ MakersOK /\ SimCount
  BY DEF IInv
<1>2. Head(todo[u]) \in Construction
  BY <1>1, HeadFacts, ReleaseFacts
<1>3. s \in Sims
  BY <1>2 DEF Construction
<1>4. Unfinished(Head(todo[u]), sim[s]) /\ ph[u] > 0
  BY <1>1 DEF MakersOK
<1>5. sim[s].refcount = 1 /\ sim[s].refcount = Held(sh, s) + InCalls(todo, "sim", s)
  BY <1>1, <1>3, <1>4 DEF Unfinished, SimCount
<1>6. InHand(Head(todo[u]), "sim", s) = 1
  BY <1>2, ConstructionHands DEF AsNum
<1>7. Held(sh, s) \in Nat /\ InCalls(todo, "sim", s) \in Nat /\ sh \in Handles(Sims)
  BY <1>1, <1>3, Types DEF Whats
<1>8. InHand(Head(todo[u]), "sim", s) <= InCalls(todo, "sim", s)
  BY <1>1, HeadFacts DEF Whats
<1>9. Held(sh, s) = 0 /\ InCalls(todo, "sim", s) = 1
  BY <1>5, <1>6, <1>7, <1>8
<1>10. \A t \in Threads : sh[t][s] = 0
  BY <1>3, <1>7, <1>9, HeldType
<1>11. InCalls(todo, "sim_free", s) = 0
  BY <1>3, <1>9, SimAlive
<1>12. ASSUME NEW t \in Threads, t # u, todo[t] # << >>
       PROVE  InHand(Head(todo[t]), "sim", s) <= 0
  <2>1. InHand(Head(todo[u]), "sim", s) + InHand(Head(todo[t]), "sim", s) <= InCalls(todo, "sim", s)
    BY <1>1, <1>12, HeadFacts DEF Whats
  <2>2. InHand(Head(todo[t]), "sim", s) \in Nat
    <3>1. Head(todo[t]) \in Operation
      BY <1>1, <1>12, HeadFacts, ReleaseFacts
    <3> QED BY <3>1, InHandType DEF Whats
  <2> QED BY <1>6, <1>9, <2>1, <2>2
<1> QED BY <1>2, <1>3, <1>4, <1>9, <1>10, <1>11, <1>12

LEMMA Holding ==
  ASSUME IInv, NEW t \in Threads
  PROVE  /\ ph[t] > 0 => project.refcount > 0 /\ ~ project.freed
         /\ \A m \in Models : mh[t][m] > 0 => model[m].refcount > 0 /\ ~ model[m].freed
         /\ \A s \in Sims : sh[t][s] > 0 => sim[s].refcount > 0 /\ ~ sim[s].freed
<1>1. TypeOK
  BY DEF IInv
<1>2. /\ SumOf(ph) \in Nat /\ KeptProject(sim) \in Nat /\ InCalls(todo, "project", Root) \in Nat
      /\ ph[t] \in Nat /\ ph[t] <= SumOf(ph)
  BY <1>1, Types DEF Whats
<1>3. ph[t] > 0 => project.refcount > 0 /\ ~ project.freed
  BY <1>2, ProjectAlive
<1>4. ASSUME NEW m \in Models, mh[t][m] > 0 PROVE model[m].refcount > 0 /\ ~ model[m].freed
  <2>1. /\ mh \in Handles(Models) /\ Held(mh, m) \in Nat /\ InCalls(todo, "model", m) \in Nat
        /\ KeptModel(sim, m) \in Nat
    BY <1>1, Types DEF Whats
  <2>2. mh[t][m] \in Nat /\ mh[t][m] <= Held(mh, m)
    BY <2>1, HeldType
  <2>3. Held(mh, m) + InCalls(todo, "model", m) + KeptModel(sim, m) > 0
    BY <1>4, <2>1, <2>2
  <2> QED BY <2>3, ModelAlive
<1>5. ASSUME NEW s \in Sims, sh[t][s] > 0 PROVE sim[s].refcount > 0 /\ ~ sim[s].freed
  <2>1. sh \in Handles(Sims) /\ Held(sh, s) \in Nat /\ InCalls(todo, "sim", s) \in Nat
    BY <1>1, Types DEF Whats
  <2>2. sh[t][s] \in Nat /\ sh[t][s] <= Held(sh, s)
    BY <2>1, HeldType
  <2>3. Held(sh, s) + InCalls(todo, "sim", s) > 0
    BY <1>5, <2>1, <2>2
  <2> QED BY <2>3, SimAlive
<1> QED BY <1>3, <1>4, <1>5

LEMMA ProjectRefOK ==
  ASSUME IInv, NEW t \in Threads, NEW u \in Threads, sd_project_ref(t, u)
  PROVE  IInv'
<1>1. /\ TypeOK /\ CallsOK /\ MakersOK /\ SharedKeepProject /\ ProjectCount /\ SimCount
      /\ ModelCount /\ ProjectLife /\ SimLife /\ ModelLife /\ faults = {}
  BY DEF IInv
<1>2. /\ project' = [project EXCEPT !.refcount = @ + 1] /\ ph' = [ph EXCEPT ![u] = @ + 1]
      /\ UNCHANGED <<have, model, sim, mh, sh, todo, faults, leaked>>
      /\ ph[t] > 0
  BY DEF sd_project_ref
<1>3. TypeOK'
  BY <1>1, <1>2 DEF TypeOK, Counted
<1>4. SumOf(ph') = SumOf(ph) + 1
  <2>1. /\ ph \in [Threads -> Nat] /\ ph' \in [Threads -> Nat] /\ ph'[u] = ph[u] + 1
        /\ \A v \in Threads : v # u => ph'[v] = ph[v]
    BY <1>1, <1>2 DEF TypeOK
  <2>2. SumOf(ph') + ph[u] = SumOf(ph) + ph'[u]
    BY <2>1, LifecycleAssumption, SumStep
  <2>3. SumOf(ph) \in Nat /\ SumOf(ph') \in Nat /\ ph[u] \in Nat
    BY <2>1, LifecycleAssumption, SumType
  <2> QED BY <2>1, <2>2, <2>3
<1>5. project.refcount > 0 /\ project.refcount \in Nat
  <2>1. SumOf(ph) \in Nat /\ ph[t] \in Nat /\ ph[t] <= SumOf(ph) /\ KeptProject(sim) \in Nat
        /\ InCalls(todo, "project", Root) \in Nat
    BY <1>1, Types DEF Whats
  <2> QED BY <1>2, <2>1, ProjectAlive
<1>6. /\ project'.refcount = project.refcount + 1 /\ project'.freed = project.freed
  BY <1>1, <1>2 DEF TypeOK, Counted
<1>7. ProjectCount' /\ ProjectLife'
  <2>1. SumOf(ph) \in Nat /\ KeptProject(sim) \in Nat /\ InCalls(todo, "project", Root) \in Nat
    BY <1>1, Types DEF Whats
  <2> QED BY <1>1, <1>2, <1>4, <1>5, <1>6, <2>1 DEF ProjectCount, ProjectLife, AsNum
<1>8. CallsOK' /\ SharedKeepProject' /\ SimCount' /\ SimLife' /\ ModelLife' /\ faults' = {}
  BY <1>1, <1>2 DEF CallsOK, SharedKeepProject, SimCount, SimLife, Stages, ModelLife
<1>9. MakersOK'
  <2>1. \A v \in Threads : ph'[v] >= ph[v] /\ ph[v] \in Nat /\ ph'[v] \in Nat
    BY <1>1, <1>2 DEF TypeOK
  <2> QED BY <1>1, <1>2, <2>1 DEF MakersOK
<1>10. ModelCount'
  BY <1>1, <1>2, <1>5, <1>6 DEF ModelCount, FileKeeps
<1> QED BY <1>3, <1>7, <1>8, <1>9, <1>10 DEF IInv

LEMMA ProjectUnrefStarts ==
  ASSUME IInv, NEW t \in Threads, sd_project_unref(t)
  PROVE  IInv'
<1>1. /\ TypeOK /\ CallsOK /\ MakersOK /\ SharedKeepProject /\ ProjectCount /\ SimCount
      /\ ModelCount /\ ProjectLife /\ SimLife /\ ModelLife /\ faults = {}
  BY DEF IInv
<1>2. /\ ph' = [ph EXCEPT ![t] = @ - 1] /\ Idle(t) /\ Started(t, project_unref)
      /\ UNCHANGED <<have, project, model, sim, mh, sh, faults, leaked>>
      /\ ph[t] > 0
  BY DEF sd_project_unref, Started
<1>3. project_unref \in Release /\ project_unref.op = "project_unref"
  BY ReleaseTypes DEF project_unref, Op
<1>4. /\ todo' \in Lists /\ CallsOK' /\ Elsewhere(todo, todo', t)
      /\ Head(todo'[t]).op \notin Constructing
      /\ \A x : /\ InCalls(todo', "project", x) = InCalls(todo, "project", x) + AsNum(TRUE)
                /\ InCalls(todo', "model", x) = InCalls(todo, "model", x) + AsNum(FALSE)
                /\ InCalls(todo', "sim", x) = InCalls(todo, "sim", x) + AsNum(FALSE)
                /\ InCalls(todo', "project_free", x) = InCalls(todo, "project_free", x) + AsNum(FALSE)
                /\ InCalls(todo', "sim_free", x) = InCalls(todo, "sim_free", x) + AsNum(FALSE)
  BY <1>1, <1>2, <1>3, StartRelease
<1>5. \A what \in Whats : \A x : InCalls(todo, what, x) \in Nat
  BY <1>1, Types
<1>6. \A x : /\ InCalls(todo', "project", x) = InCalls(todo, "project", x) + 1
             /\ InCalls(todo', "model", x) = InCalls(todo, "model", x)
             /\ InCalls(todo', "sim", x) = InCalls(todo, "sim", x)
             /\ InCalls(todo', "project_free", x) = InCalls(todo, "project_free", x)
             /\ InCalls(todo', "sim_free", x) = InCalls(todo, "sim_free", x)
  BY <1>4, <1>5 DEF Whats, AsNum
<1>7. TypeOK'
  BY <1>1, <1>2, <1>4 DEF TypeOK
<1>8. SumOf(ph') + 1 = SumOf(ph)
  <2>1. /\ ph \in [Threads -> Nat] /\ ph' \in [Threads -> Nat] /\ ph'[t] = ph[t] - 1
        /\ \A v \in Threads : v # t => ph'[v] = ph[v]
    BY <1>1, <1>2 DEF TypeOK
  <2>2. SumOf(ph') + ph[t] = SumOf(ph) + ph'[t]
    BY <2>1, LifecycleAssumption, SumStep
  <2>3. SumOf(ph) \in Nat /\ SumOf(ph') \in Nat /\ ph[t] \in Nat
    BY <2>1, LifecycleAssumption, SumType
  <2> QED BY <2>1, <2>2, <2>3
<1>9. ProjectCount'
  <2>1. SumOf(ph) \in Nat /\ SumOf(ph') \in Nat /\ KeptProject(sim) \in Nat
        /\ InCalls(todo, "project", Root) \in Nat
    BY <1>1, <1>5, <1>7, <1>8, Types, LifecycleAssumption, SumType DEF Whats, TypeOK
  <2> QED BY <1>1, <1>2, <1>6, <1>8, <2>1 DEF ProjectCount
<1>10. SharedKeepProject' /\ SimCount' /\ SimLife' /\ ModelLife' /\ ProjectLife' /\ ModelCount' /\ faults' = {}
  BY <1>1, <1>2, <1>6 DEF SharedKeepProject, SimCount, SimLife, Stages, ModelLife, ProjectLife,
    ModelCount, FileKeeps
<1>11. MakersOK'
  <2>1. \A v \in Threads : v # t => ph'[v] = ph[v] /\ todo'[v] = todo[v]
    BY <1>1, <1>2, <1>4 DEF TypeOK, Elsewhere
  <2> QED BY <1>1, <1>2, <1>4, <2>1 DEF MakersOK
<1> QED BY <1>4, <1>7, <1>9, <1>10, <1>11 DEF IInv

LEMMA GetModelOK ==
  ASSUME IInv, NEW t \in Threads, NEW m \in Models, sd_project_get_model(t, m)
  PROVE  IInv'
<1>1. /\ TypeOK /\ CallsOK /\ MakersOK /\ SharedKeepProject /\ ProjectCount /\ SimCount
      /\ ModelCount /\ ProjectLife /\ SimLife /\ ModelLife /\ faults = {}
  BY DEF IInv
<1>2. /\ model' = [model EXCEPT ![m].refcount = @ + 1] /\ mh' = [mh EXCEPT ![t][m] = @ + 1]
      /\ UNCHANGED <<have, project, sim, ph, sh, todo, faults, leaked>>
      /\ ph[t] > 0 /\ m \in have
  BY DEF sd_project_get_model
<1>3. /\ model' \in [Models -> Counted] /\ mh' \in Handles(Models)
      /\ model'[m].refcount = model[m].refcount + 1 /\ model'[m].freed = model[m].freed
      /\ \A n \in Models : n # m => model'[n] = model[n]
      /\ mh'[t][m] = mh[t][m] + 1
      /\ \A u \in Threads, n \in Models : u # t \/ n # m => mh'[u][n] = mh[u][n]
  <2>1. /\ model' \in [Models -> Counted]
        /\ model'[m].refcount = model[m].refcount + 1 /\ model'[m].freed = model[m].freed
        /\ \A n \in Models : n # m => model'[n] = model[n]
    BY <1>1, <1>2 DEF TypeOK, Counted
  <2>2. mh \in Handles(Models) /\ mh[t][m] + 1 \in Nat
    BY <1>1 DEF TypeOK, Handles
  <2>3. /\ mh' \in Handles(Models) /\ mh'[t][m] = mh[t][m] + 1
        /\ \A u \in Threads, n \in Models : u # t \/ n # m => mh'[u][n] = mh[u][n]
    BY <1>2, <2>2 DEF Handles
  <2> QED BY <2>1, <2>3
<1>4. TypeOK'
  BY <1>1, <1>2, <1>3 DEF TypeOK
<1>5. /\ Held(mh', m) + mh[t][m] = Held(mh, m) + mh'[t][m]
      /\ \A n \in Models : n # m => Held(mh', n) = Held(mh, n)
  BY <1>1, <1>3, Types, HeldStep
<1>6. model[m].refcount > 0 /\ model[m].refcount \in Nat /\ ~ model[m].freed
  BY <1>2, Holding, ModelAlive
<1>7. ModelCount'
  <2>1. ASSUME NEW n \in Models
        PROVE  model'[n].refcount = Held(mh', n) + InCalls(todo, "model", n) + KeptModel(sim, n)
                                    + FileKeeps(n) + leaked[n]
    <3>1. model[n].refcount = Held(mh, n) + InCalls(todo, "model", n) + KeptModel(sim, n)
                              + FileKeeps(n) + leaked[n]
      BY <1>1 DEF ModelCount
    <3>2. /\ Held(mh, n) \in Nat /\ InCalls(todo, "model", n) \in Nat /\ KeptModel(sim, n) \in Nat
          /\ leaked[n] \in Nat /\ mh \in Handles(Models)
      BY <1>1, Types DEF Whats
    <3>3. Held(mh', n) = IF n = m THEN Held(mh, n) + 1 ELSE Held(mh, n)
      <4>1. mh[t][m] \in Nat /\ Held(mh', m) \in Nat
        BY <1>3, <3>2, HeldType
      <4> QED BY <1>3, <1>5, <3>2, <4>1
    <3>4. FileKeeps(n) \in Nat
      BY DEF FileKeeps
    <3> QED BY <1>3, <3>1, <3>2, <3>3, <3>4
  <2> QED BY <1>2, <2>1 DEF ModelCount, FileKeeps
<1>8. ModelLife'
  BY <1>1, <1>2, <1>3, <1>6 DEF ModelLife
<1>9. /\ CallsOK' /\ MakersOK' /\ SharedKeepProject' /\ ProjectCount' /\ SimCount' /\ ProjectLife'
      /\ SimLife' /\ faults' = {}
  BY <1>1, <1>2 DEF CallsOK, MakersOK, SharedKeepProject, ProjectCount, SimCount, ProjectLife,
    SimLife, Stages
<1> QED BY <1>4, <1>7, <1>8, <1>9 DEF IInv

LEMMA ModelUnrefStarts ==
  ASSUME IInv, NEW t \in Threads, NEW m \in Models, sd_model_unref(t, m)
  PROVE  IInv'
<1>1. /\ TypeOK /\ CallsOK /\ MakersOK /\ SharedKeepProject /\ ProjectCount /\ SimCount
      /\ ModelCount /\ ProjectLife /\ SimLife /\ ModelLife /\ faults = {}
  BY DEF IInv
<1>2. /\ mh' = [mh EXCEPT ![t][m] = @ - 1] /\ Idle(t) /\ Started(t, model_unref(m))
      /\ UNCHANGED <<have, project, model, sim, ph, sh, faults, leaked>>
      /\ mh[t][m] > 0
  BY DEF sd_model_unref, Started
<1> DEFINE o == model_unref(m)
<1>3. o \in Release /\ o.op = "model_unref" /\ o.m = m
  BY ReleaseTypes DEF model_unref, Op
<1>5. \A what \in Whats : \A x : InCalls(todo, what, x) \in Nat
  BY <1>1, Types
<1> HIDE DEF o
<1>4. /\ todo' \in Lists /\ CallsOK' /\ Elsewhere(todo, todo', t)
      /\ Head(todo'[t]).op \notin Constructing
      /\ \A x : /\ InCalls(todo', "project", x) = InCalls(todo, "project", x) + AsNum(o.op = "project_unref")
                /\ InCalls(todo', "model", x) = InCalls(todo, "model", x) + AsNum(o.op = "model_unref" /\ o.m = x)
                /\ InCalls(todo', "sim", x) = InCalls(todo, "sim", x) + AsNum(o.op = "sim_unref" /\ o.s = x)
                /\ InCalls(todo', "project_free", x)
                     = InCalls(todo, "project_free", x) + AsNum(o.op = "project_free")
                /\ InCalls(todo', "sim_free", x)
                     = InCalls(todo, "sim_free", x) + AsNum(o.op = "sim_free" /\ o.s = x)
  BY <1>1, <1>2, <1>3, StartRelease DEF o
<1>6. \A x : /\ InCalls(todo', "project", x) = InCalls(todo, "project", x)
             /\ InCalls(todo', "model", x) = InCalls(todo, "model", x) + (IF m = x THEN 1 ELSE 0)
             /\ InCalls(todo', "sim", x) = InCalls(todo, "sim", x)
             /\ InCalls(todo', "project_free", x) = InCalls(todo, "project_free", x)
             /\ InCalls(todo', "sim_free", x) = InCalls(todo, "sim_free", x)
  BY <1>3, <1>4, <1>5 DEF Whats, AsNum
<1>7. /\ mh' \in Handles(Models) /\ mh'[t][m] = mh[t][m] - 1
      /\ \A u \in Threads, n \in Models : u # t \/ n # m => mh'[u][n] = mh[u][n]
  <2>1. mh \in Handles(Models) /\ mh[t][m] - 1 \in Nat
    BY <1>1, <1>2 DEF TypeOK, Handles
  <2> QED BY <1>2, <2>1 DEF Handles
<1>8. TypeOK'
  BY <1>1, <1>2, <1>4, <1>7 DEF TypeOK
<1>9. /\ Held(mh', m) + mh[t][m] = Held(mh, m) + mh'[t][m]
      /\ \A n \in Models : n # m => Held(mh', n) = Held(mh, n)
  BY <1>1, <1>7, Types, HeldStep
<1>10. ModelCount'
  <2>1. ASSUME NEW n \in Models
        PROVE  model[n].refcount = Held(mh', n) + InCalls(todo', "model", n) + KeptModel(sim, n)
                                   + FileKeeps(n) + leaked[n]
    <3>1. model[n].refcount = Held(mh, n) + InCalls(todo, "model", n) + KeptModel(sim, n)
                              + FileKeeps(n) + leaked[n]
      BY <1>1 DEF ModelCount
    <3>2. /\ Held(mh, n) \in Nat /\ InCalls(todo, "model", n) \in Nat /\ KeptModel(sim, n) \in Nat
          /\ leaked[n] \in Nat /\ mh \in Handles(Models)
      BY <1>1, Types DEF Whats
    <3>3. Held(mh', n) + (IF m = n THEN 1 ELSE 0) = Held(mh, n) /\ Held(mh', n) \in Nat
      <4>1. mh[t][m] \in Nat /\ Held(mh', n) \in Nat
        BY <1>7, <3>2, HeldType
      <4> QED BY <1>7, <1>9, <3>2, <4>1
    <3>4. FileKeeps(n) \in Nat
      BY DEF FileKeeps
    <3>5. InCalls(todo', "model", n) = InCalls(todo, "model", n) + (IF m = n THEN 1 ELSE 0)
      BY <1>6
    <3> QED BY <3>1, <3>2, <3>3, <3>4, <3>5
  <2> QED BY <1>2, <2>1 DEF ModelCount, FileKeeps
<1>11. SharedKeepProject' /\ SimCount' /\ SimLife' /\ ModelLife' /\ ProjectLife' /\ ProjectCount' /\ faults' = {}
  BY <1>1, <1>2, <1>6 DEF SharedKeepProject, SimCount, SimLife, Stages, ModelLife, ProjectLife,
    ProjectCount
<1>12. MakersOK'
  <2>1. \A v \in Threads : v # t => todo'[v] = todo[v]
    BY <1>4 DEF Elsewhere
  <2> QED BY <1>1, <1>2, <1>4, <2>1 DEF MakersOK
<1> QED BY <1>4, <1>8, <1>10, <1>11, <1>12 DEF IInv

LEMMA RefcountStep ==
  ASSUME NEW x \in SimRecord, NEW n \in Int
  PROVE  LET y == [x EXCEPT !.refcount = n]
         IN  /\ y \in SimRecord /\ y.refcount = n
             /\ y.freed = x.freed /\ y.project = x.project /\ y.modules = x.modules
BY DEF SimRecord

\* a record with another count and mark
With(x, n, f) == [x EXCEPT !.refcount = n, !.freed = f]

LEMMA WithFields ==
  ASSUME NEW x \in Counted, NEW n \in Int, NEW f \in BOOLEAN
  PROVE  With(x, n, f) \in Counted /\ With(x, n, f).refcount = n /\ With(x, n, f).freed = f
BY DEF Counted, With

LEMMA NoSimType == NoSim \in SimRecord
<1>1. << >> \in Seq(Models)
  OBVIOUS
<1> QED BY <1>1 DEF NoSim, SimRecord

\* a simulation changed in a way that does not change what it keeps
LEMMA KeptSame ==
  ASSUME TypeOK, TypeOK', NEW s \in Sims,
         \A r \in Sims : r # s => sim'[r] = sim[r],
         KeepsProject(sim'[s]) = KeepsProject(sim[s]),
         \A m \in Models : Keeps(sim'[s], m) = Keeps(sim[s], m)
  PROVE  KeptProject(sim') = KeptProject(sim) /\ \A m \in Models : KeptModel(sim', m) = KeptModel(sim, m)
<1>1. sim \in [Sims -> SimRecord] /\ sim' \in [Sims -> SimRecord]
  BY DEF TypeOK
<1>2. ASSUME NEW m \in Models
      PROVE  /\ KeptProject(sim') = KeptProject(sim) /\ KeptModel(sim', m) = KeptModel(sim, m)
  <2>1. /\ KeptProject(sim') + KeepsProject(sim[s]) = KeptProject(sim) + KeepsProject(sim'[s])
        /\ KeptModel(sim', m) + Keeps(sim[s], m) = KeptModel(sim, m) + Keeps(sim'[s], m)
    BY <1>1, KeptStep
  <2>2. /\ KeptProject(sim) \in Nat /\ KeptProject(sim') \in Nat
        /\ KeptModel(sim, m) \in Nat /\ KeptModel(sim', m) \in Nat
        /\ KeepsProject(sim[s]) \in Nat /\ Keeps(sim[s], m) \in Nat
    BY <1>1, KeptType
  <2> QED BY <2>1, <2>2
<1>3. Root \in Models
  BY DEF Models
<1> QED BY <1>2, <1>3

LEMMA SimNewOK ==
  ASSUME IInv, NEW t \in Threads, NEW s \in Sims, sd_sim_new(t, s)
  PROVE  IInv'
<1>1. /\ TypeOK /\ CallsOK /\ MakersOK /\ SharedKeepProject /\ ProjectCount /\ SimCount
      /\ ModelCount /\ ProjectLife /\ SimLife /\ ModelLife /\ faults = {}
  BY DEF IInv
<1> DEFINE o == Op("get_model", s, Root, << >>)
<1>2. /\ sim' = [sim EXCEPT ![s].refcount = 1] /\ Idle(t) /\ Started(t, o)
      /\ UNCHANGED <<have, project, model, ph, mh, sh, faults, leaked>>
      /\ ph[t] > 0 /\ sim[s] = NoSim
      /\ \A u \in Threads : \A k \in DOMAIN todo[u] : todo[u][k].s # s
  BY DEF sd_sim_new, Started, handles
<1>3. o \in Construction /\ o.op = "get_model" /\ o.s = s /\ o.built = << >>
  BY DEF Construction, Operation, Op, Constructing, Models
<1> HIDE DEF o
<1>4. /\ todo' \in Lists /\ CallsOK' /\ todo'[t] = <<o>> /\ Elsewhere(todo, todo', t)
      /\ \A what \in Whats : \A x :
           InCalls(todo', what, x) = InCalls(todo, what, x) + InHand(o, what, x)
  BY <1>1, <1>2, <1>3, Types, StartOK
<1>5. \A what \in Whats : \A x : InCalls(todo, what, x) \in Nat
  BY <1>1, Types
<1>6. \A x : /\ InCalls(todo', "project", x) = InCalls(todo, "project", x)
             /\ InCalls(todo', "model", x) = InCalls(todo, "model", x)
             /\ InCalls(todo', "sim", x) = InCalls(todo, "sim", x) + (IF s = x THEN 1 ELSE 0)
             /\ InCalls(todo', "project_free", x) = InCalls(todo, "project_free", x)
             /\ InCalls(todo', "sim_free", x) = InCalls(todo, "sim_free", x)
  <2>1. \A x : /\ InHand(o, "project", x) = 0 /\ InHand(o, "project_free", x) = 0
               /\ InHand(o, "sim_free", x) = 0
               /\ InHand(o, "sim", x) = (IF s = x THEN 1 ELSE 0)
               /\ InHand(o, "model", x) = 0
    BY <1>3, ConstructionHands, CountEmpty DEF AsNum
  <2> QED BY <1>4, <1>5, <2>1 DEF Whats
<1>7. /\ sim' \in [Sims -> SimRecord] /\ sim'[s] = [NoSim EXCEPT !.refcount = 1]
      /\ \A r \in Sims : r # s => sim'[r] = sim[r]
  <2>1. sim \in [Sims -> SimRecord]
    BY <1>1 DEF TypeOK
  <2>2. [NoSim EXCEPT !.refcount = 1] \in SimRecord
    BY NoSimType, RefcountStep
  <2>3. sim' = [sim EXCEPT ![s] = [NoSim EXCEPT !.refcount = 1]]
    BY <1>2, <2>1
  <2> HIDE DEF NoSim
  <2> QED BY <2>1, <2>2, <2>3
<1>8. TypeOK'
  BY <1>1, <1>2, <1>4, <1>7 DEF TypeOK
<1>9. /\ sim'[s].refcount = 1 /\ sim'[s].project = FALSE /\ sim'[s].freed = FALSE
      /\ sim'[s].modules = << >>
      /\ sim[s].refcount = 0 /\ sim[s].project = FALSE /\ sim[s].freed = FALSE
  BY <1>2, <1>7 DEF NoSim
<1>10. KeptProject(sim') = KeptProject(sim) /\ \A m \in Models : KeptModel(sim', m) = KeptModel(sim, m)
  <2>1. KeepsProject(sim'[s]) = KeepsProject(sim[s])
    BY <1>9 DEF KeepsProject
  <2>2. \A m \in Models : Keeps(sim'[s], m) = Keeps(sim[s], m)
    BY <1>9, CountEmpty DEF Keeps
  <2> QED BY <1>1, <1>7, <1>8, <2>1, <2>2, KeptSame
<1>11. ProjectCount' /\ ProjectLife' /\ ModelLife' /\ faults' = {}
  BY <1>1, <1>2, <1>6, <1>10 DEF ProjectCount, ProjectLife, ModelLife
<1>12. ModelCount'
  BY <1>1, <1>2, <1>6, <1>10 DEF ModelCount, FileKeeps
<1>13. SimCount'
  <2>1. ASSUME NEW r \in Sims
        PROVE  sim'[r].refcount = Held(sh, r) + InCalls(todo', "sim", r)
    <3>1. sim[r].refcount = Held(sh, r) + InCalls(todo, "sim", r)
      BY <1>1 DEF SimCount
    <3>2. Held(sh, r) \in Nat /\ InCalls(todo, "sim", r) \in Nat
      BY <1>1, Types DEF Whats
    <3>3. InCalls(todo', "sim", r) = InCalls(todo, "sim", r) + (IF s = r THEN 1 ELSE 0)
      BY <1>6
    <3>4. CASE r = s
      BY <1>9, <3>1, <3>2, <3>3, <3>4
    <3>5. CASE r # s
      BY <1>7, <3>1, <3>2, <3>3, <3>5
    <3> QED BY <3>4, <3>5
  <2> QED BY <1>2, <2>1 DEF SimCount
<1>14. InCalls(todo, "sim_free", s) = 0
  <2>1. todo \in Lists
    BY <1>1, Types
  <2>2. ASSUME NEW u \in Threads PROVE InList(todo[u], "sim_free", s) = 0
    <3> DEFINE w == Chart(todo[u], "sim_free", s)
    <3>1. \A k \in DOMAIN w : w[k] = 0
      BY <1>2 DEF Chart, InHand
    <3> HIDE DEF w
    <3>2. SumOf(w) = 0
      BY <3>1, SumZero
    <3> QED BY <3>2 DEF w, Chart, InList
  <2> QED BY <2>1, <2>2, CallsType DEF Whats
<1>15. SimLife'
  <2>1. ASSUME NEW r \in Sims
        PROVE  Stages(r)' = 1 \/ (Stages(r)' = 0 /\ sim'[r] = NoSim)
    <3>1. CASE r = s
      BY <1>6, <1>9, <1>14, <3>1 DEF Stages, AsNum
    <3>2. CASE r # s
      <4>1. Stages(r)' = Stages(r) /\ sim'[r] = sim[r]
        BY <1>6, <1>7, <3>2 DEF Stages
      <4> QED BY <1>1, <4>1 DEF SimLife
    <3> QED BY <3>1, <3>2
  <2> QED BY <2>1 DEF SimLife
<1>16. SharedKeepProject'
  <2>1. \A r \in Sims : sim'[r].project = sim[r].project
    BY <1>7, <1>9
  <2> QED BY <1>1, <1>2, <2>1 DEF SharedKeepProject
<1>17. MakersOK'
  <2>1. ASSUME NEW u \in Threads, todo'[u] # << >>, Head(todo'[u]).op \in Constructing
        PROVE  ph[u] > 0 /\ Unfinished(Head(todo'[u]), sim'[Head(todo'[u]).s])
    <3>1. CASE u = t
      BY <1>2, <1>3, <1>4, <1>7, <1>9, <3>1 DEF Unfinished
    <3>2. CASE u # t
      <4>1. todo'[u] = todo[u]
        BY <1>4, <3>2 DEF Elsewhere
      <4>2. /\ Head(todo[u]).s \in Sims /\ ph[u] > 0
            /\ Unfinished(Head(todo[u]), sim[Head(todo[u]).s])
        BY <2>1, <4>1, MakerAlone
      <4>3. Head(todo[u]).s # s
        <5>1. todo[u] \in Seq(Operation) /\ todo[u] # << >>
          BY <1>1, <2>1, <4>1 DEF TypeOK, Lists
        <5>2. 1 \in DOMAIN todo[u] /\ Head(todo[u]) = todo[u][1]
          BY <5>1
        <5> QED BY <1>2, <5>2
      <4> QED BY <1>7, <4>1, <4>2, <4>3
    <3> QED BY <3>1, <3>2
  <2> QED BY <1>2, <2>1 DEF MakersOK
<1> QED BY <1>4, <1>8, <1>11, <1>12, <1>13, <1>15, <1>16, <1>17 DEF IInv

LEMMA SimRefOK ==
  ASSUME IInv, NEW t \in Threads, NEW u \in Threads, NEW s \in Sims, sd_sim_ref(t, u, s)
  PROVE  IInv'
<1>1. /\ TypeOK /\ CallsOK /\ MakersOK /\ SharedKeepProject /\ ProjectCount /\ SimCount
      /\ ModelCount /\ ProjectLife /\ SimLife /\ ModelLife /\ faults = {}
  BY DEF IInv
<1>2. /\ sim' = [sim EXCEPT ![s].refcount = @ + 1] /\ sh' = [sh EXCEPT ![u][s] = @ + 1]
      /\ UNCHANGED <<have, project, model, ph, mh, todo, faults, leaked>>
      /\ sh[t][s] > 0
  BY DEF sd_sim_ref
<1>3. /\ sim' \in [Sims -> SimRecord] /\ sim'[s].refcount = sim[s].refcount + 1
      /\ sim'[s].freed = sim[s].freed /\ sim'[s].project = sim[s].project
      /\ sim'[s].modules = sim[s].modules
      /\ \A r \in Sims : r # s => sim'[r] = sim[r]
  <2>1. sim \in [Sims -> SimRecord] /\ sim[s] \in SimRecord /\ sim[s].refcount + 1 \in Int
    BY <1>1 DEF TypeOK, SimRecord
  <2> DEFINE y == [sim[s] EXCEPT !.refcount = sim[s].refcount + 1]
  <2>2. sim' = [sim EXCEPT ![s] = y]
    BY <1>2, <2>1
  <2>3. /\ y \in SimRecord /\ y.refcount = sim[s].refcount + 1
        /\ y.freed = sim[s].freed /\ y.project = sim[s].project /\ y.modules = sim[s].modules
    BY <2>1, RefcountStep
  <2> HIDE DEF y
  <2> QED BY <2>1, <2>2, <2>3
<1>4. /\ sh' \in Handles(Sims) /\ sh'[u][s] = sh[u][s] + 1
      /\ \A v \in Threads, r \in Sims : v # u \/ r # s => sh'[v][r] = sh[v][r]
  <2>1. sh \in Handles(Sims) /\ sh[u][s] + 1 \in Nat
    BY <1>1 DEF TypeOK, Handles
  <2> QED BY <1>2, <2>1 DEF Handles
<1>5. TypeOK'
  BY <1>1, <1>2, <1>3, <1>4 DEF TypeOK
<1>6. sim[s].refcount > 0 /\ sim[s].refcount \in Nat /\ ~ sim[s].freed
  BY <1>2, Holding, SimAlive
<1>7. /\ Held(sh', s) + sh[u][s] = Held(sh, s) + sh'[u][s]
      /\ \A r \in Sims : r # s => Held(sh', r) = Held(sh, r)
  BY <1>1, <1>4, Types, HeldStep
<1>8. SimCount'
  <2>1. ASSUME NEW r \in Sims
        PROVE  sim'[r].refcount = Held(sh', r) + InCalls(todo, "sim", r)
    <3>1. sim[r].refcount = Held(sh, r) + InCalls(todo, "sim", r)
      BY <1>1 DEF SimCount
    <3>2. Held(sh, r) \in Nat /\ InCalls(todo, "sim", r) \in Nat /\ sh \in Handles(Sims)
      BY <1>1, Types DEF Whats
    <3>3. Held(sh', r) = IF r = s THEN Held(sh, r) + 1 ELSE Held(sh, r)
      <4>1. sh[u][s] \in Nat /\ Held(sh', s) \in Nat
        BY <1>4, <3>2, HeldType
      <4> QED BY <1>4, <1>7, <3>2, <4>1
    <3> QED BY <1>3, <3>1, <3>2, <3>3
  <2> QED BY <1>2, <2>1 DEF SimCount
<1>9. KeptProject(sim') = KeptProject(sim) /\ \A m \in Models : KeptModel(sim', m) = KeptModel(sim, m)
  <2>1. KeepsProject(sim'[s]) = KeepsProject(sim[s])
    BY <1>3, <1>6 DEF KeepsProject
  <2>2. \A m \in Models : Keeps(sim'[s], m) = Keeps(sim[s], m)
    BY <1>3, <1>6 DEF Keeps
  <2> QED BY <1>1, <1>3, <1>5, <2>1, <2>2, KeptSame
<1>10. CallsOK' /\ ProjectCount' /\ ProjectLife' /\ ModelLife' /\ ModelCount' /\ faults' = {}
  BY <1>1, <1>2, <1>9 DEF CallsOK, ProjectCount, ProjectLife, ModelLife, ModelCount, FileKeeps
<1>11. SimLife'
  <2>1. ASSUME NEW r \in Sims
        PROVE  Stages(r)' = 1 \/ (Stages(r)' = 0 /\ sim'[r] = NoSim)
    <3>1. CASE r = s
      <4>1. Stages(s)' = Stages(s)
        BY <1>2, <1>3, <1>6 DEF Stages, AsNum
      <4>2. sim[s] # NoSim
        BY <1>6 DEF NoSim
      <4> QED BY <1>1, <3>1, <4>1, <4>2 DEF SimLife
    <3>2. CASE r # s
      <4>1. Stages(r)' = Stages(r) /\ sim'[r] = sim[r]
        BY <1>2, <1>3, <3>2 DEF Stages
      <4> QED BY <1>1, <4>1 DEF SimLife
    <3> QED BY <3>1, <3>2
  <2> QED BY <2>1 DEF SimLife
<1>12. SharedKeepProject'
  <2>1. sim[s].project
    BY <1>1, <1>2 DEF SharedKeepProject
  <2> QED BY <1>1, <1>3, <1>4, <2>1 DEF SharedKeepProject
<1>13. MakersOK'
  <2>1. ASSUME NEW v \in Threads, todo[v] # << >>, Head(todo[v]).op \in Constructing
        PROVE  ph[v] > 0 /\ Unfinished(Head(todo[v]), sim'[Head(todo[v]).s])
    <3>1. /\ Head(todo[v]).s \in Sims /\ ph[v] > 0 /\ sh[t][Head(todo[v]).s] = 0
          /\ Unfinished(Head(todo[v]), sim[Head(todo[v]).s])
      BY <2>1, MakerAlone
    <3> QED BY <1>2, <1>3, <3>1
  <2> QED BY <1>2, <2>1 DEF MakersOK
<1> QED BY <1>5, <1>8, <1>10, <1>11, <1>12, <1>13 DEF IInv

LEMMA SimUnrefStarts ==
  ASSUME IInv, NEW t \in Threads, NEW s \in Sims, sd_sim_unref(t, s)
  PROVE  IInv'
<1>1. /\ TypeOK /\ CallsOK /\ MakersOK /\ SharedKeepProject /\ ProjectCount /\ SimCount
      /\ ModelCount /\ ProjectLife /\ SimLife /\ ModelLife /\ faults = {}
  BY DEF IInv
<1> DEFINE o == sim_unref(s)
<1>2. /\ sh' = [sh EXCEPT ![t][s] = @ - 1] /\ Idle(t) /\ Started(t, o)
      /\ UNCHANGED <<have, project, model, sim, ph, mh, faults, leaked>>
      /\ sh[t][s] > 0
  BY DEF sd_sim_unref, Started
<1>3. o \in Release /\ o.op = "sim_unref" /\ o.s = s
  BY ReleaseTypes DEF sim_unref, Op
<1>4. \A what \in Whats : \A x : InCalls(todo, what, x) \in Nat
  BY <1>1, Types
<1> HIDE DEF o
<1>5. /\ todo' \in Lists /\ CallsOK' /\ Elsewhere(todo, todo', t)
      /\ Head(todo'[t]).op \notin Constructing
      /\ \A x : /\ InCalls(todo', "project", x) = InCalls(todo, "project", x) + AsNum(o.op = "project_unref")
                /\ InCalls(todo', "model", x) = InCalls(todo, "model", x) + AsNum(o.op = "model_unref" /\ o.m = x)
                /\ InCalls(todo', "sim", x) = InCalls(todo, "sim", x) + AsNum(o.op = "sim_unref" /\ o.s = x)
                /\ InCalls(todo', "project_free", x)
                     = InCalls(todo, "project_free", x) + AsNum(o.op = "project_free")
                /\ InCalls(todo', "sim_free", x)
                     = InCalls(todo, "sim_free", x) + AsNum(o.op = "sim_free" /\ o.s = x)
  BY <1>1, <1>2, <1>3, StartRelease
<1>6. \A x : /\ InCalls(todo', "project", x) = InCalls(todo, "project", x)
             /\ InCalls(todo', "model", x) = InCalls(todo, "model", x)
             /\ InCalls(todo', "sim", x) = InCalls(todo, "sim", x) + (IF s = x THEN 1 ELSE 0)
             /\ InCalls(todo', "project_free", x) = InCalls(todo, "project_free", x)
             /\ InCalls(todo', "sim_free", x) = InCalls(todo, "sim_free", x)
  BY <1>3, <1>4, <1>5 DEF Whats, AsNum
<1>7. /\ sh' \in Handles(Sims) /\ sh'[t][s] = sh[t][s] - 1
      /\ \A u \in Threads, r \in Sims : u # t \/ r # s => sh'[u][r] = sh[u][r]
  <2>1. sh \in Handles(Sims) /\ sh[t][s] - 1 \in Nat
    BY <1>1, <1>2 DEF TypeOK, Handles
  <2> QED BY <1>2, <2>1 DEF Handles
<1>8. TypeOK'
  BY <1>1, <1>2, <1>5, <1>7 DEF TypeOK
<1>9. /\ Held(sh', s) + sh[t][s] = Held(sh, s) + sh'[t][s]
      /\ \A r \in Sims : r # s => Held(sh', r) = Held(sh, r)
  BY <1>1, <1>7, Types, HeldStep
<1>10. SimCount'
  <2>1. ASSUME NEW r \in Sims
        PROVE  sim[r].refcount = Held(sh', r) + InCalls(todo', "sim", r)
    <3>1. sim[r].refcount = Held(sh, r) + InCalls(todo, "sim", r)
      BY <1>1 DEF SimCount
    <3>2. Held(sh, r) \in Nat /\ InCalls(todo, "sim", r) \in Nat /\ sh \in Handles(Sims)
      BY <1>1, Types DEF Whats
    <3>3. Held(sh', r) + (IF s = r THEN 1 ELSE 0) = Held(sh, r) /\ Held(sh', r) \in Nat
      <4>1. sh[t][s] \in Nat /\ Held(sh', r) \in Nat
        BY <1>7, <3>2, HeldType
      <4> QED BY <1>7, <1>9, <3>2, <4>1
    <3>4. InCalls(todo', "sim", r) = InCalls(todo, "sim", r) + (IF s = r THEN 1 ELSE 0)
      BY <1>6
    <3> QED BY <3>1, <3>2, <3>3, <3>4
  <2> QED BY <1>2, <2>1 DEF SimCount
<1>11. ProjectCount' /\ SimLife' /\ ModelLife' /\ ProjectLife' /\ ModelCount' /\ faults' = {}
  BY <1>1, <1>2, <1>6 DEF ProjectCount, SimLife, Stages, ModelLife, ProjectLife, ModelCount, FileKeeps
<1>12. SharedKeepProject'
  <2>1. sh[t][s] \in Nat
    BY <1>1 DEF TypeOK, Handles
  <2> QED BY <1>1, <1>2, <1>7, <2>1 DEF SharedKeepProject
<1>13. MakersOK'
  <2>1. \A v \in Threads : v # t => todo'[v] = todo[v]
    BY <1>5 DEF Elsewhere
  <2> QED BY <1>1, <1>2, <1>5, <2>1 DEF MakersOK
<1> QED BY <1>5, <1>8, <1>10, <1>11, <1>12, <1>13 DEF IInv

-----------------------------------------------------------------------------
(* Lists of operations that give back.                                     *)

LEMMA ModelReleases ==
  ASSUME NEW b \in Seq(Models)
  PROVE  /\ avar_free(b) \in Seq(Release) /\ avar_free(b) \in Seq(Operation)
         /\ \A x : /\ InList(avar_free(b), "project", x) = 0
                   /\ InList(avar_free(b), "model", x) = Count(b, x)
                   /\ InList(avar_free(b), "sim", x) = 0
                   /\ InList(avar_free(b), "project_free", x) = 0
                   /\ InList(avar_free(b), "sim_free", x) = 0
                   /\ Count(b, x) \in Nat
<1>1. ASSUME NEW what \in Whats, NEW x
      PROVE  /\ avar_free(b) \in Seq(Release) /\ avar_free(b) \in Seq(Operation)
             /\ InList(avar_free(b), what, x) = IF what = "model" THEN Count(b, x) ELSE 0
  BY InListModels
<1>2. /\ "project" \in Whats /\ "model" \in Whats /\ "sim" \in Whats
      /\ "project_free" \in Whats /\ "sim_free" \in Whats
  BY DEF Whats
<1>3. avar_free(b) \in Seq(Release) /\ avar_free(b) \in Seq(Operation)
  BY <1>1, <1>2, Zenon
<1>4. \A x : Count(b, x) \in Nat
  BY CountType
<1> QED BY <1>1, <1>2, <1>3, <1>4

LEMMA OneRelease ==
  ASSUME NEW o \in Release
  PROVE  /\ <<o>> \in Seq(Release) /\ <<o>> \in Seq(Operation)
         /\ \A x : /\ InList(<<o>>, "project", x) = AsNum(o.op = "project_unref")
                   /\ InList(<<o>>, "model", x) = AsNum(o.op = "model_unref" /\ o.m = x)
                   /\ InList(<<o>>, "sim", x) = AsNum(o.op = "sim_unref" /\ o.s = x)
                   /\ InList(<<o>>, "project_free", x) = AsNum(o.op = "project_free")
                   /\ InList(<<o>>, "sim_free", x) = AsNum(o.op = "sim_free" /\ o.s = x)
<1>1. o \in Operation
  BY ReleaseFacts
<1>2. \A what \in Whats : \A x : InList(<<o>>, what, x) = InHand(o, what, x)
  BY <1>1, InListOne
<1> QED BY <1>1, <1>2, ReleaseHands DEF Whats

(* One list behind the other.                                              *)
Both(p, q) == p \o q

LEMMA MoreReleases ==
  ASSUME NEW p \in Seq(Release), NEW q \in Seq(Release)
  PROVE  /\ Both(p, q) \in Seq(Release) /\ Both(p, q) \in Seq(Operation)
         /\ \A x : /\ InList(Both(p, q), "project", x) = InList(p, "project", x) + InList(q, "project", x)
                   /\ InList(Both(p, q), "model", x) = InList(p, "model", x) + InList(q, "model", x)
                   /\ InList(Both(p, q), "sim", x) = InList(p, "sim", x) + InList(q, "sim", x)
                   /\ InList(Both(p, q), "project_free", x) = InList(p, "project_free", x) + InList(q, "project_free", x)
                   /\ InList(Both(p, q), "sim_free", x) = InList(p, "sim_free", x) + InList(q, "sim_free", x)
<1>1. p \in Seq(Operation) /\ q \in Seq(Operation)
  BY ReleaseFacts, SeqMonotonic
<1>2. p \o q \in Seq(Release) /\ p \o q \in Seq(Operation)
  BY <1>1
<1>3. \A what \in Whats : \A x : InList(p \o q, what, x) = InList(p, what, x) + InList(q, what, x)
  BY <1>1, InListConcat
<1> QED BY <1>2, <1>3 DEF Whats, Both

LEMMA NoReleases ==
  /\ << >> \in Seq(Release) /\ << >> \in Seq(Operation)
  /\ \A x : /\ InList(<< >>, "project", x) = 0
            /\ InList(<< >>, "model", x) = 0
            /\ InList(<< >>, "sim", x) = 0
            /\ InList(<< >>, "project_free", x) = 0
            /\ InList(<< >>, "sim_free", x) = 0
BY InListEmpty

\* what sd_sim_new's error path goes through
FailureList(b, s) == Both(avar_free(b), <<sim_unref(s)>>)

LEMMA FailureReleases ==
  ASSUME NEW b \in Seq(Models), NEW s \in Sims
  PROVE  /\ FailureList(b, s) \in Seq(Release) /\ FailureList(b, s) \in Seq(Operation)
         /\ \A x : /\ InList(FailureList(b, s), "project", x) = 0
                   /\ InList(FailureList(b, s), "model", x) = Count(b, x)
                   /\ InList(FailureList(b, s), "sim", x) = AsNum(s = x)
                   /\ InList(FailureList(b, s), "project_free", x) = 0
                   /\ InList(FailureList(b, s), "sim_free", x) = 0
<1> DEFINE a == avar_free(b)
           c == <<sim_unref(s)>>
<1>1. sim_unref(s) \in Release /\ sim_unref(s).op = "sim_unref" /\ sim_unref(s).s = s
  BY ReleaseTypes DEF sim_unref, Op
<1>2. a \in Seq(Release) /\ \A x : Count(b, x) \in Nat /\ AsNum(s = x) \in Nat
  BY ModelReleases DEF AsNum
<1>3. \A x : /\ InList(a, "project", x) = 0
               /\ InList(a, "model", x) = Count(b, x)
               /\ InList(a, "sim", x) = 0
               /\ InList(a, "project_free", x) = 0
               /\ InList(a, "sim_free", x) = 0
  BY ModelReleases
<1>4. c \in Seq(Release)
  BY <1>1, OneRelease
<1>5. \A x : /\ InList(c, "project", x) = 0
               /\ InList(c, "model", x) = 0
               /\ InList(c, "sim", x) = AsNum(s = x)
               /\ InList(c, "project_free", x) = 0
               /\ InList(c, "sim_free", x) = 0
  BY <1>1, OneRelease DEF AsNum
<1>6. FailureList(b, s) = Both(a, c)
  BY DEF FailureList
<1> HIDE DEF a, c
<1> QED BY <1>2, <1>3, <1>4, <1>5, <1>6, MoreReleases

\* and when it frees a module that is half built
ModuleFailureList(m, b, s) == Both(<<model_unref(m)>>, FailureList(b, s))

LEMMA ModuleFailureReleases ==
  ASSUME NEW m \in Models, NEW b \in Seq(Models), NEW s \in Sims
  PROVE  /\ ModuleFailureList(m, b, s) \in Seq(Release) /\ ModuleFailureList(m, b, s) \in Seq(Operation)
         /\ \A x : /\ InList(ModuleFailureList(m, b, s), "project", x) = 0
                   /\ InList(ModuleFailureList(m, b, s), "model", x) = Count(b, x) + AsNum(m = x)
                   /\ InList(ModuleFailureList(m, b, s), "sim", x) = AsNum(s = x)
                   /\ InList(ModuleFailureList(m, b, s), "project_free", x) = 0
                   /\ InList(ModuleFailureList(m, b, s), "sim_free", x) = 0
<1> DEFINE a == FailureList(b, s)
           c == <<model_unref(m)>>
<1>1. model_unref(m) \in Release /\ model_unref(m).op = "model_unref" /\ model_unref(m).m = m
  BY ReleaseTypes DEF model_unref, Op
<1>2. /\ a \in Seq(Release)
      /\ \A x : Count(b, x) \in Nat /\ AsNum(s = x) \in Nat /\ AsNum(m = x) \in Nat
  BY FailureReleases, CountType DEF AsNum
<1>3. \A x : /\ InList(a, "project", x) = 0
               /\ InList(a, "model", x) = Count(b, x)
               /\ InList(a, "sim", x) = AsNum(s = x)
               /\ InList(a, "project_free", x) = 0
               /\ InList(a, "sim_free", x) = 0
  BY FailureReleases
<1>4. c \in Seq(Release)
  BY <1>1, OneRelease
<1>5. \A x : /\ InList(c, "project", x) = 0
               /\ InList(c, "model", x) = AsNum(m = x)
               /\ InList(c, "sim", x) = 0
               /\ InList(c, "project_free", x) = 0
               /\ InList(c, "sim_free", x) = 0
  BY <1>1, OneRelease DEF AsNum
<1>6. ModuleFailureList(m, b, s) = Both(c, a)
  BY DEF ModuleFailureList
<1> HIDE DEF a, c
<1> QED BY <1>2, <1>3, <1>4, <1>5, <1>6, MoreReleases

\* and sd_sim_unref for the last reference
KeptProjectList(p) == IF p THEN <<project_unref>> ELSE << >>

SimFreeList(b, p, s) == Both(Both(avar_free(b), KeptProjectList(p)), <<sim_free(s)>>)

LEMMA SimFreeReleases ==
  ASSUME NEW b \in Seq(Models), NEW s \in Sims, NEW p \in BOOLEAN
  PROVE  /\ SimFreeList(b, p, s) \in Seq(Release) /\ SimFreeList(b, p, s) \in Seq(Operation)
         /\ \A x : /\ InList(SimFreeList(b, p, s), "project", x) = AsNum(p)
                   /\ InList(SimFreeList(b, p, s), "model", x) = Count(b, x)
                   /\ InList(SimFreeList(b, p, s), "sim", x) = 0
                   /\ InList(SimFreeList(b, p, s), "project_free", x) = 0
                   /\ InList(SimFreeList(b, p, s), "sim_free", x) = AsNum(s = x)
<1> DEFINE a == avar_free(b)
           k == KeptProjectList(p)
           c == <<sim_free(s)>>
<1>1. sim_free(s) \in Release /\ sim_free(s).op = "sim_free" /\ sim_free(s).s = s
  BY ReleaseTypes DEF sim_free, Op
<1>2. a \in Seq(Release) /\ \A x : Count(b, x) \in Nat /\ AsNum(s = x) \in Nat /\ AsNum(p) \in Nat
  BY ModelReleases DEF AsNum
<1>3. \A x : /\ InList(a, "project", x) = 0
               /\ InList(a, "model", x) = Count(b, x)
               /\ InList(a, "sim", x) = 0
               /\ InList(a, "project_free", x) = 0
               /\ InList(a, "sim_free", x) = 0
  BY ModelReleases
<1>4. c \in Seq(Release)
  BY <1>1, OneRelease
<1>5. \A x : /\ InList(c, "project", x) = 0
               /\ InList(c, "model", x) = 0
               /\ InList(c, "sim", x) = 0
               /\ InList(c, "project_free", x) = 0
               /\ InList(c, "sim_free", x) = AsNum(s = x)
  BY <1>1, OneRelease DEF AsNum
<1>6. /\ k \in Seq(Release)
      /\ \A x : /\ InList(k, "project", x) = AsNum(p)
                /\ InList(k, "model", x) = 0
                /\ InList(k, "sim", x) = 0
                /\ InList(k, "project_free", x) = 0
                /\ InList(k, "sim_free", x) = 0
  <2>1. project_unref \in Release /\ project_unref.op = "project_unref"
    BY ReleaseTypes DEF project_unref, Op
  <2>2. /\ <<project_unref>> \in Seq(Release)
        /\ \A x : /\ InList(<<project_unref>>, "project", x) = 1
                  /\ InList(<<project_unref>>, "model", x) = 0
                  /\ InList(<<project_unref>>, "sim", x) = 0
                  /\ InList(<<project_unref>>, "project_free", x) = 0
                  /\ InList(<<project_unref>>, "sim_free", x) = 0
    BY <2>1, OneRelease DEF AsNum
  <2>3. CASE p
    BY <2>2, <2>3 DEF AsNum, KeptProjectList
  <2>4. CASE ~ p
    BY <2>4, NoReleases DEF AsNum, KeptProjectList
  <2> QED BY <2>3, <2>4
<1>7. SimFreeList(b, p, s) = Both(Both(a, k), c)
  BY DEF SimFreeList
<1> HIDE DEF a, c, k
<1>8. /\ Both(a, k) \in Seq(Release)
      /\ \A x : /\ InList(Both(a, k), "project", x) = AsNum(p)
                /\ InList(Both(a, k), "model", x) = Count(b, x)
                /\ InList(Both(a, k), "sim", x) = 0
                /\ InList(Both(a, k), "project_free", x) = 0
                /\ InList(Both(a, k), "sim_free", x) = 0
  BY <1>2, <1>3, <1>6, MoreReleases
<1> QED BY <1>2, <1>4, <1>5, <1>7, <1>8, MoreReleases

\* sd_project_unref and file_free
FileFreeList(S) == Both(avar_free(SetToSeq(S)), <<project_free>>)

LEMMA FileFreeReleases ==
  ASSUME NEW S \in SUBSET Models
  PROVE  /\ FileFreeList(S) \in Seq(Release) /\ FileFreeList(S) \in Seq(Operation)
         /\ \A x : /\ InList(FileFreeList(S), "project", x) = 0
                   /\ InList(FileFreeList(S), "sim", x) = 0
                   /\ InList(FileFreeList(S), "project_free", x) = 1
                   /\ InList(FileFreeList(S), "sim_free", x) = 0
         /\ \A m \in Models : InList(FileFreeList(S), "model", m) = IF m \in S THEN 1 ELSE 0
<1> DEFINE b == SetToSeq(S)
           a == avar_free(b)
           c == <<project_free>>
<1>1. b \in Seq(Models) /\ \A m \in Models : Count(b, m) = IF m \in S THEN 1 ELSE 0
  BY ModelsInFile
<1>2. project_free \in Release /\ project_free.op = "project_free"
  BY ReleaseTypes DEF project_free, Op
<1>3. /\ c \in Seq(Release)
      /\ \A x : /\ InList(c, "project", x) = 0
                /\ InList(c, "model", x) = 0
                /\ InList(c, "sim", x) = 0
                /\ InList(c, "project_free", x) = 1
                /\ InList(c, "sim_free", x) = 0
  BY <1>2, OneRelease DEF AsNum
<1>4. FileFreeList(S) = Both(a, c)
  BY DEF FileFreeList
<1> HIDE DEF b
<1>5. /\ a \in Seq(Release)
      /\ \A x : /\ InList(a, "project", x) = 0
                /\ InList(a, "model", x) = Count(b, x)
                /\ InList(a, "sim", x) = 0
                /\ InList(a, "project_free", x) = 0
                /\ InList(a, "sim_free", x) = 0
  BY <1>1, ModelReleases
<1> HIDE DEF a, c
<1> QED BY <1>1, <1>3, <1>4, <1>5, MoreReleases

-----------------------------------------------------------------------------
(* The steps of calls.                                                     *)

\* what the calls have in hand after h was replaced by next
CallsChangeAt(h, next, x) ==
  /\ InCalls(todo', "project", x) + InHand(h, "project", x)
       = InCalls(todo, "project", x) + InList(next, "project", x)
  /\ InCalls(todo', "model", x) + InHand(h, "model", x)
       = InCalls(todo, "model", x) + InList(next, "model", x)
  /\ InCalls(todo', "sim", x) + InHand(h, "sim", x)
       = InCalls(todo, "sim", x) + InList(next, "sim", x)
  /\ InCalls(todo', "project_free", x) + InHand(h, "project_free", x)
       = InCalls(todo, "project_free", x) + InList(next, "project_free", x)
  /\ InCalls(todo', "sim_free", x) + InHand(h, "sim_free", x)
       = InCalls(todo, "sim_free", x) + InList(next, "sim_free", x)

CallsChange(h, next) == \A x : CallsChangeAt(h, next, x)

CallsAreNumbersAt(x) ==
  /\ InCalls(todo, "project", x) \in Nat /\ InCalls(todo', "project", x) \in Nat
  /\ InCalls(todo, "model", x) \in Nat /\ InCalls(todo', "model", x) \in Nat
  /\ InCalls(todo, "sim", x) \in Nat /\ InCalls(todo', "sim", x) \in Nat
  /\ InCalls(todo, "project_free", x) \in Nat /\ InCalls(todo', "project_free", x) \in Nat
  /\ InCalls(todo, "sim_free", x) \in Nat /\ InCalls(todo', "sim_free", x) \in Nat

CallsAreNumbers == \A x : CallsAreNumbersAt(x)

LEMMA CallStep ==
  ASSUME IInv, NEW t \in Threads, todo[t] # << >>,
         NEW next \in Seq(Operation), ListOK(next),
         Head(todo[t]) \in Release => next \in Seq(Release),
         Then(t, next)
  PROVE  /\ todo' \in Lists /\ CallsOK' /\ Elsewhere(todo, todo', t)
         /\ Head(todo[t]) \in Construction => todo'[t] = next
         /\ Head(todo[t]) \in Release => todo'[t] \in Seq(Release)
         /\ CallsChange(Head(todo[t]), next) /\ CallsAreNumbers
<1>1. todo \in Lists /\ CallsOK
  BY Types DEF IInv
<1>2. /\ todo' \in Lists /\ CallsOK' /\ Elsewhere(todo, todo', t)
      /\ Head(todo[t]) \in Construction => todo'[t] = next
      /\ Head(todo[t]) \in Release => todo'[t] \in Seq(Release)
      /\ \A what \in Whats : \A x :
           InCalls(todo', what, x) + InHand(Head(todo[t]), what, x)
             = InCalls(todo, what, x) + InList(next, what, x)
  BY <1>1, ThenOK
<1>3. \A what \in Whats : \A x : InCalls(todo, what, x) \in Nat /\ InCalls(todo', what, x) \in Nat
  BY <1>1, <1>2, CallsType
<1>4. CallsChange(Head(todo[t]), next)
  BY <1>2 DEF Whats, CallsChange, CallsChangeAt
<1>5. CallsAreNumbers
  BY <1>3 DEF Whats, CallsAreNumbers, CallsAreNumbersAt
<1> QED BY <1>2, <1>4, <1>5

(* The simulation an operation refers to or frees is not being made by     *)
(* another thread.                                                         *)
LEMMA OtherMakers ==
  ASSUME IInv, NEW t \in Threads, todo[t] # << >>, NEW s \in Sims,
         \/ InHand(Head(todo[t]), "sim", s) = 1
         \/ InHand(Head(todo[t]), "sim_free", s) = 1,
         NEW u \in Threads, u # t, todo[u] # << >>, Head(todo[u]).op \in Constructing
  PROVE  Head(todo[u]).s # s
<1> SUFFICES ASSUME Head(todo[u]).s = s PROVE FALSE
  OBVIOUS
<1>1. /\ InCalls(todo, "sim_free", s) = 0
      /\ \A v \in Threads : v # u /\ todo[v] # << >> => InHand(Head(todo[v]), "sim", s) <= 0
  BY MakerAlone
<1>2. InHand(Head(todo[t]), "sim", s) <= 0
  BY <1>1
<1>3. InHand(Head(todo[t]), "sim_free", s) <= InCalls(todo, "sim_free", s)
  BY HeadFacts DEF IInv, Whats
<1> QED BY <1>1, <1>2, <1>3

LEMMA MakersKeep ==
  ASSUME IInv, NEW t \in Threads, Elsewhere(todo, todo', t), ph' = ph,
         \A u \in Threads : u # t /\ todo[u] # << >> /\ Head(todo[u]).op \in Constructing =>
           sim'[Head(todo[u]).s] = sim[Head(todo[u]).s],
         todo'[t] # << >> /\ Head(todo'[t]).op \in Constructing =>
           ph[t] > 0 /\ Unfinished(Head(todo'[t]), sim'[Head(todo'[t]).s])
  PROVE  MakersOK'
BY DEF IInv, MakersOK, Elsewhere

\* releases make nothing
LEMMA ReleasesMakeNothing ==
  ASSUME NEW l \in Seq(Release), l # << >>
  PROVE  Head(l).op \notin Constructing
<1>1. Head(l) \in Release
  OBVIOUS
<1> QED BY <1>1, ReleaseFacts

(* The next operations have in hand what the one done had.                 *)
Handed(h, next) == \A what \in Whats : \A x : InList(next, what, x) = InHand(h, what, x)

SameInCalls == \A what \in Whats : \A x : InCalls(todo', what, x) = InCalls(todo, what, x)

LEMMA HandedSame ==
  ASSUME todo \in Lists, CallsOK, NEW t \in Threads, todo[t] # << >>,
         NEW next \in Seq(Operation), ListOK(next),
         Head(todo[t]) \in Release => next \in Seq(Release),
         Then(t, next), Handed(Head(todo[t]), next)
  PROVE  SameInCalls
<1> DEFINE h == Head(todo[t])
<1>1. /\ todo' \in Lists
      /\ \A what \in Whats : \A x :
           InCalls(todo', what, x) + InHand(h, what, x) = InCalls(todo, what, x) + InList(next, what, x)
  BY ThenOK
<1>2. h \in Operation
  BY DEF Lists
<1>3. \A what \in Whats : \A x : InList(next, what, x) = InHand(h, what, x)
  BY DEF Handed
<1> HIDE DEF h
<1>4. ASSUME NEW what \in Whats, NEW x PROVE InCalls(todo', what, x) = InCalls(todo, what, x)
  <2>1. InCalls(todo', what, x) \in Nat /\ InCalls(todo, what, x) \in Nat
    BY <1>1, CallsType
  <2>2. InHand(h, what, x) \in Nat
    BY <1>2, InHandType
  <2> QED BY <1>1, <1>3, <2>1, <2>2
<1> QED BY <1>4 DEF SameInCalls

(* A step that only hands on what the call has in hand.                    *)
LEMMA HandsOn ==
  ASSUME IInv, NEW t \in Threads, todo[t] # << >>, Head(todo[t]) \in Construction,
         NEW next \in Seq(Operation), ListOK(next), Then(t, next), Handed(Head(todo[t]), next),
         next # << >> /\ Head(next).op \in Constructing =>
           Unfinished(Head(next), sim[Head(next).s]),
         UNCHANGED <<have, project, model, sim, ph, mh, sh, faults, leaked>>
  PROVE  IInv'
<1>1. /\ TypeOK /\ CallsOK /\ MakersOK /\ SharedKeepProject /\ ProjectCount /\ SimCount
      /\ ModelCount /\ ProjectLife /\ SimLife /\ ModelLife /\ faults = {}
  BY DEF IInv
<1>2. Head(todo[t]) \notin Release /\ todo \in Lists
  BY <1>1, ReleaseFacts, Types
<1>3. /\ todo' \in Lists /\ CallsOK' /\ Elsewhere(todo, todo', t) /\ todo'[t] = next
  BY <1>2, CallStep
<1>4. SameInCalls
  BY <1>1, <1>2, HandedSame
<1>6. ASSUME NEW x
      PROVE  /\ InCalls(todo', "project", x) = InCalls(todo, "project", x)
             /\ InCalls(todo', "model", x) = InCalls(todo, "model", x)
             /\ InCalls(todo', "sim", x) = InCalls(todo, "sim", x)
             /\ InCalls(todo', "project_free", x) = InCalls(todo, "project_free", x)
             /\ InCalls(todo', "sim_free", x) = InCalls(todo, "sim_free", x)
  BY <1>4 DEF Whats, SameInCalls
<1>7. TypeOK'
  BY <1>1, <1>3 DEF TypeOK
<1>8. /\ SharedKeepProject' /\ ProjectCount' /\ SimCount' /\ ProjectLife' /\ SimLife' /\ ModelLife'
      /\ faults' = {}
  BY <1>1, <1>6 DEF SharedKeepProject, ProjectCount, SimCount, ProjectLife, SimLife, Stages, ModelLife
<1>9. ModelCount'
  BY <1>1, <1>6 DEF ModelCount, FileKeeps
<1>10. MakersOK'
  <2>1. ph[t] > 0
    BY <1>1, ReleaseFacts DEF MakersOK
  <2> QED BY <1>3, <2>1, MakersKeep
<1> QED BY <1>3, <1>7, <1>8, <1>9, <1>10 DEF IInv

\* where a thread in sd_sim_new is
LEMMA Making ==
  ASSUME IInv, NEW t \in Threads, todo[t] # << >>, Head(todo[t]).op \in Constructing
  PROVE  /\ Head(todo[t]) \in Construction /\ Head(todo[t]).s \in Sims
         /\ Head(todo[t]).built \in Seq(Models)
         /\ Unfinished(Head(todo[t]), sim[Head(todo[t]).s])
         /\ project.refcount > 0 /\ ~ project.freed
         /\ \A x : /\ InHand(Head(todo[t]), "sim", x) = AsNum(Head(todo[t]).s = x)
                   /\ InHand(Head(todo[t]), "model", x)
                        = Count(Head(todo[t]).built, x) + AsNum(Head(todo[t]).op = "module" /\ Head(todo[t]).m = x)
                   /\ Count(Head(todo[t]).built, x) \in Nat
<1>1. Head(todo[t]) \in Construction
  BY HeadFacts, ReleaseFacts DEF IInv
<1>2. Head(todo[t]).s \in Sims /\ Head(todo[t]).built \in Seq(Models)
  BY <1>1 DEF Construction, Operation
<1>3. ph[t] > 0 /\ Unfinished(Head(todo[t]), sim[Head(todo[t]).s])
  BY DEF IInv, MakersOK
<1>4. project.refcount > 0 /\ ~ project.freed
  BY <1>3, Holding
<1>5. \A x : Count(Head(todo[t]).built, x) \in Nat
  BY <1>2, CountType
<1> QED BY <1>1, <1>2, <1>3, <1>4, <1>5, ConstructionHands

LEMMA ModuleFailsOK ==
  ASSUME IInv, NEW t \in Threads, ModuleFails(t)
  PROVE  IInv'
<1> DEFINE h == Head(todo[t])
<1>1. /\ todo[t] # << >> /\ h.op = "module"
      /\ Then(t, ModuleFailureList(h.m, h.built, h.s))
      /\ UNCHANGED <<have, project, model, sim, ph, mh, sh, faults, leaked>>
  <2>1. Then(t, <<model_unref(h.m)>> \o avar_free(h.built) \o <<sim_unref(h.s)>>)
    BY DEF ModuleFails
  <2>2. /\ h \in Construction /\ h.s \in Sims /\ h.built \in Seq(Models) /\ h.m \in Models
    BY Making DEF ModuleFails, At, Constructing, Construction
  <2> DEFINE a == <<model_unref(h.m)>>
             b == avar_free(h.built)
             c == <<sim_unref(h.s)>>
  <2>3. a \in Seq(Release) /\ b \in Seq(Release) /\ c \in Seq(Release)
    BY <2>2, ModelReleases, ReleaseTypes
  <2>4. (a \o b) \o c = a \o (b \o c)
    <3> HIDE DEF a, b, c
    <3> QED BY <2>3, ConcatAssociative
  <2>5. ModuleFailureList(h.m, h.built, h.s) = a \o (b \o c)
    BY DEF ModuleFailureList, FailureList, Both
  <2>6. Then(t, ModuleFailureList(h.m, h.built, h.s))
    BY <2>1, <2>4, <2>5, Zenon
  <2> QED BY <2>6 DEF ModuleFails, At, Kept
<1>2. /\ h \in Construction /\ h.s \in Sims /\ h.built \in Seq(Models) /\ h.m \in Models
      /\ \A x : /\ InHand(h, "sim", x) = AsNum(h.s = x)
                /\ InHand(h, "model", x) = Count(h.built, x) + AsNum(h.m = x)
                /\ InHand(h, "project", x) = 0 /\ InHand(h, "project_free", x) = 0
                /\ InHand(h, "sim_free", x) = 0
  <2>1. h \in Construction /\ h.s \in Sims /\ h.built \in Seq(Models)
    BY <1>1, Making DEF Constructing
  <2>2. h.m \in Models
    BY <1>1, <2>1 DEF Construction
  <2> QED BY <1>1, <2>1, <2>2, ConstructionHands
<1> DEFINE l == ModuleFailureList(h.m, h.built, h.s)
<1> HIDE DEF h
<1>3. /\ l \in Seq(Release) /\ l \in Seq(Operation)
      /\ \A x : /\ InList(l, "project", x) = 0
                /\ InList(l, "model", x) = Count(h.built, x) + AsNum(h.m = x)
                /\ InList(l, "sim", x) = AsNum(h.s = x)
                /\ InList(l, "project_free", x) = 0
                /\ InList(l, "sim_free", x) = 0
  BY <1>2, ModuleFailureReleases
<1> HIDE DEF l
<1>4. Handed(h, l)
  BY <1>2, <1>3 DEF Handed, Whats
<1>5. ListOK(l) /\ (l # << >> => Head(l).op \notin Constructing)
  BY <1>3, ReleasesMakeNothing DEF ListOK
<1> QED BY <1>1, <1>2, <1>3, <1>4, <1>5, HandsOn DEF h, l

LEMMA InitFailsOK ==
  ASSUME IInv, NEW t \in Threads, InitFails(t)
  PROVE  IInv'
<1> DEFINE h == Head(todo[t])
           o == sim_unref(h.s)
           l == <<o>>
<1>1. /\ todo[t] # << >> /\ h.op = "init" /\ Then(t, l)
      /\ UNCHANGED <<have, project, model, sim, ph, mh, sh, faults, leaked>>
  BY DEF InitFails, At, Kept
<1>2. h \in Construction /\ h.s \in Sims /\ h.built = << >>
  BY <1>1, Making DEF Constructing, Construction
<1>3. \A x : /\ InHand(h, "sim", x) = AsNum(h.s = x)
             /\ InHand(h, "model", x) = 0
             /\ InHand(h, "project", x) = 0 /\ InHand(h, "project_free", x) = 0
             /\ InHand(h, "sim_free", x) = 0
  BY <1>1, <1>2, ConstructionHands, CountEmpty DEF AsNum
<1>4. o \in Release /\ o.op = "sim_unref" /\ o.s = h.s
  BY <1>2, ReleaseTypes DEF sim_unref, Op
<1> HIDE DEF h, o
<1>5. /\ l \in Seq(Release) /\ l \in Seq(Operation)
      /\ \A x : /\ InList(l, "project", x) = 0 /\ InList(l, "model", x) = 0
                /\ InList(l, "sim", x) = AsNum(h.s = x)
                /\ InList(l, "project_free", x) = 0 /\ InList(l, "sim_free", x) = 0
  BY <1>4, OneRelease DEF AsNum
<1> HIDE DEF l
<1>6. Handed(h, l)
  BY <1>3, <1>5 DEF Handed, Whats
<1>7. ListOK(l) /\ (l # << >> => Head(l).op \notin Constructing)
  BY <1>5, ReleasesMakeNothing DEF ListOK
<1> QED BY <1>1, <1>2, <1>5, <1>6, <1>7, HandsOn DEF h, l, o

\* one operation of sd_sim_new as a list
LEMMA OneStep ==
  ASSUME NEW o \in Construction
  PROVE  /\ <<o>> \in Seq(Operation) /\ ListOK(<<o>>) /\ <<o>> # << >> /\ Head(<<o>>) = o
         /\ \A what \in Whats : \A x : InList(<<o>>, what, x) = InHand(o, what, x)
<1>1. o \in Operation
  BY ReleaseFacts
<1> QED BY <1>1, InListOne DEF ListOK

LEMMA ModuleBuiltOK ==
  ASSUME IInv, NEW t \in Threads, ModuleBuilt(t)
  PROVE  IInv'
<1> DEFINE h == Head(todo[t])
           b == Append(h.built, h.m)
           o == Continue(h, b)
           l == <<o>>
<1>1. /\ todo[t] # << >> /\ h.op = "module" /\ Then(t, l)
      /\ UNCHANGED <<have, project, model, sim, ph, mh, sh, faults, leaked>>
  BY DEF ModuleBuilt, At, Kept
<1>2. h \in Construction /\ h.s \in Sims /\ h.built \in Seq(Models) /\ h.m \in Models
      /\ Unfinished(h, sim[h.s])
  BY <1>1, Making DEF Constructing, Construction
<1>3. b \in Seq(Models) /\ Len(b) \in Nat /\ Len(b) >= 1
  BY <1>2
<1>4. \A x : /\ Count(b, x) = Count(h.built, x) + AsNum(h.m = x) /\ Count(b, x) \in Nat
             /\ InHand(h, "sim", x) = AsNum(h.s = x)
             /\ InHand(h, "model", x) = Count(b, x)
             /\ InHand(h, "project", x) = 0 /\ InHand(h, "project_free", x) = 0
             /\ InHand(h, "sim_free", x) = 0
  <2>1. \A x : Count(b, x) \in Nat
    <3> HIDE DEF b
    <3> QED BY <1>3, CountType
  <2>2. \A x : Count(b, x) = Count(h.built, x) + AsNum(h.m = x)
    BY <1>2, CountAppend
  <2>3. \A x : /\ InHand(h, "sim", x) = AsNum(h.s = x)
               /\ InHand(h, "model", x) = Count(h.built, x) + AsNum(h.m = x)
               /\ InHand(h, "project", x) = 0 /\ InHand(h, "project_free", x) = 0
               /\ InHand(h, "sim_free", x) = 0
    BY <1>1, <1>2, ConstructionHands
  <2> QED BY <2>1, <2>2, <2>3
<1> HIDE DEF h, b
<1>5. /\ o \in Construction /\ o.op \in {"get_model", "built"} /\ o.s = h.s /\ o.built = b
  <2>1. CASE Len(b) <= Len(Subs)
    <3>1. Subs \in Seq(Models) /\ Len(b) \in DOMAIN Subs
      BY <1>3, <2>1, LifecycleAssumption
    <3>2. Subs[Len(b)] \in Models /\ o = Op("get_model", h.s, Subs[Len(b)], b)
      BY <2>1, <3>1 DEF Continue
    <3> HIDE DEF o
    <3> QED BY <1>2, <1>3, <3>2 DEF Op, Construction, Operation, Constructing
  <2>2. CASE ~ (Len(b) <= Len(Subs))
    <3>1. o = Op("built", h.s, 0, b)
      BY <2>2 DEF Continue
    <3> HIDE DEF o
    <3> QED BY <1>2, <1>3, <3>1 DEF Op, Construction, Operation, Constructing
  <2> QED BY <2>1, <2>2
<1> HIDE DEF o
<1>6. \A x : /\ InHand(o, "sim", x) = AsNum(h.s = x)
             /\ InHand(o, "model", x) = Count(b, x)
             /\ InHand(o, "project", x) = 0 /\ InHand(o, "project_free", x) = 0
             /\ InHand(o, "sim_free", x) = 0
  <2>1. o.op # "module"
    BY <1>5
  <2> QED BY <1>4, <1>5, <2>1, ConstructionHands DEF AsNum
<1>7. l \in Seq(Operation) /\ ListOK(l) /\ l # << >> /\ Head(l) = o
      /\ \A what \in Whats : \A x : InList(l, what, x) = InHand(o, what, x)
  BY <1>5, OneStep
<1> HIDE DEF l
<1>8. Handed(h, l)
  <2>1. \A what \in Whats : \A x : InHand(o, what, x) = InHand(h, what, x)
    BY <1>4, <1>6 DEF Whats
  <2> QED BY <1>7, <2>1 DEF Handed
<1>9. Unfinished(Head(l), sim[Head(l).s])
  BY <1>1, <1>2, <1>5, <1>7 DEF Unfinished
<1> QED BY <1>1, <1>2, <1>7, <1>8, <1>9, HandsOn DEF h, l, o, b

LEMMA GetModelStepOK ==
  ASSUME IInv, NEW t \in Threads, GetModel(t)
  PROVE  IInv'
<1> DEFINE h == Head(todo[t])
<1>1. /\ TypeOK /\ CallsOK /\ MakersOK /\ SharedKeepProject /\ ProjectCount /\ SimCount
      /\ ModelCount /\ ProjectLife /\ SimLife /\ ModelLife /\ faults = {}
  BY DEF IInv
<1>2. todo[t] # << >> /\ h.op = "get_model"
  BY DEF GetModel, At
<1>3. /\ h \in Construction /\ h.s \in Sims /\ h.built \in Seq(Models) /\ h.m \in Models
      /\ Unfinished(h, sim[h.s]) /\ project.refcount > 0 /\ ~ project.freed
  BY <1>2, Making DEF Constructing, Construction
<1>4. \A x : /\ InHand(h, "sim", x) = AsNum(h.s = x)
             /\ InHand(h, "model", x) = Count(h.built, x)
             /\ InHand(h, "project", x) = 0 /\ InHand(h, "project_free", x) = 0
             /\ InHand(h, "sim_free", x) = 0 /\ Count(h.built, x) \in Nat
  <2>1. \A x : Count(h.built, x) \in Nat
    BY <1>3, CountType
  <2> QED BY <1>2, <1>3, <2>1, ConstructionHands DEF AsNum
<1>5. faults' = faults
  BY <1>3 DEF GetModel, Touch
<1>6. CASE h.m \notin have
  <2> DEFINE l == FailureList(h.built, h.s)
  <2>1. /\ Then(t, l) /\ UNCHANGED <<have, project, model, sim, ph, mh, sh, faults, leaked>>
    BY <1>5, <1>6 DEF GetModel, FailureList, Both, Kept
  <2> HIDE DEF h
  <2>2. /\ l \in Seq(Release) /\ l \in Seq(Operation)
        /\ \A x : /\ InList(l, "project", x) = 0
                  /\ InList(l, "model", x) = Count(h.built, x)
                  /\ InList(l, "sim", x) = AsNum(h.s = x)
                  /\ InList(l, "project_free", x) = 0
                  /\ InList(l, "sim_free", x) = 0
    BY <1>3, FailureReleases
  <2> HIDE DEF l
  <2>3. Handed(h, l)
    BY <1>4, <2>2 DEF Handed, Whats
  <2>4. ListOK(l) /\ (l # << >> => Head(l).op \notin Constructing)
    BY <2>2, ReleasesMakeNothing DEF ListOK
  <2> QED BY <1>2, <1>3, <2>1, <2>2, <2>3, <2>4, HandsOn DEF h, l
<1>7. CASE h.m \in have
  <2> DEFINE m == h.m
             o == Op("module", h.s, h.m, h.built)
             l == <<o>>
  <2>1. /\ model' = [model EXCEPT ![m].refcount = @ + 1] /\ Then(t, l)
        /\ UNCHANGED <<have, project, sim, ph, mh, sh, faults, leaked>>
    BY <1>5, <1>7 DEF GetModel, Kept
  <2>2. o \in Construction /\ o.op = "module" /\ o.s = h.s /\ o.m = m /\ o.built = h.built
    BY <1>3 DEF Op, Construction, Operation, Constructing
  <2>3. m \in Models /\ m \in have
    BY <1>3, <1>7
  <2> HIDE DEF h, m, o
  <2>4. \A x : /\ InHand(o, "sim", x) = AsNum(h.s = x)
               /\ InHand(o, "model", x) = Count(h.built, x) + AsNum(m = x)
               /\ InHand(o, "project", x) = 0 /\ InHand(o, "project_free", x) = 0
               /\ InHand(o, "sim_free", x) = 0
    BY <2>2, ConstructionHands
  <2>5. l \in Seq(Operation) /\ ListOK(l) /\ l # << >> /\ Head(l) = o
        /\ \A what \in Whats : \A x : InList(l, what, x) = InHand(o, what, x)
    BY <2>2, OneStep
  <2> HIDE DEF l
  <2>6. h \notin Release
    BY <1>3, ReleaseFacts
  <2>7. /\ todo' \in Lists /\ CallsOK' /\ Elsewhere(todo, todo', t) /\ todo'[t] = l
        /\ CallsChange(h, l) /\ CallsAreNumbers
    BY <1>2, <1>3, <2>1, <2>5, <2>6, CallStep DEF h
  <2>8. ASSUME NEW x
        PROVE  /\ InCalls(todo', "project", x) = InCalls(todo, "project", x)
               /\ InCalls(todo', "model", x) = InCalls(todo, "model", x) + (IF m = x THEN 1 ELSE 0)
               /\ InCalls(todo', "sim", x) = InCalls(todo, "sim", x)
               /\ InCalls(todo', "project_free", x) = InCalls(todo, "project_free", x)
               /\ InCalls(todo', "sim_free", x) = InCalls(todo, "sim_free", x)
    <3>1. /\ InList(l, "project", x) = 0 /\ InList(l, "project_free", x) = 0
          /\ InList(l, "sim_free", x) = 0 /\ InList(l, "sim", x) = AsNum(h.s = x)
          /\ InList(l, "model", x) = Count(h.built, x) + AsNum(m = x)
      BY <2>4, <2>5 DEF Whats
    <3>2. AsNum(h.s = x) \in Nat /\ AsNum(m = x) \in Nat
      BY DEF AsNum
    <3>3. CallsChangeAt(h, l, x) /\ CallsAreNumbersAt(x)
      BY <2>7 DEF CallsChange, CallsAreNumbers
    <3>4. /\ InHand(h, "sim", x) = AsNum(h.s = x)
          /\ InHand(h, "model", x) = Count(h.built, x)
          /\ InHand(h, "project", x) = 0 /\ InHand(h, "project_free", x) = 0
          /\ InHand(h, "sim_free", x) = 0 /\ Count(h.built, x) \in Nat
      BY <1>4
    <3>5. InList(l, "sim", x) = InHand(h, "sim", x) /\ InHand(h, "sim", x) \in Nat
      BY <3>1, <3>2, <3>4
    <3>6. /\ InHand(h, "model", x) \in Nat
          /\ InList(l, "model", x) = InHand(h, "model", x) + (IF m = x THEN 1 ELSE 0)
      BY <3>1, <3>4 DEF AsNum
    <3>7. /\ InCalls(todo', "project", x) = InCalls(todo, "project", x)
          /\ InCalls(todo', "project_free", x) = InCalls(todo, "project_free", x)
          /\ InCalls(todo', "sim_free", x) = InCalls(todo, "sim_free", x)
      BY <3>1, <3>3, <3>4 DEF CallsChangeAt, CallsAreNumbersAt
    <3>8. InCalls(todo', "sim", x) = InCalls(todo, "sim", x)
      BY <3>3, <3>5 DEF CallsChangeAt, CallsAreNumbersAt
    <3>9. InCalls(todo', "model", x) = InCalls(todo, "model", x) + (IF m = x THEN 1 ELSE 0)
      BY <3>3, <3>6 DEF CallsChangeAt, CallsAreNumbersAt
    <3> QED BY <3>7, <3>8, <3>9
  <2>9. /\ model' \in [Models -> Counted]
        /\ model'[m].refcount = model[m].refcount + 1 /\ model'[m].freed = model[m].freed
        /\ \A n \in Models : n # m => model'[n] = model[n]
    BY <1>1, <2>1, <2>3 DEF TypeOK, Counted
  <2>10. TypeOK'
    BY <1>1, <2>1, <2>7, <2>9 DEF TypeOK
  <2>11. model[m].refcount > 0 /\ model[m].refcount \in Nat /\ ~ model[m].freed
    BY <1>3, <2>3, ModelAlive
  <2>12. ModelCount'
    <3>1. ASSUME NEW n \in Models
          PROVE  model'[n].refcount = Held(mh, n) + InCalls(todo', "model", n) + KeptModel(sim, n)
                                      + FileKeeps(n) + leaked[n]
      <4>1. model[n].refcount = Held(mh, n) + InCalls(todo, "model", n) + KeptModel(sim, n)
                                + FileKeeps(n) + leaked[n]
        BY <1>1 DEF ModelCount
      <4>2. /\ Held(mh, n) \in Nat /\ InCalls(todo, "model", n) \in Nat /\ KeptModel(sim, n) \in Nat
            /\ leaked[n] \in Nat
        BY <1>1, Types DEF Whats
      <4>3. FileKeeps(n) \in Nat
        BY DEF FileKeeps
      <4>4. InCalls(todo', "model", n) = InCalls(todo, "model", n) + (IF m = n THEN 1 ELSE 0)
        BY <2>8
      <4>5. CASE n = m
        BY <2>9, <4>1, <4>2, <4>3, <4>4, <4>5
      <4>6. CASE n # m
        BY <2>9, <4>1, <4>2, <4>3, <4>4, <4>6
      <4> QED BY <4>5, <4>6
    <3> QED BY <2>1, <3>1 DEF ModelCount, FileKeeps
  <2>13. ModelLife'
    BY <1>1, <2>1, <2>9, <2>11 DEF ModelLife
  <2>14. SharedKeepProject' /\ ProjectCount' /\ SimCount' /\ ProjectLife' /\ SimLife' /\ faults' = {}
    BY <1>1, <2>1, <2>8 DEF SharedKeepProject, ProjectCount, SimCount, ProjectLife, SimLife, Stages
  <2>15. MakersOK'
    <3>1. ph[t] > 0
      BY <1>1, <1>2, <1>3, ReleaseFacts DEF MakersOK, h
    <3>2. Unfinished(Head(l), sim[Head(l).s])
      BY <1>2, <1>3, <2>2, <2>5 DEF Unfinished
    <3> QED BY <2>1, <2>7, <3>1, <3>2, MakersKeep
  <2> QED BY <2>7, <2>10, <2>12, <2>13, <2>14, <2>15 DEF IInv
<1> QED BY <1>6, <1>7

LEMMA ModuleNoMemOK ==
  ASSUME IInv, NEW t \in Threads, ModuleNoMem(t)
  PROVE  IInv'
<1> DEFINE h == Head(todo[t])
           m == h.m
           l == FailureList(h.built, h.s)
<1>1. /\ TypeOK /\ CallsOK /\ MakersOK /\ SharedKeepProject /\ ProjectCount /\ SimCount
      /\ ModelCount /\ ProjectLife /\ SimLife /\ ModelLife /\ faults = {}
  BY DEF IInv
<1>2. /\ todo[t] # << >> /\ h.op = "module" /\ leaked' = [leaked EXCEPT ![m] = @ + 1] /\ Then(t, l)
      /\ UNCHANGED <<have, project, model, sim, ph, mh, sh, faults>>
  BY DEF ModuleNoMem, At, FailureList, Both, Kept
<1>3. h \in Construction /\ h.s \in Sims /\ h.built \in Seq(Models) /\ m \in Models
  BY <1>2, Making DEF Constructing, Construction
<1> HIDE DEF m
<1>4. \A x : /\ InHand(h, "sim", x) = AsNum(h.s = x)
             /\ InHand(h, "model", x) = Count(h.built, x) + AsNum(m = x)
             /\ InHand(h, "project", x) = 0 /\ InHand(h, "project_free", x) = 0
             /\ InHand(h, "sim_free", x) = 0 /\ Count(h.built, x) \in Nat
  <2>1. \A x : Count(h.built, x) \in Nat
    BY <1>3, CountType
  <2> QED BY <1>2, <1>3, <2>1, ConstructionHands DEF m
<1> HIDE DEF h
<1>5. /\ l \in Seq(Release) /\ l \in Seq(Operation)
      /\ \A x : /\ InList(l, "project", x) = 0
                /\ InList(l, "model", x) = Count(h.built, x)
                /\ InList(l, "sim", x) = AsNum(h.s = x)
                /\ InList(l, "project_free", x) = 0
                /\ InList(l, "sim_free", x) = 0
  BY <1>3, FailureReleases
<1> HIDE DEF l
<1>6. ListOK(l) /\ (l # << >> => Head(l).op \notin Constructing)
  BY <1>5, ReleasesMakeNothing DEF ListOK
<1>7. /\ todo' \in Lists /\ CallsOK' /\ Elsewhere(todo, todo', t) /\ todo'[t] = l
      /\ CallsChange(h, l) /\ CallsAreNumbers
  BY <1>2, <1>3, <1>5, <1>6, CallStep DEF h
<1>8. ASSUME NEW x
      PROVE  /\ InCalls(todo', "project", x) = InCalls(todo, "project", x)
             /\ InCalls(todo', "model", x) + (IF m = x THEN 1 ELSE 0) = InCalls(todo, "model", x)
             /\ InCalls(todo', "sim", x) = InCalls(todo, "sim", x)
             /\ InCalls(todo', "project_free", x) = InCalls(todo, "project_free", x)
             /\ InCalls(todo', "sim_free", x) = InCalls(todo, "sim_free", x)
             /\ InCalls(todo', "model", x) \in Nat
  <2>1. AsNum(h.s = x) \in Nat /\ AsNum(m = x) \in Nat
    BY DEF AsNum
  <2>2. CallsChangeAt(h, l, x) /\ CallsAreNumbersAt(x)
    BY <1>7 DEF CallsChange, CallsAreNumbers
  <2>3. /\ InHand(h, "project", x) = 0 /\ InHand(h, "model", x) = Count(h.built, x) + AsNum(m = x)
        /\ InHand(h, "sim", x) = AsNum(h.s = x)
        /\ InHand(h, "project_free", x) = 0 /\ InHand(h, "sim_free", x) = 0
        /\ Count(h.built, x) \in Nat
    BY <1>4
  <2>4. /\ InList(l, "project", x) = 0 /\ InList(l, "model", x) = Count(h.built, x)
        /\ InList(l, "sim", x) = AsNum(h.s = x)
        /\ InList(l, "project_free", x) = 0 /\ InList(l, "sim_free", x) = 0
    BY <1>5
  <2>5. InHand(h, "sim", x) = InList(l, "sim", x) /\ InHand(h, "sim", x) \in Nat
    BY <2>1, <2>3, <2>4
  <2>6. /\ InList(l, "model", x) \in Nat
        /\ InHand(h, "model", x) = InList(l, "model", x) + (IF m = x THEN 1 ELSE 0)
    BY <2>3, <2>4 DEF AsNum
  <2>7. /\ InCalls(todo', "project", x) = InCalls(todo, "project", x)
        /\ InCalls(todo', "project_free", x) = InCalls(todo, "project_free", x)
        /\ InCalls(todo', "sim_free", x) = InCalls(todo, "sim_free", x)
    BY <2>2, <2>3, <2>4 DEF CallsChangeAt, CallsAreNumbersAt
  <2>8. InCalls(todo', "sim", x) = InCalls(todo, "sim", x)
    BY <2>2, <2>5 DEF CallsChangeAt, CallsAreNumbersAt
  <2>9. InCalls(todo', "model", x) + (IF m = x THEN 1 ELSE 0) = InCalls(todo, "model", x)
    BY <2>2, <2>6 DEF CallsChangeAt, CallsAreNumbersAt
  <2> QED BY <2>2, <2>7, <2>8, <2>9 DEF CallsAreNumbersAt
<1>9. /\ leaked' \in [Models -> Nat] /\ leaked'[m] = leaked[m] + 1
      /\ \A n \in Models : n # m => leaked'[n] = leaked[n]
  BY <1>1, <1>2, <1>3 DEF TypeOK
<1>10. TypeOK'
  BY <1>1, <1>2, <1>7, <1>9 DEF TypeOK
<1>11. ModelCount'
  <2>1. ASSUME NEW n \in Models
        PROVE  model[n].refcount = Held(mh, n) + InCalls(todo', "model", n) + KeptModel(sim, n)
                                   + FileKeeps(n) + leaked'[n]
    <3>1. model[n].refcount = Held(mh, n) + InCalls(todo, "model", n) + KeptModel(sim, n)
                              + FileKeeps(n) + leaked[n]
      BY <1>1 DEF ModelCount
    <3>2. /\ Held(mh, n) \in Nat /\ InCalls(todo, "model", n) \in Nat /\ KeptModel(sim, n) \in Nat
          /\ leaked[n] \in Nat
      BY <1>1, Types DEF Whats
    <3>3. FileKeeps(n) \in Nat
      BY DEF FileKeeps
    <3>4. InCalls(todo', "model", n) + (IF m = n THEN 1 ELSE 0) = InCalls(todo, "model", n)
          /\ InCalls(todo', "model", n) \in Nat
      BY <1>8
    <3>5. CASE n = m
      BY <1>9, <3>1, <3>2, <3>3, <3>4, <3>5
    <3>6. CASE n # m
      BY <1>9, <3>1, <3>2, <3>3, <3>4, <3>6
    <3> QED BY <3>5, <3>6
  <2> QED BY <1>2, <2>1 DEF ModelCount, FileKeeps
<1>12. SharedKeepProject' /\ ProjectCount' /\ SimCount' /\ ProjectLife' /\ SimLife' /\ ModelLife' /\ faults' = {}
  BY <1>1, <1>2, <1>8 DEF SharedKeepProject, ProjectCount, SimCount, ProjectLife, SimLife, Stages, ModelLife
<1>13. MakersOK'
  BY <1>2, <1>6, <1>7, MakersKeep
<1> QED BY <1>7, <1>10, <1>11, <1>12, <1>13 DEF IInv

LEMMA InitOkOK ==
  ASSUME IInv, NEW t \in Threads, InitOk(t)
  PROVE  IInv'
<1> DEFINE h == Head(todo[t])
           s == h.s
           l == << >>
<1>1. /\ TypeOK /\ CallsOK /\ MakersOK /\ SharedKeepProject /\ ProjectCount /\ SimCount
      /\ ModelCount /\ ProjectLife /\ SimLife /\ ModelLife /\ faults = {}
  BY DEF IInv
<1>2. /\ todo[t] # << >> /\ h.op = "init" /\ sh' = [sh EXCEPT ![t][s] = 1] /\ Then(t, l)
      /\ UNCHANGED <<have, project, model, sim, ph, mh, faults, leaked>>
  BY DEF InitOk, At, Kept
<1>3. /\ h \in Construction /\ s \in Sims /\ h.built = << >> /\ sim[s].project
      /\ \A u \in Threads : sh[u][s] = 0
  <2>1. h.op \in Constructing
    BY <1>2 DEF Constructing
  <2>2. h \in Construction /\ s \in Sims /\ Unfinished(h, sim[s]) /\ \A u \in Threads : sh[u][s] = 0
    BY <1>2, <2>1, MakerAlone
  <2> QED BY <1>2, <2>2 DEF Construction, Unfinished
<1>4. \A x : /\ InHand(h, "sim", x) = AsNum(s = x) /\ InHand(h, "model", x) = 0
             /\ InHand(h, "project", x) = 0 /\ InHand(h, "project_free", x) = 0
             /\ InHand(h, "sim_free", x) = 0
  BY <1>2, <1>3, ConstructionHands, CountEmpty DEF AsNum
<1> HIDE DEF h, s
<1>5. /\ l \in Seq(Release) /\ l \in Seq(Operation) /\ ListOK(l)
      /\ \A x : /\ InList(l, "project", x) = 0 /\ InList(l, "model", x) = 0
                /\ InList(l, "sim", x) = 0 /\ InList(l, "project_free", x) = 0
                /\ InList(l, "sim_free", x) = 0
  BY NoReleases DEF ListOK
<1>6. l = << >>
  OBVIOUS
<1> HIDE DEF l
<1>7. /\ todo' \in Lists /\ CallsOK' /\ Elsewhere(todo, todo', t) /\ todo'[t] = l
      /\ CallsChange(h, l) /\ CallsAreNumbers
  BY <1>2, <1>3, <1>5, CallStep DEF h
<1>8. ASSUME NEW x
      PROVE  /\ InCalls(todo', "project", x) = InCalls(todo, "project", x)
             /\ InCalls(todo', "model", x) = InCalls(todo, "model", x)
             /\ InCalls(todo', "sim", x) + (IF s = x THEN 1 ELSE 0) = InCalls(todo, "sim", x)
             /\ InCalls(todo', "project_free", x) = InCalls(todo, "project_free", x)
             /\ InCalls(todo', "sim_free", x) = InCalls(todo, "sim_free", x)
             /\ InCalls(todo', "sim", x) \in Nat
  <2>1. CallsChangeAt(h, l, x) /\ CallsAreNumbersAt(x)
    BY <1>7 DEF CallsChange, CallsAreNumbers
  <2>2. /\ InHand(h, "project", x) = 0 /\ InHand(h, "model", x) = 0
        /\ InHand(h, "sim", x) = (IF s = x THEN 1 ELSE 0)
        /\ InHand(h, "project_free", x) = 0 /\ InHand(h, "sim_free", x) = 0
    BY <1>4 DEF AsNum
  <2>3. /\ InList(l, "project", x) = 0 /\ InList(l, "model", x) = 0
        /\ InList(l, "sim", x) = 0
        /\ InList(l, "project_free", x) = 0 /\ InList(l, "sim_free", x) = 0
    BY <1>5
  <2> QED BY <2>1, <2>2, <2>3 DEF CallsChangeAt, CallsAreNumbersAt
<1>9. /\ sh' \in Handles(Sims) /\ sh'[t][s] = 1
      /\ \A u \in Threads, r \in Sims : u # t \/ r # s => sh'[u][r] = sh[u][r]
  <2>1. sh \in Handles(Sims)
    BY <1>1 DEF TypeOK
  <2> QED BY <1>2, <1>3, <2>1 DEF Handles
<1>10. TypeOK'
  BY <1>1, <1>2, <1>7, <1>9 DEF TypeOK
<1>11. /\ Held(sh', s) + sh[t][s] = Held(sh, s) + sh'[t][s]
       /\ \A r \in Sims : r # s => Held(sh', r) = Held(sh, r)
  BY <1>1, <1>3, <1>9, Types, HeldStep
<1>12. SimCount'
  <2>1. ASSUME NEW r \in Sims
        PROVE  sim[r].refcount = Held(sh', r) + InCalls(todo', "sim", r)
    <3>1. sim[r].refcount = Held(sh, r) + InCalls(todo, "sim", r)
      BY <1>1 DEF SimCount
    <3>2. Held(sh, r) \in Nat /\ InCalls(todo, "sim", r) \in Nat
      BY <1>1, Types DEF Whats
    <3>3. Held(sh', r) = IF r = s THEN Held(sh, r) + 1 ELSE Held(sh, r)
      <4>1. Held(sh', s) \in Nat /\ Held(sh, s) \in Nat
        BY <1>1, <1>3, <1>9, HeldType, Types
      <4> QED BY <1>3, <1>9, <1>11, <3>2, <4>1
    <3>4. InCalls(todo', "sim", r) + (IF s = r THEN 1 ELSE 0) = InCalls(todo, "sim", r)
          /\ InCalls(todo', "sim", r) \in Nat
      BY <1>8
    <3>5. CASE r = s
      BY <3>1, <3>2, <3>3, <3>4, <3>5
    <3>6. CASE r # s
      BY <3>1, <3>2, <3>3, <3>4, <3>6
    <3> QED BY <3>5, <3>6
  <2> QED BY <1>2, <2>1 DEF SimCount
<1>13. ProjectCount' /\ ProjectLife' /\ SimLife' /\ ModelLife' /\ ModelCount' /\ faults' = {}
  BY <1>1, <1>2, <1>8 DEF ProjectCount, ProjectLife, SimLife, Stages, ModelLife, ModelCount, FileKeeps
<1>14. SharedKeepProject'
  BY <1>1, <1>2, <1>3, <1>9 DEF SharedKeepProject
<1>15. MakersOK'
  BY <1>2, <1>6, <1>7, MakersKeep
<1> QED BY <1>7, <1>10, <1>12, <1>13, <1>14, <1>15 DEF IInv

LEMMA KeepProjectOK ==
  ASSUME IInv, NEW t \in Threads, KeepProject(t)
  PROVE  IInv'
<1> DEFINE h == Head(todo[t])
           s == h.s
           b == h.built
           o == Op("init", s, 0, << >>)
           l == <<o>>
           y == [refcount |-> 1, freed |-> FALSE, modules |-> b, project |-> TRUE]
<1>1. /\ TypeOK /\ CallsOK /\ MakersOK /\ SharedKeepProject /\ ProjectCount /\ SimCount
      /\ ModelCount /\ ProjectLife /\ SimLife /\ ModelLife /\ faults = {}
  BY DEF IInv
<1>2. /\ todo[t] # << >> /\ h.op = "built" /\ Then(t, l)
      /\ UNCHANGED <<have, model, ph, mh, sh, leaked>>
  BY DEF KeepProject, At, Kept
<1>25. project' = [project EXCEPT !.refcount = @ + 1]
  BY DEF KeepProject
<1>26. sim' = [sim EXCEPT ![s].modules = b, ![s].project = TRUE]
  BY DEF KeepProject
<1>3. /\ h \in Construction /\ s \in Sims /\ b \in Seq(Models) /\ Unfinished(h, sim[s])
      /\ project.refcount > 0 /\ ~ project.freed /\ \A u \in Threads : sh[u][s] = 0
  <2>1. h.op \in Constructing
    BY <1>2 DEF Constructing
  <2>2. /\ h \in Construction /\ s \in Sims /\ b \in Seq(Models) /\ Unfinished(h, sim[s])
        /\ project.refcount > 0 /\ ~ project.freed
    BY <1>2, <2>1, Making
  <2>3. \A u \in Threads : sh[u][s] = 0
    BY <1>2, <2>1, MakerAlone
  <2> QED BY <2>2, <2>3
<1>27. sim[s] = [refcount |-> 1, freed |-> FALSE, modules |-> << >>, project |-> FALSE]
  BY <1>2, <1>3 DEF Unfinished, NoSim
<1>28. /\ sim[s].refcount = 1 /\ sim[s].freed = FALSE /\ sim[s].modules = << >>
       /\ sim[s].project = FALSE
  BY <1>27
<1>4. faults' = {}
  BY <1>1, <1>3 DEF KeepProject, Touch
<1>5. \A x : /\ InHand(h, "project", x) = 0 /\ InHand(h, "model", x) = Count(b, x)
             /\ InHand(h, "sim", x) = (IF s = x THEN 1 ELSE 0)
             /\ InHand(h, "project_free", x) = 0 /\ InHand(h, "sim_free", x) = 0
             /\ Count(b, x) \in Nat
  <2>1. \A x : Count(b, x) \in Nat
    BY <1>3, CountType
  <2> QED BY <1>2, <1>3, <2>1, ConstructionHands DEF AsNum
<1>6. o \in Construction /\ o.op = "init" /\ o.s = s /\ o.built = << >>
  BY <1>3 DEF Op, Construction, Operation, Constructing
<1> HIDE DEF h, s, b, o
<1>7. \A x : /\ InHand(o, "project", x) = 0 /\ InHand(o, "model", x) = 0
             /\ InHand(o, "sim", x) = (IF s = x THEN 1 ELSE 0)
             /\ InHand(o, "project_free", x) = 0 /\ InHand(o, "sim_free", x) = 0
  BY <1>6, ConstructionHands, CountEmpty DEF AsNum
<1>8. l \in Seq(Operation) /\ ListOK(l) /\ l # << >> /\ Head(l) = o
      /\ \A what \in Whats : \A x : InList(l, what, x) = InHand(o, what, x)
  BY <1>6, OneStep
<1> HIDE DEF l
<1>9. h \notin Release
  BY <1>3, ReleaseFacts
<1>10. /\ todo' \in Lists /\ CallsOK' /\ Elsewhere(todo, todo', t) /\ todo'[t] = l
       /\ CallsChange(h, l) /\ CallsAreNumbers
  BY <1>2, <1>3, <1>8, <1>9, CallStep DEF h
<1>11. ASSUME NEW x
       PROVE  /\ InCalls(todo', "project", x) = InCalls(todo, "project", x)
              /\ InCalls(todo', "model", x) + Count(b, x) = InCalls(todo, "model", x)
              /\ InCalls(todo', "sim", x) = InCalls(todo, "sim", x)
              /\ InCalls(todo', "project_free", x) = InCalls(todo, "project_free", x)
              /\ InCalls(todo', "sim_free", x) = InCalls(todo, "sim_free", x)
              /\ InCalls(todo', "model", x) \in Nat
  <2>1. CallsChangeAt(h, l, x) /\ CallsAreNumbersAt(x)
    BY <1>10 DEF CallsChange, CallsAreNumbers
  <2>2. /\ InHand(h, "project", x) = 0 /\ InHand(h, "model", x) = Count(b, x)
        /\ InHand(h, "sim", x) = (IF s = x THEN 1 ELSE 0)
        /\ InHand(h, "project_free", x) = 0 /\ InHand(h, "sim_free", x) = 0
        /\ Count(b, x) \in Nat
    BY <1>5
  <2>3. /\ InList(l, "project", x) = 0 /\ InList(l, "model", x) = 0
        /\ InList(l, "sim", x) = (IF s = x THEN 1 ELSE 0)
        /\ InList(l, "project_free", x) = 0 /\ InList(l, "sim_free", x) = 0
    BY <1>7, <1>8 DEF Whats
  <2> QED BY <2>1, <2>2, <2>3 DEF CallsChangeAt, CallsAreNumbersAt
<1>12. sim' = [sim EXCEPT ![s] = y] /\ sim \in [Sims -> SimRecord] /\ y \in SimRecord
  <2>1. sim \in [Sims -> SimRecord]
    BY <1>1 DEF TypeOK
  <2>2. y \in SimRecord
    BY <1>3 DEF SimRecord
  <2> QED BY <1>3, <1>26, <1>27, <2>1, <2>2
<1>13. y.refcount = 1 /\ y.freed = FALSE /\ y.modules = b /\ y.project = TRUE
  OBVIOUS
<1> HIDE DEF y
<1>14. sim' \in [Sims -> SimRecord] /\ sim'[s] = y /\ \A r \in Sims : r # s => sim'[r] = sim[r]
  BY <1>3, <1>12
<1>15. /\ project' \in Counted /\ project'.refcount = project.refcount + 1
       /\ project'.freed = project.freed /\ project.refcount \in Int
  BY <1>1, <1>25 DEF TypeOK, Counted
<1>16. TypeOK'
  BY <1>1, <1>2, <1>10, <1>14, <1>15 DEF TypeOK
<1>17. /\ KeptProject(sim') = KeptProject(sim) + 1 /\ KeptProject(sim) \in Nat
       /\ \A m \in Models : KeptModel(sim', m) = KeptModel(sim, m) + Count(b, m)
                            /\ KeptModel(sim, m) \in Nat
  <2>1. KeepsProject(sim[s]) = 0 /\ KeepsProject(sim'[s]) = 1
    BY <1>13, <1>14, <1>28 DEF KeepsProject
  <2>2. \A m \in Models : Keeps(sim[s], m) = 0 /\ Keeps(sim'[s], m) = Count(b, m)
    BY <1>13, <1>14, <1>28, CountEmpty DEF Keeps
  <2>3. ASSUME NEW m \in Models
        PROVE  /\ KeptProject(sim') = KeptProject(sim) + 1 /\ KeptProject(sim) \in Nat
               /\ KeptModel(sim', m) = KeptModel(sim, m) + Count(b, m)
               /\ KeptModel(sim, m) \in Nat
    <3>1. /\ KeptProject(sim') + KeepsProject(sim[s]) = KeptProject(sim) + KeepsProject(sim'[s])
          /\ KeptModel(sim', m) + Keeps(sim[s], m) = KeptModel(sim, m) + Keeps(sim'[s], m)
      <4>1. /\ sim \in [Sims -> SimRecord] /\ sim' \in [Sims -> SimRecord] /\ s \in Sims
            /\ \A r \in Sims : r # s => sim'[r] = sim[r]
        BY <1>3, <1>12, <1>14
      <4> QED BY <4>1, KeptStep
    <3>2. /\ KeptProject(sim) \in Nat /\ KeptProject(sim') \in Nat
          /\ KeptModel(sim, m) \in Nat /\ KeptModel(sim', m) \in Nat
      BY <1>12, <1>14, KeptType
    <3>3. Count(b, m) \in Nat
      BY <1>5
    <3> QED BY <2>1, <2>2, <3>1, <3>2, <3>3
  <2>4. Root \in Models
    BY DEF Models
  <2> QED BY <2>3, <2>4
<1>18. ProjectCount' /\ ProjectLife'
  <2>1. SumOf(ph) \in Nat /\ InCalls(todo, "project", Root) \in Nat
    BY <1>1, Types DEF Whats
  <2>2. ProjectCount'
    BY <1>1, <1>2, <1>11, <1>15, <1>17, <2>1 DEF ProjectCount
  <2>3. ProjectLife'
    BY <1>1, <1>3, <1>11, <1>15 DEF ProjectLife, AsNum
  <2> QED BY <2>2, <2>3
<1>19. ModelCount'
  <2>1. ASSUME NEW n \in Models
        PROVE  model[n].refcount = Held(mh, n) + InCalls(todo', "model", n) + KeptModel(sim', n)
                                   + FileKeeps(n) + leaked[n]
    <3>1. model[n].refcount = Held(mh, n) + InCalls(todo, "model", n) + KeptModel(sim, n)
                              + FileKeeps(n) + leaked[n]
      BY <1>1 DEF ModelCount
    <3>2. /\ Held(mh, n) \in Nat /\ InCalls(todo, "model", n) \in Nat /\ KeptModel(sim, n) \in Nat
          /\ leaked[n] \in Nat
      BY <1>1, Types DEF Whats
    <3>3. FileKeeps(n) \in Nat
      BY DEF FileKeeps
    <3>4. InCalls(todo', "model", n) + Count(b, n) = InCalls(todo, "model", n)
          /\ InCalls(todo', "model", n) \in Nat /\ Count(b, n) \in Nat
      BY <1>5, <1>11
    <3>5. KeptModel(sim', n) = KeptModel(sim, n) + Count(b, n)
      BY <1>17
    <3> QED BY <3>1, <3>2, <3>3, <3>4, <3>5
  <2>2. \A n \in Models : FileKeeps(n)' = FileKeeps(n)
    BY <1>2, <1>3, <1>15 DEF FileKeeps
  <2> QED BY <1>2, <2>1, <2>2 DEF ModelCount
<1>20. \A r \in Sims : sim'[r].refcount = sim[r].refcount /\ sim'[r].freed = sim[r].freed
  BY <1>13, <1>14, <1>28
<1>21. SimCount' /\ ModelLife'
  BY <1>1, <1>2, <1>11, <1>20 DEF SimCount, ModelLife
<1>22. SimLife'
  <2>1. ASSUME NEW r \in Sims
        PROVE  Stages(r)' = 1 \/ (Stages(r)' = 0 /\ sim'[r] = NoSim)
    <3>1. Stages(r)' = Stages(r)
      BY <1>11, <1>20 DEF Stages
    <3>2. r = s => Stages(r) # 0
      <4>1. sim[s].refcount # 0
        BY <1>28
      <4>2. sim[s] # NoSim
        BY <4>1 DEF NoSim
      <4> QED BY <1>1, <1>3, <4>2 DEF SimLife
    <3> QED BY <1>1, <1>14, <3>1, <3>2 DEF SimLife
  <2> QED BY <2>1 DEF SimLife
<1>23. SharedKeepProject'
  <2>1. \A r \in Sims : sim[r].project => sim'[r].project
    BY <1>13, <1>14
  <2> QED BY <1>1, <1>2, <2>1 DEF SharedKeepProject
<1>24. MakersOK'
  <2>1. ph[t] > 0
    BY <1>1, <1>2, <1>3, ReleaseFacts DEF MakersOK, h
  <2>2. Unfinished(Head(l), sim'[Head(l).s])
    BY <1>6, <1>8, <1>13, <1>14 DEF Unfinished
  <2>3. ASSUME NEW u \in Threads, u # t, todo[u] # << >>, Head(todo[u]).op \in Constructing
        PROVE  sim'[Head(todo[u]).s] = sim[Head(todo[u]).s]
    <3>1. InHand(h, "sim", s) = 1
      BY <1>5
    <3>2. Head(todo[u]).s # s
      BY <1>2, <1>3, <2>3, <3>1, OtherMakers DEF h
    <3>3. Head(todo[u]).s \in Sims
      BY <2>3, MakerAlone
    <3> QED BY <1>14, <3>2, <3>3
  <2> QED BY <1>2, <1>10, <2>1, <2>2, <2>3, MakersKeep
<1> QED BY <1>4, <1>10, <1>16, <1>18, <1>19, <1>21, <1>22, <1>23, <1>24 DEF IInv

LEMMA ReleaseStep ==
  ASSUME IInv, NEW t \in Threads, todo[t] # << >>, Head(todo[t]).op \in Releases,
         NEW l \in Seq(Release), Then(t, l)
  PROVE  /\ Head(todo[t]) \in Release
         /\ todo' \in Lists /\ CallsOK' /\ Elsewhere(todo, todo', t)
         /\ todo'[t] # << >> => Head(todo'[t]).op \notin Constructing
         /\ CallsChange(Head(todo[t]), l) /\ CallsAreNumbers
<1>1. Head(todo[t]) \in Release
  BY HeadFacts, ReleaseFacts DEF IInv
<1>2. l \in Seq(Operation) /\ ListOK(l)
  BY ReleaseFacts, SeqMonotonic DEF ListOK
<1>3. /\ todo' \in Lists /\ CallsOK' /\ Elsewhere(todo, todo', t) /\ todo'[t] \in Seq(Release)
      /\ CallsChange(Head(todo[t]), l) /\ CallsAreNumbers
  BY <1>1, <1>2, CallStep
<1> QED BY <1>1, <1>3, ReleasesMakeNothing

LEMMA ModelUnrefOK ==
  ASSUME IInv, NEW t \in Threads, ModelUnref(t)
  PROVE  IInv'
<1> DEFINE h == Head(todo[t])
           m == h.m
           l == << >>
<1>1. /\ TypeOK /\ CallsOK /\ MakersOK /\ SharedKeepProject /\ ProjectCount /\ SimCount
      /\ ModelCount /\ ProjectLife /\ SimLife /\ ModelLife /\ faults = {}
  BY DEF IInv
<1>2. /\ todo[t] # << >> /\ h.op = "model_unref" /\ Then(t, l)
      /\ UNCHANGED <<have, project, sim, ph, mh, sh, leaked>>
  BY DEF ModelUnref, At, Kept
<1>3. model' = [model EXCEPT ![m].refcount = @ - 1, ![m].freed = (model[m].refcount = 1)]
  BY DEF ModelUnref
<1>4. l \in Seq(Release) /\ \A x : /\ InList(l, "project", x) = 0 /\ InList(l, "model", x) = 0
                                   /\ InList(l, "sim", x) = 0 /\ InList(l, "project_free", x) = 0
                                   /\ InList(l, "sim_free", x) = 0
  BY NoReleases
<1> HIDE DEF l
<1>5. /\ h \in Release
      /\ todo' \in Lists /\ CallsOK' /\ Elsewhere(todo, todo', t)
      /\ todo'[t] # << >> => Head(todo'[t]).op \notin Constructing
      /\ CallsChange(h, l) /\ CallsAreNumbers
  BY <1>2, <1>4, ReleaseStep DEF Releases
<1>6. m \in Models
  BY <1>2, <1>5 DEF Release
<1>7. \A x : /\ InHand(h, "project", x) = 0 /\ InHand(h, "model", x) = (IF m = x THEN 1 ELSE 0)
             /\ InHand(h, "sim", x) = 0 /\ InHand(h, "project_free", x) = 0
             /\ InHand(h, "sim_free", x) = 0
  BY <1>2, <1>5, ReleaseHands DEF AsNum
<1>8. InHand(h, "model", m) <= InCalls(todo, "model", m)
  BY <1>1, <1>2, HeadFacts DEF Whats
<1> HIDE DEF h, m
<1>9. ASSUME NEW x
      PROVE  /\ InCalls(todo', "project", x) = InCalls(todo, "project", x)
             /\ InCalls(todo', "model", x) + (IF m = x THEN 1 ELSE 0) = InCalls(todo, "model", x)
             /\ InCalls(todo', "sim", x) = InCalls(todo, "sim", x)
             /\ InCalls(todo', "project_free", x) = InCalls(todo, "project_free", x)
             /\ InCalls(todo', "sim_free", x) = InCalls(todo, "sim_free", x)
             /\ InCalls(todo', "model", x) \in Nat
  <2>1. CallsChangeAt(h, l, x) /\ CallsAreNumbersAt(x)
    BY <1>5 DEF CallsChange, CallsAreNumbers
  <2>2. /\ InHand(h, "project", x) = 0 /\ InHand(h, "model", x) = (IF m = x THEN 1 ELSE 0)
        /\ InHand(h, "sim", x) = 0 /\ InHand(h, "project_free", x) = 0
        /\ InHand(h, "sim_free", x) = 0
    BY <1>7
  <2>3. /\ InList(l, "project", x) = 0 /\ InList(l, "model", x) = 0
        /\ InList(l, "sim", x) = 0
        /\ InList(l, "project_free", x) = 0 /\ InList(l, "sim_free", x) = 0
    BY <1>4
  <2> QED BY <2>1, <2>2, <2>3 DEF CallsChangeAt, CallsAreNumbersAt
<1>10. model[m].refcount > 0 /\ model[m].refcount \in Nat /\ ~ model[m].freed
  <2>1. InHand(h, "model", m) = 1
    BY <1>7
  <2>2. /\ Held(mh, m) \in Nat /\ InCalls(todo, "model", m) \in Nat /\ KeptModel(sim, m) \in Nat
    BY <1>1, <1>6, Types DEF Whats
  <2>3. Held(mh, m) + InCalls(todo, "model", m) + KeptModel(sim, m) > 0
    BY <1>8, <2>1, <2>2
  <2> QED BY <1>6, <2>3, ModelAlive
<1>11. faults' = {}
  BY <1>1, <1>10 DEF ModelUnref, Touch, m, h
<1>12. /\ model' \in [Models -> Counted] /\ model'[m].refcount = model[m].refcount - 1
       /\ model'[m].freed <=> model[m].refcount = 1
       /\ \A n \in Models : n # m => model'[n] = model[n]
  <2> DEFINE n == model[m].refcount - 1
             f == (model[m].refcount = 1)
             y == With(model[m], n, f)
  <2>1. model \in [Models -> Counted] /\ model[m] \in Counted
    BY <1>1, <1>6 DEF TypeOK
  <2>2. n \in Int /\ f \in BOOLEAN
    BY <1>10
  <2>3. model' = [model EXCEPT ![m] = y]
    BY <1>3, <1>6, <2>1 DEF With
  <2> HIDE DEF n, f
  <2>4. y \in Counted /\ y.refcount = n /\ y.freed = f
    BY <2>1, <2>2, WithFields
  <2> HIDE DEF y
  <2>5. model' \in [Models -> Counted] /\ model'[m] = y /\ \A i \in Models : i # m => model'[i] = model[i]
    BY <1>6, <2>1, <2>3, <2>4
  <2>6. model'[m].refcount = n /\ model'[m].freed = f
    BY <2>4, <2>5
  <2>7. f <=> model[m].refcount = 1
    BY DEF f
  <2>8. model'[m].freed <=> model[m].refcount = 1
    BY <2>6, <2>7
  <2> QED BY <2>5, <2>6, <2>8 DEF n
<1>13. TypeOK'
  BY <1>1, <1>2, <1>5, <1>12 DEF TypeOK
<1>14. ModelCount'
  <2>1. ASSUME NEW n \in Models
        PROVE  model'[n].refcount = Held(mh, n) + InCalls(todo', "model", n) + KeptModel(sim, n)
                                    + FileKeeps(n) + leaked[n]
    <3>1. model[n].refcount = Held(mh, n) + InCalls(todo, "model", n) + KeptModel(sim, n)
                              + FileKeeps(n) + leaked[n]
      BY <1>1 DEF ModelCount
    <3>2. /\ Held(mh, n) \in Nat /\ InCalls(todo, "model", n) \in Nat /\ KeptModel(sim, n) \in Nat
          /\ leaked[n] \in Nat
      BY <1>1, Types DEF Whats
    <3>3. FileKeeps(n) \in Nat
      BY DEF FileKeeps
    <3>4. InCalls(todo', "model", n) + (IF m = n THEN 1 ELSE 0) = InCalls(todo, "model", n)
          /\ InCalls(todo', "model", n) \in Nat
      BY <1>9
    <3>5. CASE n = m
      BY <1>12, <3>1, <3>2, <3>3, <3>4, <3>5
    <3>6. CASE n # m
      BY <1>12, <3>1, <3>2, <3>3, <3>4, <3>6
    <3> QED BY <3>5, <3>6
  <2> QED BY <1>2, <2>1 DEF ModelCount, FileKeeps
<1>15. ModelLife'
  <2>1. ASSUME NEW n \in Models
        PROVE  /\ model'[n].freed => model'[n].refcount = 0
               /\ n \in have /\ model'[n].refcount = 0 => model'[n].freed
    <3>1. CASE n = m
      <4>1. model'[m].refcount = model[m].refcount - 1 /\ (model'[m].freed <=> model[m].refcount = 1)
        BY <1>12
      <4>2. model'[m].refcount = 0 <=> model[m].refcount = 1
        BY <1>10, <4>1
      <4> QED BY <3>1, <4>1, <4>2
    <3>2. CASE n # m
      <4>1. model'[n] = model[n]
        BY <1>12, <3>2
      <4> QED BY <1>1, <4>1 DEF ModelLife
    <3> QED BY <3>1, <3>2
  <2> QED BY <1>2, <2>1 DEF ModelLife
<1>16. SharedKeepProject' /\ ProjectCount' /\ SimCount' /\ ProjectLife' /\ SimLife'
  BY <1>1, <1>2, <1>9 DEF SharedKeepProject, ProjectCount, SimCount, ProjectLife, SimLife, Stages
<1>17. MakersOK'
  BY <1>2, <1>5, MakersKeep
<1> QED BY <1>5, <1>11, <1>13, <1>14, <1>15, <1>16, <1>17 DEF IInv

LEMMA ProjectFreeOK ==
  ASSUME IInv, NEW t \in Threads, ProjectFree(t)
  PROVE  IInv'
<1> DEFINE h == Head(todo[t])
           l == << >>
<1>1. /\ TypeOK /\ CallsOK /\ MakersOK /\ SharedKeepProject /\ ProjectCount /\ SimCount
      /\ ModelCount /\ ProjectLife /\ SimLife /\ ModelLife /\ faults = {}
  BY DEF IInv
<1>2. /\ todo[t] # << >> /\ h.op = "project_free" /\ Then(t, l)
      /\ UNCHANGED <<have, model, sim, ph, mh, sh, leaked>>
  BY DEF ProjectFree, At, Kept
<1>3. project' = [project EXCEPT !.freed = TRUE]
  BY DEF ProjectFree
<1>4. l \in Seq(Release) /\ \A x : /\ InList(l, "project", x) = 0 /\ InList(l, "model", x) = 0
                                   /\ InList(l, "sim", x) = 0 /\ InList(l, "project_free", x) = 0
                                   /\ InList(l, "sim_free", x) = 0
  BY NoReleases
<1> HIDE DEF l
<1>5. /\ h \in Release
      /\ todo' \in Lists /\ CallsOK' /\ Elsewhere(todo, todo', t)
      /\ todo'[t] # << >> => Head(todo'[t]).op \notin Constructing
      /\ CallsChange(h, l) /\ CallsAreNumbers
  BY <1>2, <1>4, ReleaseStep DEF Releases
<1>7. \A x : /\ InHand(h, "project", x) = 0 /\ InHand(h, "model", x) = 0
             /\ InHand(h, "sim", x) = 0 /\ InHand(h, "project_free", x) = 1
             /\ InHand(h, "sim_free", x) = 0
  BY <1>2, <1>5, ReleaseHands DEF AsNum
<1>8. InHand(h, "project_free", Root) <= InCalls(todo, "project_free", Root)
  BY <1>1, <1>2, HeadFacts DEF Whats
<1> HIDE DEF h
<1>9. ASSUME NEW x
      PROVE  /\ InCalls(todo', "project", x) = InCalls(todo, "project", x)
             /\ InCalls(todo', "model", x) = InCalls(todo, "model", x)
             /\ InCalls(todo', "sim", x) = InCalls(todo, "sim", x)
             /\ InCalls(todo', "project_free", x) + 1 = InCalls(todo, "project_free", x)
             /\ InCalls(todo', "sim_free", x) = InCalls(todo, "sim_free", x)
             /\ InCalls(todo', "project_free", x) \in Nat
  <2>1. CallsChangeAt(h, l, x) /\ CallsAreNumbersAt(x)
    BY <1>5 DEF CallsChange, CallsAreNumbers
  <2>2. /\ InHand(h, "project", x) = 0 /\ InHand(h, "model", x) = 0
        /\ InHand(h, "sim", x) = 0 /\ InHand(h, "project_free", x) = 1
        /\ InHand(h, "sim_free", x) = 0
    BY <1>7
  <2>3. /\ InList(l, "project", x) = 0 /\ InList(l, "model", x) = 0
        /\ InList(l, "sim", x) = 0
        /\ InList(l, "project_free", x) = 0 /\ InList(l, "sim_free", x) = 0
    BY <1>4
  <2> QED BY <2>1, <2>2, <2>3 DEF CallsChangeAt, CallsAreNumbersAt
<1>10. /\ InCalls(todo, "project_free", Root) = 1 /\ project.refcount = 0 /\ ~ project.freed
  <2>1. InCalls(todo, "project_free", Root) \in Nat
    BY <1>1, Types DEF Whats
  <2>2. InCalls(todo, "project_free", Root) > 0
    BY <1>7, <1>8, <2>1
  <2> QED BY <2>2, ProjectAlive
<1>11. faults' = {}
  BY <1>1, <1>10 DEF ProjectFree, Touch
<1>12. project' \in Counted /\ project'.refcount = project.refcount /\ project'.freed = TRUE
  BY <1>1, <1>3 DEF TypeOK, Counted
<1>13. TypeOK'
  BY <1>1, <1>2, <1>5, <1>12 DEF TypeOK
<1>14. ProjectCount' /\ SharedKeepProject' /\ SimCount' /\ SimLife' /\ ModelLife'
  BY <1>1, <1>2, <1>9, <1>12 DEF ProjectCount, SharedKeepProject, SimCount, SimLife, Stages, ModelLife
<1>15. ModelCount'
  BY <1>1, <1>2, <1>9, <1>12 DEF ModelCount, FileKeeps
<1>16. ProjectLife'
  <2>1. InCalls(todo', "project_free", Root) = 0
    BY <1>9, <1>10
  <2> QED BY <1>10, <1>12, <2>1 DEF ProjectLife, AsNum
<1>17. MakersOK'
  BY <1>2, <1>5, MakersKeep
<1> QED BY <1>5, <1>11, <1>13, <1>14, <1>15, <1>16, <1>17 DEF IInv

\* what sd_project_unref still has to do
AfterProjectUnref == IF project.refcount > 1 THEN << >> ELSE FileFreeList(have)

LEMMA ProjectUnrefOK ==
  ASSUME IInv, NEW t \in Threads, ProjectUnref(t)
  PROVE  IInv'
<1> DEFINE h == Head(todo[t])
           l == AfterProjectUnref
<1>1. /\ TypeOK /\ CallsOK /\ MakersOK /\ SharedKeepProject /\ ProjectCount /\ SimCount
      /\ ModelCount /\ ProjectLife /\ SimLife /\ ModelLife /\ faults = {}
  BY DEF IInv
<1>2. /\ todo[t] # << >> /\ h.op = "project_unref" /\ Then(t, l)
      /\ UNCHANGED <<have, model, sim, ph, mh, sh, leaked>>
  BY DEF ProjectUnref, At, Kept, AfterProjectUnref, FileFreeList, Both
<1>3. project' = [project EXCEPT !.refcount = @ - 1]
  BY DEF ProjectUnref
<1>4. l \in Seq(Release) /\ \A x : /\ InList(l, "project", x) = 0 /\ InList(l, "sim", x) = 0
                                   /\ InList(l, "project_free", x) = (IF project.refcount > 1 THEN 0 ELSE 1)
                                   /\ InList(l, "sim_free", x) = 0
      /\ \A n \in Models :
           InList(l, "model", n) = IF project.refcount > 1 \/ n \notin have THEN 0 ELSE 1
  <2>1. CASE project.refcount > 1
    BY <2>1, NoReleases DEF AfterProjectUnref
  <2>2. CASE ~ (project.refcount > 1)
    <3>1. have \in SUBSET Models
      BY <1>1 DEF TypeOK
    <3>2. l = FileFreeList(have)
      BY <2>2 DEF AfterProjectUnref
    <3> QED BY <2>2, <3>1, <3>2, FileFreeReleases
  <2> QED BY <2>1, <2>2
<1> HIDE DEF l
<1>5. /\ h \in Release
      /\ todo' \in Lists /\ CallsOK' /\ Elsewhere(todo, todo', t)
      /\ todo'[t] # << >> => Head(todo'[t]).op \notin Constructing
      /\ CallsChange(h, l) /\ CallsAreNumbers
  BY <1>2, <1>4, ReleaseStep DEF Releases
<1>7. \A x : /\ InHand(h, "project", x) = 1 /\ InHand(h, "model", x) = 0
             /\ InHand(h, "sim", x) = 0 /\ InHand(h, "project_free", x) = 0
             /\ InHand(h, "sim_free", x) = 0
  BY <1>2, <1>5, ReleaseHands DEF AsNum
<1>8. InHand(h, "project", Root) <= InCalls(todo, "project", Root)
  BY <1>1, <1>2, HeadFacts DEF Whats
<1> HIDE DEF h
<1>9. ASSUME NEW x
      PROVE  /\ InCalls(todo', "project", x) + 1 = InCalls(todo, "project", x)
             /\ InCalls(todo', "model", x) = InCalls(todo, "model", x) + InList(l, "model", x)
             /\ InCalls(todo', "sim", x) = InCalls(todo, "sim", x)
             /\ InCalls(todo', "project_free", x)
                  = InCalls(todo, "project_free", x) + (IF project.refcount > 1 THEN 0 ELSE 1)
             /\ InCalls(todo', "sim_free", x) = InCalls(todo, "sim_free", x)
             /\ InCalls(todo', "project", x) \in Nat
  <2>1. CallsChangeAt(h, l, x) /\ CallsAreNumbersAt(x)
    BY <1>5 DEF CallsChange, CallsAreNumbers
  <2>2. /\ InHand(h, "project", x) = 1 /\ InHand(h, "model", x) = 0
        /\ InHand(h, "sim", x) = 0 /\ InHand(h, "project_free", x) = 0
        /\ InHand(h, "sim_free", x) = 0
    BY <1>7
  <2>3. /\ InList(l, "project", x) = 0
        /\ InList(l, "sim", x) = 0
        /\ InList(l, "project_free", x) = (IF project.refcount > 1 THEN 0 ELSE 1)
        /\ InList(l, "sim_free", x) = 0
    BY <1>4
  <2>4. InCalls(todo', "model", x) = InCalls(todo, "model", x) + InList(l, "model", x)
    BY <2>1, <2>2 DEF CallsChangeAt, CallsAreNumbersAt
  <2> QED BY <2>1, <2>2, <2>3, <2>4 DEF CallsChangeAt, CallsAreNumbersAt
<1>10. /\ project.refcount > 0 /\ project.refcount \in Nat /\ ~ project.freed
       /\ InCalls(todo, "project_free", Root) = 0
  <2>1. /\ SumOf(ph) \in Nat /\ InCalls(todo, "project", Root) \in Nat /\ KeptProject(sim) \in Nat
        /\ InCalls(todo, "project_free", Root) \in Nat
    BY <1>1, Types DEF Whats
  <2>2. SumOf(ph) + InCalls(todo, "project", Root) + KeptProject(sim) > 0
    BY <1>7, <1>8, <2>1
  <2> QED BY <2>2, ProjectAlive
<1>11. faults' = {}
  BY <1>1, <1>10 DEF ProjectUnref, Touch
<1>12. project' \in Counted /\ project'.refcount = project.refcount - 1 /\ project'.freed = project.freed
  BY <1>1, <1>3 DEF TypeOK, Counted
<1>13. TypeOK'
  BY <1>1, <1>2, <1>5, <1>12 DEF TypeOK
<1>14. SharedKeepProject' /\ SimCount' /\ SimLife' /\ ModelLife'
  BY <1>1, <1>2, <1>9 DEF SharedKeepProject, SimCount, SimLife, Stages, ModelLife
<1>15. ProjectCount'
  <2>1. SumOf(ph) \in Nat /\ KeptProject(sim) \in Nat
    BY <1>1, Types
  <2>2. project.refcount = SumOf(ph) + InCalls(todo, "project", Root) + KeptProject(sim)
    BY <1>1 DEF ProjectCount
  <2>3. InCalls(todo', "project", Root) + 1 = InCalls(todo, "project", Root)
        /\ InCalls(todo', "project", Root) \in Nat
    BY <1>9
  <2>4. project'.refcount = SumOf(ph) + InCalls(todo', "project", Root) + KeptProject(sim)
    BY <1>12, <2>1, <2>2, <2>3
  <2> QED BY <1>2, <2>4 DEF ProjectCount
<1>16. ModelCount'
  <2>1. ASSUME NEW n \in Models
        PROVE  model[n].refcount = Held(mh, n) + InCalls(todo', "model", n) + KeptModel(sim, n)
                                   + FileKeeps(n)' + leaked[n]
    <3>1. model[n].refcount = Held(mh, n) + InCalls(todo, "model", n) + KeptModel(sim, n)
                              + FileKeeps(n) + leaked[n]
      BY <1>1 DEF ModelCount
    <3>2. /\ Held(mh, n) \in Nat /\ InCalls(todo, "model", n) \in Nat /\ KeptModel(sim, n) \in Nat
          /\ leaked[n] \in Nat
      BY <1>1, Types DEF Whats
    <3>3. InList(l, "model", n) = IF project.refcount > 1 \/ n \notin have THEN 0 ELSE 1
      BY <1>4
    <3>4. FileKeeps(n) = FileKeeps(n)' + InList(l, "model", n)
      BY <1>2, <1>10, <1>12, <3>3 DEF FileKeeps
    <3>5. FileKeeps(n) \in Nat /\ FileKeeps(n)' \in Nat /\ InList(l, "model", n) \in Nat
      BY <3>3 DEF FileKeeps
    <3>6. InCalls(todo', "model", n) = InCalls(todo, "model", n) + InList(l, "model", n)
      BY <1>9
    <3> QED BY <3>1, <3>2, <3>4, <3>5, <3>6
  <2> QED BY <1>2, <2>1 DEF ModelCount
<1>17. ProjectLife'
  <2>1. InCalls(todo', "project_free", Root) = IF project.refcount > 1 THEN 0 ELSE 1
    BY <1>9, <1>10
  <2> QED BY <1>10, <1>12, <2>1 DEF ProjectLife, AsNum
<1>18. MakersOK'
  BY <1>2, <1>5, MakersKeep
<1> QED BY <1>5, <1>11, <1>13, <1>14, <1>15, <1>16, <1>17, <1>18 DEF IInv

\* what is left of a simulation
FreedSim == [NoSim EXCEPT !.freed = TRUE]

LEMMA FreedSimType ==
  /\ FreedSim \in SimRecord /\ FreedSim.refcount = 0 /\ FreedSim.freed = TRUE
  /\ FreedSim.modules = << >> /\ FreedSim.project = FALSE
<1>1. /\ NoSim \in SimRecord /\ NoSim.refcount = 0 /\ NoSim.modules = << >>
      /\ NoSim.project = FALSE
  BY NoSimType DEF NoSim
<1>2. \A x \in SimRecord :
        /\ [x EXCEPT !.freed = TRUE] \in SimRecord
        /\ [x EXCEPT !.freed = TRUE].refcount = x.refcount
        /\ [x EXCEPT !.freed = TRUE].freed = TRUE
        /\ [x EXCEPT !.freed = TRUE].modules = x.modules
        /\ [x EXCEPT !.freed = TRUE].project = x.project
  BY DEF SimRecord
<1> QED BY <1>1, <1>2 DEF FreedSim

LEMMA SimFreeOK ==
  ASSUME IInv, NEW t \in Threads, SimFree(t)
  PROVE  IInv'
<1> DEFINE h == Head(todo[t])
           s == h.s
           l == << >>
<1>1. /\ TypeOK /\ CallsOK /\ MakersOK /\ SharedKeepProject /\ ProjectCount /\ SimCount
      /\ ModelCount /\ ProjectLife /\ SimLife /\ ModelLife /\ faults = {}
  BY DEF IInv
<1>2. /\ todo[t] # << >> /\ h.op = "sim_free" /\ Then(t, l)
      /\ UNCHANGED <<have, project, model, ph, mh, sh, leaked>>
  BY DEF SimFree, At, Kept
<1>3. sim' = [sim EXCEPT ![s] = FreedSim]
  BY DEF SimFree, FreedSim
<1>4. l \in Seq(Release) /\ \A x : /\ InList(l, "project", x) = 0 /\ InList(l, "model", x) = 0
                                   /\ InList(l, "sim", x) = 0 /\ InList(l, "project_free", x) = 0
                                   /\ InList(l, "sim_free", x) = 0
  BY NoReleases
<1> HIDE DEF l
<1>5. /\ h \in Release
      /\ todo' \in Lists /\ CallsOK' /\ Elsewhere(todo, todo', t)
      /\ todo'[t] # << >> => Head(todo'[t]).op \notin Constructing
      /\ CallsChange(h, l) /\ CallsAreNumbers
  BY <1>2, <1>4, ReleaseStep DEF Releases
<1>6. s \in Sims
  BY <1>2, <1>5 DEF Release
<1>7. \A x : /\ InHand(h, "project", x) = 0 /\ InHand(h, "model", x) = 0
             /\ InHand(h, "sim", x) = 0 /\ InHand(h, "project_free", x) = 0
             /\ InHand(h, "sim_free", x) = (IF s = x THEN 1 ELSE 0)
  BY <1>2, <1>5, ReleaseHands DEF AsNum
<1>8. InHand(h, "sim_free", s) <= InCalls(todo, "sim_free", s)
  BY <1>1, <1>2, HeadFacts DEF Whats
<1> HIDE DEF h, s
<1>9. ASSUME NEW x
      PROVE  /\ InCalls(todo', "project", x) = InCalls(todo, "project", x)
             /\ InCalls(todo', "model", x) = InCalls(todo, "model", x)
             /\ InCalls(todo', "sim", x) = InCalls(todo, "sim", x)
             /\ InCalls(todo', "project_free", x) = InCalls(todo, "project_free", x)
             /\ InCalls(todo', "sim_free", x) + (IF s = x THEN 1 ELSE 0) = InCalls(todo, "sim_free", x)
             /\ InCalls(todo', "sim_free", x) \in Nat
  <2>1. CallsChangeAt(h, l, x) /\ CallsAreNumbersAt(x)
    BY <1>5 DEF CallsChange, CallsAreNumbers
  <2>2. /\ InHand(h, "project", x) = 0 /\ InHand(h, "model", x) = 0
        /\ InHand(h, "sim", x) = 0 /\ InHand(h, "project_free", x) = 0
        /\ InHand(h, "sim_free", x) = (IF s = x THEN 1 ELSE 0)
    BY <1>7
  <2>3. /\ InList(l, "project", x) = 0 /\ InList(l, "model", x) = 0
        /\ InList(l, "sim", x) = 0
        /\ InList(l, "project_free", x) = 0 /\ InList(l, "sim_free", x) = 0
    BY <1>4
  <2> QED BY <2>1, <2>2, <2>3 DEF CallsChangeAt, CallsAreNumbersAt
<1>10. /\ InCalls(todo, "sim_free", s) = 1 /\ sim[s].refcount = 0 /\ ~ sim[s].freed
  <2>1. InHand(h, "sim_free", s) = 1
    BY <1>7
  <2>2. InCalls(todo, "sim_free", s) \in Nat
    BY <1>1, Types DEF Whats
  <2>3. InCalls(todo, "sim_free", s) > 0
    BY <1>8, <2>1, <2>2
  <2> QED BY <1>6, <2>3, SimAlive
<1>11. faults' = {}
  BY <1>1, <1>10 DEF SimFree, Touch, s, h
<1>12. /\ sim' \in [Sims -> SimRecord] /\ sim'[s] = FreedSim
       /\ \A r \in Sims : r # s => sim'[r] = sim[r]
  <2>1. sim \in [Sims -> SimRecord] /\ FreedSim \in SimRecord
    BY <1>1, FreedSimType DEF TypeOK
  <2> QED BY <1>3, <1>6, <2>1
<1>13. TypeOK'
  BY <1>1, <1>2, <1>5, <1>12 DEF TypeOK
<1>14. sim'[s].refcount = 0 /\ sim'[s].freed
  BY <1>12, FreedSimType
<1>15. KeptProject(sim') = KeptProject(sim) /\ \A m \in Models : KeptModel(sim', m) = KeptModel(sim, m)
  <2>1. KeepsProject(sim'[s]) = KeepsProject(sim[s])
    BY <1>10, <1>14 DEF KeepsProject
  <2>2. \A m \in Models : Keeps(sim'[s], m) = Keeps(sim[s], m)
    BY <1>10, <1>14 DEF Keeps
  <2> QED BY <1>1, <1>6, <1>12, <1>13, <2>1, <2>2, KeptSame
<1>16. ProjectCount' /\ ProjectLife' /\ ModelLife' /\ ModelCount'
  BY <1>1, <1>2, <1>9, <1>15 DEF ProjectCount, ProjectLife, ModelLife, ModelCount, FileKeeps
<1>17. SimCount'
  <2>1. \A r \in Sims : sim'[r].refcount = sim[r].refcount
    BY <1>10, <1>12, <1>14
  <2> QED BY <1>1, <1>2, <1>9, <2>1 DEF SimCount
<1>18. SimLife'
  <2>1. ASSUME NEW r \in Sims
        PROVE  Stages(r)' = 1 \/ (Stages(r)' = 0 /\ sim'[r] = NoSim)
    <3>1. CASE r = s
      <4>1. InCalls(todo', "sim_free", s) = 0
        <5>1. InCalls(todo', "sim_free", s) + (IF s = s THEN 1 ELSE 0) = InCalls(todo, "sim_free", s)
              /\ InCalls(todo', "sim_free", s) \in Nat
          BY <1>9
        <5> QED BY <1>10, <5>1
      <4> QED BY <1>14, <3>1, <4>1 DEF Stages, AsNum
    <3>2. CASE r # s
      <4>1. InCalls(todo', "sim_free", r) = InCalls(todo, "sim_free", r)
        <5>1. InCalls(todo', "sim_free", r) + (IF s = r THEN 1 ELSE 0) = InCalls(todo, "sim_free", r)
              /\ InCalls(todo', "sim_free", r) \in Nat
          BY <1>9
        <5> QED BY <3>2, <5>1
      <4>2. sim'[r] = sim[r]
        BY <1>12, <3>2
      <4>3. Stages(r)' = Stages(r)
        BY <4>1, <4>2 DEF Stages
      <4> QED BY <1>1, <4>2, <4>3 DEF SimLife
    <3> QED BY <3>1, <3>2
  <2> QED BY <2>1 DEF SimLife
<1>19. SharedKeepProject'
  <2>1. \A u \in Threads : sh[u][s] = 0
    <3>1. sim[s].refcount = Held(sh, s) + InCalls(todo, "sim", s)
      BY <1>1, <1>6 DEF SimCount
    <3>2. Held(sh, s) \in Nat /\ InCalls(todo, "sim", s) \in Nat /\ sh \in Handles(Sims)
      BY <1>1, <1>6, Types DEF Whats
    <3>3. Held(sh, s) = 0
      BY <1>10, <3>1, <3>2
    <3> QED BY <1>6, <3>2, <3>3, HeldType
  <2> QED BY <1>1, <1>2, <1>12, <2>1 DEF SharedKeepProject
<1>20. MakersOK'
  <2>1. ASSUME NEW u \in Threads, u # t, todo[u] # << >>, Head(todo[u]).op \in Constructing
        PROVE  sim'[Head(todo[u]).s] = sim[Head(todo[u]).s]
    <3>1. InHand(h, "sim_free", s) = 1
      BY <1>7
    <3>2. Head(todo[u]).s # s
      BY <1>2, <1>6, <2>1, <3>1, OtherMakers DEF h
    <3>3. Head(todo[u]).s \in Sims
      BY <2>1, MakerAlone
    <3> QED BY <1>12, <3>2, <3>3
  <2> QED BY <1>2, <1>5, <2>1, MakersKeep
<1> QED BY <1>5, <1>11, <1>13, <1>16, <1>17, <1>18, <1>19, <1>20 DEF IInv

\* what sd_sim_unref still has to do
AfterSimUnref(s) ==
  IF sim[s].refcount = 1 THEN SimFreeList(sim[s].modules, sim[s].project, s) ELSE << >>

LEMMA SimUnrefOK ==
  ASSUME IInv, NEW t \in Threads, SimUnref(t)
  PROVE  IInv'
<1> DEFINE h == Head(todo[t])
           s == h.s
           l == AfterSimUnref(s)
           b == sim[s].modules
           p == sim[s].project
           last == sim[s].refcount = 1
<1>1. /\ TypeOK /\ CallsOK /\ MakersOK /\ SharedKeepProject /\ ProjectCount /\ SimCount
      /\ ModelCount /\ ProjectLife /\ SimLife /\ ModelLife /\ faults = {}
  BY DEF IInv
<1>2. /\ todo[t] # << >> /\ h.op = "sim_unref"
      /\ UNCHANGED <<have, project, model, ph, mh, sh, leaked>>
  BY DEF SimUnref, At, Kept
<1>3. sim' = [sim EXCEPT ![s].refcount = @ - 1]
  BY DEF SimUnref
<1>4. h \in Release /\ s \in Sims
  <2>1. h \in Release
    BY <1>1, <1>2, HeadFacts, ReleaseFacts DEF Constructing
  <2> QED BY <1>2, <2>1 DEF Release
<1>5. /\ sim \in [Sims -> SimRecord] /\ sim[s] \in SimRecord /\ b \in Seq(Models) /\ p \in BOOLEAN
      /\ \A x : Count(b, x) \in Nat
  <2>1. sim \in [Sims -> SimRecord] /\ sim[s] \in SimRecord
    BY <1>1, <1>4 DEF TypeOK
  <2>2. b \in Seq(Models) /\ p \in BOOLEAN
    BY <2>1 DEF SimRecord
  <2> QED BY <2>1, <2>2, CountType
<1>6. Then(t, l)
  BY DEF SimUnref, AfterSimUnref, SimFreeList, KeptProjectList, Both
<1>7. /\ l \in Seq(Release)
      /\ \A x : /\ InList(l, "project", x) = (IF last /\ p THEN 1 ELSE 0)
                /\ InList(l, "model", x) = (IF last THEN Count(b, x) ELSE 0)
                /\ InList(l, "sim", x) = 0 /\ InList(l, "project_free", x) = 0
                /\ InList(l, "sim_free", x) = (IF last /\ s = x THEN 1 ELSE 0)
  <2>1. CASE last
    <3>1. l = SimFreeList(b, p, s)
      BY <2>1 DEF AfterSimUnref
    <3> HIDE DEF l, b, p, s
    <3>2. /\ l \in Seq(Release)
          /\ \A x : /\ InList(l, "project", x) = AsNum(p)
                    /\ InList(l, "model", x) = Count(b, x)
                    /\ InList(l, "sim", x) = 0 /\ InList(l, "project_free", x) = 0
                    /\ InList(l, "sim_free", x) = AsNum(s = x)
      BY <1>4, <1>5, <3>1, SimFreeReleases
    <3> QED BY <2>1, <3>2 DEF AsNum
  <2>2. CASE ~ last
    <3>1. l = << >>
      BY <2>2 DEF AfterSimUnref
    <3> HIDE DEF l, b, p, s
    <3> QED BY <2>2, <3>1, NoReleases
  <2> QED BY <2>1, <2>2
<1>8. InHand(h, "sim", s) <= InCalls(todo, "sim", s)
  BY <1>1, <1>2, HeadFacts DEF Whats
<1> HIDE DEF l
<1>9. /\ todo' \in Lists /\ CallsOK' /\ Elsewhere(todo, todo', t)
      /\ todo'[t] # << >> => Head(todo'[t]).op \notin Constructing
      /\ CallsChange(h, l) /\ CallsAreNumbers
  BY <1>2, <1>6, <1>7, ReleaseStep DEF Releases
<1>10. \A x : /\ InHand(h, "project", x) = 0 /\ InHand(h, "model", x) = 0
              /\ InHand(h, "sim", x) = (IF s = x THEN 1 ELSE 0) /\ InHand(h, "project_free", x) = 0
              /\ InHand(h, "sim_free", x) = 0
  BY <1>2, <1>4, ReleaseHands DEF AsNum
<1> HIDE DEF h, s, b, p, last
<1>11. ASSUME NEW x
       PROVE  /\ InCalls(todo', "project", x)
                   = InCalls(todo, "project", x) + (IF last /\ p THEN 1 ELSE 0)
              /\ InCalls(todo', "model", x)
                   = InCalls(todo, "model", x) + (IF last THEN Count(b, x) ELSE 0)
              /\ InCalls(todo', "sim", x) + (IF s = x THEN 1 ELSE 0) = InCalls(todo, "sim", x)
              /\ InCalls(todo', "project_free", x) = InCalls(todo, "project_free", x)
              /\ InCalls(todo', "sim_free", x)
                   = InCalls(todo, "sim_free", x) + (IF last /\ s = x THEN 1 ELSE 0)
              /\ InCalls(todo', "sim", x) \in Nat
  <2>1. CallsChangeAt(h, l, x) /\ CallsAreNumbersAt(x)
    BY <1>9 DEF CallsChange, CallsAreNumbers
  <2>2. /\ InHand(h, "project", x) = 0 /\ InHand(h, "model", x) = 0
        /\ InHand(h, "sim", x) = (IF s = x THEN 1 ELSE 0) /\ InHand(h, "project_free", x) = 0
        /\ InHand(h, "sim_free", x) = 0
    BY <1>10
  <2>3. /\ InList(l, "project", x) = (IF last /\ p THEN 1 ELSE 0)
        /\ InList(l, "model", x) = (IF last THEN Count(b, x) ELSE 0)
        /\ InList(l, "sim", x) = 0 /\ InList(l, "project_free", x) = 0
        /\ InList(l, "sim_free", x) = (IF last /\ s = x THEN 1 ELSE 0)
        /\ Count(b, x) \in Nat
    BY <1>5, <1>7
  <2> QED BY <2>1, <2>2, <2>3 DEF CallsChangeAt, CallsAreNumbersAt
<1>12. /\ InCalls(todo, "sim_free", s) = 0 /\ sim[s].refcount > 0 /\ sim[s].refcount \in Nat
       /\ ~ sim[s].freed
  <2>1. InHand(h, "sim", s) = 1
    BY <1>10
  <2>2. InCalls(todo, "sim", s) \in Nat /\ Held(sh, s) \in Nat
    BY <1>1, <1>4, Types DEF Whats
  <2>3. Held(sh, s) + InCalls(todo, "sim", s) > 0
    BY <1>8, <2>1, <2>2
  <2> QED BY <1>4, <2>3, SimAlive
<1>13. faults' = {}
  BY <1>1, <1>12 DEF SimUnref, Touch, s, h
<1>14. /\ sim' \in [Sims -> SimRecord] /\ sim'[s].refcount = sim[s].refcount - 1
       /\ sim'[s].freed = sim[s].freed /\ sim'[s].project = p /\ sim'[s].modules = b
       /\ \A r \in Sims : r # s => sim'[r] = sim[r]
  <2>1. sim[s].refcount - 1 \in Int
    BY <1>12
  <2> DEFINE y == [sim[s] EXCEPT !.refcount = sim[s].refcount - 1]
  <2>2. sim' = [sim EXCEPT ![s] = y]
    BY <1>3, <1>4, <1>5
  <2>3. /\ y \in SimRecord /\ y.refcount = sim[s].refcount - 1
        /\ y.freed = sim[s].freed /\ y.project = p /\ y.modules = b
    BY <1>5, <2>1, RefcountStep DEF p, b
  <2> HIDE DEF y
  <2> QED BY <1>4, <1>5, <2>2, <2>3
<1>15. TypeOK'
  BY <1>1, <1>2, <1>9, <1>14 DEF TypeOK
<1>16. /\ KeptProject(sim') + (IF last /\ p THEN 1 ELSE 0) = KeptProject(sim)
       /\ \A m \in Models : KeptModel(sim', m) + (IF last THEN Count(b, m) ELSE 0) = KeptModel(sim, m)
  <2>1. KeepsProject(sim[s]) = (IF p THEN 1 ELSE 0) /\ KeepsProject(sim'[s]) = (IF p /\ ~ last THEN 1 ELSE 0)
    BY <1>12, <1>14 DEF KeepsProject, last, p
  <2>2. \A m \in Models : Keeps(sim[s], m) = Count(b, m) /\ Keeps(sim'[s], m) = IF last THEN 0 ELSE Count(b, m)
    BY <1>12, <1>14 DEF Keeps, last, b
  <2>3. ASSUME NEW m \in Models
        PROVE  /\ KeptProject(sim') + (IF last /\ p THEN 1 ELSE 0) = KeptProject(sim)
               /\ KeptModel(sim', m) + (IF last THEN Count(b, m) ELSE 0) = KeptModel(sim, m)
    <3>1. /\ KeptProject(sim') + KeepsProject(sim[s]) = KeptProject(sim) + KeepsProject(sim'[s])
          /\ KeptModel(sim', m) + Keeps(sim[s], m) = KeptModel(sim, m) + Keeps(sim'[s], m)
      <4>1. /\ sim \in [Sims -> SimRecord] /\ sim' \in [Sims -> SimRecord] /\ s \in Sims
            /\ \A r \in Sims : r # s => sim'[r] = sim[r]
        BY <1>4, <1>5, <1>14
      <4> QED BY <4>1, KeptStep
    <3>2. /\ KeptProject(sim) \in Nat /\ KeptProject(sim') \in Nat
          /\ KeptModel(sim, m) \in Nat /\ KeptModel(sim', m) \in Nat
      BY <1>5, <1>14, KeptType
    <3>3. Count(b, m) \in Nat
      BY <1>5
    <3>4. CASE last
      BY <2>1, <2>2, <3>1, <3>2, <3>3, <3>4
    <3>5. CASE ~ last
      BY <2>1, <2>2, <3>1, <3>2, <3>3, <3>5
    <3> QED BY <3>4, <3>5
  <2>4. Root \in Models
    BY DEF Models
  <2> QED BY <2>3, <2>4
<1>17. ProjectCount'
  <2>1. /\ SumOf(ph) \in Nat /\ InCalls(todo, "project", Root) \in Nat
        /\ KeptProject(sim) \in Nat /\ KeptProject(sim') \in Nat
    BY <1>1, <1>14, Types, KeptType DEF Whats
  <2>2. InCalls(todo', "project", Root) = InCalls(todo, "project", Root) + (IF last /\ p THEN 1 ELSE 0)
    BY <1>11
  <2>3. KeptProject(sim') + (IF last /\ p THEN 1 ELSE 0) = KeptProject(sim)
    BY <1>16
  <2>4. project.refcount = SumOf(ph) + InCalls(todo, "project", Root) + KeptProject(sim)
    BY <1>1 DEF ProjectCount
  <2>5. project.refcount = SumOf(ph) + InCalls(todo', "project", Root) + KeptProject(sim')
    BY <2>1, <2>2, <2>3, <2>4
  <2> QED BY <1>2, <2>5 DEF ProjectCount
<1>18. ModelCount'
  <2>1. ASSUME NEW n \in Models
        PROVE  model[n].refcount = Held(mh, n) + InCalls(todo', "model", n) + KeptModel(sim', n)
                                   + FileKeeps(n) + leaked[n]
    <3>1. model[n].refcount = Held(mh, n) + InCalls(todo, "model", n) + KeptModel(sim, n)
                              + FileKeeps(n) + leaked[n]
      BY <1>1 DEF ModelCount
    <3>2. /\ Held(mh, n) \in Nat /\ InCalls(todo, "model", n) \in Nat /\ KeptModel(sim, n) \in Nat
          /\ leaked[n] \in Nat /\ KeptModel(sim', n) \in Nat
      BY <1>1, <1>14, Types, KeptType DEF Whats
    <3>3. FileKeeps(n) \in Nat
      BY DEF FileKeeps
    <3>4. InCalls(todo', "model", n) = InCalls(todo, "model", n) + (IF last THEN Count(b, n) ELSE 0)
      BY <1>11
    <3>5. KeptModel(sim', n) + (IF last THEN Count(b, n) ELSE 0) = KeptModel(sim, n)
      BY <1>16
    <3>6. Count(b, n) \in Nat
      BY <1>5
    <3> QED BY <3>1, <3>2, <3>3, <3>4, <3>5, <3>6
  <2> QED BY <1>2, <2>1 DEF ModelCount, FileKeeps
<1>19. ProjectLife' /\ ModelLife'
  BY <1>1, <1>2, <1>11 DEF ProjectLife, ModelLife
<1>20. SimCount'
  <2>1. ASSUME NEW r \in Sims
        PROVE  sim'[r].refcount = Held(sh, r) + InCalls(todo', "sim", r)
    <3>1. sim[r].refcount = Held(sh, r) + InCalls(todo, "sim", r)
      BY <1>1 DEF SimCount
    <3>2. Held(sh, r) \in Nat /\ InCalls(todo, "sim", r) \in Nat
      BY <1>1, Types DEF Whats
    <3>3. InCalls(todo', "sim", r) + (IF s = r THEN 1 ELSE 0) = InCalls(todo, "sim", r)
          /\ InCalls(todo', "sim", r) \in Nat
      BY <1>11
    <3>4. CASE r = s
      BY <1>14, <3>1, <3>2, <3>3, <3>4
    <3>5. CASE r # s
      BY <1>14, <3>1, <3>2, <3>3, <3>5
    <3> QED BY <3>4, <3>5
  <2> QED BY <1>2, <2>1 DEF SimCount
<1>21. SimLife'
  <2>1. ASSUME NEW r \in Sims
        PROVE  Stages(r)' = 1 \/ (Stages(r)' = 0 /\ sim'[r] = NoSim)
    <3>1. InCalls(todo', "sim_free", r) = InCalls(todo, "sim_free", r) + (IF last /\ s = r THEN 1 ELSE 0)
      BY <1>11
    <3>2. CASE r = s
      <4>1. InCalls(todo', "sim_free", s) = IF last THEN 1 ELSE 0
        BY <1>12, <3>1, <3>2
      <4>2. sim'[s].refcount > 0 <=> ~ last
        BY <1>12, <1>14 DEF last
      <4>3. ~ sim'[s].freed
        BY <1>12, <1>14
      <4> QED BY <3>2, <4>1, <4>2, <4>3 DEF Stages, AsNum
    <3>3. CASE r # s
      <4>1. sim'[r] = sim[r]
        BY <1>14, <3>3
      <4>2. InCalls(todo', "sim_free", r) = InCalls(todo, "sim_free", r)
        <5>1. InCalls(todo, "sim_free", r) \in Nat
          BY <1>1, Types DEF Whats
        <5> QED BY <3>1, <3>3, <5>1
      <4>3. Stages(r)' = Stages(r)
        BY <4>1, <4>2 DEF Stages
      <4> QED BY <1>1, <4>1, <4>3 DEF SimLife
    <3> QED BY <3>2, <3>3
  <2> QED BY <2>1 DEF SimLife
<1>22. SharedKeepProject'
  <2>1. \A r \in Sims : sim[r].project => sim'[r].project
    BY <1>14 DEF p
  <2> QED BY <1>1, <1>2, <2>1 DEF SharedKeepProject
<1>23. MakersOK'
  <2>1. ASSUME NEW u \in Threads, u # t, todo[u] # << >>, Head(todo[u]).op \in Constructing
        PROVE  sim'[Head(todo[u]).s] = sim[Head(todo[u]).s]
    <3>1. InHand(h, "sim", s) = 1
      BY <1>10
    <3>2. Head(todo[u]).s # s
      BY <1>2, <1>4, <2>1, <3>1, OtherMakers DEF h
    <3>3. Head(todo[u]).s \in Sims
      BY <2>1, MakerAlone
    <3> QED BY <1>14, <3>2, <3>3
  <2> QED BY <1>2, <1>9, <2>1, MakersKeep
<1> QED BY <1>9, <1>13, <1>15, <1>17, <1>18, <1>19, <1>20, <1>21, <1>22, <1>23 DEF IInv

-----------------------------------------------------------------------------
(* The steps together.                                                     *)

LEMMA StutterOK ==
  ASSUME IInv, UNCHANGED vars
  PROVE  IInv'
<1>1. UNCHANGED <<have, project, model, sim, ph, mh, sh, todo, faults, leaked>>
  BY DEF vars
<1>2. TypeOK' /\ CallsOK' /\ MakersOK' /\ SharedKeepProject'
  BY <1>1 DEF IInv, TypeOK, CallsOK, MakersOK, SharedKeepProject
<1>3. ProjectCount' /\ SimCount' /\ ModelCount'
  BY <1>1 DEF IInv, ProjectCount, SimCount, ModelCount, FileKeeps
<1>4. ProjectLife' /\ SimLife' /\ ModelLife' /\ faults' = {}
  BY <1>1 DEF IInv, ProjectLife, SimLife, Stages, ModelLife
<1> QED BY <1>2, <1>3, <1>4 DEF IInv

LEMMA StepOK ==
  ASSUME IInv, [Next]_vars
  PROVE  IInv'
<1>1. CASE UNCHANGED vars
  BY <1>1, StutterOK
<1>2. CASE Next
  <2>1. PICK t \in Threads :
          \/ \E u \in Threads : sd_project_ref(t, u) \/ \E s \in Sims : sd_sim_ref(t, u, s)
          \/ sd_project_unref(t)
          \/ \E m \in Models : sd_project_get_model(t, m) \/ sd_model_unref(t, m)
          \/ \E s \in Sims : sd_sim_new(t, s) \/ sd_sim_unref(t, s)
          \/ GetModel(t) \/ ModuleNoMem(t) \/ ModuleFails(t) \/ ModuleBuilt(t) \/ KeepProject(t)
          \/ InitOk(t) \/ InitFails(t)
          \/ SimUnref(t) \/ SimFree(t) \/ ProjectUnref(t) \/ ProjectFree(t) \/ ModelUnref(t)
    BY <1>2 DEF Next
  <2>2. CASE \E u \in Threads : sd_project_ref(t, u) \/ \E s \in Sims : sd_sim_ref(t, u, s)
    BY <2>2, ProjectRefOK, SimRefOK
  <2>3. CASE sd_project_unref(t)
    BY <2>3, ProjectUnrefStarts
  <2>4. CASE \E m \in Models : sd_project_get_model(t, m) \/ sd_model_unref(t, m)
    BY <2>4, GetModelOK, ModelUnrefStarts
  <2>5. CASE \E s \in Sims : sd_sim_new(t, s) \/ sd_sim_unref(t, s)
    BY <2>5, SimNewOK, SimUnrefStarts
  <2>6. CASE GetModel(t)
    BY <2>6, GetModelStepOK
  <2>7. CASE ModuleNoMem(t)
    BY <2>7, ModuleNoMemOK
  <2>8. CASE ModuleFails(t)
    BY <2>8, ModuleFailsOK
  <2>9. CASE ModuleBuilt(t)
    BY <2>9, ModuleBuiltOK
  <2>10. CASE KeepProject(t)
    BY <2>10, KeepProjectOK
  <2>11. CASE InitOk(t)
    BY <2>11, InitOkOK
  <2>12. CASE InitFails(t)
    BY <2>12, InitFailsOK
  <2>13. CASE SimUnref(t)
    BY <2>13, SimUnrefOK
  <2>14. CASE SimFree(t)
    BY <2>14, SimFreeOK
  <2>15. CASE ProjectUnref(t)
    BY <2>15, ProjectUnrefOK
  <2>16. CASE ProjectFree(t)
    BY <2>16, ProjectFreeOK
  <2>17. CASE ModelUnref(t)
    BY <2>17, ModelUnrefOK
  <2> QED
    BY <2>1, <2>2, <2>3, <2>4, <2>5, <2>6, <2>7, <2>8, <2>9, <2>10, <2>11, <2>12, <2>13, <2>14,
       <2>15, <2>16, <2>17
<1> QED BY <1>1, <1>2

(* The counts of project.c and sim.c are those of the holders, and what is *)
(* freed has no holder, in every state that threads can reach by opening,  *)
(* sharing and releasing, whatever fails while simulations are made.       *)
THEOREM Invariance == Spec => []IInv
<1>1. Init => IInv
  BY InitOK
<1>2. IInv /\ [Next]_vars => IInv'
  BY StepOK
<1> QED BY <1>1, <1>2, PTL DEF Spec

-----------------------------------------------------------------------------
(* What the invariant says.                                                *)

LEMMA HolderKeeps ==
  ASSUME IInv, NEW t \in Threads, NEW s \in Sims, sh[t][s] > 0
  PROVE  /\ ~ project.freed /\ ~ Closing
         /\ \A k \in DOMAIN sim[s].modules : ~ model[sim[s].modules[k]].freed
<1>1. TypeOK /\ CallsOK /\ sim[s].project /\ sim \in [Sims -> SimRecord]
  BY DEF IInv, SharedKeepProject, TypeOK
<1>2. sim[s].refcount > 0
  BY Holding
<1>3. ~ project.freed /\ ~ Closing
  <2>1. /\ SumOf(ph) \in Nat /\ KeptProject(sim) \in Nat /\ InCalls(todo, "project", Root) \in Nat
        /\ InCalls(todo, "project_free", Root) \in Nat
    BY <1>1, Types DEF Whats
  <2>2. KeptProject(sim) > 0
    <3>1. KeepsProject(sim[s]) = 1
      BY <1>1, <1>2 DEF KeepsProject
    <3>2. KeepsProject(sim[s]) <= KeptProject(sim)
      BY <1>1, KeptType
    <3> QED BY <2>1, <3>1, <3>2
  <2>3. ~ project.freed /\ InCalls(todo, "project_free", Root) = 0
    BY <2>1, <2>2, ProjectAlive
  <2>4. Closing <=> InCalls(todo, "project_free", Root) > 0
    BY <1>1, ClosingIsFree
  <2> QED BY <2>3, <2>4
<1>4. ASSUME NEW k \in DOMAIN sim[s].modules
      PROVE  ~ model[sim[s].modules[k]].freed
  <2> DEFINE b == sim[s].modules
             m == b[k]
  <2>1. b \in Seq(Models)
    BY <1>1 DEF SimRecord
  <2>2. m \in Models
    BY <2>1
  <2>3. Count(b, m) > 0 /\ Count(b, m) \in Nat
    <3>1. Count(b, m) \in Nat
      <4> HIDE DEF b, m
      <4> QED BY <2>1, CountType
    <3>2. Count(b, b[k]) >= 1
      <4>1. k \in DOMAIN b
        OBVIOUS
      <4> HIDE DEF b, m
      <4> QED BY <2>1, <4>1, CountPositive, Zenon
    <3> QED BY <3>1, <3>2
  <2>4. Keeps(sim[s], m) = Count(b, m)
    BY <1>2 DEF Keeps
  <2> HIDE DEF m, b
  <2>5. Keeps(sim[s], m) <= KeptModel(sim, m)
    BY <1>1, KeptType
  <2>6. Held(mh, m) \in Nat /\ InCalls(todo, "model", m) \in Nat /\ KeptModel(sim, m) \in Nat
    BY <1>1, <2>2, Types DEF Whats
  <2>7. Held(mh, m) + InCalls(todo, "model", m) + KeptModel(sim, m) > 0
    BY <2>3, <2>4, <2>5, <2>6
  <2>8. ~ model[m].freed
    BY <2>2, <2>7, ModelAlive
  <2> QED BY <2>8 DEF m, b
<1> QED BY <1>3, <1>4

(* No sequence of calls of project.c and sim.c, in any number of threads,  *)
(* reads or writes what was freed, and a simulation that a client holds    *)
(* keeps its project and the models of its modules.                        *)
THEOREM MemorySafe == Spec => []NoUseAfterFree
<1>1. IInv => NoUseAfterFree
  <2> SUFFICES ASSUME IInv PROVE NoUseAfterFree
    OBVIOUS
  <2>1. faults = {}
    BY DEF IInv
  <2> QED BY <2>1, HolderKeeps DEF NoUseAfterFree
<1> QED BY <1>1, Invariance, PTL

\* nobody holds anything and no call is active
Quiet ==
  /\ \A t \in Threads : Idle(t) /\ ph[t] = 0
  /\ \A t \in Threads : \A m \in Models : mh[t][m] = 0
  /\ \A t \in Threads : \A s \in Sims : sh[t][s] = 0

LEMMA QuietIsFreed ==
  ASSUME IInv, Quiet
  PROVE  /\ project.freed
         /\ \A s \in Sims : sim[s] = NoSim \/ sim[s].freed
         /\ \A m \in have : model[m].freed \/ leaked[m] > 0
<1>1. /\ TypeOK /\ ProjectCount /\ SimCount /\ ModelCount /\ ProjectLife /\ SimLife /\ ModelLife
      /\ todo \in Lists /\ mh \in Handles(Models) /\ sh \in Handles(Sims)
      /\ sim \in [Sims -> SimRecord] /\ have \in SUBSET Models
  BY DEF IInv, TypeOK
<1>2. ASSUME NEW what \in Whats, NEW x
      PROVE  InCalls(todo, what, x) = 0
  <2> DEFINE w == [t \in Threads |-> InList(todo[t], what, x)]
  <2>1. \A t \in Threads : todo[t] = << >>
    BY DEF Quiet, Idle
  <2>2. DOMAIN w = Threads /\ \A t \in Threads : w[t] = 0
    BY <2>1, InListEmpty
  <2> HIDE DEF w
  <2>3. SumOf(w) = 0
    BY <2>2, SumZero, Zenon
  <2> QED BY <2>3 DEF InCalls, w
<1>3. SumOf(ph) = 0
  <2>1. DOMAIN ph = Threads /\ \A t \in Threads : ph[t] = 0
    BY <1>1 DEF TypeOK, Quiet
  <2> QED BY <2>1, SumZero, Zenon
<1>4. \A m \in Models : Held(mh, m) = 0
  BY <1>1, HeldType DEF Quiet
<1>5. \A s \in Sims : Held(sh, s) = 0
  BY <1>1, HeldType DEF Quiet
<1>6. \A s \in Sims : sim[s].refcount = 0
  BY <1>1, <1>2, <1>5 DEF SimCount, Whats
<1>7. KeptProject(sim) = 0
  <2> DEFINE w == [s \in Sims |-> IF sim[s].project /\ sim[s].refcount > 0 THEN 1 ELSE 0]
  <2>1. DOMAIN w = Sims /\ \A s \in Sims : w[s] = 0
    BY <1>6
  <2> HIDE DEF w
  <2>2. SumOf(w) = 0
    BY <2>1, SumZero, Zenon
  <2> QED BY <2>2 DEF KeptProject, w
<1>8. ASSUME NEW m PROVE KeptModel(sim, m) = 0
  <2> DEFINE w == [s \in Sims |-> IF sim[s].refcount > 0 THEN Count(sim[s].modules, m) ELSE 0]
  <2>1. DOMAIN w = Sims /\ \A s \in Sims : w[s] = 0
    BY <1>6
  <2> HIDE DEF w
  <2>2. SumOf(w) = 0
    BY <2>1, SumZero, Zenon
  <2> QED BY <2>2 DEF KeptModel, w
<1>9. project.refcount = 0
  BY <1>1, <1>2, <1>3, <1>7 DEF ProjectCount, Whats
<1>10. project.freed
  BY <1>1, <1>2, <1>9 DEF ProjectLife, AsNum, Whats
<1>11. ASSUME NEW s \in Sims PROVE sim[s] = NoSim \/ sim[s].freed
  BY <1>1, <1>2, <1>6 DEF SimLife, Stages, AsNum, Whats
<1>12. ASSUME NEW m \in have PROVE model[m].freed \/ leaked[m] > 0
  <2>1. m \in Models /\ leaked[m] \in Nat
    BY <1>1 DEF TypeOK
  <2>2. model[m].refcount = Held(mh, m) + InCalls(todo, "model", m) + KeptModel(sim, m)
                            + FileKeeps(m) + leaked[m]
    BY <1>1, <2>1 DEF ModelCount
  <2>3. InCalls(todo, "model", m) = 0 /\ FileKeeps(m) = 0
    BY <1>2, <1>9 DEF Whats, FileKeeps
  <2>4. model[m].refcount = leaked[m]
    BY <1>4, <1>8, <2>1, <2>2, <2>3
  <2> QED BY <1>1, <2>1, <2>4 DEF ModelLife
<1> QED BY <1>10, <1>11, <1>12

LEMMA CountsAreHolders ==
  ASSUME IInv
  PROVE  /\ project.refcount = SumOf(ph) + InCalls(todo, "project", Root) + KeptProject(sim)
         /\ \A s \in Sims : sim[s].refcount = SumOf([t \in Threads |-> sh[t][s]]) + InCalls(todo, "sim", s)
         /\ \A m \in Models :
              model[m].refcount =
                SumOf([t \in Threads |-> mh[t][m]]) + InCalls(todo, "model", m) + KeptModel(sim, m)
                + (IF m \in have /\ ~ Closing /\ ~ project.freed THEN 1 ELSE 0)
                + leaked[m]
<1>1. TypeOK /\ CallsOK /\ ProjectCount /\ SimCount /\ ModelCount /\ ProjectLife
  BY DEF IInv
<1>2. project.refcount > 0 <=> ~ Closing /\ ~ project.freed
  <2>1. Closing <=> InCalls(todo, "project_free", Root) > 0
    BY <1>1, ClosingIsFree
  <2>2. InCalls(todo, "project_free", Root) \in Nat
    BY <1>1, Types DEF Whats
  <2> QED BY <1>1, <2>1, <2>2 DEF ProjectLife, AsNum
<1>3. \A m \in Models : FileKeeps(m) = IF m \in have /\ ~ Closing /\ ~ project.freed THEN 1 ELSE 0
  BY <1>2 DEF FileKeeps
<1>4. ASSUME NEW m \in Models
      PROVE  model[m].refcount =
               SumOf([t \in Threads |-> mh[t][m]]) + InCalls(todo, "model", m) + KeptModel(sim, m)
               + (IF m \in have /\ ~ Closing /\ ~ project.freed THEN 1 ELSE 0)
               + leaked[m]
  <2>1. model[m].refcount = Held(mh, m) + InCalls(todo, "model", m) + KeptModel(sim, m)
                            + FileKeeps(m) + leaked[m]
    BY <1>1 DEF ModelCount
  <2>2. Held(mh, m) = SumOf([t \in Threads |-> mh[t][m]])
    BY DEF Held
  <2>3. FileKeeps(m) = IF m \in have /\ ~ Closing /\ ~ project.freed THEN 1 ELSE 0
    BY <1>3
  <2> QED BY <2>1, <2>2, <2>3
<1>5. \A s \in Sims : sim[s].refcount = SumOf([t \in Threads |-> sh[t][s]]) + InCalls(todo, "sim", s)
  BY <1>1 DEF SimCount, Held
<1> QED BY <1>1, <1>4, <1>5 DEF ProjectCount

(* Every count of project.c and sim.c is the number of references that     *)
(* will be given back, after a failed sd_sim_new as after a successful     *)
(* one; but for the model that module() loses when it has no memory,       *)
(* everything is freed when the last holder has gone.                      *)
THEOREM CountsCorrect == Spec => []CountsMatchHolders
<1>1. IInv => CountsMatchHolders
  <2> SUFFICES ASSUME IInv PROVE CountsMatchHolders
    OBVIOUS
  <2>1. Quiet => /\ project.freed
                 /\ \A s \in Sims : sim[s] = NoSim \/ sim[s].freed
                 /\ \A m \in have : model[m].freed \/ leaked[m] > 0
    BY QuietIsFreed
  <2> QED BY <2>1, CountsAreHolders DEF CountsMatchHolders, Quiet
<1> QED BY <1>1, Invariance, PTL

=============================================================================
