--------------------------- MODULE CompileProofs ----------------------------
(***************************************************************************)
(* The theorems about Compile: for every project the names, the slots and  *)
(* the ghosts of a simulation agree, and one that dangles is refused.      *)
(***************************************************************************)
EXTENDS Compile, Arithmetic, SequenceTheorems

-----------------------------------------------------------------------------
(* Joining sequences.                                                      *)

\* a has the concatenations of the first k sequences of s
Concats(a, s, n) == a = [k \in 0 .. n |-> IF k = 0 THEN << >> ELSE a[k - 1] \o s[k]]

LEMMA ConcatsExists ==
  ASSUME NEW s, NEW n \in Nat
  PROVE  \E a : Concats(a, s, n)
<1> DEFINE Open == {k \in Nat : ~ \E a : Concats(a, s, k)}
<1>1. SUFFICES ASSUME Open # {} PROVE FALSE
  OBVIOUS
<1>2. PICK n1 \in Open : \A y \in Open : n1 <= y
  <2>1. Open \in SUBSET Nat
    OBVIOUS
  <2> HIDE DEF Open
  <2> QED BY <1>1, <2>1, LeastNat
<1>3. CASE n1 = 0
  <2> DEFINE a == [k \in 0 .. 0 |-> << >>]
  <2>1. a = [k \in 0 .. 0 |-> IF k = 0 THEN << >> ELSE a[k - 1] \o s[k]]
    OBVIOUS
  <2> HIDE DEF a
  <2>2. Concats(a, s, 0)
    BY <2>1 DEF Concats
  <2> QED BY <1>2, <1>3, <2>2
<1>4. CASE n1 # 0
  <2>1. n1 - 1 \in Nat /\ n1 - 1 \notin Open
    BY <1>2, <1>4
  <2>2. PICK g : Concats(g, s, n1 - 1)
    BY <2>1
  <2> DEFINE a == [k \in 0 .. n1 |-> IF k = 0 THEN << >> ELSE g[k - 1] \o s[k]]
  <2>3. \A k \in 0 .. n1 - 1 : a[k] = g[k]
    <3>1. \A k \in 0 .. n1 - 1 : g[k] = IF k = 0 THEN << >> ELSE g[k - 1] \o s[k]
      BY <2>2 DEF Concats
    <3>2. \A k \in 0 .. n1 - 1 : k \in 0 .. n1
      BY <1>2
    <3> QED BY <3>1, <3>2
  <2>4. \A k \in 0 .. n1 : k # 0 => k - 1 \in 0 .. n1 - 1
    BY <1>2
  <2>5. a = [k \in 0 .. n1 |-> IF k = 0 THEN << >> ELSE a[k - 1] \o s[k]]
    <3>1. \A k \in 0 .. n1 : a[k] = IF k = 0 THEN << >> ELSE a[k - 1] \o s[k]
      BY <2>3, <2>4
    <3>2. a = [k \in 0 .. n1 |-> a[k]]
      OBVIOUS
    <3> HIDE DEF a
    <3> QED BY <3>1, <3>2
  <2> HIDE DEF a
  <2>6. Concats(a, s, n1)
    BY <2>5 DEF Concats
  <2> QED BY <1>2, <2>6
<1> QED BY <1>3, <1>4

LEMMA ConcatsUnfold ==
  ASSUME NEW a, NEW s, NEW n \in Nat, Concats(a, s, n)
  PROVE  /\ a[0] = << >>
         /\ \A k \in 1 .. n : a[k] = a[k - 1] \o s[k]
<1>1. \A k \in 0 .. n : a[k] = IF k = 0 THEN << >> ELSE a[k - 1] \o s[k]
  BY DEF Concats
<1>2. 0 \in 0 .. n /\ \A k \in 1 .. n : k \in 0 .. n /\ k # 0
  OBVIOUS
<1> QED BY <1>1, <1>2

\* the pieces that decide are those up to n
LEMMA ConcatsSame ==
  ASSUME NEW s, NEW t, NEW n \in Nat, \A k \in 1 .. n : s[k] = t[k], NEW a
  PROVE  Concats(a, s, n) <=> Concats(a, t, n)
<1>1. \A k \in 0 .. n : k # 0 => k \in 1 .. n
  OBVIOUS
<1>2. \A k \in 0 .. n :
        (IF k = 0 THEN << >> ELSE a[k - 1] \o s[k]) = (IF k = 0 THEN << >> ELSE a[k - 1] \o t[k])
  BY <1>1
<1>3. [k \in 0 .. n |-> IF k = 0 THEN << >> ELSE a[k - 1] \o s[k]]
        = [k \in 0 .. n |-> IF k = 0 THEN << >> ELSE a[k - 1] \o t[k]]
  BY <1>2
<1> QED BY <1>3 DEF Concats

Pieces(f, own, conns) == [k \in 1 .. Len(own) |-> avar(f, Connected(own[k], conns))]

LEMMA InstancesIs ==
  ASSUME NEW f, NEW own, NEW conns, Len(own) \in Nat
  PROVE  LET s == Pieces(f, own, conns)
             a == CHOOSE a : Concats(a, s, Len(own))
         IN  Concats(a, s, Len(own)) /\ Instances(f, own, conns) = a[Len(own)]
<1> DEFINE n == Len(own)
           s == Pieces(f, own, conns)
           Loop(a) == a = [k \in 0 .. n |-> IF k = 0 THEN << >>
                                            ELSE a[k - 1] \o avar(f, Connected(own[k], conns))]
           c == CHOOSE a : Concats(a, s, n)
<1>1. Instances(f, own, conns) = (CHOOSE a : Loop(a))[n]
  BY DEF Instances
<1>2. ASSUME NEW a PROVE Loop(a) <=> Concats(a, s, n)
  <2>1. \A k \in 0 .. n : k # 0 => s[k] = avar(f, Connected(own[k], conns))
    BY DEF Pieces
  <2>2. [k \in 0 .. n |-> IF k = 0 THEN << >> ELSE a[k - 1] \o avar(f, Connected(own[k], conns))]
          = [k \in 0 .. n |-> IF k = 0 THEN << >> ELSE a[k - 1] \o s[k]]
    <3> HIDE DEF s
    <3> QED BY <2>1
  <2> QED BY <2>2 DEF Concats
<1>3. (CHOOSE a : Loop(a)) = c
  <2> HIDE DEF Loop, s
  <2>1. \A a : Loop(a) <=> Concats(a, s, n)
    BY <1>2
  <2> QED BY <2>1
<1>4. Concats(c, s, n)
  <2> HIDE DEF s
  <2> QED BY ConcatsExists
<1> QED BY <1>1, <1>3, <1>4

\* only what is made of the modules in the model matters
Agree(f, g, own, conns) ==
  \A k \in 1 .. Len(own) : avar(f, Connected(own[k], conns)) = avar(g, Connected(own[k], conns))

LEMMA InstancesSame ==
  ASSUME NEW f, NEW g, NEW own, NEW conns, Len(own) \in Nat, Agree(f, g, own, conns)
  PROVE  Instances(f, own, conns) = Instances(g, own, conns)
<1>1. Pieces(f, own, conns) = Pieces(g, own, conns)
  BY DEF Pieces, Agree
<1> QED BY <1>1, InstancesIs

-----------------------------------------------------------------------------
(* What is assumed of projects.                                            *)

LEMMA ProjectFacts ==
  ASSUME NEW p \in Projects
  PROVE  /\ \E n \in Nat : \E depth \in [DOMAIN p -> 0 .. n] :
              \A model \in DOMAIN p : \A v \in Range(p[model]) :
                v.type = "module" /\ v.name \in DOMAIN p => depth[v.name] < depth[model]
         /\ \A model \in DOMAIN p :
              /\ Len(p[model]) \in Nat /\ DOMAIN p[model] = 1 .. Len(p[model])
              /\ \A k \in 1 .. Len(p[model]) : p[model][k] \in VarsIn(p) /\ p[model][k] \in Range(p[model])
              /\ \A j, k \in 1 .. Len(p[model]) : p[model][j].name = p[model][k].name => j = k
         /\ \A v \in VarsIn(p) :
              /\ v.type # "ref" /\ v.name \in NamesIn(p) /\ v.conns \in ConnListsIn(p)
              /\ v.conns \in Seq(Range(v.conns)) /\ \A c \in Range(v.conns) : c \in ConnsIn(p)
         /\ \A c \in ConnsIn(p) : c.type = "ref" /\ c.src \in Seq(Range(c.src)) \ {<< >>}
         /\ \A a \in NamesIn(p) : StartsWith(a, a)
<1>1. /\ IsFiniteSet(DOMAIN p)
      /\ \E depth \in [DOMAIN p -> 0 .. Cardinality(DOMAIN p)] :
           \A model \in DOMAIN p : \A v \in Range(p[model]) :
             v.type = "module" /\ v.name \in DOMAIN p => depth[v.name] < depth[model]
  BY ProjectsAssumption
<1>2. Cardinality(DOMAIN p) \in Nat
  BY <1>1, FS_CardinalityType
<1>3. \A model \in DOMAIN p :
        /\ p[model] \in Seq(Range(p[model]))
        /\ \A j, k \in DOMAIN p[model] : p[model][j].name = p[model][k].name => j = k
  BY ProjectsAssumption
<1>4. \A model \in DOMAIN p : Len(p[model]) \in Nat /\ DOMAIN p[model] = 1 .. Len(p[model])
  BY <1>3
<1>5. \A model \in DOMAIN p : \A k \in 1 .. Len(p[model]) :
        p[model][k] \in VarsIn(p) /\ p[model][k] \in Range(p[model])
  BY <1>4 DEF VarsIn, Range
<1>6. \A v \in VarsIn(p) : v.type # "ref" /\ v.conns \in Seq(Range(v.conns))
  BY ProjectsAssumption
<1>7. \A v \in VarsIn(p) : v.name \in NamesIn(p) /\ v.conns \in ConnListsIn(p)
  BY DEF NamesIn, ConnListsIn
<1>8. \A v \in VarsIn(p) : \A c \in Range(v.conns) : c \in ConnsIn(p)
  BY DEF ConnsIn
<1>9. /\ \A c \in ConnsIn(p) : c.type = "ref" /\ c.src \in Seq(Range(c.src)) \ {<< >>}
      /\ \A a \in NamesIn(p) : StartsWith(a, a)
  BY ProjectsAssumption
<1>10. \A model \in DOMAIN p : \A j, k \in 1 .. Len(p[model]) :
         p[model][j].name = p[model][k].name => j = k
  BY <1>3, <1>4
<1>11. \E n \in Nat : \E depth \in [DOMAIN p -> 0 .. n] :
         \A model \in DOMAIN p : \A v \in Range(p[model]) :
           v.type = "module" /\ v.name \in DOMAIN p => depth[v.name] < depth[model]
  BY <1>1, <1>2
<1> QED BY <1>4, <1>5, <1>6, <1>7, <1>8, <1>9, <1>10, <1>11

\* a variable in its module: itself, or a ref instead
LEMMA ConnectedIs ==
  ASSUME NEW p \in Projects, NEW v \in VarsIn(p), NEW conns \in ConnListsIn(p)
  PROVE  LET u == Connected(v, conns)
         IN  /\ u.name = v.name
             /\ u = v \/ (u \in ConnsIn(p) /\ u.type = "ref" /\ conns # << >>)
<1> DEFINE hit == {j \in DOMAIN conns : conns[j].name = v.name}
<1>1. \/ conns = << >>
      \/ \E w \in VarsIn(p) : conns = w.conns
  BY DEF ConnListsIn
<1>2. CASE hit = {}
  BY <1>2 DEF Connected
<1>3. CASE hit # {}
  <2>1. conns # << >>
    BY <1>3
  <2>2. PICK w \in VarsIn(p) : conns = w.conns
    BY <1>1, <2>1
  <2>3. /\ conns \in Seq(Range(conns)) /\ \A c \in Range(conns) : c \in ConnsIn(p)
        /\ \A c \in ConnsIn(p) : c.type = "ref"
    BY <2>2, ProjectFacts
  <2>4. DOMAIN conns = 1 .. Len(conns) /\ Len(conns) \in Nat
    BY <2>3
  <2>5. hit \in SUBSET Nat
    BY <2>4
  <2>6. Min(hit) \in hit
    <3> HIDE DEF hit
    <3> QED BY <1>3, <2>5, MinOfNats
  <2>7. conns[Min(hit)].name = v.name /\ Min(hit) \in DOMAIN conns
    BY <2>6
  <2>8. Connected(v, conns) = conns[Min(hit)]
    BY <1>3 DEF Connected
  <2>9. conns[Min(hit)] \in Range(conns)
    BY <2>7 DEF Range
  <2> HIDE DEF hit
  <2> QED BY <2>1, <2>3, <2>7, <2>8, <2>9
<1> QED BY <1>2, <1>3


-----------------------------------------------------------------------------
(* What module() makes exists: a module is less deep than the one around.  *)

Modules(f, S) ==
  f = [model \in S |-> [conns \in ConnListsIn(project) |-> Instances(f, project[model], conns)]]

\* f and g agree on the modules that are in a model
LEMMA SameBelow ==
  ASSUME project \in Projects, NEW model \in DOMAIN project, NEW conns \in ConnListsIn(project),
         NEW f, NEW g,
         \A v \in Range(project[model]) : v.type = "module" =>
           /\ v.name \in DOMAIN f <=> v.name \in DOMAIN g
           /\ v.name \in DOMAIN f => f[v.name] = g[v.name]
  PROVE  Instances(f, project[model], conns) = Instances(g, project[model], conns)
<1> DEFINE own == project[model]
<1>1. Len(own) \in Nat /\ \A k \in 1 .. Len(own) : own[k] \in VarsIn(project) /\ own[k] \in Range(own)
  BY ProjectFacts
<1>2. ASSUME NEW k \in 1 .. Len(own)
      PROVE  avar(f, Connected(own[k], conns)) = avar(g, Connected(own[k], conns))
  <2> DEFINE u == Connected(own[k], conns)
  <2>1. u = own[k] \/ u.type = "ref"
    BY <1>1, ConnectedIs
  <2>2. u.type = "module" => (u.name \in DOMAIN f <=> u.name \in DOMAIN g)
    BY <1>1, <2>1
  <2>3. u.type = "module" /\ u.name \in DOMAIN f => f[u.name] = g[u.name]
    BY <1>1, <2>1
  <2> HIDE DEF u
  <2>4. (IF u.type = "module" /\ u.name \in DOMAIN f THEN Under(u.name, f[u.name][u.conns]) ELSE << >>)
          = (IF u.type = "module" /\ u.name \in DOMAIN g THEN Under(u.name, g[u.name][u.conns]) ELSE << >>)
    BY <2>2, <2>3
  <2>5. avar(f, u) = avar(g, u)
    BY <2>4 DEF avar
  <2> QED BY <2>5 DEF u
<1>3. Agree(f, g, own, conns)
  BY <1>2 DEF Agree
<1> HIDE DEF own
<1>4. Instances(f, own, conns) = Instances(g, own, conns)
  BY <1>1, <1>3, InstancesSame
<1> QED BY <1>4 DEF own

LEMMA ModulesExist ==
  ASSUME project \in Projects
  PROVE  \E f : Modules(f, DOMAIN project)
<1>0. PICK n \in Nat : \E depth \in [DOMAIN project -> 0 .. n] :
        \A model \in DOMAIN project : \A v \in Range(project[model]) :
          v.type = "module" /\ v.name \in DOMAIN project => depth[v.name] < depth[model]
  BY ProjectFacts
<1>1. PICK depth \in [DOMAIN project -> 0 .. n] :
        \A model \in DOMAIN project : \A v \in Range(project[model]) :
          v.type = "module" /\ v.name \in DOMAIN project => depth[v.name] < depth[model]
  BY <1>0
<1> DEFINE Upto(r) == {model \in DOMAIN project : depth[model] < r}
           Open == {r \in Nat : ~ \E f : Modules(f, Upto(r))}
<1>2. \A model \in DOMAIN project : depth[model] \in 0 .. n
  BY <1>1
<1>3. Open = {}
  <2> SUFFICES ASSUME Open # {} PROVE FALSE
    OBVIOUS
  <2>1. PICK r \in Open : \A y \in Open : r <= y
    <3>1. Open \in SUBSET Nat
      OBVIOUS
    <3> HIDE DEF Open
    <3> QED BY <3>1, LeastNat
  <2>2. CASE r = 0
    <3>1. Upto(0) = {}
      BY <1>2
    <3> DEFINE f == [model \in {} |-> 0]
    <3>2. Modules(f, {})
      BY DEF Modules
    <3> HIDE DEF f, Upto
    <3>3. \E g : Modules(g, Upto(0))
      BY <3>1, <3>2
    <3> QED BY <2>1, <2>2, <3>3
  <2>3. CASE r # 0
    <3>1. r - 1 \in Nat /\ ~ (r <= r - 1)
      BY <2>1, <2>3
    <3>2. PICK g : Modules(g, Upto(r - 1))
      BY <2>1, <3>1
    <3> DEFINE f == [model \in Upto(r) |->
                       [conns \in ConnListsIn(project) |-> Instances(g, project[model], conns)]]
    <3>3. DOMAIN g = Upto(r - 1) /\ DOMAIN f = Upto(r)
      <4> HIDE DEF Upto
      <4> QED BY <3>2 DEF Modules
    <3>4. \A model \in Upto(r - 1) : model \in Upto(r) /\ f[model] = g[model]
      <4>1. \A model \in Upto(r - 1) :
              g[model] = [conns \in ConnListsIn(project) |-> Instances(g, project[model], conns)]
        <5> HIDE DEF Upto
        <5> QED BY <3>2 DEF Modules
      <4>2. \A model \in Upto(r - 1) : model \in Upto(r)
        BY <1>2, <3>1
      <4> HIDE DEF Upto
      <4> QED BY <4>1, <4>2
    <3>5. ASSUME NEW model \in Upto(r), NEW conns \in ConnListsIn(project)
          PROVE  Instances(f, project[model], conns) = Instances(g, project[model], conns)
      <4>1. ASSUME NEW v \in Range(project[model]), v.type = "module", v.name \in Upto(r)
            PROVE  v.name \in Upto(r - 1)
        <5>1. v.name \in DOMAIN project /\ depth[v.name] < depth[model] /\ depth[model] < r
          BY <1>1, <4>1
        <5>2. depth[v.name] \in 0 .. n /\ depth[model] \in 0 .. n
          BY <1>2, <5>1
        <5> QED BY <2>1, <5>1, <5>2
      <4>2. model \in DOMAIN project
        OBVIOUS
      <4> HIDE DEF Upto, f
      <4>3. \A v \in Range(project[model]) : v.type = "module" =>
              /\ v.name \in DOMAIN f <=> v.name \in DOMAIN g
              /\ v.name \in DOMAIN f => f[v.name] = g[v.name]
        BY <3>3, <3>4, <4>1
      <4> QED BY <4>2, <4>3, SameBelow
    <3>6. f = [model \in Upto(r) |->
                 [conns \in ConnListsIn(project) |-> Instances(f, project[model], conns)]]
      <4> DEFINE h == [model \in Upto(r) |->
                        [conns \in ConnListsIn(project) |-> Instances(f, project[model], conns)]]
      <4>1. \A model \in Upto(r) : f[model] = h[model]
        <5> TAKE model \in Upto(r)
        <5>1. f[model] = [conns \in ConnListsIn(project) |-> Instances(g, project[model], conns)]
          OBVIOUS
        <5>2. h[model] = [conns \in ConnListsIn(project) |-> Instances(f, project[model], conns)]
          OBVIOUS
        <5>3. \A conns \in ConnListsIn(project) :
                Instances(f, project[model], conns) = Instances(g, project[model], conns)
          BY <3>5
        <5> HIDE DEF f, h, Upto
        <5> QED BY <5>1, <5>2, <5>3
      <4>2. f = [model \in Upto(r) |-> f[model]] /\ h = [model \in Upto(r) |-> h[model]]
        OBVIOUS
      <4>3. f = h
        <5> HIDE DEF f, h, Upto
        <5> QED BY <4>1, <4>2
      <4> QED BY <4>3
    <3> HIDE DEF f
    <3>7. Modules(f, Upto(r))
      BY <3>6 DEF Modules
    <3> QED BY <2>1, <3>7
  <2> QED BY <2>2, <2>3
<1>4. Upto(n + 1) = DOMAIN project
  BY <1>1, <1>2
<1>5. n + 1 \in Nat
  OBVIOUS
<1>6. n + 1 \notin Open
  <2> HIDE DEF Open
  <2> QED BY <1>3
<1>7. \E f : Modules(f, Upto(n + 1))
  BY <1>5, <1>6
<1> HIDE DEF Upto
<1> QED BY <1>4, <1>7

LEMMA ModuleIs ==
  ASSUME project \in Projects
  PROVE  /\ DOMAIN module = DOMAIN project
         /\ \A model \in DOMAIN project : \A conns \in ConnListsIn(project) :
              module[model][conns] = Instances(module, project[model], conns)
<1>1. module = CHOOSE f : Modules(f, DOMAIN project)
  BY DEF module, Modules
<1>2. Modules(module, DOMAIN project)
  BY <1>1, ModulesExist
<1> DEFINE f == module
<1>3. f = [model \in DOMAIN project |->
             [conns \in ConnListsIn(project) |-> Instances(f, project[model], conns)]]
  BY <1>2 DEF Modules
<1> HIDE DEF f
<1>4. DOMAIN f = DOMAIN project
  BY <1>3
<1>5. ASSUME NEW model \in DOMAIN project, NEW conns \in ConnListsIn(project)
      PROVE  f[model][conns] = Instances(f, project[model], conns)
  <2>1. f[model] = [c \in ConnListsIn(project) |-> Instances(f, project[model], c)]
    BY <1>3
  <2> QED BY <2>1
<1> QED BY <1>4, <1>5 DEF f

-----------------------------------------------------------------------------
(* Paths.                                                                  *)

LEMMA FrontIs ==
  ASSUME NEW S, NEW s \in Seq(S), s # << >>
  PROVE  /\ Len(s) \in Nat \ {0} /\ DOMAIN s = 1 .. Len(s)
         /\ Front(s) \in Seq(S) /\ Len(Front(s)) = Len(s) - 1
         /\ \A i \in 1 .. Len(s) - 1 : Front(s)[i] = s[i]
         /\ Last(s) = s[Len(s)] /\ s[Len(s)] \in S
<1>1. Len(s) \in Nat /\ DOMAIN s = 1 .. Len(s) /\ Len(s) # 0
  OBVIOUS
<1>2. Len(s) \in Nat \ {0} /\ Len(s) \in 1 .. Len(s)
  BY <1>1
<1>3. Last(s) = s[Len(s)] /\ s[Len(s)] \in S
  BY <1>2 DEF Last
<1>4. Front(s) = SubSeq(s, 1, Len(s) - 1)
  BY DEF Front
<1>5. /\ Front(s) \in Seq(S) /\ Len(Front(s)) = Len(s) - 1
      /\ \A i \in 1 .. Len(s) - 1 : Front(s)[i] = s[i]
  <2> DEFINE n == Len(s) - 1
  <2>1. n \in Nat /\ n \in Int /\ 1 \in Int /\ \A i \in 1 .. n : s[i] \in S
    BY <1>2
  <2> HIDE DEF n
  <2>2. /\ SubSeq(s, 1, n) \in Seq(S) /\ Len(SubSeq(s, 1, n)) = (IF 1 <= n THEN n - 1 + 1 ELSE 0)
        /\ \A i \in 1 .. n - 1 + 1 : SubSeq(s, 1, n)[i] = s[1 + i - 1]
    BY <2>1, SubSeqProperties
  <2>3. Len(SubSeq(s, 1, n)) = n /\ \A i \in 1 .. n : SubSeq(s, 1, n)[i] = s[i]
    BY <2>1, <2>2
  <2> QED BY <1>4, <2>2, <2>3 DEF n
<1> QED BY <1>1, <1>2, <1>3, <1>5

\* a path is the one around it and its last name
LEMMA FrontAndLast ==
  ASSUME NEW S, NEW s \in Seq(S), NEW t \in Seq(S), s # << >>, t # << >>,
         Front(s) = Front(t), Last(s) = Last(t)
  PROVE  s = t
<1>1. /\ Len(s) \in Nat \ {0} /\ Len(Front(s)) = Len(s) - 1 /\ Last(s) = s[Len(s)]
      /\ \A i \in 1 .. Len(s) - 1 : Front(s)[i] = s[i]
  BY FrontIs
<1>2. /\ Len(t) \in Nat \ {0} /\ Len(Front(t)) = Len(t) - 1 /\ Last(t) = t[Len(t)]
      /\ \A i \in 1 .. Len(t) - 1 : Front(t)[i] = t[i]
  BY FrontIs
<1>3. Len(s) = Len(t)
  BY <1>1, <1>2
<1>4. \A i \in 1 .. Len(s) : s[i] = t[i]
  <2> TAKE i \in 1 .. Len(s)
  <2>1. CASE i = Len(s)
    BY <1>1, <1>2, <1>3, <2>1
  <2>2. CASE i # Len(s)
    <3>1. i \in 1 .. Len(s) - 1
      BY <1>1, <2>2
    <3> QED BY <1>1, <1>2, <1>3, <3>1
  <2> QED BY <2>1, <2>2
<1> QED BY <1>3, <1>4, SeqEqual

LEMMA BehindIs ==
  ASSUME NEW S, NEW a \in S, NEW s \in Seq(S), s # << >>
  PROVE  /\ <<a>> \o s \in Seq(S) \ {<< >>}
         /\ Len(<<a>> \o s) = Len(s) + 1 /\ (<<a>> \o s)[1] = a
         /\ Front(<<a>> \o s) = <<a>> \o Front(s)
         /\ Len(s) = 1 => <<a>> \o Front(s) = <<a>>
<1> DEFINE t == <<a>> \o s
           u == <<a>> \o Front(s)
<1>1. /\ Len(s) \in Nat \ {0} /\ Front(s) \in Seq(S) /\ Len(Front(s)) = Len(s) - 1
      /\ \A i \in 1 .. Len(s) - 1 : Front(s)[i] = s[i]
  BY FrontIs
<1>2. <<a>> \in Seq(S) /\ Len(<<a>>) = 1 /\ <<a>>[1] = a
  OBVIOUS
<1>3. /\ t \in Seq(S) /\ Len(t) = 1 + Len(s)
      /\ \A i \in 1 .. 1 + Len(s) : t[i] = IF i <= 1 THEN <<a>>[i] ELSE s[i - 1]
  BY <1>2, ConcatProperties
<1>4. /\ u \in Seq(S) /\ Len(u) = 1 + (Len(s) - 1)
      /\ \A i \in 1 .. 1 + (Len(s) - 1) : u[i] = IF i <= 1 THEN <<a>>[i] ELSE Front(s)[i - 1]
  BY <1>1, <1>2, ConcatProperties
<1> HIDE DEF t, u
<1>5. t # << >> /\ t[1] = a /\ Len(t) = Len(s) + 1
  BY <1>1, <1>2, <1>3
<1>6. /\ Front(t) \in Seq(S) /\ Len(Front(t)) = Len(s)
      /\ \A i \in 1 .. Len(s) : Front(t)[i] = t[i]
  <2>1. /\ Front(t) \in Seq(S) /\ Len(Front(t)) = Len(t) - 1
        /\ \A i \in 1 .. Len(t) - 1 : Front(t)[i] = t[i]
    BY <1>3, <1>5, FrontIs
  <2>2. Len(t) - 1 = Len(s)
    BY <1>1, <1>5
  <2> QED BY <2>1, <2>2
<1>7. \A i \in 1 .. Len(s) : t[i] = u[i]
  <2> TAKE i \in 1 .. Len(s)
  <2>1. i \in 1 .. 1 + Len(s) /\ i \in 1 .. 1 + (Len(s) - 1)
    BY <1>1
  <2>2. CASE i <= 1
    BY <1>3, <1>4, <2>1, <2>2
  <2>3. CASE ~ (i <= 1)
    <3>1. i - 1 \in 1 .. Len(s) - 1
      BY <1>1, <2>1, <2>3
    <3> QED BY <1>1, <1>3, <1>4, <2>1, <2>3, <3>1
  <2> QED BY <2>2, <2>3
<1>8. Len(u) = Len(s)
  BY <1>1, <1>4
<1>9. Front(t) = u
  BY <1>4, <1>6, <1>7, <1>8, SeqEqual
<1>10. ASSUME Len(s) = 1 PROVE u = <<a>>
  <2>1. Len(u) = 1 /\ u[1] = a
    BY <1>2, <1>4, <1>8, <1>10
  <2> QED BY <1>2, <1>4, <2>1, SeqEqual
<1> QED BY <1>3, <1>5, <1>9, <1>10 DEF t, u

LEMMA BehindSame ==
  ASSUME NEW S, NEW a \in S, NEW s \in Seq(S), NEW t \in Seq(S), <<a>> \o s = <<a>> \o t
  PROVE  s = t
<1>1. <<a>> \in Seq(S)
  OBVIOUS
<1> QED BY <1>1, ConcatSimplifications

-----------------------------------------------------------------------------
(* The AVars of a model.                                                   *)

\* an AVar as it is modelled
Whole(a) == a = [path |-> a.path, v |-> a.v]

\* as the AVar of a module n has it in its tree
Deeper(r, n) == [r EXCEPT !.path = <<n>> \o @]

LEMMA DeeperIs ==
  ASSUME NEW r, Whole(r), NEW n
  PROVE  LET d == Deeper(r, n)
         IN  d.path = <<n>> \o r.path /\ d.v = r.v /\ Whole(d)
<1> DEFINE D == {"path", "v"}
           p == r.path
           w == r.v
           q == <<n>> \o p
           new == Deeper(r, n)
<1>1. r = [path |-> p, v |-> w]
  BY DEF Whole
<1>2. DOMAIN r = D /\ r["path"] = p /\ r["v"] = w
  <2> HIDE DEF p, w
  <2> QED BY <1>1
<1>3. new = [x \in D |-> IF x = "path" THEN q ELSE r[x]]
  BY <1>2 DEF Deeper
<1>4. \A x \in D : (IF x = "path" THEN q ELSE r[x]) = (IF x = "path" THEN q ELSE w)
  BY <1>2
<1>5. new = [x \in D |-> IF x = "path" THEN q ELSE w]
  <2> HIDE DEF D, q, new, p, w
  <2> QED BY <1>3, <1>4
<1> HIDE DEF new, p, w, q
<1>6. new = [path |-> q, v |-> w]
  BY <1>5
<1>7. new.path = q /\ new.v = w
  BY <1>6
<1>8. Whole(new)
  BY <1>6, <1>7 DEF Whole
<1> QED BY <1>7, <1>8 DEF new, p, w, q

LEMMA UnderIs ==
  ASSUME NEW n, NEW as, Len(as) \in Nat, DOMAIN as = 1 .. Len(as), \A k \in 1 .. Len(as) : Whole(as[k])
  PROVE  LET un == Under(n, as)
         IN  /\ un \in Seq(Range(un)) /\ Len(un) = Len(as)
             /\ \A k \in 1 .. Len(as) :
                  un[k].path = <<n>> \o as[k].path /\ un[k].v = as[k].v /\ Whole(un[k])
<1> DEFINE un == Under(n, as)
           L == Len(as)
           step(k) == Deeper(as[k], n)
<1>1. un = [k \in 1 .. L |-> step(k)]
  BY DEF Under, Deeper
<1>2. ASSUME NEW k \in 1 .. L
      PROVE  step(k).path = <<n>> \o as[k].path /\ step(k).v = as[k].v /\ Whole(step(k))
  BY DeeperIs
<1> HIDE DEF un, step
<1>3. L \in Nat
  OBVIOUS
<1> HIDE DEF L
<1>4. DOMAIN un = 1 .. L /\ \A k \in 1 .. L : un[k] = step(k)
  BY <1>1
<1>5. un \in [1 .. L -> Range(un)]
  BY <1>1, <1>4 DEF Range
<1>6. un \in Seq(Range(un))
  BY <1>3, <1>5
<1>7. Len(un) = L
  BY <1>3, <1>4, <1>6
<1> QED BY <1>2, <1>4, <1>6, <1>7 DEF un, L
\* paths of names, the first of them of a variable of the model
PathsOK(as, heads) ==
  /\ as \in Seq(Range(as))
  /\ \A k \in 1 .. Len(as) :
       /\ Whole(as[k])
       /\ as[k].path \in Seq(NamesIn(project)) \ {<< >>}
       /\ as[k].path[1] \in heads

\* only modules have variables inside
ParentsOK(as) ==
  \A k \in 1 .. Len(as) : Len(as[k].path) > 1 =>
    \E j \in 1 .. Len(as) : as[j].v.type = "module" /\ as[j].path = Front(as[k].path)

\* refs are of connects, and there are none in the model without
RefsOK(as, conns) ==
  \A k \in 1 .. Len(as) : as[k].v.type = "ref" =>
    as[k].v \in ConnsIn(project) /\ (Len(as[k].path) = 1 => conns # << >>)

DistinctPaths(as) == \A j, k \in 1 .. Len(as) : as[j].path = as[k].path => j = k

Branch(as, heads, conns) ==
  PathsOK(as, heads) /\ ParentsOK(as) /\ RefsOK(as, conns) /\ DistinctPaths(as)

LEMMA AnySeq ==
  ASSUME NEW s, NEW S, s \in Seq(S)
  PROVE  s \in Seq(Range(s))
BY DEF Range

LEMMA SeqIs ==
  ASSUME NEW s, s \in Seq(Range(s))
  PROVE  Len(s) \in Nat /\ DOMAIN s = 1 .. Len(s)
OBVIOUS

\* st is t behind s
Joined(st, s, t) ==
  /\ Len(s) \in Nat /\ Len(t) \in Nat
  /\ st \in Seq(Range(st)) /\ Len(st) = Len(s) + Len(t)
  /\ \A i \in 1 .. Len(s) : i \in 1 .. Len(st) /\ st[i] = s[i]
  /\ \A i \in 1 .. Len(t) : Len(s) + i \in 1 .. Len(st) /\ st[Len(s) + i] = t[i]
  /\ \A i \in 1 .. Len(st) : i \in 1 .. Len(s) \/ \E j \in 1 .. Len(t) : i = Len(s) + j

LEMMA JoinIs ==
  ASSUME NEW s, NEW t, s \in Seq(Range(s)), t \in Seq(Range(t))
  PROVE  Joined(s \o t, s, t)
<1> DEFINE S == Range(s) \cup Range(t)
           st == s \o t
<1>1. s \in Seq(S) /\ t \in Seq(S) /\ Len(s) \in Nat /\ Len(t) \in Nat
  <2>1. Range(s) \subseteq S /\ Range(t) \subseteq S
    OBVIOUS
  <2> HIDE DEF S
  <2> QED BY <2>1, SeqMonotonic
<1> HIDE DEF S
<1>2. /\ st \in Seq(S) /\ Len(st) = Len(s) + Len(t)
      /\ \A i \in 1 .. Len(s) + Len(t) : st[i] = IF i <= Len(s) THEN s[i] ELSE t[i - Len(s)]
  BY <1>1, ConcatProperties
<1> HIDE DEF st
<1>3. st \in Seq(Range(st))
  BY <1>2, AnySeq
<1>4. \A i \in 1 .. Len(s) : i \in 1 .. Len(st) /\ st[i] = s[i]
  BY <1>1, <1>2
<1>5. \A i \in 1 .. Len(t) : Len(s) + i \in 1 .. Len(st) /\ st[Len(s) + i] = t[i]
  <2> TAKE i \in 1 .. Len(t)
  <2>1. Len(s) + i \in 1 .. Len(s) + Len(t) /\ ~ (Len(s) + i <= Len(s)) /\ Len(s) + i - Len(s) = i
    BY <1>1
  <2> QED BY <1>2, <2>1
<1>6. ASSUME NEW i \in 1 .. Len(st), i \notin 1 .. Len(s) PROVE \E j \in 1 .. Len(t) : i = Len(s) + j
  <2>1. i - Len(s) \in 1 .. Len(t) /\ i = Len(s) + (i - Len(s))
    BY <1>1, <1>2, <1>6
  <2> QED BY <2>1
<1>7. Joined(st, s, t)
  BY <1>1, <1>2, <1>3, <1>4, <1>5, <1>6 DEF Joined
<1> QED BY <1>7 DEF st

LEMMA BranchJoin ==
  ASSUME NEW s, NEW t, NEW A, NEW B, NEW conns,
         Branch(s, A, conns), Branch(t, B, conns), A \cap B = {}
  PROVE  Branch(s \o t, A \cup B, conns)
<1> DEFINE st == s \o t
           n == Len(s)
<1>0. s \in Seq(Range(s)) /\ t \in Seq(Range(t))
  BY DEF Branch, PathsOK
<1>1. /\ n \in Nat /\ Len(t) \in Nat
      /\ st \in Seq(Range(st)) /\ Len(st) = n + Len(t)
      /\ \A i \in 1 .. n : i \in 1 .. Len(st) /\ st[i] = s[i]
      /\ \A i \in 1 .. Len(t) : n + i \in 1 .. Len(st) /\ st[n + i] = t[i]
      /\ \A i \in 1 .. Len(st) : i \in 1 .. n \/ \E j \in 1 .. Len(t) : i = n + j
  <2>1. Joined(st, s, t)
    BY <1>0, JoinIs
  <2> HIDE DEF st
  <2> QED BY <2>1 DEF Joined
<1> HIDE DEF st, n
<1>2. PathsOK(st, A \cup B)
  <2>1. ASSUME NEW k \in 1 .. Len(st)
        PROVE  /\ Whole(st[k])
               /\ st[k].path \in Seq(NamesIn(project)) \ {<< >>}
               /\ st[k].path[1] \in A \cup B
    <3>1. CASE k \in 1 .. n
      <4>1. st[k] = s[k] /\ k \in 1 .. Len(s)
        BY <1>1, <3>1 DEF n
      <4> QED BY <4>1 DEF Branch, PathsOK
    <3>2. CASE k \notin 1 .. n
      <4>1. PICK j \in 1 .. Len(t) : k = n + j
        BY <1>1, <3>2
      <4>2. st[k] = t[j]
        BY <1>1, <4>1
      <4> QED BY <4>2 DEF Branch, PathsOK
    <3> QED BY <3>1, <3>2
  <2> QED BY <1>1, <2>1 DEF PathsOK
<1>3. ParentsOK(st)
  <2>1. ASSUME NEW k \in 1 .. Len(st), Len(st[k].path) > 1
        PROVE  \E j \in 1 .. Len(st) : st[j].v.type = "module" /\ st[j].path = Front(st[k].path)
    <3>1. CASE k \in 1 .. n
      <4>1. st[k] = s[k] /\ k \in 1 .. Len(s)
        BY <1>1, <3>1 DEF n
      <4>2. PICK j \in 1 .. Len(s) : s[j].v.type = "module" /\ s[j].path = Front(s[k].path)
        BY <2>1, <4>1 DEF Branch, ParentsOK
      <4>3. j \in 1 .. Len(st) /\ st[j] = s[j]
        BY <1>1 DEF n
      <4> QED BY <4>1, <4>2, <4>3
    <3>2. CASE k \notin 1 .. n
      <4>1. PICK i \in 1 .. Len(t) : k = n + i
        BY <1>1, <3>2
      <4>2. st[k] = t[i]
        BY <1>1, <4>1
      <4>3. PICK j \in 1 .. Len(t) : t[j].v.type = "module" /\ t[j].path = Front(t[i].path)
        BY <2>1, <4>2 DEF Branch, ParentsOK
      <4>4. n + j \in 1 .. Len(st) /\ st[n + j] = t[j]
        BY <1>1
      <4> QED BY <4>2, <4>3, <4>4
    <3> QED BY <3>1, <3>2
  <2> QED BY <2>1 DEF ParentsOK
<1>4. RefsOK(st, conns)
  <2>1. ASSUME NEW k \in 1 .. Len(st), st[k].v.type = "ref"
        PROVE  st[k].v \in ConnsIn(project) /\ (Len(st[k].path) = 1 => conns # << >>)
    <3>1. CASE k \in 1 .. n
      <4>1. st[k] = s[k] /\ k \in 1 .. Len(s)
        BY <1>1, <3>1 DEF n
      <4> QED BY <2>1, <4>1 DEF Branch, RefsOK
    <3>2. CASE k \notin 1 .. n
      <4>1. PICK j \in 1 .. Len(t) : k = n + j
        BY <1>1, <3>2
      <4>2. st[k] = t[j]
        BY <1>1, <4>1
      <4> QED BY <2>1, <4>2 DEF Branch, RefsOK
    <3> QED BY <3>1, <3>2
  <2> QED BY <2>1 DEF RefsOK
<1>5. DistinctPaths(st)
  <2>1. ASSUME NEW j \in 1 .. n, NEW k \in 1 .. Len(t) PROVE st[j].path # st[n + k].path
    <3>1. st[j] = s[j] /\ j \in 1 .. Len(s) /\ st[n + k] = t[k]
      BY <1>1 DEF n
    <3>2. st[j].path[1] \in A /\ st[n + k].path[1] \in B
      BY <3>1 DEF Branch, PathsOK
    <3> QED BY <3>2
  <2>2. ASSUME NEW j \in 1 .. n, NEW k \in 1 .. n, st[j].path = st[k].path PROVE j = k
    <3>1. st[j] = s[j] /\ st[k] = s[k] /\ j \in 1 .. Len(s) /\ k \in 1 .. Len(s)
      BY <1>1 DEF n
    <3> QED BY <2>2, <3>1 DEF Branch, DistinctPaths
  <2>3. ASSUME NEW j \in 1 .. Len(t), NEW k \in 1 .. Len(t), st[n + j].path = st[n + k].path PROVE j = k
    <3>1. st[n + j] = t[j] /\ st[n + k] = t[k]
      BY <1>1
    <3> QED BY <2>3, <3>1 DEF Branch, DistinctPaths
  <2>4. ASSUME NEW j \in 1 .. Len(st), NEW k \in 1 .. Len(st), st[j].path = st[k].path PROVE j = k
    <3>1. j \in 1 .. n \/ \E i \in 1 .. Len(t) : j = n + i
      BY <1>1
    <3>2. k \in 1 .. n \/ \E i \in 1 .. Len(t) : k = n + i
      BY <1>1
    <3> QED BY <2>1, <2>2, <2>3, <2>4, <3>1, <3>2
  <2> QED BY <2>4 DEF DistinctPaths
<1> QED BY <1>2, <1>3, <1>4, <1>5 DEF Branch, st

LEMMA BranchEmpty ==
  ASSUME NEW conns
  PROVE  Branch(<< >>, {}, conns)
<1>1. << >> \in Seq(Range(<< >>)) /\ 1 .. Len(<< >>) = {}
  OBVIOUS
<1> QED BY <1>1 DEF Branch, PathsOK, ParentsOK, RefsOK, DistinctPaths

LEMMA BranchOne ==
  ASSUME NEW u, NEW conns, u.name \in NamesIn(project),
         u.type = "ref" => u \in ConnsIn(project) /\ conns # << >>
  PROVE  Branch(<<[path |-> <<u.name>>, v |-> u]>>, {u.name}, conns)
<1> DEFINE a == [path |-> <<u.name>>, v |-> u]
           as == <<a>>
<1>1. /\ Whole(a) /\ a.v = u
      /\ a.path \in Seq(NamesIn(project)) \ {<< >>} /\ Len(a.path) = 1 /\ a.path[1] = u.name
  BY DEF Whole
<1> HIDE DEF a
<1>2. as \in Seq({a}) /\ Len(as) = 1 /\ as[1] = a
  OBVIOUS
<1>3. as \in Seq(Range(as))
  BY <1>2, AnySeq
<1> HIDE DEF as
<1>4. \A k \in 1 .. Len(as) : as[k] = a
  <2>1. \A k \in 1 .. 1 : k = 1
    OBVIOUS
  <2> QED BY <1>2, <2>1
<1>5. PathsOK(as, {u.name})
  BY <1>1, <1>3, <1>4 DEF PathsOK
<1>6. ParentsOK(as)
  <2>1. ~ (1 > 1)
    OBVIOUS
  <2>2. \A k \in 1 .. Len(as) : Len(as[k].path) = 1
    BY <1>1, <1>4
  <2> QED BY <2>1, <2>2 DEF ParentsOK
<1>7. RefsOK(as, conns)
  BY <1>1, <1>4 DEF RefsOK
<1>8. DistinctPaths(as)
  <2>1. \A k \in 1 .. 1 : k = 1
    OBVIOUS
  <2> QED BY <1>2, <2>1 DEF DistinctPaths
<1> QED BY <1>5, <1>6, <1>7, <1>8 DEF Branch, a, as

LEMMA LengthFacts ==
  ASSUME NEW m \in Nat \ {0}
  PROVE  (m # 1 => m > 1) /\ m + 1 # 1 /\ ~ (m = 1 /\ m > 1)
OBVIOUS

\* a module and what is in it
LEMMA BranchUnder ==
  ASSUME NEW u, u.type = "module", u.name \in NamesIn(project),
         NEW as, NEW heads, NEW inner, Branch(as, heads, inner), NEW conns
  PROVE  Branch(<<[path |-> <<u.name>>, v |-> u]>> \o Under(u.name, as), {u.name}, conns)
<1> DEFINE a == [path |-> <<u.name>>, v |-> u]
           n == u.name
           one == <<a>>
           un == Under(n, as)
           st == one \o un
           N == NamesIn(project)
           L == Len(as)
<1>1. /\ Whole(a) /\ a.path = <<n>> /\ a.v = u
      /\ a.path \in Seq(N) \ {<< >>} /\ Len(a.path) = 1 /\ a.path[1] = n
  BY DEF Whole
<1>2. one \in Seq({a}) /\ Len(one) = 1 /\ one[1] = a
  OBVIOUS
<1>3. /\ L \in Nat /\ DOMAIN as = 1 .. L
      /\ \A k \in 1 .. L : Whole(as[k]) /\ as[k].path \in Seq(N) \ {<< >>}
  <2>1. as \in Seq(Range(as))
    BY DEF Branch, PathsOK
  <2>2. \A k \in 1 .. L : Whole(as[k]) /\ as[k].path \in Seq(N) \ {<< >>}
    BY DEF Branch, PathsOK
  <2>3. L \in Nat /\ DOMAIN as = 1 .. L
    BY <2>1, SeqIs
  <2> QED BY <2>2, <2>3, Zenon
<1>4. /\ un \in Seq(Range(un)) /\ Len(un) = L
      /\ \A k \in 1 .. L : un[k].path = <<n>> \o as[k].path /\ un[k].v = as[k].v /\ Whole(un[k])
  <2> HIDE DEF n
  <2> QED BY <1>3, UnderIs
<1>5. one \in Seq(Range(one))
  BY <1>2, AnySeq
<1> HIDE DEF a, one, un, L, N, n
<1>6. /\ st \in Seq(Range(st))
      /\ 1 \in 1 .. Len(st) /\ st[1] = a
      /\ \A i \in 1 .. L : 1 + i \in 1 .. Len(st) /\ st[1 + i] = un[i]
      /\ \A i \in 1 .. Len(st) : i = 1 \/ \E j \in 1 .. L : i = 1 + j
  <2>0. one \in Seq(Range(one)) /\ un \in Seq(Range(un))
    BY <1>4, <1>5
  <2>1. /\ st \in Seq(Range(st))
        /\ \A i \in 1 .. Len(one) : i \in 1 .. Len(st) /\ st[i] = one[i]
        /\ \A i \in 1 .. Len(un) : Len(one) + i \in 1 .. Len(st) /\ st[Len(one) + i] = un[i]
        /\ \A i \in 1 .. Len(st) : i \in 1 .. Len(one) \/ \E j \in 1 .. Len(un) : i = Len(one) + j
    <3>1. Joined(st, one, un)
      BY <2>0, JoinIs
    <3> HIDE DEF st
    <3> QED BY <3>1 DEF Joined
  <2>2. 1 \in 1 .. 1 /\ \A i \in 1 .. 1 : i = 1
    OBVIOUS
  <2>3. Len(one) = 1 /\ one[1] = a /\ Len(un) = L
    BY <1>2, <1>4
  <2> HIDE DEF st
  <2>4. st[1] = a /\ 1 \in 1 .. Len(st)
    BY <2>1, <2>2, <2>3
  <2>5. \A i \in 1 .. L : 1 + i \in 1 .. Len(st) /\ st[1 + i] = un[i]
    BY <2>1, <2>3
  <2>6. \A i \in 1 .. Len(st) : i = 1 \/ \E j \in 1 .. L : i = 1 + j
    BY <2>1, <2>2, <2>3
  <2> QED BY <2>1, <2>4, <2>5, <2>6
<1> HIDE DEF st
<1>7. \A k \in 1 .. L :
        /\ st[1 + k].path = <<n>> \o as[k].path /\ st[1 + k].v = as[k].v
        /\ Whole(st[1 + k]) /\ 1 + k \in 1 .. Len(st)
  BY <1>4, <1>6
<1>8. \A k \in 1 .. L :
        /\ <<n>> \o as[k].path \in Seq(N) \ {<< >>} /\ (<<n>> \o as[k].path)[1] = n
        /\ Len(as[k].path) \in Nat \ {0} /\ Len(<<n>> \o as[k].path) = Len(as[k].path) + 1
        /\ Front(<<n>> \o as[k].path) = <<n>> \o Front(as[k].path)
        /\ Len(as[k].path) = 1 => <<n>> \o Front(as[k].path) = <<n>>
  <2> TAKE k \in 1 .. L
  <2> DEFINE s == as[k].path
  <2>3. s \in Seq(N) /\ s # << >> /\ n \in N
    BY <1>3 DEF N, n
  <2> HIDE DEF s, n, N
  <2>2. Len(s) \in Nat \ {0}
    BY <2>3, FrontIs
  <2>4. /\ <<n>> \o s \in Seq(N) \ {<< >>}
        /\ Len(<<n>> \o s) = Len(s) + 1 /\ (<<n>> \o s)[1] = n
        /\ Front(<<n>> \o s) = <<n>> \o Front(s)
        /\ Len(s) = 1 => <<n>> \o Front(s) = <<n>>
    BY <2>3, BehindIs
  <2> QED BY <2>2, <2>4 DEF s
<1>80. \A k \in 1 .. L : (Len(as[k].path) # 1 => Len(as[k].path) > 1) /\ Len(st[1 + k].path) # 1
  <2> TAKE k \in 1 .. L
  <2> DEFINE m == Len(as[k].path)
  <2>1. m \in Nat \ {0} /\ Len(st[1 + k].path) = m + 1
    BY <1>7, <1>8
  <2> HIDE DEF m
  <2>2. (m # 1 => m > 1) /\ m + 1 # 1
    BY <2>1, LengthFacts
  <2> QED BY <2>1, <2>2 DEF m
<1>81. Len(st[1].path) = 1 /\ ~ (Len(st[1].path) > 1)
  <2>1. Len(st[1].path) = 1
    BY <1>1, <1>6
  <2>2. ~ (1 > 1)
    OBVIOUS
  <2> QED BY <2>1, <2>2
<1> HIDE DEF n
<1>9. PathsOK(st, {n})
  <2>1. ASSUME NEW k \in 1 .. Len(st)
        PROVE  Whole(st[k]) /\ st[k].path \in Seq(N) \ {<< >>} /\ st[k].path[1] \in {n}
    <3>1. CASE k = 1
      BY <1>1, <1>6, <3>1
    <3>2. CASE k # 1
      <4>1. PICK j \in 1 .. L : k = 1 + j
        BY <1>6, <3>2
      <4>2. Whole(st[1 + j]) /\ st[1 + j].path = <<n>> \o as[j].path
        BY <1>7
      <4>3. <<n>> \o as[j].path \in Seq(N) \ {<< >>} /\ (<<n>> \o as[j].path)[1] = n
        BY <1>8
      <4> QED BY <4>1, <4>2, <4>3
    <3> QED BY <3>1, <3>2
  <2> QED BY <1>6, <2>1 DEF PathsOK, N
<1>10. ParentsOK(st)
  <2>1. ASSUME NEW k \in 1 .. Len(st), Len(st[k].path) > 1
        PROVE  \E j \in 1 .. Len(st) : st[j].v.type = "module" /\ st[j].path = Front(st[k].path)
    <3>2. PICK i \in 1 .. L : k = 1 + i
      BY <1>6, <1>81, <2>1
    <3>3. Front(st[k].path) = <<n>> \o Front(as[i].path)
      BY <1>7, <1>8, <3>2
    <3>4. CASE Len(as[i].path) = 1
      <4>1. Front(st[k].path) = <<n>>
        BY <1>8, <3>3, <3>4
      <4>2. st[1].v.type = "module" /\ st[1].path = <<n>> /\ 1 \in 1 .. Len(st)
        BY <1>1, <1>6
      <4> QED BY <4>1, <4>2
    <3>5. CASE Len(as[i].path) # 1
      <4>1. Len(as[i].path) > 1
        BY <1>80, <3>5
      <4>2. PICK j \in 1 .. L : as[j].v.type = "module" /\ as[j].path = Front(as[i].path)
        BY <4>1 DEF Branch, ParentsOK, L
      <4>3. st[1 + j].v.type = "module" /\ st[1 + j].path = <<n>> \o Front(as[i].path) /\ 1 + j \in 1 .. Len(st)
        BY <1>7, <4>2
      <4> QED BY <3>3, <4>3
    <3> QED BY <3>4, <3>5
  <2> QED BY <2>1 DEF ParentsOK
<1>11. RefsOK(st, conns)
  <2>1. ASSUME NEW k \in 1 .. Len(st), st[k].v.type = "ref"
        PROVE  st[k].v \in ConnsIn(project) /\ Len(st[k].path) # 1
    <3>0. st[1].v.type # "ref"
      BY <1>1, <1>6
    <3>2. PICK i \in 1 .. L : k = 1 + i
      BY <1>6, <2>1, <3>0
    <3>3. Len(st[k].path) # 1
      BY <1>80, <3>2
    <3>4. st[k].v = as[i].v
      BY <1>7, <3>2
    <3>5. st[k].v \in ConnsIn(project)
      BY <2>1, <3>4 DEF Branch, RefsOK, L
    <3> QED BY <3>3, <3>5
  <2> QED BY <2>1 DEF RefsOK
<1>12. DistinctPaths(st)
  <2>1. ASSUME NEW k \in 1 .. L PROVE st[1].path # st[1 + k].path
    BY <1>80, <1>81
  <2>2. ASSUME NEW j \in 1 .. L, NEW k \in 1 .. L, st[1 + j].path = st[1 + k].path PROVE j = k
    <3>1. <<n>> \o as[j].path = <<n>> \o as[k].path
      BY <1>7, <2>2
    <3>2. as[j].path \in Seq(N) /\ as[k].path \in Seq(N) /\ n \in N
      BY <1>3 DEF n, N
    <3>3. as[j].path = as[k].path
      BY <3>1, <3>2, BehindSame
    <3> QED BY <3>3 DEF Branch, DistinctPaths, L
  <2>3. ASSUME NEW j \in 1 .. Len(st), NEW k \in 1 .. Len(st), st[j].path = st[k].path PROVE j = k
    <3>1. j = 1 \/ \E i \in 1 .. L : j = 1 + i
      BY <1>6
    <3>2. k = 1 \/ \E i \in 1 .. L : k = 1 + i
      BY <1>6
    <3> QED BY <2>1, <2>2, <2>3, <3>1, <3>2
  <2> QED BY <2>3 DEF DistinctPaths
<1> QED BY <1>9, <1>10, <1>11, <1>12 DEF Branch, st, one, un, a, n

\* what avar() makes for one variable
LEMMA BranchAVar ==
  ASSUME project \in Projects, NEW v \in VarsIn(project), NEW conns \in ConnListsIn(project), NEW f,
         v.type = "module" /\ v.name \in DOMAIN f => \E heads : Branch(f[v.name][v.conns], heads, v.conns)
  PROVE  Branch(avar(f, Connected(v, conns)), {v.name}, conns)
<1> DEFINE u == Connected(v, conns)
           one == <<[path |-> <<u.name>>, v |-> u]>>
<1>1. u.name = v.name /\ (u = v \/ (u \in ConnsIn(project) /\ u.type = "ref" /\ conns # << >>))
  BY ConnectedIs
<1>2. v.type # "ref" /\ v.name \in NamesIn(project)
  BY ProjectFacts
<1> HIDE DEF u
<1>3. u.name \in NamesIn(project) /\ (u.type = "ref" => u \in ConnsIn(project) /\ conns # << >>)
  BY <1>1, <1>2
<1>4. CASE u.type = "module" /\ u.name \in DOMAIN f
  <2>1. u = v
    BY <1>1, <1>4
  <2>2. PICK heads : Branch(f[u.name][u.conns], heads, u.conns)
    BY <1>4, <2>1
  <2>3. avar(f, u) = one \o Under(u.name, f[u.name][u.conns])
    BY <1>4 DEF avar
  <2> DEFINE as == f[u.name][u.conns]
             inner == u.conns
  <2>4. u.type = "module" /\ u.name \in NamesIn(project) /\ Branch(as, heads, inner)
    BY <1>3, <1>4, <2>2
  <2>5. Branch(one \o Under(u.name, as), {u.name}, conns)
    <3> HIDE DEF as, inner
    <3> QED BY <2>4, BranchUnder
  <2> HIDE DEF one
  <2> QED BY <1>1, <2>3, <2>5 DEF u
<1>5. CASE ~ (u.type = "module" /\ u.name \in DOMAIN f)
  <2>1. avar(f, u) = one \o << >>
    BY <1>5 DEF avar
  <2>2. one \o << >> = one
    OBVIOUS
  <2>3. Branch(one, {u.name}, conns)
    BY <1>3, BranchOne
  <2> HIDE DEF one
  <2> QED BY <1>1, <2>1, <2>2, <2>3 DEF u
<1> QED BY <1>4, <1>5

\* the names of the first k variables of a model
Heads(own, k) == {own[j].name : j \in 1 .. k}

LEMMA InstancesBranch ==
  ASSUME project \in Projects, NEW model \in DOMAIN project, NEW conns \in ConnListsIn(project), NEW f,
         \A v \in Range(project[model]) : v.type = "module" /\ v.name \in DOMAIN f =>
           \E heads : Branch(f[v.name][v.conns], heads, v.conns)
  PROVE  Branch(Instances(f, project[model], conns), Heads(project[model], Len(project[model])), conns)
<1> DEFINE own == project[model]
           n == Len(own)
           s == Pieces(f, own, conns)
           a == CHOOSE a : Concats(a, s, n)
<1>1. /\ n \in Nat
      /\ \A k \in 1 .. n : own[k] \in VarsIn(project) /\ own[k] \in Range(own)
      /\ \A j, k \in 1 .. n : own[j].name = own[k].name => j = k
  BY ProjectFacts
<1>2. Concats(a, s, n) /\ Instances(f, own, conns) = a[n]
  <2>1. Len(own) \in Nat
    BY <1>1
  <2> HIDE DEF own
  <2> QED BY <2>1, InstancesIs
<1>3. ASSUME NEW k \in 1 .. n PROVE Branch(s[k], {own[k].name}, conns)
  <2>1. s[k] = avar(f, Connected(own[k], conns))
    BY DEF Pieces
  <2> DEFINE v == own[k]
  <2>2. /\ v \in VarsIn(project)
        /\ v.type = "module" /\ v.name \in DOMAIN f => \E heads : Branch(f[v.name][v.conns], heads, v.conns)
    BY <1>1
  <2>3. Branch(avar(f, Connected(v, conns)), {v.name}, conns)
    <3> HIDE DEF v
    <3> QED BY <2>2, BranchAVar
  <2> QED BY <2>1, <2>3
<1> HIDE DEF a, s
<1>4. a[0] = << >> /\ \A k \in 1 .. n : a[k] = a[k - 1] \o s[k]
  <2> HIDE DEF n
  <2> QED BY <1>1, <1>2, ConcatsUnfold
<1> DEFINE Done(k) == Branch(a[k], Heads(own, k), conns)
           Open == {k \in 0 .. n : ~ Done(k)}
<1>5. Done(0)
  <2>1. Heads(own, 0) = {}
    BY DEF Heads
  <2> QED BY <1>4, <2>1, BranchEmpty
<1>6. ASSUME NEW k \in 1 .. n, Done(k - 1) PROVE Done(k)
  <2>1. a[k] = a[k - 1] \o s[k]
    BY <1>4
  <2>2. Heads(own, k) = Heads(own, k - 1) \cup {own[k].name}
    <3>1. \A j \in 1 .. k : j \in 1 .. k - 1 \/ j = k
      BY <1>1
    <3>2. \A j \in 1 .. k - 1 : j \in 1 .. k
      BY <1>1
    <3>3. k \in 1 .. k
      BY <1>1
    <3> HIDE DEF own
    <3> QED BY <3>1, <3>2, <3>3 DEF Heads
  <2>3. Heads(own, k - 1) \cap {own[k].name} = {}
    <3>1. \A j \in 1 .. k - 1 : j \in 1 .. n /\ j # k
      BY <1>1
    <3>2. \A j \in 1 .. k - 1 : own[j].name # own[k].name
      BY <1>1, <3>1
    <3> HIDE DEF own
    <3> QED BY <3>2 DEF Heads
  <2>4. Branch(s[k], {own[k].name}, conns)
    BY <1>3
  <2>5. Branch(a[k - 1] \o s[k], Heads(own, k - 1) \cup {own[k].name}, conns)
    <3> DEFINE x == a[k - 1]
               y == s[k]
               A == Heads(own, k - 1)
               B == {own[k].name}
    <3>1. Branch(x, A, conns) /\ Branch(y, B, conns) /\ A \cap B = {}
      BY <1>6, <2>3, <2>4
    <3> HIDE DEF x, y, A, B
    <3>2. Branch(x \o y, A \cup B, conns)
      BY <3>1, BranchJoin
    <3> QED BY <3>2 DEF x, y, A, B
  <2> QED BY <2>1, <2>2, <2>5
<1>7. Open = {}
  <2> SUFFICES ASSUME Open # {} PROVE FALSE
    OBVIOUS
  <2>1. Open \in SUBSET Nat
    OBVIOUS
  <2>2. PICK k \in Open : \A y \in Open : k <= y
    <3> HIDE DEF Open
    <3> QED BY <2>1, LeastNat
  <2>3. k # 0
    BY <1>5
  <2> HIDE DEF Done
  <2>4. k \in 1 .. n /\ k - 1 \in 0 .. n /\ ~ (k <= k - 1)
    BY <2>2, <2>3
  <2>5. Done(k - 1)
    BY <2>2, <2>4
  <2>6. Done(k)
    BY <1>6, <2>4, <2>5 DEF Done
  <2> QED BY <2>2, <2>6
<1>8. n \in 0 .. n
  BY <1>1
<1>9. Done(n)
  <2> HIDE DEF Done
  <2> QED BY <1>7, <1>8
<1> QED BY <1>2, <1>9

LEMMA ModuleBranch ==
  ASSUME project \in Projects, NEW model \in DOMAIN project, NEW conns \in ConnListsIn(project)
  PROVE  Branch(module[model][conns], Heads(project[model], Len(project[model])), conns)
<1> DEFINE f == module
           Good(m) == \A c \in ConnListsIn(project) :
                        Branch(f[m][c], Heads(project[m], Len(project[m])), c)
<1>0. PICK n \in Nat : \E depth \in [DOMAIN project -> 0 .. n] :
        \A m \in DOMAIN project : \A v \in Range(project[m]) :
          v.type = "module" /\ v.name \in DOMAIN project => depth[v.name] < depth[m]
  BY ProjectFacts
<1>1. PICK depth \in [DOMAIN project -> 0 .. n] :
        \A m \in DOMAIN project : \A v \in Range(project[m]) :
          v.type = "module" /\ v.name \in DOMAIN project => depth[v.name] < depth[m]
  BY <1>0
<1>2. \A m \in DOMAIN project : depth[m] \in Nat
  BY <1>1
<1>3. /\ DOMAIN f = DOMAIN project
      /\ \A m \in DOMAIN project : \A c \in ConnListsIn(project) : f[m][c] = Instances(f, project[m], c)
  BY ModuleIs
<1> HIDE DEF f
<1>4. \A m \in DOMAIN project : \A v \in Range(project[m]) : v.conns \in ConnListsIn(project)
  BY ProjectFacts DEF VarsIn
<1>5. ASSUME NEW m \in DOMAIN project,
             \A v \in Range(project[m]) : v.type = "module" /\ v.name \in DOMAIN project => Good(v.name)
      PROVE  Good(m)
  <2> TAKE c \in ConnListsIn(project)
  <2>1. \A v \in Range(project[m]) : v.type = "module" /\ v.name \in DOMAIN f =>
          \E heads : Branch(f[v.name][v.conns], heads, v.conns)
    BY <1>3, <1>4, <1>5
  <2>2. Branch(Instances(f, project[m], c), Heads(project[m], Len(project[m])), c)
    BY <2>1, InstancesBranch
  <2> QED BY <1>3, <2>2
<1> HIDE DEF Good
<1> DEFINE Open == {depth[m] : m \in {m \in DOMAIN project : ~ Good(m)}}
<1>6. Open = {}
  <2> SUFFICES ASSUME Open # {} PROVE FALSE
    OBVIOUS
  <2>1. Open \in SUBSET Nat
    BY <1>2
  <2>2. PICK r \in Open : \A y \in Open : r <= y
    <3> HIDE DEF Open
    <3> QED BY <2>1, LeastNat
  <2>3. PICK m \in DOMAIN project : ~ Good(m) /\ r = depth[m]
    BY <2>2
  <2>4. ASSUME NEW v \in Range(project[m]), v.type = "module", v.name \in DOMAIN project
        PROVE  Good(v.name)
    <3>1. depth[v.name] < depth[m] /\ depth[v.name] \in Nat /\ depth[m] \in Nat
      BY <1>1, <1>2, <2>4
    <3>2. ~ (depth[m] <= depth[v.name])
      BY <3>1
    <3>3. depth[v.name] \notin Open
      BY <2>2, <2>3, <3>2
    <3> QED BY <2>4, <3>3
  <2> QED BY <1>5, <2>3, <2>4
<1>7. Good(model)
  BY <1>6
<1> QED BY <1>7 DEF Good, f

-----------------------------------------------------------------------------
(* The AVars of a simulation.                                              *)

\* the tree that module() makes for the root
Tree(as) ==
  /\ as[1] = TimeVar /\ 1 \in 1 .. Len(as)
  /\ Branch(as, NamesIn(project), << >>)

LEMMA TreeIs ==
  ASSUME project \in Projects, Main \in DOMAIN project
  PROVE  Tree(<<TimeVar>> \o module[Main][<< >>])
<1> DEFINE x == <<TimeVar>>
           y == module[Main][<< >>]
           u == TimeVar.v
           B == Heads(project[Main], Len(project[Main]))
<1>1. << >> \in ConnListsIn(project)
  BY DEF ConnListsIn
<1>2. Branch(y, B, << >>)
  BY <1>1, ModuleBranch
<1>3. Branch(x, {"time"}, << >>)
  <2>1. u.name = "time" /\ u.type = "aux" /\ TimeVar = [path |-> <<u.name>>, v |-> u]
    BY DEF TimeVar
  <2>2. u.name \in NamesIn(project)
    BY <2>1 DEF NamesIn
  <2> HIDE DEF u
  <2>3. u.type # "ref"
    BY <2>1
  <2>4. Branch(<<[path |-> <<u.name>>, v |-> u]>>, {u.name}, << >>)
    BY <2>2, <2>3, BranchOne
  <2> QED BY <2>1, <2>4
<1>4. /\ Len(project[Main]) \in Nat
      /\ \A k \in 1 .. Len(project[Main]) :
           project[Main][k].name # "time" /\ project[Main][k].name \in NamesIn(project)
  <2>1. \A v \in Range(project[Main]) : v.name # "time"
    BY ProjectsAssumption
  <2>2. Len(project[Main]) \in Nat
    BY ProjectFacts
  <2>3. \A k \in 1 .. Len(project[Main]) :
          project[Main][k] \in Range(project[Main]) /\ project[Main][k] \in VarsIn(project)
    BY ProjectFacts
  <2>4. \A k \in 1 .. Len(project[Main]) : project[Main][k].name \in NamesIn(project)
    BY <2>3 DEF NamesIn
  <2> QED BY <2>1, <2>2, <2>3, <2>4
<1>5. {"time"} \cap B = {} /\ {"time"} \cup B \subseteq NamesIn(project)
  BY <1>4 DEF Heads, NamesIn
<1> HIDE DEF x, y, B
<1>6. Branch(x \o y, {"time"} \cup B, << >>)
  BY <1>2, <1>3, <1>5, BranchJoin
<1>7. Branch(x \o y, NamesIn(project), << >>)
  BY <1>5, <1>6 DEF Branch, PathsOK
<1>8. x \in Seq(Range(x)) /\ y \in Seq(Range(y))
  BY <1>2, <1>3 DEF Branch, PathsOK
<1>9. Joined(x \o y, x, y)
  BY <1>8, JoinIs
<1>10. Len(x) = 1 /\ x[1] = TimeVar
  BY DEF x
<1>11. 1 \in 1 .. Len(x)
  BY <1>10
<1>12. (x \o y)[1] = TimeVar /\ 1 \in 1 .. Len(x \o y)
  BY <1>9, <1>10, <1>11 DEF Joined
<1>13. Tree(x \o y)
  BY <1>7, <1>12 DEF Tree
<1> QED BY <1>13 DEF x, y

LEMMA TreeFacts ==
  ASSUME Tree(avars)
  PROVE  /\ Len(avars) \in Nat /\ DOMAIN avars = 1 .. Len(avars) /\ avars \in Seq(Range(avars))
         /\ \A k \in DOMAIN avars : avars[k].path \in Seq(NamesIn(project)) \ {<< >>}
         /\ \A j, k \in DOMAIN avars : avars[j].path = avars[k].path => j = k
<1>1. avars \in Seq(Range(avars))
  BY DEF Tree, Branch, PathsOK
<1>2. Len(avars) \in Nat /\ DOMAIN avars = 1 .. Len(avars)
  BY <1>1, SeqIs
<1>3. \A k \in 1 .. Len(avars) : avars[k].path \in Seq(NamesIn(project)) \ {<< >>}
  BY DEF Tree, Branch, PathsOK
<1>4. \A j, k \in 1 .. Len(avars) : avars[j].path = avars[k].path => j = k
  BY DEF Tree, Branch, DistinctPaths
<1> QED BY <1>1, <1>2, <1>3, <1>4

\* there is a module at p
ModuleAt(p) == \E k \in DOMAIN avars : avars[k].path = p /\ avars[k].v.type = "module"

\* nothing comes in the way of the module meant
Straight(meant, a) ==
  \A k \in DOMAIN avars :
    avars[k].v.type = "module" /\ StartsWith(Last(avars[k].path), a) /\ Front(avars[k].path) = Front(meant)
      => avars[k].path = meant \/ \E j \in 1 .. k - 1 : avars[j].path = meant /\ avars[j].v.type = "module"

\* resolve at a part of the name that stands for a module
LEMMA HopsInside ==
  ASSUME project \in Projects, Tree(avars), NEW S, NEW m \in Seq(S), m # << >>, NamesIn(project) \subseteq S,
         NEW name, NEW d, d < Len(name), name[d] = Last(m), Straight(m, name[d])
  PROVE  First(Matches(Front(m), name, d)) = IF ModuleAt(m) THEN m ELSE Unset
<1> DEFINE hits == Matches(Front(m), name, d)
<1>1. hits = {k \in DOMAIN avars : /\ Front(avars[k].path) = Front(m)
                                   /\ avars[k].v.type = "module" /\ StartsWith(Last(avars[k].path), name[d])}
  BY DEF Matches
<1>2. /\ Len(avars) \in Nat /\ DOMAIN avars = 1 .. Len(avars)
      /\ \A k \in DOMAIN avars : avars[k].path \in Seq(NamesIn(project)) \ {<< >>}
      /\ \A j, k \in DOMAIN avars : avars[j].path = avars[k].path => j = k
  BY TreeFacts
<1> HIDE DEF hits
<1>3. \A k \in hits : avars[k].path = m \/ \E j \in 1 .. k - 1 : avars[j].path = m /\ avars[j].v.type = "module"
  BY <1>1 DEF Straight
<1>4. \A k \in hits : k \in DOMAIN avars /\ k \in Nat
  BY <1>1, <1>2
<1>5. \A k \in hits : \A j \in 1 .. k - 1 : j \in DOMAIN avars /\ ~ (k <= j)
  BY <1>2, <1>4
<1>6. CASE ~ ModuleAt(m)
  <2>1. hits = {}
    BY <1>1, <1>3, <1>4, <1>5, <1>6 DEF ModuleAt
  <2> QED BY <1>6, <2>1 DEF First, hits
<1>7. CASE ModuleAt(m)
  <2>1. PICK k \in DOMAIN avars : avars[k].path = m /\ avars[k].v.type = "module"
    BY <1>7 DEF ModuleAt
  <2>2. StartsWith(Last(m), Last(m))
    <3> DEFINE N == NamesIn(project)
    <3>1. m \in Seq(N) /\ m # << >>
      BY <1>2, <2>1
    <3>2. Last(m) \in N
      <4> HIDE DEF N
      <4> QED BY <3>1, FrontIs
    <3> QED BY <3>2, ProjectFacts
  <2>3. k \in hits
    BY <1>1, <2>1, <2>2
  <2>4. hits \in SUBSET Nat /\ hits # {}
    BY <1>4, <2>3
  <2>5. Min(hits) \in hits /\ \A j \in hits : Min(hits) <= j
    BY <2>4, MinOfNats
  <2>6. avars[Min(hits)].path = m
    <3> DEFINE i == Min(hits)
    <3>1. CASE \E j \in 1 .. i - 1 : avars[j].path = m /\ avars[j].v.type = "module"
      <4>1. PICK j \in 1 .. i - 1 : avars[j].path = m
        BY <3>1
      <4>2. j \in DOMAIN avars /\ ~ (i <= j)
        BY <1>5, <2>5
      <4>3. j = k
        BY <1>2, <2>1, <4>1, <4>2
      <4> QED BY <2>3, <2>5, <4>2, <4>3
    <3>2. CASE ~ \E j \in 1 .. i - 1 : avars[j].path = m /\ avars[j].v.type = "module"
      BY <1>3, <2>5, <3>2
    <3> QED BY <3>1, <3>2
  <2> QED BY <1>7, <2>4, <2>6 DEF First, hits
<1> QED BY <1>6, <1>7

\* resolve at the last part
LEMMA HopsLast ==
  ASSUME Tree(avars), NEW S, NEW m \in Seq(S), m # << >>, NamesIn(project) \subseteq S,
         NEW name, NEW d, ~ (d < Len(name)), name[d] = Last(m)
  PROVE  First(Matches(Front(m), name, d)) = IF m \in Paths THEN m ELSE Unset
<1> DEFINE hits == Matches(Front(m), name, d)
<1>1. hits = {k \in DOMAIN avars : Front(avars[k].path) = Front(m) /\ Last(avars[k].path) = name[d]}
  BY DEF Matches
<1>2. /\ Len(avars) \in Nat /\ DOMAIN avars = 1 .. Len(avars)
      /\ \A k \in DOMAIN avars : avars[k].path \in Seq(NamesIn(project)) \ {<< >>}
  BY TreeFacts
<1>3. \A k \in DOMAIN avars : avars[k].path \in Seq(S) /\ avars[k].path # << >>
  <2>1. Seq(NamesIn(project)) \subseteq Seq(S)
    BY SeqMonotonic
  <2> QED BY <1>2, <2>1
<1> HIDE DEF hits
<1>4. \A k \in hits : avars[k].path = m
  <2> TAKE k \in hits
  <2> DEFINE s == avars[k].path
  <2>1. s \in Seq(S) /\ s # << >> /\ Front(s) = Front(m) /\ Last(s) = Last(m)
    BY <1>1, <1>3
  <2> HIDE DEF s
  <2>2. s = m
    BY <2>1, FrontAndLast
  <2> QED BY <2>2 DEF s
<1>5. \A k \in DOMAIN avars : avars[k].path = m => k \in hits
  BY <1>1
<1>6. CASE hits = {}
  <2>1. m \notin Paths
    BY <1>5, <1>6 DEF Paths
  <2> QED BY <1>6, <2>1 DEF First, hits
<1>7. CASE hits # {}
  <2>1. hits \in SUBSET Nat
    BY <1>1, <1>2
  <2>2. Min(hits) \in hits
    BY <1>7, <2>1, MinOfNats
  <2>3. avars[Min(hits)].path = m /\ Min(hits) \in DOMAIN avars
    BY <1>1, <1>4, <2>2
  <2>4. m \in Paths
    BY <2>3 DEF Paths
  <2> QED BY <1>7, <2>3, <2>4 DEF First, hits
<1> QED BY <1>6, <1>7

\* f is where resolve has got to behind each part of the name
Walk(f, path, name, n) ==
  f = [d \in 1 .. n |-> IF d = 1 THEN First(Matches(path, name, d))
                        ELSE IF f[d - 1] = Unset THEN Unset ELSE First(Matches(f[d - 1], name, d))]

LEMMA WalkExists ==
  ASSUME NEW path, NEW name, NEW n \in Nat
  PROVE  \E f : Walk(f, path, name, n)
<1> DEFINE Step(f, d) == IF d = 1 THEN First(Matches(path, name, d))
                         ELSE IF f[d - 1] = Unset THEN Unset ELSE First(Matches(f[d - 1], name, d))
           Open == {k \in Nat : ~ \E f : Walk(f, path, name, k)}
<1>1. SUFFICES ASSUME Open # {} PROVE FALSE
  OBVIOUS
<1>2. PICK n1 \in Open : \A y \in Open : n1 <= y
  <2>1. Open \in SUBSET Nat
    OBVIOUS
  <2> HIDE DEF Open
  <2> QED BY <1>1, <2>1, LeastNat
<1>3. CASE n1 = 0
  <2> DEFINE f == [d \in 1 .. 0 |-> Unset]
  <2>1. f = [d \in 1 .. 0 |-> Step(f, d)]
    <3>1. 1 .. 0 = {}
      OBVIOUS
    <3> HIDE DEF Step
    <3> QED BY <3>1
  <2> HIDE DEF f
  <2>2. Walk(f, path, name, 0)
    BY <2>1 DEF Walk
  <2> QED BY <1>2, <1>3, <2>2
<1>4. CASE n1 # 0
  <2>1. n1 - 1 \in Nat /\ n1 - 1 \notin Open
    BY <1>2, <1>4
  <2>2. PICK g : Walk(g, path, name, n1 - 1)
    BY <2>1
  <2> DEFINE f == [d \in 1 .. n1 |-> Step(g, d)]
  <2>3. \A d \in 1 .. n1 - 1 : f[d] = g[d]
    <3>1. \A d \in 1 .. n1 - 1 : g[d] = Step(g, d)
      <4>1. g = [d \in 1 .. n1 - 1 |-> Step(g, d)]
        BY <2>2 DEF Walk
      <4> HIDE DEF Step
      <4> QED BY <4>1
    <3>2. \A d \in 1 .. n1 - 1 : d \in 1 .. n1
      BY <1>2
    <3> HIDE DEF Step
    <3> QED BY <3>1, <3>2
  <2>4. \A d \in 1 .. n1 : d # 1 => d - 1 \in 1 .. n1 - 1
    BY <1>2
  <2>5. \A d \in 1 .. n1 : d # 1 => f[d - 1] = g[d - 1]
    BY <2>3, <2>4
  <2>6. \A d \in 1 .. n1 : Step(f, d) = Step(g, d)
    <3> HIDE DEF f
    <3> QED BY <2>5
  <2>7. f = [d \in 1 .. n1 |-> Step(f, d)]
    <3>1. \A d \in 1 .. n1 : f[d] = Step(f, d)
      <4> HIDE DEF Step
      <4> QED BY <2>6
    <3>2. f = [d \in 1 .. n1 |-> f[d]]
      OBVIOUS
    <3> HIDE DEF f, Step
    <3> QED BY <3>1, <3>2
  <2> HIDE DEF f
  <2>8. Walk(f, path, name, n1)
    BY <2>7 DEF Walk
  <2> QED BY <1>2, <2>8
<1> QED BY <1>3, <1>4

LEMMA WalkIs ==
  ASSUME NEW path, NEW name, Len(name) \in Nat \ {0}
  PROVE  \E f : /\ resolve(path, name) = f[Len(name)]
                /\ f[1] = First(Matches(path, name, 1))
                /\ \A d \in 2 .. Len(name) :
                     f[d] = IF f[d - 1] = Unset THEN Unset ELSE First(Matches(f[d - 1], name, d))
<1> DEFINE n == Len(name)
           Step(f, d) == IF d = 1 THEN First(Matches(path, name, d))
                         ELSE IF f[d - 1] = Unset THEN Unset ELSE First(Matches(f[d - 1], name, d))
           f == CHOOSE f : Walk(f, path, name, n)
<1>1. resolve(path, name) = f[n]
  BY DEF resolve, Walk
<1>2. Walk(f, path, name, n)
  <2>1. n \in Nat
    OBVIOUS
  <2> HIDE DEF n
  <2> QED BY <2>1, WalkExists
<1> HIDE DEF f
<1>3. f = [d \in 1 .. n |-> Step(f, d)]
  BY <1>2 DEF Walk
<1>4. \A d \in 1 .. n : f[d] = Step(f, d)
  <2> HIDE DEF Step
  <2> QED BY <1>3
<1>5. 1 \in 1 .. n /\ \A d \in 2 .. n : d \in 1 .. n /\ d # 1
  OBVIOUS
<1>6. f[1] = First(Matches(path, name, 1))
  BY <1>4, <1>5
<1>7. \A d \in 2 .. n : f[d] = IF f[d - 1] = Unset THEN Unset ELSE First(Matches(f[d - 1], name, d))
  BY <1>4, <1>5
<1> QED BY <1>1, <1>6, <1>7

\* what the first d parts of the name mean
LEMMA MeantIs ==
  ASSUME NEW S, NEW path \in Seq(S), NEW name \in Seq(S), NEW d \in 1 .. Len(name)
  PROVE  LET m == path \o SubSeq(name, 1, d)
         IN  /\ m \in Seq(S) \ {<< >>} /\ Last(m) = name[d] /\ Len(m) = Len(path) + d
             /\ Front(m) = IF d = 1 THEN path ELSE path \o SubSeq(name, 1, d - 1)
             /\ d = Len(name) => m = path \o name
<1> DEFINE L == Len(path)
           n == Len(name)
           s == SubSeq(name, 1, d)
           r == SubSeq(name, 1, d - 1)
           m == path \o s
<1>1. L \in Nat /\ n \in Nat /\ d \in 1 .. n /\ d \in Nat /\ d # 0 /\ d - 1 \in Nat
  OBVIOUS
<1>2. \A i \in 1 .. n : name[i] \in S
  OBVIOUS
<1>3. s \in Seq(S) /\ Len(s) = d /\ \A i \in 1 .. d : s[i] = name[i]
  <2>1. d \in Int /\ 1 \in Int /\ \A i \in 1 .. d : name[i] \in S
    BY <1>1, <1>2
  <2>2. /\ SubSeq(name, 1, d) \in Seq(S) /\ Len(SubSeq(name, 1, d)) = (IF 1 <= d THEN d - 1 + 1 ELSE 0)
        /\ \A i \in 1 .. d - 1 + 1 : SubSeq(name, 1, d)[i] = name[1 + i - 1]
    BY <2>1, SubSeqProperties
  <2> QED BY <1>1, <2>2
<1>4. r \in Seq(S) /\ Len(r) = d - 1 /\ \A i \in 1 .. d - 1 : r[i] = name[i]
  <2> DEFINE e == d - 1
  <2>1. e \in Nat /\ e \in Int /\ 1 \in Int /\ \A i \in 1 .. e : name[i] \in S
    BY <1>1, <1>2
  <2> HIDE DEF e
  <2>2. /\ SubSeq(name, 1, e) \in Seq(S) /\ Len(SubSeq(name, 1, e)) = (IF 1 <= e THEN e - 1 + 1 ELSE 0)
        /\ \A i \in 1 .. e - 1 + 1 : SubSeq(name, 1, e)[i] = name[1 + i - 1]
    BY <2>1, SubSeqProperties
  <2>3. Len(SubSeq(name, 1, e)) = e /\ \A i \in 1 .. e : SubSeq(name, 1, e)[i] = name[i]
    BY <2>1, <2>2
  <2> QED BY <2>2, <2>3 DEF e
<1> HIDE DEF s, r
<1>5. m \in Seq(S) /\ Len(m) = L + d /\ \A i \in 1 .. L + d : m[i] = IF i <= L THEN path[i] ELSE s[i - L]
  <2>1. s \in Seq(S) /\ Len(s) = d
    BY <1>3
  <2>2. /\ path \o s \in Seq(S) /\ Len(path \o s) = Len(path) + Len(s)
        /\ \A i \in 1 .. Len(path) + Len(s) : (path \o s)[i] = IF i <= Len(path) THEN path[i] ELSE s[i - Len(path)]
    BY <2>1, ConcatProperties
  <2> QED BY <2>1, <2>2
<1> DEFINE mr == path \o r
<1>6. /\ mr \in Seq(S) /\ Len(mr) = L + (d - 1)
      /\ \A i \in 1 .. L + (d - 1) : mr[i] = IF i <= L THEN path[i] ELSE r[i - L]
  <2>1. r \in Seq(S) /\ Len(r) = d - 1
    BY <1>4
  <2>2. /\ path \o r \in Seq(S) /\ Len(path \o r) = Len(path) + Len(r)
        /\ \A i \in 1 .. Len(path) + Len(r) : (path \o r)[i] = IF i <= Len(path) THEN path[i] ELSE r[i - Len(path)]
    BY <2>1, ConcatProperties
  <2> QED BY <2>1, <2>2
<1> HIDE DEF m, mr
<1>7. m # << >>
  <2>1. Len(m) # 0
    BY <1>1, <1>5
  <2> QED BY <2>1
<1>8. /\ Front(m) \in Seq(S) /\ Len(Front(m)) = L + d - 1 /\ Last(m) = m[L + d]
      /\ \A i \in 1 .. L + d - 1 : Front(m)[i] = m[i]
  <2>1. m \in Seq(S) /\ m # << >> /\ Len(m) = L + d
    BY <1>5, <1>7
  <2>2. /\ Front(m) \in Seq(S) /\ Len(Front(m)) = Len(m) - 1 /\ Last(m) = m[Len(m)]
        /\ \A i \in 1 .. Len(m) - 1 : Front(m)[i] = m[i]
    BY <2>1, FrontIs
  <2> QED BY <2>1, <2>2
<1>9. Last(m) = name[d]
  <2>1. L + d \in 1 .. L + d /\ ~ (L + d <= L) /\ L + d - L = d /\ d \in 1 .. d
    BY <1>1
  <2>2. m[L + d] = s[d]
    BY <1>5, <2>1
  <2> QED BY <1>3, <1>8, <2>1, <2>2
<1>10. Front(m) = mr
  <2>1. \A i \in 1 .. L + (d - 1) : Front(m)[i] = mr[i]
    <3> TAKE i \in 1 .. L + (d - 1)
    <3>1. i \in 1 .. L + d - 1 /\ i \in 1 .. L + d
      BY <1>1
    <3>2. CASE i <= L
      BY <1>5, <1>6, <1>8, <3>1, <3>2
    <3>3. CASE ~ (i <= L)
      <4>1. i - L \in 1 .. d /\ i - L \in 1 .. d - 1
        BY <1>1, <3>3
      <4>2. Front(m)[i] = s[i - L] /\ mr[i] = r[i - L]
        BY <1>5, <1>6, <1>8, <3>1, <3>3
      <4> QED BY <1>3, <1>4, <4>1, <4>2
    <3> QED BY <3>2, <3>3
  <2>2. Len(Front(m)) = Len(mr) /\ Len(mr) = L + (d - 1)
    BY <1>1, <1>6, <1>8
  <2> QED BY <1>6, <1>8, <2>1, <2>2, SeqEqual
<1>11. ASSUME d = 1 PROVE mr = path
  <2>1. Len(r) = 0 /\ r \in Seq(S)
    BY <1>1, <1>4, <1>11
  <2>2. r = << >>
    BY <2>1
  <2> QED BY <2>2 DEF mr
<1>12. ASSUME d = n PROVE m = path \o name
  <2>1. Len(s) = Len(name) /\ \A i \in 1 .. Len(s) : s[i] = name[i]
    BY <1>3, <1>12
  <2>2. s = name
    BY <1>3, <2>1, SeqEqual
  <2> QED BY <2>2 DEF m
<1> QED BY <1>5, <1>7, <1>9, <1>10, <1>11, <1>12 DEF m, mr, s, r

\* a name that does not mislead is found where it says, or not at all
LEMMA ResolveIs ==
  ASSUME project \in Projects, Tree(avars), NEW S, NamesIn(project) \subseteq S,
         NEW path \in Seq(S), NEW name \in Seq(S), name # << >>, ~ Misled(path, name)
  PROVE  resolve(path, name) = IF path \o name \in Paths THEN path \o name ELSE Unset
<1> DEFINE n == Len(name)
           meant(d) == path \o SubSeq(name, 1, d)
           Want(d) == IF d = n THEN IF meant(d) \in Paths THEN meant(d) ELSE Unset
                               ELSE IF ModuleAt(meant(d)) THEN meant(d) ELSE Unset
<1>1. n \in Nat \ {0}
  OBVIOUS
<1>2. PICK f : /\ resolve(path, name) = f[n]
               /\ f[1] = First(Matches(path, name, 1))
               /\ \A d \in 2 .. n : f[d] = IF f[d - 1] = Unset THEN Unset ELSE First(Matches(f[d - 1], name, d))
  BY <1>1, WalkIs
<1>3. ASSUME NEW d \in 1 .. n
      PROVE  /\ meant(d) \in Seq(S) \ {<< >>} /\ Last(meant(d)) = name[d] /\ Len(meant(d)) = Len(path) + d
             /\ Front(meant(d)) = IF d = 1 THEN path ELSE meant(d - 1)
             /\ d = n => meant(d) = path \o name
  BY MeantIs
<1>4. ASSUME NEW d \in 1 .. n, d # n PROVE Straight(meant(d), name[d])
  <2>1. d \in 1 .. n - 1
    BY <1>1, <1>4
  <2>2. \A k \in DOMAIN avars :
          ~ (/\ avars[k].v.type = "module" /\ StartsWith(Last(avars[k].path), name[d])
             /\ Front(avars[k].path) = Front(meant(d)) /\ avars[k].path # meant(d)
             /\ ~ \E j \in 1 .. k - 1 : avars[j].path = meant(d) /\ avars[j].v.type = "module")
    BY <2>1 DEF Misled
  <2> HIDE DEF meant
  <2> QED BY <2>2 DEF Straight
<1> HIDE DEF meant
\* the part at d, resolved in the module around what is meant
<1>5. ASSUME NEW d \in 1 .. n PROVE First(Matches(Front(meant(d)), name, d)) = Want(d)
  <2> DEFINE m == meant(d)
  <2>1. m \in Seq(S) /\ m # << >> /\ name[d] = Last(m)
    BY <1>3
  <2>2. CASE d = n
    <3>1. ~ (d < Len(name))
      BY <1>1, <2>2
    <3> HIDE DEF m
    <3>2. First(Matches(Front(m), name, d)) = IF m \in Paths THEN m ELSE Unset
      BY <2>1, <3>1, HopsLast
    <3> QED BY <2>2, <3>2 DEF m
  <2>3. CASE d # n
    <3>1. d < Len(name)
      BY <1>1, <2>3
    <3>2. Straight(m, name[d])
      BY <1>4, <2>3
    <3> HIDE DEF m
    <3>3. First(Matches(Front(m), name, d)) = IF ModuleAt(m) THEN m ELSE Unset
      BY <2>1, <3>1, <3>2, HopsInside
    <3> QED BY <2>3, <3>3 DEF m
  <2> QED BY <2>2, <2>3
\* what is not in a module is nowhere
<1>6. ASSUME NEW d \in 2 .. n, meant(d) \in Paths PROVE ModuleAt(meant(d - 1))
  <2>1. PICK k \in DOMAIN avars : avars[k].path = meant(d)
    BY <1>6 DEF Paths
  <2>2. DOMAIN avars = 1 .. Len(avars)
    BY TreeFacts
  <2>3. d \in 1 .. n /\ d # 1
    BY <1>1
  <2>4. Len(avars[k].path) > 1
    <3>1. Len(meant(d)) = Len(path) + d /\ Len(path) \in Nat
      BY <1>3, <2>3
    <3>2. Len(path) + d > 1
      BY <3>1
    <3> QED BY <2>1, <3>1, <3>2
  <2>5. PICK j \in 1 .. Len(avars) : avars[j].v.type = "module" /\ avars[j].path = Front(avars[k].path)
    BY <2>2, <2>4 DEF Tree, Branch, ParentsOK
  <2>6. Front(meant(d)) = meant(d - 1)
    BY <1>3, <2>3
  <2> QED BY <2>1, <2>2, <2>5, <2>6 DEF ModuleAt
<1>7. \A p : ModuleAt(p) => p \in Paths
  BY DEF ModuleAt, Paths
<1> HIDE DEF Want
<1> DEFINE Done(d) == f[d] = Want(d)
           Open == {d \in 1 .. n : ~ Done(d)}
<1>8. Done(1)
  <2>1. 1 \in 1 .. n
    BY <1>1
  <2>2. Front(meant(1)) = path
    BY <1>3, <2>1
  <2> QED BY <1>2, <1>5, <2>1, <2>2
<1>9. ASSUME NEW d \in 2 .. n, Done(d - 1) PROVE Done(d)
  <2>1. d \in 1 .. n /\ d # 1 /\ d - 1 \in 1 .. n /\ d - 1 # n
    BY <1>1
  <2>2. f[d] = IF f[d - 1] = Unset THEN Unset ELSE First(Matches(f[d - 1], name, d))
    BY <1>2
  <2>3. f[d - 1] = IF ModuleAt(meant(d - 1)) THEN meant(d - 1) ELSE Unset
    BY <1>9, <2>1 DEF Want
  <2>4. CASE ModuleAt(meant(d - 1))
    <3>1. meant(d - 1) # Unset
      BY <1>3, <2>1 DEF Unset
    <3>2. Front(meant(d)) = meant(d - 1)
      BY <1>3, <2>1
    <3>3. f[d] = First(Matches(Front(meant(d)), name, d))
      BY <2>2, <2>3, <2>4, <3>1, <3>2
    <3> QED BY <1>5, <2>1, <3>3
  <2>5. CASE ~ ModuleAt(meant(d - 1))
    <3>1. f[d] = Unset
      BY <2>2, <2>3, <2>5
    <3>2. meant(d) \notin Paths /\ ~ ModuleAt(meant(d))
      BY <1>6, <1>7, <2>5
    <3>3. Want(d) = Unset
      BY <3>2 DEF Want
    <3> QED BY <3>1, <3>3
  <2> QED BY <2>4, <2>5
<1>10. Open = {}
  <2> SUFFICES ASSUME Open # {} PROVE FALSE
    OBVIOUS
  <2>1. Open \in SUBSET Nat
    OBVIOUS
  <2>2. PICK d \in Open : \A y \in Open : d <= y
    <3> HIDE DEF Open
    <3> QED BY <2>1, LeastNat
  <2>3. d # 1
    BY <1>8
  <2> HIDE DEF Done
  <2>4. d \in 2 .. n /\ d - 1 \in 1 .. n /\ ~ (d <= d - 1)
    BY <1>1, <2>2, <2>3
  <2>5. Done(d - 1)
    BY <2>2, <2>4
  <2>6. Done(d)
    BY <1>9, <2>4, <2>5 DEF Done
  <2> QED BY <2>2, <2>6
<1>11. n \in 1 .. n
  BY <1>1
<1>12. f[n] = Want(n)
  BY <1>10, <1>11
<1>13. meant(n) = path \o name
  BY <1>3, <1>11
<1> QED BY <1>2, <1>12, <1>13 DEF Want

\* a name without a dot
LEMMA ResolveOne ==
  ASSUME project \in Projects, Tree(avars), NEW path \in Seq(NamesIn(project)), NEW a
  PROVE  /\ Append(path, a) # Unset
         /\ resolve(path, <<a>>) = IF Append(path, a) \in Paths THEN Append(path, a) ELSE Unset
<1> DEFINE N == NamesIn(project)
           S == N \cup {a}
           name == <<a>>
<1>1. N \subseteq S /\ name \in Seq(S) /\ name # << >> /\ Len(name) = 1
  OBVIOUS
<1>2. path \in Seq(S)
  <2>1. N \subseteq S /\ path \in Seq(N)
    OBVIOUS
  <2> HIDE DEF N, S
  <2> QED BY <2>1, SeqMonotonic
<1>3. path \o name = Append(path, a) /\ Append(path, a) # << >>
  <2>1. path \in Seq(S) /\ a \in S
    BY <1>2
  <2> HIDE DEF S
  <2> QED BY <2>1, AppendIsConcat
<1> HIDE DEF N, S, name
<1>4. ~ Misled(path, name)
  <2>1. 1 .. 1 - 1 = {}
    OBVIOUS
  <2> QED BY <1>1, <2>1 DEF Misled
<1>5. resolve(path, name) = IF path \o name \in Paths THEN path \o name ELSE Unset
  BY <1>1, <1>2, <1>4, ResolveIs DEF N
<1> QED BY <1>3, <1>5 DEF name, Unset

LEMMA PlaceIs ==
  ASSUME Tree(avars), NEW k \in DOMAIN avars
  PROVE  Place(avars[k].path) = k
<1>1. \A j \in DOMAIN avars : avars[j].path = avars[k].path => j = k
  BY TreeFacts
<1> QED BY <1>1 DEF Place

\* a ref is in a module and has a name to look for
LEMMA RefFacts ==
  ASSUME project \in Projects, Tree(avars), NEW p \in Refs
  PROVE  /\ p \in Paths /\ Around(p) \in Seq(NamesIn(project))
         /\ VarAt(p).src \in Seq(Range(VarAt(p).src)) /\ VarAt(p).src # << >>
<1> DEFINE N == NamesIn(project)
<1>1. PICK k \in DOMAIN avars : p = avars[k].path
  BY DEF Refs, Paths
<1>2. DOMAIN avars = 1 .. Len(avars) /\ p \in Seq(N) /\ p # << >>
  BY <1>1, TreeFacts
<1>3. VarAt(p) = avars[k].v
  BY <1>1, PlaceIs DEF VarAt
<1>4. avars[k].v.type = "ref"
  BY <1>3 DEF Refs, TypeOf
<1>5. avars[k].v \in ConnsIn(project) /\ Len(p) # 1
  BY <1>1, <1>2, <1>4 DEF Tree, Branch, RefsOK
<1>6. avars[k].v.src \in Seq(Range(avars[k].v.src)) \ {<< >>}
  BY <1>5, ProjectFacts
<1>7. Around(p) \in Seq(N)
  <2> HIDE DEF N
  <2>1. Len(p) \in Nat \ {0} /\ Front(p) \in Seq(N) /\ Len(Front(p)) = Len(p) - 1
    BY <1>2, FrontIs
  <2>2. Len(Front(p)) # 0
    BY <1>5, <2>1
  <2>3. Front(p) \in Seq(N) /\ Front(p) # << >>
    BY <2>1, <2>2
  <2> DEFINE q == Front(p)
  <2>4. q \in Seq(N) /\ q # << >>
    BY <2>3
  <2> HIDE DEF q
  <2>5. Front(q) \in Seq(N)
    BY <2>4, FrontIs
  <2> QED BY <2>5 DEF q, Around
<1> QED BY <1>3, <1>6, <1>7 DEF Refs

\* what a connect that does not mislead finds
LEMMA SrcOfIs ==
  ASSUME project \in Projects, Tree(avars), NEW p \in Refs, ~ Misled(Around(p), VarAt(p).src)
  PROVE  /\ SrcOf[p] = IF FullSrc(p) \in Paths THEN FullSrc(p) ELSE Unset
         /\ FullSrc(p) \in Paths => FullSrc(p) # Unset
<1> DEFINE N == NamesIn(project)
           name == VarAt(p).src
           path == Around(p)
           S == N \cup Range(name)
<1>1. path \in Seq(N) /\ name \in Seq(Range(name)) /\ name # << >>
  BY RefFacts
<1>2. N \subseteq S /\ Range(name) \subseteq S
  OBVIOUS
<1>3. SrcOf[p] = resolve(path, name)
  BY DEF SrcOf, Around
<1> HIDE DEF N, name, path, S
<1>4. path \in Seq(S) /\ name \in Seq(S)
  BY <1>1, <1>2, SeqMonotonic
<1>5. ~ Misled(path, name)
  BY DEF path, name
<1>6. resolve(path, name) = IF path \o name \in Paths THEN path \o name ELSE Unset
  BY <1>1, <1>2, <1>4, <1>5, ResolveIs DEF N
<1>7. FullSrc(p) = path \o name
  BY DEF FullSrc, path, name
<1>8. \A q \in Paths : q # << >>
  BY TreeFacts DEF Paths
<1> QED BY <1>3, <1>6, <1>7, <1>8 DEF Unset

\* a flow that is not in the model does not resolve
LEMMA FlowIs ==
  ASSUME project \in Projects, Tree(avars), NEW k \in DOMAIN avars, NEW f
  PROVE  resolve(Front(avars[k].path), <<f>>) = Unset <=> Append(Front(avars[k].path), f) \notin Paths
<1> DEFINE N == NamesIn(project)
           s == avars[k].path
           path == Front(s)
<1>1. s \in Seq(N) /\ s # << >>
  BY TreeFacts
<1>2. path \in Seq(N)
  <2> HIDE DEF s, N
  <2> QED BY <1>1, FrontIs
<1> HIDE DEF path
<1>3. /\ Append(path, f) # Unset
      /\ resolve(path, <<f>>) = IF Append(path, f) \in Paths THEN Append(path, f) ELSE Unset
  BY <1>2, ResolveOne
<1> QED BY <1>3 DEF path

-----------------------------------------------------------------------------
(* The names and the slots.                                                *)

LEMMA SlotFacts ==
  ASSUME Tree(avars)
  PROVE  /\ Cardinality(Slots(1)) = 0
         /\ \A k \in 1 .. Len(avars) :
              /\ Cardinality(Slots(k)) \in Nat
              /\ Cardinality(Slots(k + 1)) = Cardinality(Slots(k)) + (IF HasSlot(avars[k]) THEN 1 ELSE 0)
<1>1. Slots(1) = {}
  <2>1. 1 .. 1 - 1 = {}
    OBVIOUS
  <2> QED BY <2>1 DEF Slots
<1>2. ASSUME NEW k \in 1 .. Len(avars)
      PROVE  /\ Cardinality(Slots(k)) \in Nat
             /\ Cardinality(Slots(k + 1)) = Cardinality(Slots(k)) + (IF HasSlot(avars[k]) THEN 1 ELSE 0)
  <2>1. k \in Nat /\ k - 1 \in Nat /\ k \notin 1 .. k - 1 /\ 1 .. k + 1 - 1 = (1 .. k - 1) \cup {k}
    BY TreeFacts
  <2>2. Slots(k) \subseteq 1 .. k - 1 /\ k \notin Slots(k)
    BY <2>1 DEF Slots
  <2>3. IsFiniteSet(1 .. k - 1)
    BY <2>1, FS_Interval
  <2>4. IsFiniteSet(Slots(k)) /\ Cardinality(Slots(k)) \in Nat
    BY <2>2, <2>3, FS_Subset, FS_CardinalityType
  <2>5. CASE HasSlot(avars[k])
    <3>1. Slots(k + 1) = Slots(k) \cup {k}
      BY <2>1, <2>5 DEF Slots
    <3>2. Cardinality(Slots(k + 1)) = Cardinality(Slots(k)) + 1
      BY <2>2, <2>4, <3>1, FS_AddElement
    <3> QED BY <2>4, <2>5, <3>2
  <2>6. CASE ~ HasSlot(avars[k])
    <3>1. Slots(k + 1) = Slots(k)
      BY <2>1, <2>6 DEF Slots
    <3> QED BY <2>4, <2>6, <3>1
  <2> QED BY <2>5, <2>6
<1> QED BY <1>1, <1>2, FS_EmptySet

\* the first k AVars have put their names down, each at its slot
Listed(names, k) ==
  /\ names \in Seq(Range(names))
  /\ Len(names) = Cardinality(Slots(k + 1))
  /\ \A m \in 1 .. k : HasSlot(avars[m]) =>
       /\ Cardinality(Slots(m)) + 1 \in 1 .. Len(names)
       /\ names[Cardinality(Slots(m)) + 1] = avars[m].path
  /\ \A i \in 1 .. Len(names) : \E m \in 1 .. k : HasSlot(avars[m]) /\ i = Cardinality(Slots(m)) + 1

LEMMA ListedStep ==
  ASSUME Tree(avars), NEW k \in 1 .. Len(avars), NEW names, Listed(names, k - 1)
  PROVE  Listed(names \o (IF HasSlot(avars[k]) THEN <<avars[k].path>> ELSE << >>), k)
<1> DEFINE c == Cardinality(Slots(k))
<1>1. /\ c \in Nat /\ Cardinality(Slots(k + 1)) = c + (IF HasSlot(avars[k]) THEN 1 ELSE 0)
  BY SlotFacts
<1>2. k \in Nat /\ k - 1 + 1 = k /\ k \in 1 .. k /\ \A m \in 1 .. k : m \in 1 .. k - 1 \/ m = k
  BY TreeFacts
<1>3. \A m \in 1 .. k - 1 : m \in 1 .. k
  BY <1>2
<1>4. /\ names \in Seq(Range(names)) /\ Len(names) = c
      /\ \A m \in 1 .. k - 1 : HasSlot(avars[m]) =>
           /\ Cardinality(Slots(m)) + 1 \in 1 .. Len(names)
           /\ names[Cardinality(Slots(m)) + 1] = avars[m].path
      /\ \A i \in 1 .. Len(names) : \E m \in 1 .. k - 1 : HasSlot(avars[m]) /\ i = Cardinality(Slots(m)) + 1
  BY <1>2 DEF Listed
<1>5. CASE ~ HasSlot(avars[k])
  <2>1. names \o << >> = names
    <3>1. names \in Seq(Range(names))
      BY <1>4
    <3> QED BY <3>1, ConcatEmptySeq
  <2>2. Cardinality(Slots(k + 1)) = c
    BY <1>1, <1>5
  <2>3. \A m \in 1 .. k : HasSlot(avars[m]) => m \in 1 .. k - 1
    BY <1>2, <1>5
  <2> HIDE DEF c
  <2>4. Listed(names, k)
    BY <1>3, <1>4, <2>2, <2>3 DEF Listed
  <2> QED BY <1>5, <2>1, <2>4
<1>6. CASE HasSlot(avars[k])
  <2> DEFINE last == <<avars[k].path>>
             all == names \o last
  <2>1. last \in Seq({avars[k].path}) /\ Len(last) = 1 /\ last[1] = avars[k].path
    OBVIOUS
  <2>2. last \in Seq(Range(last))
    BY <2>1, AnySeq
  <2>3. Joined(all, names, last)
    BY <1>4, <2>2, JoinIs
  <2> HIDE DEF all, last, c
  <2>4. /\ all \in Seq(Range(all)) /\ Len(all) = c + 1
        /\ \A i \in 1 .. c : i \in 1 .. Len(all) /\ all[i] = names[i]
    BY <1>4, <2>1, <2>3 DEF Joined
  <2>5. c + 1 \in 1 .. Len(all) /\ all[c + 1] = avars[k].path
    <3>1. 1 \in 1 .. 1
      OBVIOUS
    <3> QED BY <1>4, <2>1, <2>3, <3>1 DEF Joined
  <2>6. \A i \in 1 .. Len(all) : i \in 1 .. c \/ i = c + 1
    BY <1>1, <2>4
  <2>7. Len(all) = Cardinality(Slots(k + 1))
    BY <1>1, <1>6, <2>4
  <2>8. ASSUME NEW m \in 1 .. k, HasSlot(avars[m])
        PROVE  /\ Cardinality(Slots(m)) + 1 \in 1 .. Len(all)
               /\ all[Cardinality(Slots(m)) + 1] = avars[m].path
    <3>1. CASE m = k
      BY <2>5, <3>1 DEF c
    <3>2. CASE m # k
      <4>1. m \in 1 .. k - 1
        BY <1>2, <3>2
      <4> DEFINE i == Cardinality(Slots(m)) + 1
      <4>2. i \in 1 .. c /\ names[i] = avars[m].path
        BY <1>4, <2>8, <4>1
      <4> HIDE DEF i
      <4>3. i \in 1 .. Len(all) /\ all[i] = avars[m].path
        BY <2>4, <4>2
      <4> QED BY <4>3 DEF i
    <3> QED BY <3>1, <3>2
  <2>9. ASSUME NEW i \in 1 .. Len(all)
        PROVE  \E m \in 1 .. k : HasSlot(avars[m]) /\ i = Cardinality(Slots(m)) + 1
    <3>1. CASE i = c + 1
      BY <1>2, <1>6, <3>1 DEF c
    <3>2. CASE i # c + 1
      <4>1. i \in 1 .. Len(names)
        BY <1>4, <2>6, <3>2
      <4> QED BY <1>3, <1>4, <4>1
    <3> QED BY <3>1, <3>2
  <2>10. Listed(all, k)
    BY <2>4, <2>7, <2>8, <2>9 DEF Listed
  <2> QED BY <1>6, <2>10 DEF all, last
<1> QED BY <1>5, <1>6

LEMMA VarnamesListed ==
  ASSUME Tree(avars)
  PROVE  Listed(varnames, Len(avars))
<1> DEFINE n == Len(avars)
           piece(k) == IF HasSlot(avars[k]) THEN <<avars[k].path>> ELSE << >>
           s == [k \in 1 .. n |-> piece(k)]
           Loop(a) == a = [k \in 0 .. n |-> IF k = 0 THEN << >> ELSE a[k - 1] \o piece(k)]
           a == CHOOSE a : Concats(a, s, n)
<1>1. n \in Nat
  BY TreeFacts
<1>2. varnames = (CHOOSE b : Loop(b))[n]
  BY DEF varnames
<1>3. ASSUME NEW b PROVE Loop(b) <=> Concats(b, s, n)
  <2>1. \A k \in 0 .. n : k # 0 => s[k] = piece(k)
    <3>1. \A k \in 1 .. n : s[k] = piece(k)
      <4> HIDE DEF piece
      <4> QED OBVIOUS
    <3>2. \A k \in 0 .. n : k # 0 => k \in 1 .. n
      BY <1>1
    <3> HIDE DEF s, piece
    <3> QED BY <3>1, <3>2
  <2> HIDE DEF s, piece
  <2>2. [k \in 0 .. n |-> IF k = 0 THEN << >> ELSE b[k - 1] \o piece(k)]
          = [k \in 0 .. n |-> IF k = 0 THEN << >> ELSE b[k - 1] \o s[k]]
    BY <2>1
  <2> QED BY <2>2 DEF Concats
<1>4. (CHOOSE b : Loop(b)) = a
  <2> HIDE DEF Loop, s
  <2>1. \A b : Loop(b) <=> Concats(b, s, n)
    BY <1>3
  <2> QED BY <2>1
<1>5. Concats(a, s, n)
  <2> HIDE DEF s, n
  <2> QED BY <1>1, ConcatsExists
<1>6. \A k \in 1 .. n : s[k] = piece(k)
  <2> HIDE DEF piece
  <2> QED OBVIOUS
<1> HIDE DEF a, s
<1>7. a[0] = << >> /\ \A k \in 1 .. n : a[k] = a[k - 1] \o s[k]
  <2> HIDE DEF n
  <2> QED BY <1>1, <1>5, ConcatsUnfold
<1> DEFINE Done(k) == Listed(a[k], k)
           Open == {k \in 0 .. n : ~ Done(k)}
<1>8. Done(0)
  <2>1. << >> \in Seq(Range(<< >>)) /\ Len(<< >>) = 0 /\ 1 .. 0 = {}
    OBVIOUS
  <2>2. Cardinality(Slots(0 + 1)) = 0
    BY SlotFacts
  <2> QED BY <1>7, <2>1, <2>2 DEF Listed
<1>9. ASSUME NEW k \in 1 .. n, Done(k - 1) PROVE Done(k)
  <2>1. a[k] = a[k - 1] \o piece(k)
    <3> HIDE DEF piece
    <3> QED BY <1>6, <1>7
  <2> DEFINE names == a[k - 1]
  <2>2. Listed(names, k - 1)
    BY <1>9
  <2> HIDE DEF names
  <2>3. Listed(names \o piece(k), k)
    BY <2>2, ListedStep
  <2> QED BY <2>1, <2>3 DEF names
<1>10. Open = {}
  <2> SUFFICES ASSUME Open # {} PROVE FALSE
    OBVIOUS
  <2>1. Open \in SUBSET Nat
    OBVIOUS
  <2>2. PICK k \in Open : \A y \in Open : k <= y
    <3> HIDE DEF Open
    <3> QED BY <2>1, LeastNat
  <2>3. k # 0
    BY <1>8
  <2> HIDE DEF Done
  <2>4. k \in 1 .. n /\ k - 1 \in 0 .. n /\ ~ (k <= k - 1)
    BY <1>1, <2>2, <2>3
  <2>5. Done(k - 1)
    BY <2>2, <2>4
  <2>6. Done(k)
    BY <1>9, <2>4, <2>5 DEF Done
  <2> QED BY <2>2, <2>6
<1>11. n \in 0 .. n
  BY <1>1
<1>12. Done(n)
  <2> HIDE DEF Done
  <2> QED BY <1>10, <1>11
<1> QED BY <1>2, <1>4, <1>12

-----------------------------------------------------------------------------
(* The theorems.                                                           *)

\* what sd_sim_new has made so far is the tree of a project
Instantiated ==
  /\ project \in Projects
  /\ phase \in {"new", "compile", "offsets", "ready", "failed"}
  /\ phase = "new" => avars = << >>
  /\ avars = << >> => phase \in {"new", "failed"}
  /\ avars # << >> => Tree(avars)

\* refs, equations and flows are all initialised, or one is not and it has failed
Resolved ==
  /\ phase \in {"offsets", "ready"} => src = SrcOf /\ ~ SomeFail
  /\ phase = "failed" /\ avars # << >> => SomeFail

\* a variable has as many slots in front of its own as were handed out before
Assigned ==
  phase = "ready" =>
    \A k \in DOMAIN avars : HasSlot(avars[k]) => offset[avars[k].path] = Cardinality(Slots(k))

IInv == Instantiated /\ Resolved /\ Assigned

LEMMA InitOK == Init => IInv
BY DEF Init, IInv, Instantiated, Resolved, Assigned

LEMMA InstantiateOK ==
  ASSUME IInv, Instantiate
  PROVE  IInv'
<1>1. project \in Projects /\ project' = project /\ phase = "new" /\ avars = << >>
  BY DEF IInv, Instantiated, Instantiate
<1>2. CASE Main \in DOMAIN project /\ \A a \in Range(module[Main][<< >>]) : ~ Fails(a.v)
  <2>1. phase' = "compile" /\ avars' = <<TimeVar>> \o module[Main][<< >>]
    BY <1>2 DEF Instantiate
  <2> DEFINE as == <<TimeVar>> \o module[Main][<< >>]
  <2>2. Tree(as)
    BY <1>1, <1>2, TreeIs
  <2> HIDE DEF as
  <2>3. avars' = as
    BY <2>1 DEF as
  <2>4. as # << >>
    <3>1. 1 \in 1 .. Len(as)
      BY <2>2 DEF Tree
    <3>2. 1 .. Len(<< >>) = {}
      OBVIOUS
    <3> QED BY <3>1, <3>2
  <2>5. Tree(avars)'
    BY <1>1, <2>2, <2>3 DEF Tree, Branch, PathsOK, ParentsOK, RefsOK, DistinctPaths
  <2>6. Instantiated'
    BY <1>1, <2>1, <2>3, <2>4, <2>5 DEF Instantiated
  <2>7. Resolved' /\ Assigned'
    BY <2>1 DEF Resolved, Assigned
  <2> QED BY <2>6, <2>7 DEF IInv
<1>3. CASE ~ (Main \in DOMAIN project /\ \A a \in Range(module[Main][<< >>]) : ~ Fails(a.v))
  <2>1. phase' = "failed" /\ avars' = << >>
    BY <1>1, <1>3 DEF Instantiate
  <2> QED BY <1>1, <2>1 DEF IInv, Instantiated, Resolved, Assigned
<1> QED BY <1>2, <1>3

\* what is said of the tree stays true while it stays
LEMMA SameTree ==
  ASSUME avars' = avars, project' = project
  PROVE  /\ Tree(avars)' <=> Tree(avars)
         /\ Paths' = Paths /\ Refs' = Refs /\ SrcOf' = SrcOf /\ SomeFail' = SomeFail
<1>1. Tree(avars)' <=> Tree(avars)
  BY DEF Tree, Branch, PathsOK, ParentsOK, RefsOK, DistinctPaths
<1>2. Paths' = Paths
  BY DEF Paths
<1>3. Refs' = Refs
  BY DEF Refs, Paths, TypeOf, VarAt, Place
<1>4. SrcOf' = SrcOf
  BY <1>3 DEF SrcOf, VarAt, Place, resolve, First, Matches
<1>5. LostFlows' = LostFlows /\ Treeless' = Treeless
  BY DEF LostFlows, Treeless, Walked, HasSlot, resolve, First, Matches
<1>6. SomeFail' = SomeFail
  BY <1>3, <1>4, <1>5 DEF SomeFail
<1> QED BY <1>1, <1>2, <1>3, <1>4, <1>6

LEMMA CompileModulesOK ==
  ASSUME IInv, CompileModules
  PROVE  IInv'
<1>1. /\ phase = "compile" /\ project' = project /\ avars' = avars /\ src' = SrcOf
      /\ phase' = IF SomeFail THEN "failed" ELSE "offsets"
  BY DEF CompileModules
<1>2. avars # << >> /\ Tree(avars) /\ project \in Projects
  BY <1>1 DEF IInv, Instantiated
<1>3. Tree(avars)' /\ Refs' = Refs /\ SrcOf' = SrcOf /\ SomeFail' = SomeFail
  BY <1>1, <1>2, SameTree
<1>4. Instantiated'
  BY <1>1, <1>2, <1>3 DEF Instantiated
<1>5. Resolved'
  BY <1>1, <1>3 DEF Resolved
<1>6. Assigned'
  BY <1>1 DEF Assigned
<1> QED BY <1>4, <1>5, <1>6 DEF IInv

LEMMA AssignOffsetsOK ==
  ASSUME IInv, AssignOffsets
  PROVE  IInv'
<1>1. /\ phase = "offsets" /\ phase' = "ready" /\ project' = project /\ avars' = avars /\ src' = src
      /\ offset' = [p \in Paths |-> IF HasSlot(avars[Place(p)]) THEN Cardinality(Slots(Place(p)))
                                    ELSE offset[p]]
  BY DEF AssignOffsets
<1>2. avars # << >> /\ Tree(avars) /\ project \in Projects
  BY <1>1 DEF IInv, Instantiated
<1>3. Tree(avars)' /\ Refs' = Refs /\ SrcOf' = SrcOf /\ SomeFail' = SomeFail
  BY <1>1, <1>2, SameTree
<1>4. Instantiated'
  BY <1>1, <1>2, <1>3 DEF Instantiated
<1>5. Resolved'
  BY <1>1, <1>3 DEF IInv, Resolved
<1>6. Assigned'
  <2>1. ASSUME NEW k \in DOMAIN avars, HasSlot(avars[k])
        PROVE  offset'[avars[k].path] = Cardinality(Slots(k))
    <3>1. avars[k].path \in Paths
      BY DEF Paths
    <3>2. Place(avars[k].path) = k
      BY <1>2, PlaceIs
    <3> QED BY <1>1, <2>1, <3>1, <3>2
  <2>2. \A k : Slots(k)' = Slots(k)
    BY <1>1 DEF Slots, HasSlot
  <2> QED BY <1>1, <2>1, <2>2 DEF Assigned, HasSlot
<1> QED BY <1>4, <1>5, <1>6 DEF IInv

LEMMA StutterOK ==
  ASSUME IInv, UNCHANGED vars
  PROVE  IInv'
<1>1. project' = project /\ phase' = phase /\ avars' = avars /\ src' = src /\ offset' = offset
  BY DEF vars
<1>2. (Tree(avars)' <=> Tree(avars)) /\ Refs' = Refs /\ SrcOf' = SrcOf /\ SomeFail' = SomeFail
  BY <1>1, SameTree
<1>3. Instantiated' /\ Resolved'
  BY <1>1, <1>2 DEF IInv, Instantiated, Resolved
<1>4. Assigned'
  <2>1. \A k : Slots(k)' = Slots(k)
    BY <1>1 DEF Slots, HasSlot
  <2> QED BY <1>1, <2>1 DEF IInv, Assigned, HasSlot
<1> QED BY <1>3, <1>4 DEF IInv

(***************************************************************************)
(* sd_sim_new has a tree of the project, all of it resolved before it has  *)
(* slots and one slot for each variable when it returns.                   *)
(***************************************************************************)
THEOREM Instantiation == Spec => []IInv
<1>1. IInv /\ [Next]_vars => IInv'
  BY InstantiateOK, CompileModulesOK, AssignOffsetsOK, StutterOK DEF Next
<1> QED BY InitOK, <1>1, PTL DEF Spec

(***************************************************************************)
(* What sd_sim_get_varnames lists at place k has slot k-1, there are as    *)
(* many names as sd_sim_get_varcount says, and resolve finds them.         *)
(***************************************************************************)
LEMMA NamesOK ==
  ASSUME IInv
  PROVE  NamesMatchSlots
<1> SUFFICES ASSUME phase = "ready"
             PROVE  /\ Len(varnames) = nvars
                    /\ varnames[1] = <<"time">>
                    /\ \A k \in 1 .. nvars :
                         /\ offset[varnames[k]] = k - 1
                         /\ Misled(<< >>, varnames[k]) \/ ReadOffset(varnames[k]) = k - 1
  BY DEF NamesMatchSlots
<1>1. project \in Projects /\ Tree(avars)
  BY DEF IInv, Instantiated
<1>2. /\ Len(varnames) = nvars
      /\ \A m \in 1 .. Len(avars) : HasSlot(avars[m]) => varnames[Cardinality(Slots(m)) + 1] = avars[m].path
      /\ \A i \in 1 .. Len(varnames) : \E m \in 1 .. Len(avars) : HasSlot(avars[m]) /\ i = Cardinality(Slots(m)) + 1
  BY <1>1, VarnamesListed DEF Listed, nvars
<1>3. varnames[1] = <<"time">>
  <2>1. avars[1] = TimeVar /\ 1 \in 1 .. Len(avars)
    BY <1>1 DEF Tree
  <2>2. HasSlot(TimeVar) /\ TimeVar.path = <<"time">>
    BY DEF HasSlot, TimeVar
  <2>3. Cardinality(Slots(1)) + 1 = 1
    BY <1>1, SlotFacts
  <2> QED BY <1>2, <2>1, <2>2, <2>3
<1>4. ASSUME NEW k \in 1 .. nvars
      PROVE  /\ offset[varnames[k]] = k - 1
             /\ Misled(<< >>, varnames[k]) \/ ReadOffset(varnames[k]) = k - 1
  <2>1. PICK m \in 1 .. Len(avars) : HasSlot(avars[m]) /\ k = Cardinality(Slots(m)) + 1
    BY <1>2
  <2>2. varnames[k] = avars[m].path /\ m \in DOMAIN avars
    BY <1>1, <1>2, <2>1, TreeFacts
  <2>3. offset[avars[m].path] = Cardinality(Slots(m))
    BY <2>1, <2>2 DEF IInv, Assigned
  <2>4. Cardinality(Slots(m)) \in Nat
    BY <1>1, SlotFacts
  <2>5. offset[varnames[k]] = k - 1
    BY <2>1, <2>2, <2>3, <2>4
  <2>6. ASSUME ~ Misled(<< >>, varnames[k]) PROVE resolve(<< >>, varnames[k]) = varnames[k]
    <3> DEFINE N == NamesIn(project)
               name == varnames[k]
               none == << >>
    <3>1. name \in Seq(N) /\ name # << >> /\ none \in Seq(N) /\ N \subseteq N /\ ~ Misled(none, name)
      BY <1>1, <2>2, <2>6, TreeFacts
    <3>2. none \o name = name
      <4> HIDE DEF name, N
      <4> QED BY <3>1, ConcatEmptySeq
    <3>3. name \in Paths
      BY <2>2 DEF Paths
    <3> HIDE DEF name, none, N
    <3>4. resolve(none, name) = IF none \o name \in Paths THEN none \o name ELSE Unset
      BY <1>1, <3>1, ResolveIs DEF N
    <3> QED BY <3>2, <3>3, <3>4 DEF name, none
  <2> QED BY <2>5, <2>6 DEF ReadOffset
<1> QED BY <1>2, <1>3, <1>4

\* a connect that does not mislead makes the ghost read its source
LEMMA GhostsOK ==
  ASSUME IInv
  PROVE  GhostsReadSource
<1> SUFFICES ASSUME phase = "ready", NEW p \in Refs, NEW k \in DOMAIN varnames,
                    varnames[k] = FullSrc(p), ~ Misled(Around(p), VarAt(p).src)
             PROVE  IdentOffset(p) = k - 1
  BY DEF GhostsReadSource
<1>1. project \in Projects /\ Tree(avars) /\ src = SrcOf
  BY DEF IInv, Instantiated, Resolved
<1>2. /\ varnames \in Seq(Range(varnames)) /\ Len(varnames) = nvars
      /\ \A m \in 1 .. Len(avars) : HasSlot(avars[m]) => varnames[Cardinality(Slots(m)) + 1] = avars[m].path
      /\ \A i \in 1 .. Len(varnames) : \E m \in 1 .. Len(avars) : HasSlot(avars[m]) /\ i = Cardinality(Slots(m)) + 1
  BY <1>1, VarnamesListed DEF Listed, nvars
<1>3. k \in 1 .. Len(varnames)
  <2>1. varnames \in Seq(Range(varnames))
    BY <1>2
  <2> QED BY <2>1, SeqIs
<1>4. PICK m \in 1 .. Len(avars) : HasSlot(avars[m]) /\ k = Cardinality(Slots(m)) + 1
  BY <1>2, <1>3
<1>5. varnames[k] = avars[m].path /\ m \in DOMAIN avars
  BY <1>1, <1>2, <1>4, TreeFacts
<1>6. FullSrc(p) \in Paths
  BY <1>5 DEF Paths
<1>7. src[p] = varnames[k]
  BY <1>1, <1>6, SrcOfIs
<1>8. offset[varnames[k]] = k - 1
  <2>1. k \in 1 .. nvars
    BY <1>2, <1>3
  <2> QED BY <2>1, NamesOK DEF NamesMatchSlots
<1> QED BY <1>7, <1>8 DEF IdentOffset

\* one that dangles is refused, and it alone
LEMMA DanglingOK ==
  ASSUME IInv
  PROVE  RefusesDangling
<1> DEFINE Dangling(p) == FullSrc(p) \notin Paths
           Astray(p) == Misled(Around(p), VarAt(p).src)
           Own(a) == a.v.type \notin {"module", "ref"} /\ ~ (a.v.name = "time" /\ a.v.eqn = "none")
           FlowMissing == \E a \in Range(avars) : \E f \in a.v.flows :
                            Own(a) /\ Append(Front(a.path), f) \notin Paths
           NoEquation == \E a \in Range(avars) : Own(a) /\ a.v.eqn # "tree"
<1>1. ASSUME avars # << >>
      PROVE  /\ FlowMissing <=> LostFlows # {}
             /\ NoEquation <=> Treeless # {}
             /\ \A p \in Refs : Astray(p) \/ (Dangling(p) <=> SrcOf[p] = Unset)
  <2>1. project \in Projects /\ Tree(avars)
    BY <1>1 DEF IInv, Instantiated
  <2>2. \A k \in DOMAIN avars : \A f :
          resolve(Front(avars[k].path), <<f>>) = Unset <=> Append(Front(avars[k].path), f) \notin Paths
    BY <2>1, FlowIs
  <2>3. \A k \in DOMAIN avars : Own(avars[k]) <=> Walked(avars[k])
    BY DEF Walked, HasSlot
  <2> HIDE DEF Own
  <2>4. FlowMissing <=>
          \E k \in DOMAIN avars : \E f \in avars[k].v.flows :
            Own(avars[k]) /\ Append(Front(avars[k].path), f) \notin Paths
    BY DEF Range
  <2>5. LostFlows # {} <=>
          \E k \in DOMAIN avars : \E f \in avars[k].v.flows :
            Own(avars[k]) /\ Append(Front(avars[k].path), f) \notin Paths
    BY <2>2, <2>3 DEF LostFlows
  <2>6. NoEquation <=> \E k \in DOMAIN avars : Own(avars[k]) /\ avars[k].v.eqn # "tree"
    BY DEF Range
  <2>7. NoEquation <=> Treeless # {}
    BY <2>3, <2>6 DEF Treeless
  <2>8. ASSUME NEW p \in Refs, ~ Astray(p) PROVE Dangling(p) <=> SrcOf[p] = Unset
    BY <2>1, <2>8, SrcOfIs
  <2> HIDE DEF FlowMissing, NoEquation, Dangling, Astray
  <2> QED BY <2>4, <2>5, <2>7, <2>8
<1>2. ASSUME phase \in {"offsets", "ready"}
      PROVE  ~ FlowMissing /\ ~ NoEquation /\ \A p \in Refs : Dangling(p) => Astray(p)
  <2>1. avars # << >> /\ ~ SomeFail
    BY <1>2 DEF IInv, Instantiated, Resolved
  <2> HIDE DEF FlowMissing, NoEquation, Dangling, Astray
  <2> QED BY <1>1, <2>1 DEF SomeFail
<1>3. ASSUME phase = "failed", avars # << >>
      PROVE  FlowMissing \/ NoEquation \/ \E p \in Refs : Dangling(p) \/ Astray(p)
  <2>1. SomeFail
    BY <1>3 DEF IInv, Resolved
  <2> HIDE DEF FlowMissing, NoEquation, Dangling, Astray
  <2> QED BY <1>1, <1>3, <2>1 DEF SomeFail
<1> QED BY <1>2, <1>3 DEF RefusesDangling

(***************************************************************************)
(* In every simulation that sd_sim_new returns the names, the slots and    *)
(* what resolve finds agree: module_assign_offsets, sd_sim_get_varcount    *)
(* and module_get_varnames walk the tree alike.                            *)
(***************************************************************************)
THEOREM NamesAgree == Spec => []NamesMatchSlots
BY Instantiation, NamesOK, PTL

(***************************************************************************)
(* An equation that names a ghost reads the variable its connect names,    *)
(* whatever the project and however deep the modules.                      *)
(***************************************************************************)
THEOREM GhostsAgree == Spec => []GhostsReadSource
BY Instantiation, GhostsOK, PTL

(***************************************************************************)
(* avar_init refuses the projects with a connect or a flow of nothing or   *)
(* with a variable that has no equation, and no other that module() could  *)
(* instantiate, but for misled ghosts.                                     *)
(***************************************************************************)
THEOREM DanglingRefused == Spec => []RefusesDangling
BY Instantiation, DanglingOK, PTL
=============================================================================
