---------------------------- MODULE RunlistProofs ----------------------------
(***************************************************************************)
(* Theorems about Runlist: for every compiled model the search lists each  *)
(* variable once, after what it depends on, and reports circular equations *)
(* where there are some.  And about EvalOrder: when the modules come       *)
(* behind what they read, both phases of calc compute each variable once   *)
(* and behind what it reads.                                               *)
(***************************************************************************)
EXTENDS EvalOrder, Arithmetic, SequenceTheorems

-----------------------------------------------------------------------------
(* The modules of a model are a tree.                                      *)

\* the module a is p, or p is inside it
Below(p, a) == p = a \/ a \in m.anc[p]

\* v is one of the variables of p itself
Inside(v, p) == m.anc[v] = m.anc[p] \cup {p}

Nested(v) ==
  /\ v # Root => Root \in m.anc[v]
  /\ \A a \in m.anc[v] :
       /\ m.anc[a] \subseteq m.anc[v]
       /\ \E c \in Range(m.avars[a]) : Below(v, c)
  /\ \A a, b \in m.anc[v] : a = b \/ a \in m.anc[b] \/ b \in m.anc[a]

LEMMA ModelFacts ==
  ASSUME m \in Model
  PROVE  /\ m.type \in [AVar -> VarType] /\ m.type[Root] = "module" /\ m.anc[Root] = {}
         /\ m.avars \in [AVar -> Seq(AVar)] /\ m.direct_deps \in [AVar -> Seq(AVar)]
         /\ m.anc \in [AVar -> SUBSET AVar]
         /\ Len(m.avars[Root]) >= 1 /\ m.avars[Root][1] = Time
         /\ \A v \in AVar : v \notin m.anc[v] /\ (v = Root \/ \E p \in AVar : v \in Range(m.avars[p]))
         /\ \A p \in AVar : IsInjective(m.avars[p]) /\ (m.type[p] # "module" => m.avars[p] = << >>)
         /\ \A p \in AVar : \A i \in DOMAIN m.avars[p] : Inside(m.avars[p][i], p)
         /\ \A v \in AVar : m.type[v] \in {"module", "ref"} => m.direct_deps[v] = << >>
         /\ \A v \in AVar : \A i \in DOMAIN m.direct_deps[v] :
              m.anc[m.direct_deps[v][i]] = m.anc[v]
BY DEF Model, Inside

(* By induction on the depth: there is no least deep variable for which    *)
(* they are not.                                                           *)
LEMMA Tree ==
  ASSUME m \in Model, NEW v \in AVar
  PROVE  Nested(v)
<1> DEFINE Depth(x) == Cardinality(m.anc[x])
           Bad == {x \in AVar : ~Nested(x)}
           T == {Depth(x) : x \in Bad}
<1>1. \A x \in AVar : IsFiniteSet(m.anc[x]) /\ Depth(x) \in Nat
  <2>1. ASSUME NEW x \in AVar PROVE IsFiniteSet(m.anc[x])
    <3>1. m.anc[x] \in SUBSET AVar
      BY ModelFacts
    <3> QED BY <3>1, AVarAssumption, FS_Subset
  <2> QED BY <2>1, FS_CardinalityType
<1>2. SUFFICES ASSUME v \in Bad PROVE FALSE
  OBVIOUS
<1>3. T \in SUBSET Nat /\ T # {}
  BY <1>1, <1>2
<1>4. PICK d \in T : \A e \in T : d <= e
  BY <1>3, LeastNat
<1>5. PICK x \in Bad : \A y \in Bad : Depth(x) <= Depth(y)
  BY <1>4
<1> HIDE DEF Depth, T
<1>6. x # Root
  BY ModelFacts DEF Nested
<1>7. PICK p \in AVar : x \in Range(m.avars[p])
  BY <1>6, ModelFacts
<1>8. m.anc[x] = m.anc[p] \cup {p} /\ p \notin m.anc[p]
  <2>1. PICK j \in DOMAIN m.avars[p] : m.avars[p][j] = x
    BY <1>7 DEF Range
  <2>2. Inside(m.avars[p][j], p)
    BY ModelFacts
  <2> QED BY <2>1, <2>2, ModelFacts DEF Inside
<1>9. Depth(p) < Depth(x)
  <2>1. Cardinality(m.anc[p] \cup {p}) = Cardinality(m.anc[p]) + 1
    BY <1>1, <1>8, FS_AddElement
  <2> QED BY <1>1, <1>8, <2>1 DEF Depth
<1>10. Nested(p)
  BY <1>1, <1>5, <1>9
<1>11. Nested(x)
  <2>1. Root \in m.anc[x]
    BY <1>8, <1>10 DEF Nested
  <2>2. ASSUME NEW a \in m.anc[x]
        PROVE  m.anc[a] \subseteq m.anc[x] /\ \E c \in Range(m.avars[a]) : Below(x, c)
    <3>1. CASE a = p
      BY <1>7, <1>8, <3>1 DEF Below
    <3>2. CASE a \in m.anc[p]
      BY <1>8, <1>10, <3>2 DEF Nested, Below
    <3> QED BY <1>8, <3>1, <3>2
  <2>3. ASSUME NEW a \in m.anc[x], NEW b \in m.anc[x]
        PROVE  a = b \/ a \in m.anc[b] \/ b \in m.anc[a]
    BY <1>8, <1>10 DEF Nested
  <2> QED BY <2>1, <2>2, <2>3 DEF Nested
<1> QED BY <1>5, <1>11

(* A variable is in one module, and of the variables of a module at most   *)
(* one is around a given module.                                           *)
LEMMA OneParent ==
  ASSUME m \in Model, NEW v \in AVar, NEW p \in AVar, NEW q \in AVar, Inside(v, p), Inside(v, q)
  PROVE  p = q
BY ModelFacts, Tree DEF Inside, Nested

LEMMA Siblings ==
  ASSUME m \in Model, NEW p \in AVar, NEW a \in AVar, NEW b \in AVar, NEW x \in AVar,
         Inside(a, p), Inside(b, p), Below(x, a), Below(x, b)
  PROVE  a = b
BY ModelFacts, Tree DEF Inside, Nested, Below

-----------------------------------------------------------------------------
(* The inductive invariant.                                                *)

TypeOK ==
  /\ m \in Model
  /\ visited \in [AVar -> BOOLEAN] /\ visiting \in [AVar -> BOOLEAN]
  /\ initials \in [AVar -> Seq(AVar)]
  /\ flows \in [AVar -> Seq(AVar)]
  /\ stocks \in [AVar -> Seq(AVar)]
  /\ stack \in Seq(Frame)

(* What follows is stated for any stack st, flags vd and vg and lists ini,  *)
(* fl and sk, so that it can be said of the state before and after a step. *)

(* On the lists as far as they go: a variable listed, everything in a      *)
(* module and below it listed, nothing in it and below listed.             *)
Listed(ini, v, p) == m.type[v] = "ref" \/ v \in Range(ini[p])

Complete(ini, p) == \A v \in Range(m.avars[p]) \ {Time} : Listed(ini, v, p)

AllComplete(ini, a) == \A p \in AVar : Below(p, a) => Named(p) \/ Complete(ini, p)

Untouched(ini, a) == \A p \in AVar : Below(p, a) => ini[p] = << >>

(* Each frame but the last waits for the call above it.                    *)
Waits(f, g) ==
  /\ f.fn = "sort" /\ f.sorted => g.fn = "sort" /\ g.module = m.avars[f.module][f.i]
  /\ f.fn = "sort" /\ ~f.sorted =>
       /\ g.fn = "add" /\ g.module = f.module
       /\ f.i - 1 \in DOMAIN m.avars[f.module] /\ g.av = m.avars[f.module][f.i - 1]
  /\ f.fn = "add" =>
       /\ g.fn = "add" /\ g.module = f.module
       /\ f.i - 1 \in DOMAIN m.direct_deps[f.av] /\ g.av = m.direct_deps[f.av][f.i - 1]

FrameOK(f) ==
  /\ f.fn = "sort" =>
       /\ f.av = f.module /\ m.type[f.module] = "module"
       /\ f.i > 0 => f.i >= FirstIndex(f.module)
       /\ f.sorted => f.i \in DOMAIN m.avars[f.module] /\ m.type[m.avars[f.module][f.i]] = "module"
  /\ f.fn = "add" => Inside(f.av, f.module)

(* The frames are nested as the modules are, the calls of                  *)
(* module_add_to_runlists last.                                            *)
Shape(st) ==
  /\ st # << >> => st[1].fn = "sort" /\ st[1].module = Root
  /\ \A n \in 1 .. Len(st) : FrameOK(st[n])
  /\ \A n \in 1 .. Len(st) - 1 : st[n].i > 0 /\ Waits(st[n], st[n + 1])
  /\ \A n, k \in 1 .. Len(st) : n <= k =>
       /\ Below(st[k].module, st[n].module)
       /\ st[n].fn = "add" => st[k].fn = "add" /\ st[k].module = st[n].module

(* What visited and visiting say of the frames.                            *)
Entered(f) == f.fn = "add" /\ f.i > 0

Marked(vd, vg, f) ==
  /\ Entered(f) => vg[f.av] /\ ~vd[f.av]
  /\ f.fn = "sort" /\ f.i = 0 => ~vd[f.module]

\* the dependencies behind a frame's index, but for the one it waits for
DepsVisited(vd, f, waits) ==
  f.fn = "add" =>
    \A k \in DOMAIN m.direct_deps[f.av] :
      k < f.i => vd[m.direct_deps[f.av][k]] \/ (waits /\ k = f.i - 1)

OnStack(st, v) == \E n \in 1 .. Len(st) : st[n].av = v /\ st[n].i > 0

Marks(st, vd, vg) ==
  /\ \A n \in 1 .. Len(st) : Marked(vd, vg, st[n]) /\ DepsVisited(vd, st[n], n < Len(st))
  /\ \A n, k \in 1 .. Len(st) : Entered(st[n]) /\ Entered(st[k]) /\ n # k => st[n].av # st[k].av
  /\ st # << >> => \A v \in AVar : vg[v] => OnStack(st, v)

(* What a frame has listed, and what is still to come.                     *)
Behind(ini, f, waits) ==
  \A k \in DOMAIN m.avars[f.module] :
    k >= FirstIndex(f.module) /\ k < f.i =>
      Listed(ini, m.avars[f.module][k], f.module) \/ (waits /\ ~f.sorted /\ k = f.i - 1)

Ahead(ini, f) ==
  \A k \in DOMAIN m.avars[f.module] :
    k >= f.i => Untouched(ini, m.avars[f.module][k]) \/ (k = f.i /\ f.sorted)

Progress(ini, f, waits) ==
  /\ f.fn = "add" => AllComplete(ini, f.av)
  /\ f.fn = "sort" /\ f.i = 0 => Untouched(ini, f.module)
  /\ f.fn = "sort" /\ f.sorted /\ ~waits => AllComplete(ini, m.avars[f.module][f.i])
  /\ f.fn = "sort" /\ f.i > 0 => Behind(ini, f, waits) /\ Ahead(ini, f)

AllProgress(ini, st) == \A n \in 1 .. Len(st) : Progress(ini, st[n], n < Len(st))

(* What is on the lists, and in which order.                               *)
InOrder(l) ==
  \A j \in DOMAIN l : \A k \in DOMAIN m.direct_deps[l[j]] :
    LET d == m.direct_deps[l[j]][k]
    IN  m.type[d] # "ref" => \E n \in 1 .. j - 1 : l[n] = d

ListsOK(ini, vd) ==
  /\ \A v, p \in AVar : vd[v] /\ Inside(v, p) => Listed(ini, v, p)
  /\ \A p \in AVar : \A v \in Range(ini[p]) :
       Inside(v, p) /\ vd[v] /\ m.type[v] # "ref" /\ AllComplete(ini, v)
  /\ \A p \in AVar : IsInjective(ini[p]) /\ InOrder(ini[p])

ThreeLists(ini, fl, sk) ==
  \A p \in AVar :
    /\ Range(fl[p]) \cup Range(sk[p]) = Range(ini[p])
    /\ \A v \in Range(fl[p]) : OnFlows(v)
    /\ \A v \in Range(sk[p]) : OnStocks(v)

Result(ini, st, r) ==
  /\ r = "none" <=> st # << >>
  /\ r = "ok" => AllComplete(ini, Root)
  /\ r = "circular" => HasCycle

IInv ==
  /\ TypeOK
  /\ Shape(stack)
  /\ Marks(stack, visited, visiting)
  /\ AllProgress(initials, stack)
  /\ ListsOK(initials, visited)
  /\ ThreeLists(initials, flows, stocks)
  /\ Result(initials, stack, ret)

(* m never changes, so the invariant holds after a step when it holds of   *)
(* the new values.                                                         *)
LEMMA NextState ==
  ASSUME m' = m, TypeOK', Shape(stack'), Marks(stack', visited', visiting'),
         AllProgress(initials', stack'), ListsOK(initials', visited'),
         ThreeLists(initials', flows', stocks'), Result(initials', stack', ret')
  PROVE  IInv'
<1>1. Shape(stack)'
  BY DEF Shape, FrameOK, Waits, Inside, Below, FirstIndex
<1>2. Marks(stack, visited, visiting)'
  BY DEF Marks, Marked, Entered, DepsVisited, OnStack
<1>3. AllProgress(initials, stack)'
  BY DEF AllProgress, Progress, Behind, Ahead, AllComplete, Complete, Untouched, Listed, Named, Below, FirstIndex
<1>4. ListsOK(initials, visited)'
  BY DEF ListsOK, InOrder, AllComplete, Complete, Listed, Named, Inside, Below
<1>5. ThreeLists(initials, flows, stocks)'
  BY DEF ThreeLists, OnFlows, OnStocks
<1>6. Result(initials, stack, ret)'
  BY DEF Result, HasCycle, AllComplete, Complete, Listed, Named, Below
<1> QED BY <1>1, <1>2, <1>3, <1>4, <1>5, <1>6 DEF IInv

-----------------------------------------------------------------------------
(* What a step does to the stack: a return, a new innermost frame, a call. *)

Popped(st) ==
  /\ st \in Seq(Frame) /\ Len(st) = Len(stack) - 1
  /\ \A n \in 1 .. Len(stack) - 1 : st[n] = stack[n]

Stepped(st, f) ==
  /\ st \in Seq(Frame) /\ Len(st) = Len(stack)
  /\ st[Len(stack)] = f
  /\ \A n \in 1 .. Len(stack) - 1 : st[n] = stack[n]

Pushed(st, f, g) ==
  /\ st \in Seq(Frame) /\ Len(st) = Len(stack) + 1
  /\ st[Len(stack)] = f /\ st[Len(stack) + 1] = g
  /\ \A n \in 1 .. Len(stack) - 1 : st[n] = stack[n]

LEMMA TopFacts ==
  ASSUME TypeOK, stack # << >>
  PROVE  /\ Len(stack) \in Nat \ {0} /\ Top = stack[Len(stack)]
         /\ Top \in Frame /\ Top.module \in AVar /\ Top.av \in AVar /\ Top.i \in Nat
         /\ \A n \in 1 .. Len(stack) : stack[n] \in Frame
<1>1. stack \in Seq(Frame) /\ Len(stack) \in Nat \ {0}
  BY DEF TypeOK
<1>2. \A n \in 1 .. Len(stack) : stack[n] \in Frame
  BY <1>1
<1>3. Top = stack[Len(stack)] /\ Top \in Frame
  BY <1>1, <1>2 DEF Top
<1> QED BY <1>1, <1>2, <1>3 DEF Frame

LEMMA StackPop ==
  ASSUME TypeOK, stack # << >>
  PROVE  Popped(Front(stack))
<1> DEFINE l == Len(stack)
           s == SubSeq(stack, 1, l - 1)
<1>1. l \in Nat \ {0} /\ 1 \in Int /\ l - 1 \in Int /\ \A n \in 1 .. l - 1 : stack[n] \in Frame
  BY TopFacts
<1>2. /\ s \in Seq(Frame)
      /\ Len(s) = IF 1 <= l - 1 THEN (l - 1) - 1 + 1 ELSE 0
      /\ \A n \in 1 .. (l - 1) - 1 + 1 : s[n] = stack[1 + n - 1]
  <2> HIDE DEF l
  <2> QED BY ONLY <1>1, SubSeqProperties
<1> HIDE DEF l, s
<1>3. Len(s) = l - 1
  BY <1>1, <1>2
<1>4. ASSUME NEW n \in 1 .. l - 1 PROVE s[n] = stack[n]
  <2>1. n \in 1 .. (l - 1) - 1 + 1 /\ 1 + n - 1 = n
    BY <1>1
  <2> QED BY <1>2, <2>1
<1> QED BY <1>2, <1>3, <1>4 DEF Popped, Front, l, s

LEMMA StackStep ==
  ASSUME TypeOK, stack # << >>, NEW f \in Frame
  PROVE  Stepped(Retop(f), f)
<1>1. stack \in Seq(Frame) /\ Len(stack) \in Nat \ {0}
  BY TopFacts DEF TypeOK
<1> QED BY <1>1 DEF Stepped, Retop

LEMMA StackPush ==
  ASSUME TypeOK, stack # << >>, NEW f \in Frame, NEW g \in Frame
  PROVE  Pushed(Append(Retop(f), g), f, g)
<1>1. Len(stack) \in Nat \ {0}
  BY TopFacts
<1>2. Stepped(Retop(f), f)
  BY StackStep
<1> QED BY <1>1, <1>2 DEF Pushed, Stepped

\* a frame that goes on in the same call
Same(f) == f \in Frame /\ f.fn = Top.fn /\ f.module = Top.module /\ f.av = Top.av

LEMMA ShapePop ==
  ASSUME TypeOK, stack # << >>, Shape(stack), NEW st, Popped(st)
  PROVE  Shape(st)
<1> DEFINE l == Len(stack)
<1>1. l \in Nat \ {0} /\ st \in Seq(Frame) /\ Len(st) = l - 1 /\ \A n \in 1 .. l - 1 : st[n] = stack[n]
  BY TopFacts DEF Popped
<1> HIDE DEF l
<1>2. st # << >> => 1 \in 1 .. l - 1
  BY <1>1
<1>3. \A n \in 1 .. l - 1 : n \in 1 .. l /\ FrameOK(st[n])
  BY <1>1 DEF Shape, l
<1>4. \A n \in 1 .. l - 2 : st[n].i > 0 /\ Waits(st[n], st[n + 1])
  <2>1. ASSUME NEW n \in 1 .. l - 2 PROVE n \in 1 .. l - 1 /\ n + 1 \in 1 .. l - 1
    BY <1>1
  <2> QED BY <1>1, <2>1 DEF Shape, l
<1>5. \A n, k \in 1 .. l - 1 : n <= k =>
        /\ Below(st[k].module, st[n].module)
        /\ st[n].fn = "add" => st[k].fn = "add" /\ st[k].module = st[n].module
  BY <1>1, <1>3 DEF Shape, l
<1>6. st # << >> => st[1].fn = "sort" /\ st[1].module = Root
  BY <1>1, <1>2 DEF Shape
<1> QED BY <1>1, <1>3, <1>4, <1>5, <1>6 DEF Shape

LEMMA ShapeStep ==
  ASSUME TypeOK, stack # << >>, Shape(stack), NEW st, NEW f, Same(f), FrameOK(f), Stepped(st, f)
  PROVE  Shape(st)
<1> DEFINE l == Len(stack)
<1>1. l \in Nat \ {0} /\ Top = stack[l] /\ st[l] = f /\ Len(st) = l
      /\ \A n \in 1 .. l - 1 : st[n] = stack[n]
  BY TopFacts DEF Stepped
<1> HIDE DEF l
<1>2. \A n \in 1 .. l : st[n].fn = stack[n].fn /\ st[n].module = stack[n].module /\ st[n].av = stack[n].av
  BY <1>1 DEF Same
<1>3. \A n \in 1 .. l : FrameOK(st[n])
  BY <1>1 DEF Shape, l
<1>4. \A n \in 1 .. l - 1 : st[n].i > 0 /\ Waits(st[n], st[n + 1])
  <2>1. ASSUME NEW n \in 1 .. l - 1 PROVE st[n].i > 0 /\ Waits(st[n], st[n + 1])
    <3>1. stack[n].i > 0 /\ Waits(stack[n], stack[n + 1]) /\ st[n] = stack[n]
      BY <1>1 DEF Shape, l
    <3>2. n + 1 \in 1 .. l
      BY <1>1
    <3> QED BY <1>2, <3>1, <3>2 DEF Waits
  <2> QED BY <2>1
<1>5. \A n, k \in 1 .. l : n <= k =>
        /\ Below(st[k].module, st[n].module)
        /\ st[n].fn = "add" => st[k].fn = "add" /\ st[k].module = st[n].module
  BY <1>2 DEF Shape, l
<1>6. st[1].fn = "sort" /\ st[1].module = Root
  BY <1>1, <1>2 DEF Shape
<1> QED BY <1>1, <1>3, <1>4, <1>5, <1>6 DEF Shape

LEMMA ShapePush ==
  ASSUME TypeOK, stack # << >>, Shape(stack), NEW st, NEW f, NEW g \in Frame,
         Same(f), FrameOK(f), f.i > 0, FrameOK(g), Waits(f, g), Below(g.module, f.module),
         Pushed(st, f, g)
  PROVE  Shape(st)
<1> DEFINE l == Len(stack)
<1>1. l \in Nat \ {0} /\ Top = stack[l] /\ st[l] = f /\ st[l + 1] = g /\ Len(st) = l + 1
      /\ \A n \in 1 .. l - 1 : st[n] = stack[n]
  BY TopFacts DEF Pushed
<1>2. \A n \in 1 .. l : stack[n].module \in AVar
  BY TopFacts DEF Frame
<1>3. m \in Model /\ g.module \in AVar
  BY DEF TypeOK, Frame
<1> HIDE DEF l
<1>4. \A n \in 1 .. l : st[n].fn = stack[n].fn /\ st[n].module = stack[n].module /\ st[n].av = stack[n].av
  BY <1>1 DEF Same
<1>5. \A n \in 1 .. l + 1 : FrameOK(st[n])
  BY <1>1 DEF Shape, l
<1>6. \A n \in 1 .. l : st[n].i > 0 /\ Waits(st[n], st[n + 1])
  <2>1. ASSUME NEW n \in 1 .. l - 1 PROVE st[n].i > 0 /\ Waits(st[n], st[n + 1])
    <3>1. stack[n].i > 0 /\ Waits(stack[n], stack[n + 1]) /\ st[n] = stack[n]
      BY <1>1 DEF Shape, l
    <3>2. n + 1 \in 1 .. l
      BY <1>1
    <3> QED BY <1>4, <3>1, <3>2 DEF Waits
  <2> QED BY <1>1, <2>1
<1>7. ASSUME NEW n \in 1 .. l + 1, NEW k \in 1 .. l + 1, n <= k
      PROVE  /\ Below(st[k].module, st[n].module)
             /\ st[n].fn = "add" => st[k].fn = "add" /\ st[k].module = st[n].module
  <2>1. CASE k \in 1 .. l
    <3>1. n \in 1 .. l
      BY <1>1, <1>7, <2>1
    <3> QED BY <1>4, <1>7, <2>1, <3>1 DEF Shape, l
  <2>2. CASE n = l + 1 /\ k = l + 1
    BY <1>1, <2>2 DEF Below
  <2>3. CASE n \in 1 .. l /\ k = l + 1
    <3>1. l \in 1 .. l /\ n <= l
      BY <1>1, <2>3
    <3>2. Below(stack[l].module, stack[n].module)
      BY <2>3, <3>1 DEF Shape, l
    <3>3. Below(g.module, stack[n].module)
      BY <1>1, <1>2, <1>3, <2>3, <3>1, <3>2, Tree DEF Below, Nested, Same
    <3>4. stack[n].fn = "add" => f.fn = "add" /\ f.module = stack[n].module
      BY <1>1, <2>3, <3>1 DEF Shape, l, Same
    <3> QED BY <1>1, <1>4, <2>3, <3>3, <3>4 DEF Waits
  <2> QED BY <1>1, <2>1, <2>2, <2>3
<1>8. st[1].fn = "sort" /\ st[1].module = Root
  BY <1>1, <1>4 DEF Shape
<1> QED BY <1>1, <1>5, <1>6, <1>7, <1>8 DEF Shape

-----------------------------------------------------------------------------
(* What the steps do to visited and visiting.                              *)

LEMMA FlagTypes ==
  ASSUME TypeOK, NEW n \in 1 .. Len(stack)
  PROVE  /\ stack[n].av \in AVar /\ stack[n].module \in AVar /\ stack[n].i \in Nat
         /\ \A k \in DOMAIN m.direct_deps[stack[n].av] :
              m.direct_deps[stack[n].av][k] \in AVar /\ k \in Nat \ {0}
         /\ \A k \in DOMAIN m.avars[stack[n].module] :
              m.avars[stack[n].module][k] \in AVar /\ k \in Nat \ {0}
<1>1. stack[n] \in Frame
  BY DEF TypeOK
<1>2. stack[n].av \in AVar /\ stack[n].module \in AVar /\ stack[n].i \in Nat
  BY <1>1 DEF Frame
<1>3. m.direct_deps[stack[n].av] \in Seq(AVar) /\ m.avars[stack[n].module] \in Seq(AVar)
  BY <1>2, ModelFacts DEF TypeOK
<1> QED BY <1>2, <1>3

(* A return from the innermost call.                                       *)
LEMMA MarksPop ==
  ASSUME TypeOK, stack # << >>, Shape(stack), Marks(stack, visited, visiting),
         NEW st, Popped(st), NEW vd, NEW vg,
         \A v \in AVar : v # Top.av => vd[v] = visited[v] /\ vg[v] = visiting[v],
         Top.fn = "add" => vd[Top.av],
         Top.i > 0 => ~vg[Top.av],
         Top.i = 0 => vd = visited /\ vg = visiting
  PROVE  Marks(st, vd, vg)
<1> DEFINE l == Len(stack)
<1>1. l \in Nat \ {0} /\ Top = stack[l] /\ Top.av \in AVar /\ Top.i \in Nat /\ Len(st) = l - 1
      /\ \A n \in 1 .. l - 1 : st[n] = stack[n] /\ n \in 1 .. l /\ n # l
  BY TopFacts DEF Popped
<1>2. \A n \in 1 .. l : stack[n].av \in AVar
  BY FlagTypes
<1> HIDE DEF l
<1>3. \A n \in 1 .. l - 1 : stack[n].i > 0
  BY <1>1 DEF Shape, l
<1>4. \A n \in 1 .. l - 1 : Entered(stack[n]) => Top.fn = "add" /\ stack[n].av # Top.av
  <2>1. ASSUME NEW n \in 1 .. l - 1, Entered(stack[n]) PROVE Top.fn = "add" /\ stack[n].av # Top.av
    <3>1. Top.fn = "add"
      BY <1>1, <2>1 DEF Shape, Entered, l
    <3>2. CASE Top.i > 0
      BY <1>1, <2>1, <3>1, <3>2 DEF Marks, Entered, l
    <3>3. CASE Top.i = 0
      <4>1. visited[Top.av]
        BY <3>1, <3>3
      <4>2. ~visited[stack[n].av]
        BY <1>1, <2>1 DEF Marks, Marked, l
      <4> QED BY <3>1, <4>1, <4>2
    <3> QED BY <1>1, <3>2, <3>3
  <2> QED BY <2>1
<1>5. \A n \in 1 .. l - 1 : Marked(vd, vg, st[n])
  <2>1. ASSUME NEW n \in 1 .. l - 1 PROVE Marked(vd, vg, stack[n])
    <3>1. Marked(visited, visiting, stack[n])
      BY <1>1, <2>1 DEF Marks, l
    <3>2. Entered(stack[n]) => vd[stack[n].av] = visited[stack[n].av] /\ vg[stack[n].av] = visiting[stack[n].av]
      BY <1>1, <1>2, <1>4, <2>1
    <3> QED BY <1>3, <2>1, <3>1, <3>2 DEF Marked
  <2> QED BY <1>1, <2>1
<1>6. ASSUME NEW n \in 1 .. l - 1 PROVE DepsVisited(vd, st[n], n < l - 1)
  <2>1. SUFFICES ASSUME stack[n].fn = "add",
                        NEW k \in DOMAIN m.direct_deps[stack[n].av], k < stack[n].i
                 PROVE  vd[m.direct_deps[stack[n].av][k]] \/ (n < l - 1 /\ k = stack[n].i - 1)
    BY <1>1 DEF DepsVisited
  <2>2. Top.fn = "add" /\ m.direct_deps[stack[n].av][k] \in AVar
    <3>1. n \in 1 .. l /\ l \in 1 .. l /\ n <= l
      BY <1>1
    <3>2. Top.fn = "add"
      BY <1>1, <2>1, <3>1 DEF Shape, l
    <3>3. m.direct_deps[stack[n].av][k] \in AVar
      BY <2>1, <3>1, FlagTypes DEF l
    <3> QED BY <3>2, <3>3
  <2>3. visited[m.direct_deps[stack[n].av][k]] \/ k = stack[n].i - 1
    BY <1>1, <2>1 DEF Marks, DepsVisited, l
  <2>4. CASE visited[m.direct_deps[stack[n].av][k]]
    BY <2>2, <2>4
  <2>5. CASE k = stack[n].i - 1 /\ n = l - 1
    <3>1. n \in 1 .. l - 1 /\ n + 1 = l
      BY <1>1, <2>5
    <3>2. Waits(stack[n], stack[n + 1])
      BY <3>1 DEF Shape, l
    <3>3. m.direct_deps[stack[n].av][k] = Top.av
      BY <1>1, <2>1, <2>5, <3>1, <3>2 DEF Waits
    <3> QED BY <2>2, <3>3
  <2> QED BY <1>1, <2>3, <2>4, <2>5
<1>7. \A n, k \in 1 .. l - 1 : Entered(st[n]) /\ Entered(st[k]) /\ n # k => st[n].av # st[k].av
  BY <1>1 DEF Marks, l
<1>8. ASSUME NEW v \in AVar, vg[v] PROVE OnStack(st, v)
  <2>1. visiting[v] /\ (v = Top.av => Top.i = 0)
    BY <1>1, <1>8
  <2>2. PICK n \in 1 .. l : stack[n].av = v /\ stack[n].i > 0
    BY <2>1 DEF Marks, OnStack, l
  <2>3. n \in 1 .. l - 1
    BY <1>1, <2>1, <2>2
  <2> QED BY <1>1, <2>2, <2>3 DEF OnStack
<1> QED BY <1>1, <1>5, <1>6, <1>7, <1>8 DEF Marks

(* A step of a loop that changes no flag.                                  *)
LEMMA MarksStep ==
  ASSUME TypeOK, stack # << >>, Shape(stack), Marks(stack, visited, visiting),
         NEW st, NEW f, Same(f), Stepped(st, f), Top.i > 0, f.i > 0, DepsVisited(visited, f, FALSE)
  PROVE  Marks(st, visited, visiting)
<1> DEFINE l == Len(stack)
<1>1. l \in Nat \ {0} /\ Top = stack[l] /\ st[l] = f /\ Len(st) = l
      /\ \A n \in 1 .. l - 1 : st[n] = stack[n]
  BY TopFacts DEF Stepped
<1> HIDE DEF l
<1>2. \A n \in 1 .. l : /\ st[n].fn = stack[n].fn /\ st[n].module = stack[n].module
                        /\ st[n].av = stack[n].av /\ (st[n].i > 0 <=> stack[n].i > 0)
  BY <1>1 DEF Same
<1>3. \A n \in 1 .. l : Marked(visited, visiting, st[n])
  <2>1. ASSUME NEW n \in 1 .. l PROVE Marked(visited, visiting, st[n])
    <3>1. Marked(visited, visiting, stack[n])
      BY DEF Marks, l
    <3>2. CASE n = l
      BY <1>1, <1>2, <3>1, <3>2 DEF Marked, Entered
    <3>3. CASE n # l
      BY <1>1, <3>1, <3>3
    <3> QED BY <3>2, <3>3
  <2> QED BY <2>1
<1>4. \A n \in 1 .. l : DepsVisited(visited, st[n], n < l)
  <2>1. DepsVisited(visited, st[l], l < l)
    BY <1>1 DEF DepsVisited
  <2>2. \A n \in 1 .. l - 1 : DepsVisited(visited, st[n], n < l)
    BY <1>1 DEF Marks, l
  <2> QED BY <1>1, <2>1, <2>2
<1>5. \A n, k \in 1 .. l : Entered(st[n]) /\ Entered(st[k]) /\ n # k => st[n].av # st[k].av
  BY <1>2 DEF Marks, Entered, l
<1>6. \A v \in AVar : visiting[v] => OnStack(st, v)
  BY <1>1, <1>2 DEF Marks, OnStack, l
<1> QED BY <1>1, <1>3, <1>4, <1>5, <1>6 DEF Marks

(* A call.                                                                 *)
LEMMA MarksPush ==
  ASSUME TypeOK, stack # << >>, Shape(stack), Marks(stack, visited, visiting),
         NEW st, NEW f, NEW g \in Frame, Same(f), Pushed(st, f, g),
         Top.i > 0, f.i > 0, DepsVisited(visited, f, TRUE),
         g.i = 0, g.fn = "sort" => ~visited[g.module]
  PROVE  Marks(st, visited, visiting)
<1> DEFINE l == Len(stack)
<1>1. l \in Nat \ {0} /\ Top = stack[l] /\ st[l] = f /\ st[l + 1] = g /\ Len(st) = l + 1
      /\ \A n \in 1 .. l - 1 : st[n] = stack[n]
  BY TopFacts DEF Pushed
<1>2. ~Entered(g)
  BY DEF Entered
<1>3. DepsVisited(visited, g, FALSE)
  <2>1. m.direct_deps[g.av] \in Seq(AVar)
    BY ModelFacts DEF TypeOK, Frame
  <2> QED BY <2>1 DEF DepsVisited
<1> HIDE DEF l
<1>4. \A n \in 1 .. l : /\ st[n].fn = stack[n].fn /\ st[n].module = stack[n].module
                        /\ st[n].av = stack[n].av /\ (st[n].i > 0 <=> stack[n].i > 0)
  BY <1>1 DEF Same
<1>5. \A n \in 1 .. l + 1 : Marked(visited, visiting, st[n])
  <2>1. ASSUME NEW n \in 1 .. l + 1 PROVE Marked(visited, visiting, st[n])
    <3>1. CASE n = l
      BY <1>1, <1>4, <3>1 DEF Marks, Marked, Entered, l
    <3>2. CASE n \in 1 .. l - 1
      BY <1>1, <3>2 DEF Marks, l
    <3>3. CASE n = l + 1
      BY <1>1, <1>2, <3>3 DEF Marked
    <3> QED BY <1>1, <3>1, <3>2, <3>3
  <2> QED BY <2>1
<1>6. \A n \in 1 .. l + 1 : DepsVisited(visited, st[n], n < l + 1)
  <2>1. ASSUME NEW n \in 1 .. l + 1 PROVE DepsVisited(visited, st[n], n < l + 1)
    <3>1. CASE n = l
      BY <1>1, <3>1 DEF DepsVisited
    <3>2. CASE n \in 1 .. l - 1
      <4>1. DepsVisited(visited, stack[n], n < l)
        BY <1>1, <3>2 DEF Marks, l
      <4> QED BY <1>1, <3>2, <4>1 DEF DepsVisited
    <3>3. CASE n = l + 1
      BY <1>1, <1>3, <3>3 DEF DepsVisited
    <3> QED BY <1>1, <3>1, <3>2, <3>3
  <2> QED BY <2>1
<1>7. \A n, k \in 1 .. l + 1 : Entered(st[n]) /\ Entered(st[k]) /\ n # k => st[n].av # st[k].av
  <2>1. ASSUME NEW n \in 1 .. l + 1, NEW k \in 1 .. l + 1, Entered(st[n]), Entered(st[k]), n # k
        PROVE  st[n].av # st[k].av
    <3>1. n \in 1 .. l /\ k \in 1 .. l
      BY <1>1, <1>2, <2>1
    <3> QED BY <1>4, <2>1, <3>1 DEF Marks, Entered, l
  <2> QED BY <2>1
<1>8. \A v \in AVar : visiting[v] => OnStack(st, v)
  <2>1. ASSUME NEW v \in AVar, visiting[v] PROVE OnStack(st, v)
    <3>1. PICK n \in 1 .. l : stack[n].av = v /\ stack[n].i > 0
      BY <2>1 DEF Marks, OnStack, l
    <3>2. n \in 1 .. l + 1
      BY <1>1
    <3> QED BY <1>1, <1>4, <3>1, <3>2 DEF OnStack
  <2> QED BY <2>1
<1> QED BY <1>1, <1>5, <1>6, <1>7, <1>8 DEF Marks

-----------------------------------------------------------------------------
(* What the steps do to the lists.                                         *)

Extends(ini) == \A p \in AVar : Range(initials[p]) \subseteq Range(ini[p])

LEMMA CompleteMono ==
  ASSUME NEW ini, Extends(ini), NEW a, AllComplete(initials, a)
  PROVE  AllComplete(ini, a)
BY DEF Extends, AllComplete, Complete, Listed

(* A variable that is no module has nothing inside.                        *)
LEMMA LeafComplete ==
  ASSUME m \in Model, NEW ini, NEW a \in AVar, m.type[a] # "module"
  PROVE  AllComplete(ini, a)
<1>1. m.avars[a] = << >>
  BY ModelFacts
<1>2. Range(m.avars[a]) = {}
  BY <1>1 DEF Range
<1>3. \A p \in AVar : a \notin m.anc[p]
  BY <1>2, Tree DEF Nested
<1> QED BY <1>2, <1>3 DEF AllComplete, Complete, Below

(* A module that an equation names counts as complete, as does what is     *)
(* inside it.                                                              *)
LEMMA NamedComplete ==
  ASSUME m \in Model, NEW ini, NEW v \in AVar, NEW k \in DOMAIN m.direct_deps[v]
  PROVE  AllComplete(ini, m.direct_deps[v][k])
BY DEF AllComplete, Named, Below

(* The module that a variable is being listed in is not among those still  *)
(* to come, nor inside one of them.                                        *)
LEMMA NotAhead ==
  ASSUME TypeOK, stack # << >>, Shape(stack), Top.fn = "add",
         NEW n \in 1 .. Len(stack) - 1, stack[n].fn = "sort",
         NEW k \in DOMAIN m.avars[stack[n].module], k >= stack[n].i, ~(k = stack[n].i /\ stack[n].sorted)
  PROVE  ~Below(Top.module, m.avars[stack[n].module][k])
<1> DEFINE l == Len(stack)
           f == stack[n]
           s == m.avars[f.module][k]
<1>1. l \in Nat \ {0} /\ Top = stack[l] /\ Top.module \in AVar /\ n \in 1 .. l /\ n + 1 \in 1 .. l /\ l \in 1 .. l
  BY TopFacts
<1>2. f.module \in AVar /\ s \in AVar /\ f.i \in Nat
  BY <1>1, FlagTypes
<1>3. Inside(s, f.module)
  BY <1>2, ModelFacts DEF TypeOK
<1>4. Waits(f, stack[n + 1]) /\ Below(Top.module, stack[n + 1].module)
  BY <1>1 DEF Shape
<1>5. CASE ~f.sorted
  <2>1. stack[n + 1].fn = "add" /\ stack[n + 1].module = f.module
    BY <1>4, <1>5 DEF Waits
  <2>2. Top.module = f.module
    BY <1>1, <2>1 DEF Shape
  <2>3. ~Below(f.module, s)
    BY <1>2, <1>3, ModelFacts, Tree DEF Below, Inside, Nested, TypeOK
  <2> QED BY <2>2, <2>3
<1>6. CASE f.sorted
  <2> DEFINE b == m.avars[f.module][f.i]
  <2>1. f.i \in DOMAIN m.avars[f.module] /\ k # f.i
    BY <1>1, <1>6 DEF Shape, FrameOK
  <2>2. b \in AVar /\ Inside(b, f.module) /\ b # s
    BY <1>1, <1>2, <2>1, FlagTypes, ModelFacts DEF TypeOK, IsInjective
  <2>3. Below(Top.module, b)
    BY <1>4, <1>6 DEF Waits
  <2>4. m \in Model
    BY DEF TypeOK
  <2>5. ASSUME Below(Top.module, s) PROVE FALSE
    <3> HIDE DEF b, s, f
    <3> QED BY <1>1, <1>2, <1>3, <2>2, <2>3, <2>4, <2>5, Siblings
  <2> QED BY <2>5
<1> QED BY <1>5, <1>6

LEMMA ProgressPop ==
  ASSUME TypeOK, stack # << >>, Shape(stack), AllProgress(initials, stack), NEW st, Popped(st),
         NEW ini, Extends(ini),
         \A p \in AVar : ini[p] = initials[p] \/ (Top.fn = "add" /\ p = Top.module),
         Top.fn = "sort" => AllComplete(ini, Top.module),
         Top.fn = "add" => Listed(ini, Top.av, Top.module)
  PROVE  AllProgress(ini, st)
<1> DEFINE l == Len(stack)
<1>1. l \in Nat \ {0} /\ Top = stack[l] /\ Len(st) = l - 1
      /\ \A n \in 1 .. l - 1 : st[n] = stack[n] /\ n \in 1 .. l
  BY TopFacts DEF Popped
<1>2. SUFFICES ASSUME NEW n \in 1 .. l - 1 PROVE Progress(ini, stack[n], n < l - 1)
  BY <1>1 DEF AllProgress
<1> DEFINE f == stack[n]
<1>3. Progress(initials, f, TRUE)
  <2>1. Progress(initials, f, n < l)
    BY <1>1 DEF AllProgress
  <2>2. n < l
    BY <1>1
  <2> QED BY <2>1, <2>2
<1>4. f.i > 0 /\ Waits(f, stack[n + 1]) /\ FrameOK(f) /\ (n < l - 1 \/ n + 1 = l)
  BY <1>1 DEF Shape
<1>5. f.module \in AVar /\ f.i \in Nat /\ f \in Frame
  BY <1>1, FlagTypes, TopFacts
<1>6. f.fn = "add" => AllComplete(ini, f.av)
  BY <1>3, CompleteMono DEF Progress
<1>7. ASSUME f.fn = "sort", f.sorted, n + 1 = l PROVE AllComplete(ini, m.avars[f.module][f.i])
  BY <1>1, <1>4, <1>7 DEF Waits
<1>8. ASSUME f.fn = "sort" PROVE Behind(ini, f, n < l - 1)
  <2>1. Behind(initials, f, TRUE)
    BY <1>3, <1>4, <1>8 DEF Progress
  <2>2. SUFFICES ASSUME NEW k \in DOMAIN m.avars[f.module], k >= FirstIndex(f.module), k < f.i
                 PROVE  Listed(ini, m.avars[f.module][k], f.module) \/ (n < l - 1 /\ ~f.sorted /\ k = f.i - 1)
    BY DEF Behind
  <2>3. CASE Listed(initials, m.avars[f.module][k], f.module)
    BY <1>5, <2>3 DEF Extends, Listed
  <2>4. CASE n + 1 = l /\ ~f.sorted /\ k = f.i - 1
    BY <1>1, <1>4, <1>8, <2>4 DEF Waits
  <2> QED BY <1>4, <2>1, <2>2, <2>3, <2>4 DEF Behind
<1>9. ASSUME f.fn = "sort" PROVE Ahead(ini, f)
  <2>1. Ahead(initials, f)
    BY <1>3, <1>4, <1>9 DEF Progress
  <2>2. SUFFICES ASSUME NEW k \in DOMAIN m.avars[f.module], k >= f.i, ~(k = f.i /\ f.sorted)
                 PROVE  Untouched(ini, m.avars[f.module][k])
    BY DEF Ahead
  <2>3. Untouched(initials, m.avars[f.module][k])
    BY <2>1, <2>2 DEF Ahead
  <2>4. Top.fn = "add" => ~Below(Top.module, m.avars[f.module][k])
    BY <1>9, <2>2, NotAhead
  <2> HIDE DEF f
  <2> QED BY <2>3, <2>4 DEF Untouched
<1> HIDE DEF f
<1>10. f.i # 0
  BY <1>4, <1>5
<1> QED BY <1>4, <1>6, <1>7, <1>8, <1>9, <1>10 DEF Progress, f

LEMMA ProgressStep ==
  ASSUME TypeOK, stack # << >>, AllProgress(initials, stack), NEW st, NEW f, Stepped(st, f),
         Progress(initials, f, FALSE)
  PROVE  AllProgress(initials, st)
<1> DEFINE l == Len(stack)
<1>1. l \in Nat \ {0} /\ st[l] = f /\ Len(st) = l /\ \A n \in 1 .. l - 1 : st[n] = stack[n] /\ n \in 1 .. l
  BY TopFacts DEF Stepped
<1>2. \A n \in 1 .. l - 1 : Progress(initials, st[n], n < l)
  BY <1>1 DEF AllProgress
<1>3. Progress(initials, st[l], l < l)
  BY <1>1 DEF Progress, Behind
<1> HIDE DEF l
<1> QED BY <1>1, <1>2, <1>3 DEF AllProgress

LEMMA ProgressPush ==
  ASSUME TypeOK, stack # << >>, AllProgress(initials, stack), NEW st, NEW f, NEW g, Pushed(st, f, g),
         Progress(initials, f, TRUE), Progress(initials, g, FALSE)
  PROVE  AllProgress(initials, st)
<1> DEFINE l == Len(stack)
<1>1. /\ l \in Nat \ {0} /\ st[l] = f /\ st[l + 1] = g /\ Len(st) = l + 1
      /\ \A n \in 1 .. l - 1 : st[n] = stack[n] /\ n \in 1 .. l
  BY TopFacts DEF Pushed
<1>2. ASSUME NEW n \in 1 .. l - 1 PROVE Progress(initials, st[n], n < l + 1)
  <2>1. Progress(initials, st[n], n < l)
    BY <1>1 DEF AllProgress
  <2>2. (n < l) = TRUE /\ (n < l + 1) = TRUE
    BY <1>1
  <2> QED BY <2>1, <2>2
<1>3. Progress(initials, st[l], l < l + 1)
  <2>1. (l < l + 1) = TRUE
    BY <1>1
  <2> QED BY <1>1, <2>1
<1>4. Progress(initials, st[l + 1], l + 1 < l + 1)
  <2>1. (l + 1 < l + 1) = FALSE
    BY <1>1
  <2> QED BY <1>1, <2>1
<1> HIDE DEF l
<1> QED BY <1>1, <1>2, <1>3, <1>4 DEF AllProgress

-----------------------------------------------------------------------------
(* Each step keeps the invariant.                                          *)

LEMMA InitOK == Init => IInv
<1> SUFFICES ASSUME Init PROVE IInv
  OBVIOUS
<1> DEFINE f == sort(Root)
<1>1. m \in Model
  BY ModelsAssumption DEF Init
<1>2. f \in Frame /\ f.fn = "sort" /\ f.module = Root /\ f.av = Root /\ f.i = 0 /\ f.sorted = FALSE
  BY AVarAssumption DEF sort, Frame
<1> HIDE DEF f
<1>3. stack = <<f>>
  BY DEF Init, f
<1>4. stack \in Seq(Frame) /\ Len(stack) = 1 /\ stack[1] = f /\ stack # << >>
  BY <1>2, <1>3
<1>5. TypeOK
  BY <1>1, <1>4 DEF Init, TypeOK
<1>6. \A p \in AVar : initials[p] = << >> /\ flows[p] = << >> /\ stocks[p] = << >>
  BY DEF Init
<1>7. Range(<< >>) = {}
  BY DEF Range
<1>8. Shape(stack)
  <2>1. FrameOK(f)
    BY <1>1, <1>2, ModelFacts DEF FrameOK
  <2>2. \A n \in 1 .. Len(stack) : n = 1 /\ stack[n] = f
    BY <1>4
  <2>3. \A n \in 1 .. Len(stack) - 1 : FALSE
    BY <1>4
  <2> QED BY <1>2, <1>4, <2>1, <2>2, <2>3 DEF Shape, Below
<1>9. Marks(stack, visited, visiting)
  BY <1>2, <1>4, AVarAssumption DEF Init, Marks, Marked, Entered, DepsVisited
<1>10. AllProgress(initials, stack)
  BY <1>2, <1>4, <1>6 DEF AllProgress, Progress, Untouched
<1>11. ListsOK(initials, visited)
  BY <1>6, <1>7 DEF Init, ListsOK, IsInjective, InOrder
<1>12. ThreeLists(initials, flows, stocks)
  BY <1>6, <1>7 DEF ThreeLists
<1>13. Result(initials, stack, ret)
  BY <1>4 DEF Init, Result
<1> QED BY <1>5, <1>8, <1>9, <1>10, <1>11, <1>12, <1>13 DEF IInv

(* Steps that put nothing on a list and leave the flags alone: what they   *)
(* do to the stack decides.                                                *)
LEMMA QuietOK ==
  ASSUME IInv, UNCHANGED <<m, visited, visiting, lists, ret>>, stack # << >>,
         stack' \in Seq(Frame), stack' # << >>,
         Shape(stack'), Marks(stack', visited, visiting), AllProgress(initials, stack')
  PROVE  IInv'
<1>1. TypeOK'
  BY DEF IInv, TypeOK, lists
<1>2. Marks(stack', visited', visiting') /\ AllProgress(initials', stack')
  BY DEF lists
<1>3. ListsOK(initials', visited') /\ ThreeLists(initials', flows', stocks')
  BY DEF IInv, lists
<1>4. Result(initials', stack', ret')
  BY DEF IInv, Result, lists
<1> QED BY <1>1, <1>2, <1>3, <1>4, NextState

\* a frame at another index of its loop
At(t, j, b) == [t EXCEPT !.i = j, !.sorted = b]

LEMMA FrameAt ==
  ASSUME NEW t \in Frame, NEW j \in Nat, NEW b \in BOOLEAN
  PROVE  /\ At(t, j, b) \in Frame /\ At(t, j, b).fn = t.fn /\ At(t, j, b).module = t.module
         /\ At(t, j, b).av = t.av /\ At(t, j, b).i = j /\ At(t, j, b).sorted = b
BY DEF Frame, At

LEMMA LoopFacts ==
  ASSUME IInv, stack # << >>
  PROVE  /\ TypeOK /\ m \in Model /\ Shape(stack) /\ Marks(stack, visited, visiting)
         /\ AllProgress(initials, stack) /\ ListsOK(initials, visited)
         /\ FrameOK(Top) /\ Progress(initials, Top, FALSE)
         /\ Marked(visited, visiting, Top) /\ DepsVisited(visited, Top, FALSE)
         /\ m.avars[Top.module] \in Seq(AVar) /\ m.direct_deps[Top.av] \in Seq(AVar)
         /\ Next_i \in Frame /\ Same(Next_i) /\ Next_i.i = Top.i + 1 /\ Next_i.sorted = FALSE
<1> DEFINE l == Len(stack)
<1>1. TypeOK /\ m \in Model /\ Shape(stack) /\ Marks(stack, visited, visiting)
      /\ AllProgress(initials, stack) /\ ListsOK(initials, visited)
  BY DEF IInv, TypeOK
<1>2. l \in Nat \ {0} /\ l \in 1 .. l /\ (l < l) = FALSE /\ Top = stack[l] /\ Top \in Frame
      /\ Top.module \in AVar /\ Top.av \in AVar
  BY <1>1, TopFacts
<1>3. FrameOK(Top)
  BY <1>1, <1>2 DEF Shape
<1>4. Progress(initials, Top, FALSE)
  BY <1>1, <1>2 DEF AllProgress
<1>5. Marked(visited, visiting, Top) /\ DepsVisited(visited, Top, FALSE)
  BY <1>1, <1>2 DEF Marks
<1>6. Next_i \in Frame /\ Same(Next_i) /\ Next_i.i = Top.i + 1 /\ Next_i.sorted = FALSE
  <2>1. Top.i \in Nat
    BY <1>2 DEF Frame
  <2>2. Next_i = At(Top, Top.i + 1, FALSE) /\ Top.i + 1 \in Nat
    BY <1>2, <2>1 DEF Next_i, At, Frame
  <2> QED BY <1>2, <2>2, FrameAt DEF Same
<1>7. m.avars[Top.module] \in Seq(AVar) /\ m.direct_deps[Top.av] \in Seq(AVar)
  BY <1>1, <1>2, ModelFacts
<1> QED BY <1>1, <1>3, <1>4, <1>5, <1>6, <1>7

LEMMA SubFacts ==
  ASSUME IInv, InSortLoop
  PROVE  /\ stack # << >> /\ Top.fn = "sort" /\ Top.module \in AVar
         /\ Top.i \in Nat /\ Top.i > 0 /\ Top.i \in DOMAIN m.avars[Top.module]
         /\ Sub \in AVar /\ Inside(Sub, Top.module)
<1>1. stack # << >> /\ Top.fn = "sort"
  BY DEF InSortLoop, Active
<1>2. TypeOK /\ m \in Model /\ m.avars[Top.module] \in Seq(AVar)
  BY <1>1, LoopFacts
<1>3. Top.module \in AVar /\ Top.i \in Nat /\ Top.i > 0 /\ Top.i <= Len(m.avars[Top.module])
  BY <1>1, <1>2, TopFacts DEF InSortLoop
<1>4. Top.i \in DOMAIN m.avars[Top.module] /\ Sub \in AVar
  BY <1>2, <1>3 DEF Sub
<1> QED BY <1>1, <1>2, <1>3, <1>4, ModelFacts DEF Sub

(* The loop of module_sort_runlists goes on to the next variable.          *)
LEMMA NextSub ==
  ASSUME IInv, InSortLoop, NEW waits \in BOOLEAN, waits \/ Listed(initials, Sub, Top.module)
  PROVE  /\ Next_i \in Frame /\ Same(Next_i)
         /\ Next_i.fn = "sort" /\ Next_i.module = Top.module
         /\ Next_i.i = Top.i + 1 /\ Next_i.i > 0 /\ ~Next_i.sorted
         /\ FrameOK(Next_i) /\ Progress(initials, Next_i, waits)
         /\ \A b \in BOOLEAN : DepsVisited(visited, Next_i, b)
<1> DEFINE f == Next_i
<1>1. /\ stack # << >> /\ Top.fn = "sort" /\ Top.module \in AVar
      /\ Top.i \in Nat /\ Top.i > 0 /\ Top.i \in DOMAIN m.avars[Top.module]
  BY SubFacts
<1>2. /\ FrameOK(Top) /\ Progress(initials, Top, FALSE) /\ m.avars[Top.module] \in Seq(AVar)
      /\ f \in Frame /\ Same(f) /\ f.i = Top.i + 1 /\ f.sorted = FALSE
  BY <1>1, LoopFacts
<1> HIDE DEF f
<1>3. f.fn = "sort" /\ f.module = Top.module /\ f.av = Top.av
  BY <1>1, <1>2 DEF Same
<1>4. FirstIndex(Top.module) \in Nat /\ Top.i >= FirstIndex(Top.module)
  BY <1>1, <1>2 DEF FrameOK, FirstIndex
<1>5. FrameOK(f)
  BY <1>1, <1>2, <1>3, <1>4 DEF FrameOK
<1>6. Behind(initials, Top, FALSE) /\ Ahead(initials, Top)
  BY <1>1, <1>2 DEF Progress
<1>7. \A k \in DOMAIN m.avars[Top.module] : k \in Nat
  BY <1>2
<1>8. Behind(initials, f, waits)
  <2>1. ASSUME NEW k \in DOMAIN m.avars[Top.module], k >= FirstIndex(Top.module), k < f.i
        PROVE  Listed(initials, m.avars[Top.module][k], Top.module) \/ (waits /\ ~f.sorted /\ k = f.i - 1)
    <3>1. CASE k = Top.i
      BY <1>1, <1>2, <3>1 DEF Sub
    <3>2. CASE k < Top.i
      BY <1>6, <2>1, <3>2 DEF Behind
    <3> QED BY <1>1, <1>2, <1>7, <2>1, <3>1, <3>2
  <2> QED BY <1>3, <2>1 DEF Behind
<1>9. Ahead(initials, f)
  <2>1. ASSUME NEW k \in DOMAIN m.avars[Top.module], k >= f.i
        PROVE  Untouched(initials, m.avars[Top.module][k])
    <3>1. k >= Top.i /\ k # Top.i
      BY <1>1, <1>2, <1>7, <2>1
    <3> QED BY <1>6, <3>1 DEF Ahead
  <2> QED BY <1>3, <2>1 DEF Ahead
<1>10. f.i # 0 /\ f.i > 0
  BY <1>1, <1>2
<1>11. Progress(initials, f, waits)
  BY <1>2, <1>3, <1>8, <1>9, <1>10 DEF Progress
<1>12. \A b \in BOOLEAN : DepsVisited(visited, f, b)
  BY <1>3 DEF DepsVisited
<1> QED BY <1>2, <1>3, <1>5, <1>10, <1>11, <1>12 DEF f

LEMMA SortSkipOK ==
  ASSUME IInv, SortSkip
  PROVE  IInv'
<1> DEFINE f == Next_i
<1>1. /\ InSortLoop /\ ~Top.sorted /\ visited[Sub]
      /\ stack' = Retop(f) /\ UNCHANGED <<m, visited, visiting, lists, ret>>
  BY DEF SortSkip
<1>2. stack # << >> /\ Top.module \in AVar /\ Top.i > 0 /\ Sub \in AVar /\ Inside(Sub, Top.module)
  BY <1>1, SubFacts
<1>3. /\ TypeOK /\ Shape(stack) /\ Marks(stack, visited, visiting) /\ AllProgress(initials, stack)
      /\ ListsOK(initials, visited)
  BY <1>2, LoopFacts
<1>4. Listed(initials, Sub, Top.module)
  BY <1>1, <1>2, <1>3 DEF ListsOK
<1>5. f \in Frame /\ Same(f) /\ FrameOK(f) /\ f.i > 0 /\ Progress(initials, f, FALSE) /\ DepsVisited(visited, f, FALSE)
  BY <1>1, <1>4, NextSub
<1> HIDE DEF f
<1>6. Stepped(stack', f)
  BY <1>1, <1>2, <1>3, <1>5, StackStep
<1>7. Shape(stack')
  BY <1>2, <1>3, <1>5, <1>6, ShapeStep
<1>8. Marks(stack', visited, visiting)
  BY <1>2, <1>3, <1>5, <1>6, MarksStep
<1>9. AllProgress(initials, stack')
  BY <1>2, <1>3, <1>5, <1>6, ProgressStep
<1>10. stack' \in Seq(Frame) /\ stack' # << >>
  BY <1>2, <1>3, <1>6, TopFacts DEF Stepped
<1> QED BY <1>1, <1>2, <1>7, <1>8, <1>9, <1>10, QuietOK

(* The call of module_sort_runlists for a submodule.                       *)
LEMMA SortModuleOK ==
  ASSUME IInv, SortModule
  PROVE  IInv'
<1> DEFINE f == [Top EXCEPT !.sorted = TRUE]
           g == sort(Sub)
<1>1. /\ InSortLoop /\ ~Top.sorted /\ ~visited[Sub] /\ m.type[Sub] = "module"
      /\ stack' = Append(Retop(f), g) /\ UNCHANGED <<m, visited, visiting, lists, ret>>
  BY DEF SortModule
<1>2. /\ stack # << >> /\ Top.fn = "sort" /\ Top.module \in AVar
      /\ Top.i \in Nat /\ Top.i > 0 /\ Top.i \in DOMAIN m.avars[Top.module]
      /\ Sub \in AVar /\ Inside(Sub, Top.module)
  BY <1>1, SubFacts
<1>3. /\ TypeOK /\ Shape(stack) /\ Marks(stack, visited, visiting) /\ AllProgress(initials, stack)
      /\ FrameOK(Top) /\ Progress(initials, Top, FALSE) /\ m.avars[Top.module] \in Seq(AVar)
  BY <1>2, LoopFacts
<1>4. f \in Frame /\ Same(f) /\ f.i = Top.i /\ f.sorted = TRUE
  <2>1. Top \in Frame
    BY <1>2, <1>3, TopFacts
  <2>2. f = At(Top, Top.i, TRUE)
    BY <2>1 DEF At, Frame
  <2> HIDE DEF f
  <2> QED BY <1>2, <2>1, <2>2, FrameAt DEF Same
<1>5. /\ g \in Frame /\ g.fn = "sort" /\ g.module = Sub /\ g.av = Sub /\ g.i = 0 /\ g.sorted = FALSE
  BY <1>2 DEF sort, Frame
<1> HIDE DEF f, g
<1>6. f.fn = "sort" /\ f.module = Top.module /\ f.av = Top.av
  BY <1>2, <1>4 DEF Same
<1>7. FrameOK(f) /\ FrameOK(g) /\ Waits(f, g)
  <2>1. FrameOK(f)
    BY <1>1, <1>2, <1>3, <1>4, <1>6 DEF FrameOK, Sub
  <2>2. FrameOK(g)
    BY <1>1, <1>5 DEF FrameOK
  <2>3. Waits(f, g)
    BY <1>4, <1>5, <1>6 DEF Waits, Sub
  <2> QED BY <2>1, <2>2, <2>3
<1>8. Below(g.module, f.module) /\ f.i > 0
  BY <1>2, <1>4, <1>5, <1>6 DEF Below, Inside
<1>9. Pushed(stack', f, g)
  BY <1>1, <1>2, <1>3, <1>4, <1>5, StackPush
<1>10. Shape(stack')
  BY <1>2, <1>3, <1>4, <1>5, <1>7, <1>8, <1>9, ShapePush
<1>11. Marks(stack', visited, visiting)
  <2>1. DepsVisited(visited, f, TRUE)
    BY <1>6 DEF DepsVisited
  <2> QED BY <1>1, <1>2, <1>3, <1>4, <1>5, <1>8, <1>9, <2>1, MarksPush
<1>12. Progress(initials, f, TRUE)
  <2>1. Behind(initials, Top, FALSE) /\ Ahead(initials, Top)
    BY <1>2, <1>3 DEF Progress
  <2>2. Behind(initials, f, TRUE)
    BY <1>4, <1>6, <2>1 DEF Behind
  <2>3. Ahead(initials, f)
    BY <1>4, <1>6, <2>1 DEF Ahead
  <2>4. f.i # 0
    BY <1>2, <1>4
  <2> QED BY <1>6, <2>2, <2>3, <2>4 DEF Progress
<1>13. Progress(initials, g, FALSE)
  <2>1. Untouched(initials, Sub)
    <3>1. Ahead(initials, Top)
      BY <1>2, <1>3 DEF Progress
    <3>2. Top.i >= Top.i
      BY <1>2
    <3> QED BY <1>1, <1>2, <3>1, <3>2 DEF Ahead, Sub
  <2>2. ~(g.i > 0)
    BY <1>5
  <2> QED BY <1>5, <2>1, <2>2 DEF Progress
<1>14. AllProgress(initials, stack')
  BY <1>2, <1>3, <1>9, <1>12, <1>13, ProgressPush
<1>15. stack' \in Seq(Frame) /\ stack' # << >>
  BY <1>2, <1>3, <1>9, TopFacts DEF Pushed
<1> QED BY <1>1, <1>2, <1>10, <1>11, <1>14, <1>15, QuietOK

(* The call of module_add_to_runlists for a variable of the loop.          *)
LEMMA SortVarOK ==
  ASSUME IInv, SortVar
  PROVE  IInv'
<1> DEFINE f == Next_i
           g == add(Top.module, Sub)
<1>1. /\ InSortLoop /\ (Top.sorted \/ m.type[Sub] # "module")
      /\ stack' = Append(Retop(f), g) /\ UNCHANGED <<m, visited, visiting, lists, ret>>
  BY DEF SortVar
<1>2. /\ stack # << >> /\ Top.fn = "sort" /\ Top.module \in AVar
      /\ Top.i \in Nat /\ Top.i > 0 /\ Top.i \in DOMAIN m.avars[Top.module]
      /\ Sub \in AVar /\ Inside(Sub, Top.module)
  BY <1>1, SubFacts
<1>3. /\ TypeOK /\ m \in Model /\ Shape(stack) /\ Marks(stack, visited, visiting) /\ AllProgress(initials, stack)
      /\ Progress(initials, Top, FALSE)
  BY <1>2, LoopFacts
<1>4. /\ f \in Frame /\ Same(f) /\ f.fn = "sort" /\ f.module = Top.module /\ f.i = Top.i + 1 /\ f.i > 0 /\ ~f.sorted
      /\ FrameOK(f) /\ Progress(initials, f, TRUE) /\ DepsVisited(visited, f, TRUE)
  BY <1>1, NextSub
<1>5. g \in Frame /\ g.fn = "add" /\ g.module = Top.module /\ g.av = Sub /\ g.i = 0
  BY <1>2 DEF add, Frame
<1> HIDE DEF f, g
<1>6. FrameOK(g)
  BY <1>2, <1>5 DEF FrameOK
<1>7. Waits(f, g) /\ Below(g.module, f.module)
  <2>1. f.i - 1 = Top.i
    BY <1>2, <1>4
  <2> QED BY <1>2, <1>4, <1>5, <2>1 DEF Waits, Below, Sub
<1>8. Pushed(stack', f, g)
  BY <1>1, <1>2, <1>3, <1>4, <1>5, StackPush
<1>9. Shape(stack')
  BY <1>2, <1>3, <1>4, <1>5, <1>6, <1>7, <1>8, ShapePush
<1>10. Marks(stack', visited, visiting)
  BY <1>2, <1>3, <1>4, <1>5, <1>8, MarksPush
<1>11. Progress(initials, g, FALSE)
  <2>1. AllComplete(initials, Sub)
    BY <1>1, <1>2, <1>3, LeafComplete DEF Progress, Sub
  <2> QED BY <1>5, <2>1 DEF Progress
<1>12. AllProgress(initials, stack')
  BY <1>2, <1>3, <1>4, <1>8, <1>11, ProgressPush
<1>13. stack' \in Seq(Frame) /\ stack' # << >>
  BY <1>2, <1>3, <1>8, TopFacts DEF Pushed
<1> QED BY <1>1, <1>2, <1>9, <1>10, <1>12, <1>13, QuietOK

(* A dependency passed over, or searched in its turn.                      *)
LEMMA AddDepOK ==
  ASSUME IInv, AddDep
  PROVE  IInv'
<1> DEFINE f == Next_i
           g == add(Top.module, Dep)
<1>1. /\ InAddLoop /\ UNCHANGED <<m, visited, visiting, lists, ret>>
      /\ stack' = IF visited[Dep] THEN Retop(f) ELSE Append(Retop(f), g)
  BY DEF AddDep
<1>2. stack # << >> /\ Top.fn = "add"
  BY <1>1 DEF InAddLoop, Active
<1>3. /\ TypeOK /\ m \in Model /\ Shape(stack) /\ Marks(stack, visited, visiting) /\ AllProgress(initials, stack)
      /\ FrameOK(Top) /\ Progress(initials, Top, FALSE) /\ DepsVisited(visited, Top, FALSE)
      /\ m.direct_deps[Top.av] \in Seq(AVar)
      /\ f \in Frame /\ Same(f) /\ f.i = Top.i + 1
  BY <1>2, LoopFacts
<1>4. Top.i \in Nat /\ Top.i > 0 /\ Top.av \in AVar /\ Top.module \in AVar
  BY <1>1, <1>2, <1>3, TopFacts DEF InAddLoop
<1>5. Top.i \in DOMAIN m.direct_deps[Top.av] /\ Dep \in AVar
  BY <1>1, <1>3, <1>4 DEF InAddLoop, Dep
<1>6. g \in Frame /\ g.fn = "add" /\ g.module = Top.module /\ g.av = Dep /\ g.i = 0
  BY <1>4, <1>5 DEF add, Frame
<1> HIDE DEF f, g
<1>7. f.fn = "add" /\ f.module = Top.module /\ f.av = Top.av /\ f.i > 0 /\ f.i - 1 = Top.i
  BY <1>2, <1>3, <1>4 DEF Same
<1>8. FrameOK(f)
  BY <1>3, <1>2, <1>7 DEF FrameOK
<1>9. Progress(initials, f, TRUE) /\ Progress(initials, f, FALSE)
  BY <1>2, <1>3, <1>7 DEF Progress
<1>10. ASSUME NEW k \in DOMAIN m.direct_deps[f.av], k < f.i, k # Top.i
       PROVE  visited[m.direct_deps[f.av][k]]
  <2>1. k \in Nat /\ k < Top.i
    BY <1>3, <1>4, <1>7, <1>10
  <2> QED BY <1>2, <1>3, <1>7, <1>10, <2>1 DEF DepsVisited
<1>11. CASE visited[Dep]
  <2>1. Stepped(stack', f)
    BY <1>1, <1>2, <1>3, <1>11, StackStep
  <2>2. DepsVisited(visited, f, FALSE)
    BY <1>7, <1>10, <1>11 DEF DepsVisited, Dep
  <2>3. Shape(stack') /\ Marks(stack', visited, visiting) /\ AllProgress(initials, stack')
    BY <1>2, <1>3, <1>4, <1>7, <1>8, <1>9, <2>1, <2>2, ShapeStep, MarksStep, ProgressStep
  <2>4. stack' \in Seq(Frame) /\ stack' # << >>
    BY <1>2, <1>3, <2>1, TopFacts DEF Stepped
  <2> QED BY <1>1, <1>2, <2>3, <2>4, QuietOK
<1>12. CASE ~visited[Dep]
  <2>1. Pushed(stack', f, g)
    BY <1>1, <1>2, <1>3, <1>6, <1>12, StackPush
  <2>2. DepsVisited(visited, f, TRUE)
    BY <1>7, <1>10 DEF DepsVisited
  <2>3. FrameOK(g)
    <3>1. Inside(Top.av, Top.module)
      BY <1>2, <1>3 DEF FrameOK
    <3>2. m.anc[Dep] = m.anc[Top.av]
      BY <1>3, <1>4, <1>5, ModelFacts DEF Dep
    <3> QED BY <1>6, <3>1, <3>2 DEF FrameOK, Inside
  <2>4. Waits(f, g) /\ Below(g.module, f.module)
    BY <1>5, <1>6, <1>7 DEF Waits, Below, Dep
  <2>5. Progress(initials, g, FALSE)
    <3>1. AllComplete(initials, Dep)
      BY <1>3, <1>4, <1>5, NamedComplete DEF Dep
    <3> QED BY <1>6, <3>1 DEF Progress
  <2>6. Shape(stack')
    BY <1>2, <1>3, <1>6, <1>7, <1>8, <2>1, <2>3, <2>4, ShapePush
  <2>7. Marks(stack', visited, visiting)
    BY <1>2, <1>3, <1>4, <1>6, <1>7, <2>1, <2>2, MarksPush
  <2>8. AllProgress(initials, stack')
    BY <1>2, <1>3, <1>9, <2>1, <2>5, ProgressPush
  <2>9. stack' \in Seq(Frame) /\ stack' # << >>
    BY <1>2, <1>3, <2>1, TopFacts DEF Pushed
  <2> QED BY <1>1, <1>2, <2>6, <2>7, <2>8, <2>9, QuietOK
<1> QED BY <1>11, <1>12

(* What is on the lists of a module is a sequence of variables.            *)
LEMMA ListFacts ==
  ASSUME TypeOK, NEW p \in AVar
  PROVE  initials[p] \in Seq(AVar) /\ Range(initials[p]) \subseteq AVar
BY DEF TypeOK, Range

(* The start of a call of module_sort_runlists.  It clears visited in its  *)
(* module, where nothing is on a list yet.                                 *)
LEMMA SortEnterOK ==
  ASSUME IInv, SortEnter
  PROVE  IInv'
<1> DEFINE l == Len(stack)
           mod == Top.module
           f == [Top EXCEPT !.i = FirstIndex(mod)]
<1>1. /\ stack # << >> /\ Top.fn = "sort" /\ Top.i = 0
      /\ visited' = Cleared(mod, visited)
      /\ visiting' = [Cleared(mod, visiting) EXCEPT ![mod] = TRUE]
      /\ stack' = Retop(f) /\ UNCHANGED <<m, lists, ret>>
  BY DEF SortEnter, Active
<1>2. /\ TypeOK /\ m \in Model /\ Shape(stack) /\ Marks(stack, visited, visiting) /\ AllProgress(initials, stack)
      /\ ListsOK(initials, visited) /\ FrameOK(Top) /\ Progress(initials, Top, FALSE)
      /\ Marked(visited, visiting, Top) /\ m.avars[mod] \in Seq(AVar)
  BY <1>1, LoopFacts
<1>3. l \in Nat \ {0} /\ Top = stack[l] /\ Top \in Frame /\ mod \in AVar
  BY <1>1, <1>2, TopFacts
<1>4. f \in Frame /\ Same(f) /\ f.i = FirstIndex(mod) /\ f.sorted = FALSE
  <2>1. FirstIndex(mod) \in Nat
    BY DEF FirstIndex
  <2>2. ~Top.sorted
    BY <1>1, <1>2 DEF FrameOK
  <2>3. Top.sorted = FALSE
    BY <1>3, <2>2 DEF Frame
  <2>4. f = At(Top, FirstIndex(mod), FALSE)
    BY <1>3, <2>3 DEF At, Frame
  <2> HIDE DEF f, mod
  <2> QED BY <1>3, <2>1, <2>4, FrameAt DEF Same
<1>5. ~visited[mod] /\ Untouched(initials, mod) /\ Top.av = mod
  BY <1>1, <1>2 DEF Marked, Progress, FrameOK
<1> HIDE DEF f
<1>6. f.fn = "sort" /\ f.module = mod /\ f.av = mod /\ f.i > 0
  BY <1>1, <1>4, <1>5 DEF Same, FirstIndex
<1>7. FrameOK(f)
  <2>1. f.i >= FirstIndex(f.module)
    BY <1>4, <1>6 DEF FirstIndex
  <2> QED BY <1>1, <1>2, <1>4, <1>6, <2>1 DEF FrameOK
<1>8. Stepped(stack', f)
  BY <1>1, <1>2, <1>4, StackStep
<1>9. Shape(stack')
  BY <1>1, <1>2, <1>4, <1>7, <1>8, ShapeStep
<1>10. /\ stack' \in Seq(Frame) /\ Len(stack') = l /\ stack' # << >> /\ stack'[l] = f
       /\ \A n \in 1 .. l - 1 : stack'[n] = stack[n]
  BY <1>3, <1>8 DEF Stepped
<1>11. /\ \A v \in AVar : visited'[v] => visited[v]
       /\ \A v \in AVar : visited[v] /\ v # mod /\ mod \notin m.anc[v] => visited'[v]
       /\ \A v \in AVar : visiting'[v] => v = mod \/ visiting[v]
       /\ visited' \in [AVar -> BOOLEAN] /\ visiting' \in [AVar -> BOOLEAN]
  BY <1>1, <1>2, <1>3 DEF Cleared, TypeOK
<1> HIDE DEF l, mod
<1>12. TypeOK'
  BY <1>1, <1>2, <1>10, <1>11 DEF TypeOK, lists
<1>13. Marks(stack', visited', visiting')
  <2>1. \A n \in 1 .. l : stack'[n].fn = "sort" /\ stack'[n].i > 0
    <3>1. ASSUME NEW n \in 1 .. l - 1 PROVE stack[n].fn = "sort" /\ stack[n].i > 0
      <4>1. n \in 1 .. l /\ l \in 1 .. l /\ n <= l
        BY <1>3
      <4>2. stack[n].fn # "add"
        BY <1>1, <1>2, <1>3, <4>1 DEF Shape, l
      <4>3. stack[n] \in Frame
        BY <1>1, <1>2, <4>1, TopFacts DEF l
      <4> QED BY <1>2, <4>2, <4>3 DEF Shape, l, Frame
    <3> QED BY <1>3, <1>6, <1>10, <3>1
  <2>2. \A n \in 1 .. l : stack'[n].i # 0 /\ stack'[n].fn # "add"
    BY <1>3, <1>10, <2>1 DEF Frame
  <2>3. ASSUME NEW v \in AVar, visiting'[v] PROVE OnStack(stack', v)
    <3>1. CASE v = mod
      BY <1>3, <1>6, <1>10, <3>1 DEF OnStack
    <3>2. CASE visiting[v]
      <4>1. PICK n \in 1 .. l : stack[n].av = v /\ stack[n].i > 0
        BY <1>1, <1>2, <3>2 DEF Marks, OnStack, l
      <4>2. n \in 1 .. l - 1
        BY <1>1, <1>3, <4>1
      <4> QED BY <1>10, <4>1, <4>2 DEF OnStack
    <3> QED BY <1>11, <2>3, <3>1, <3>2
  <2> QED BY <1>10, <2>2, <2>3 DEF Marks, Marked, Entered, DepsVisited
<1>14. Progress(initials, f, FALSE)
  <2>1. \A k \in DOMAIN m.avars[mod] : k \in Nat /\ m.avars[mod][k] \in AVar /\ Inside(m.avars[mod][k], mod)
    <3>1. \A k \in DOMAIN m.avars[mod] : Inside(m.avars[mod][k], mod)
      BY <1>2, <1>3, ModelFacts
    <3>2. \A k \in DOMAIN m.avars[mod] : k \in Nat /\ m.avars[mod][k] \in AVar
      BY <1>2
    <3> QED BY <3>1, <3>2
  <2>2. Behind(initials, f, FALSE)
    <3>1. FirstIndex(mod) \in Nat
      BY DEF FirstIndex
    <3> QED BY <1>4, <1>6, <2>1, <3>1 DEF Behind
  <2>3. ASSUME NEW k \in DOMAIN m.avars[mod] PROVE Untouched(initials, m.avars[mod][k])
    <3>1. ASSUME NEW p \in AVar, Below(p, m.avars[mod][k]) PROVE Below(p, mod)
      BY <1>2, <2>1, <3>1, Tree DEF Below, Inside, Nested
    <3> QED BY <1>5, <3>1 DEF Untouched
  <2>4. Ahead(initials, f)
    BY <1>6, <2>3 DEF Ahead
  <2>5. f.i # 0
    BY <1>4 DEF FirstIndex
  <2> QED BY <1>4, <1>6, <2>2, <2>4, <2>5 DEF Progress
<1>15. AllProgress(initials', stack')
  <2>1. AllProgress(initials, stack')
    BY <1>1, <1>2, <1>8, <1>14, ProgressStep
  <2> QED BY <1>1, <2>1 DEF lists
<1>16. ListsOK(initials', visited')
  <2>1. ASSUME NEW p \in AVar, NEW v \in Range(initials[p]) PROVE visited'[v]
    <3>1. v \in AVar /\ Inside(v, p) /\ visited[v]
      BY <1>2, ListFacts DEF ListsOK
    <3>2. ~Below(p, mod)
      <4>1. initials[p] # << >>
        BY DEF Range
      <4> QED BY <1>5, <4>1 DEF Untouched
    <3> QED BY <1>5, <1>11, <3>1, <3>2 DEF Below, Inside
  <2>2. ListsOK(initials, visited')
    BY <1>2, <1>11, <2>1 DEF ListsOK
  <2> QED BY <1>1, <2>2 DEF lists
<1>17. ThreeLists(initials', flows', stocks')
  BY <1>1 DEF IInv, lists
<1>18. Result(initials', stack', ret')
  BY <1>1, <1>10 DEF IInv, Result, lists
<1> QED BY <1>1, <1>9, <1>12, <1>13, <1>15, <1>16, <1>17, <1>18, NextState

(* What a return leaves: the rest of the stack, or the outcome.            *)
LEMMA ReturnOK ==
  ASSUME IInv, stack # << >>, Return, NEW ini, Len(stack) = 1 => AllComplete(ini, Root)
  PROVE  Popped(stack') /\ Shape(stack') /\ Result(ini, stack', ret')
<1>1. TypeOK /\ Shape(stack) /\ Len(stack) \in Nat \ {0} /\ ret = "none" /\ stack' = Front(stack)
  BY TopFacts DEF IInv, Result, Return
<1>2. Popped(stack')
  BY <1>1, StackPop
<1>3. Shape(stack')
  BY <1>1, <1>2, ShapePop
<1>4. stack' # << >> <=> Len(stack) # 1
  BY <1>1, <1>2 DEF Popped
<1> QED BY <1>1, <1>2, <1>3, <1>4 DEF Result, Return

(* All of a module is on its lists when the loop is over, and what is      *)
(* below it was when its submodules were listed.                           *)
LEMMA SortedComplete ==
  ASSUME IInv, stack # << >>, Top.fn = "sort", Top.i > Len(m.avars[Top.module])
  PROVE  AllComplete(initials, Top.module)
<1> DEFINE mod == Top.module
<1>1. /\ TypeOK /\ m \in Model /\ ListsOK(initials, visited) /\ Progress(initials, Top, FALSE)
      /\ m.avars[mod] \in Seq(AVar)
  BY LoopFacts
<1>2. mod \in AVar /\ Top.i \in Nat
  BY <1>1, TopFacts
<1>3. Behind(initials, Top, FALSE)
  <2>1. Top.i > 0
    BY <1>1, <1>2
  <2> QED BY <1>1, <2>1 DEF Progress
<1>4. Complete(initials, mod)
  <2>1. ASSUME NEW k \in DOMAIN m.avars[mod], m.avars[mod][k] # Time
        PROVE  Listed(initials, m.avars[mod][k], mod)
    <3>1. k \in Nat /\ k >= 1 /\ k < Top.i
      <4>1. k \in 1 .. Len(m.avars[mod]) /\ Len(m.avars[mod]) \in Nat /\ Len(m.avars[mod]) < Top.i
        BY <1>1, <1>2
      <4> QED BY <1>2, <4>1
    <3>2. k >= FirstIndex(mod)
      BY <1>1, <2>1, <3>1, ModelFacts DEF FirstIndex
    <3> QED BY <1>3, <3>1, <3>2 DEF Behind
  <2> QED BY <2>1 DEF Complete, Range
<1>5. ASSUME NEW p \in AVar, mod \in m.anc[p] PROVE Named(p) \/ Complete(initials, p)
  <2>1. PICK c \in Range(m.avars[mod]) : Below(p, c)
    BY <1>1, <1>5, Tree DEF Nested
  <2>2. c \in AVar
    BY <1>1 DEF Range
  <2>3. CASE m.type[c] # "module"
    BY <1>1, <2>1, <2>2, <2>3, LeafComplete DEF AllComplete
  <2>4. CASE m.type[c] = "module"
    <3>1. c # Time
      BY <1>1, <2>4 DEF Model
    <3>2. c \in Range(initials[mod])
      BY <1>4, <2>1, <2>4, <3>1 DEF Complete, Listed
    <3>3. AllComplete(initials, c)
      BY <1>1, <1>2, <3>2 DEF ListsOK
    <3> QED BY <2>1, <3>3 DEF AllComplete
  <2> QED BY <2>3, <2>4
<1> QED BY <1>2, <1>4, <1>5 DEF AllComplete, Below

LEMMA SortLeaveOK ==
  ASSUME IInv, SortLeave
  PROVE  IInv'
<1> DEFINE vg == [visiting EXCEPT ![Top.module] = FALSE]
<1>1. /\ stack # << >> /\ Top.fn = "sort" /\ Top.i > Len(m.avars[Top.module])
      /\ visiting' = vg /\ Return /\ UNCHANGED <<m, visited, lists>>
  BY DEF SortLeave, Active
<1>2. /\ TypeOK /\ Shape(stack) /\ Marks(stack, visited, visiting) /\ AllProgress(initials, stack)
      /\ FrameOK(Top) /\ m.avars[Top.module] \in Seq(AVar)
  BY <1>1, LoopFacts
<1>3. /\ Top.i \in Nat /\ Top.i # 0 /\ Top.module \in AVar /\ Top.av = Top.module
      /\ Top = stack[Len(stack)]
  BY <1>1, <1>2, TopFacts DEF FrameOK
<1>4. AllComplete(initials, Top.module)
  BY <1>1, SortedComplete
<1>5. Len(stack) = 1 => AllComplete(initials, Root)
  BY <1>1, <1>2, <1>3, <1>4 DEF Shape
<1>6. Popped(stack') /\ Shape(stack') /\ Result(initials, stack', ret')
  BY <1>1, <1>5, ReturnOK
<1>7. /\ vg \in [AVar -> BOOLEAN] /\ ~vg[Top.av]
      /\ \A v \in AVar : v # Top.av => vg[v] = visiting[v]
  BY <1>2, <1>3 DEF TypeOK
<1> HIDE DEF vg
<1>8. TypeOK'
  BY <1>1, <1>2, <1>6, <1>7 DEF TypeOK, lists, Popped
<1>9. Marks(stack', visited', visiting')
  BY <1>1, <1>2, <1>3, <1>6, <1>7, MarksPop
<1>10. AllProgress(initials', stack')
  <2>1. Extends(initials)
    BY DEF Extends
  <2>2. AllProgress(initials, stack')
    BY <1>1, <1>2, <1>4, <1>6, <2>1, ProgressPop
  <2> QED BY <1>1, <2>2 DEF lists
<1>11. ListsOK(initials', visited') /\ ThreeLists(initials', flows', stocks') /\ Result(initials', stack', ret')
  BY <1>1, <1>6 DEF IInv, lists
<1> QED BY <1>1, <1>6, <1>8, <1>9, <1>10, <1>11, NextState

(* A variable that is being visited is one whose search waits for this:    *)
(* the calls in between go round a circle of equations.                    *)
LEMMA CircleFound ==
  ASSUME IInv, stack # << >>, Top.fn = "add", Top.i = 0, visiting[Top.av]
  PROVE  HasCycle
<1> DEFINE l == Len(stack)
           v == Top.av
<1>1. TypeOK /\ m \in Model /\ Shape(stack) /\ Marks(stack, visited, visiting) /\ FrameOK(Top)
  BY LoopFacts
<1>2. l \in Nat \ {0} /\ Top = stack[l] /\ v \in AVar /\ Top.module \in AVar
  BY <1>1, TopFacts
<1>3. \A n \in 1 .. l : stack[n] \in Frame /\ stack[n].av \in AVar
  BY <1>1, TopFacts DEF Frame
<1>4. PICK n \in 1 .. l : stack[n].av = v /\ stack[n].i > 0
  BY <1>1, <1>2 DEF Marks, OnStack
<1> HIDE DEF l
<1>5. n \in 1 .. l - 1 /\ l \in 1 .. l /\ n <= l
  BY <1>2, <1>4
<1>6. stack[n].fn = "add"
  <2>1. ASSUME stack[n].fn = "sort" PROVE FALSE
    <3>1. stack[n].module = v
      BY <1>1, <1>4, <2>1 DEF Shape, FrameOK, l
    <3>2. Below(Top.module, v)
      BY <1>1, <1>2, <1>5, <3>1 DEF Shape, l
    <3>3. Inside(v, Top.module)
      BY <1>1 DEF FrameOK
    <3>4. v \notin m.anc[v]
      BY <1>1, <1>2, ModelFacts
    <3> QED BY <3>2, <3>3, <3>4 DEF Below, Inside
  <2> QED BY <1>3, <1>4, <2>1 DEF Frame
<1> DEFINE S == {stack[k].av : k \in n .. l - 1}
<1>7. S \subseteq AVar
  BY <1>2, <1>3
<1>8. stack[n].av \in S
  BY <1>5
<1>9. ASSUME NEW k \in n .. l - 1
      PROVE  \E i \in DOMAIN m.direct_deps[stack[k].av] : m.direct_deps[stack[k].av][i] \in S
  <2>1. k \in 1 .. l - 1 /\ k \in 1 .. l /\ n <= k
    BY <1>2, <1>5
  <2>2. stack[k].fn = "add"
    BY <1>1, <1>4, <1>6, <2>1 DEF Shape, l
  <2>3. /\ stack[k].i - 1 \in DOMAIN m.direct_deps[stack[k].av]
        /\ stack[k + 1].av = m.direct_deps[stack[k].av][stack[k].i - 1]
    BY <1>1, <2>1, <2>2 DEF Shape, Waits, l
  <2>4. stack[k + 1].av \in S
    <3>1. CASE k + 1 = l
      BY <1>2, <1>4, <1>8, <3>1
    <3>2. CASE k + 1 # l
      <4>1. k + 1 \in n .. l - 1
        BY <1>2, <1>5, <2>1, <3>2
      <4> QED BY <4>1
    <3> QED BY <3>1, <3>2
  <2> HIDE DEF S
  <2> QED BY <2>3, <2>4
<1>10. \A x \in S : \E i \in DOMAIN m.direct_deps[x] : m.direct_deps[x][i] \in S
  BY <1>9
<1> HIDE DEF S
<1> QED BY <1>7, <1>8, <1>10 DEF HasCycle

LEMMA AddCircularOK ==
  ASSUME IInv, AddCircular
  PROVE  IInv'
<1>1. /\ stack # << >> /\ Top.fn = "add" /\ Top.i = 0 /\ visiting[Top.av]
      /\ stack' = << >> /\ ret' = "circular" /\ UNCHANGED <<m, visited, visiting, lists>>
  BY DEF AddCircular, Active
<1>2. HasCycle
  BY <1>1, CircleFound
<1>3. stack' \in Seq(Frame) /\ Len(stack') = 0
  BY <1>1
<1>4. TypeOK'
  BY <1>1, <1>3 DEF IInv, TypeOK, lists
<1>5. Shape(stack') /\ Marks(stack', visited', visiting') /\ AllProgress(initials', stack')
  BY <1>1, <1>3 DEF Shape, Marks, AllProgress
<1>6. ListsOK(initials', visited') /\ ThreeLists(initials', flows', stocks') /\ Result(initials', stack', ret')
  BY <1>1, <1>2 DEF IInv, Result, lists
<1> QED BY <1>1, <1>4, <1>5, <1>6, NextState

(* A call of module_add_to_runlists for a variable visited before.         *)
LEMMA AddVisitedOK ==
  ASSUME IInv, AddEnter, visited[Top.av]
  PROVE  IInv'
<1>1. /\ stack # << >> /\ Top.fn = "add" /\ Top.i = 0
      /\ Return /\ UNCHANGED <<m, visited, visiting, lists>>
  BY DEF AddEnter, Active
<1>2. /\ TypeOK /\ Shape(stack) /\ Marks(stack, visited, visiting) /\ AllProgress(initials, stack)
      /\ ListsOK(initials, visited) /\ FrameOK(Top)
  BY <1>1, LoopFacts
<1>3. Top.module \in AVar /\ Top.av \in AVar /\ Top = stack[Len(stack)] /\ Extends(initials)
  BY <1>1, <1>2, TopFacts DEF Extends
<1>4. Len(stack) # 1
  BY <1>1, <1>2, <1>3 DEF Shape
<1>5. Popped(stack') /\ Shape(stack') /\ Result(initials, stack', ret')
  BY <1>1, <1>4, ReturnOK
<1>6. Listed(initials, Top.av, Top.module)
  BY <1>1, <1>2, <1>3 DEF ListsOK, FrameOK
<1>7. Marks(stack', visited, visiting)
  BY <1>1, <1>2, <1>5, MarksPop
<1>8. AllProgress(initials, stack')
  BY <1>1, <1>2, <1>3, <1>5, <1>6, ProgressPop
<1>9. TypeOK'
  BY <1>1, <1>2, <1>5 DEF TypeOK, lists, Popped
<1>10. /\ Marks(stack', visited', visiting') /\ AllProgress(initials', stack')
       /\ ListsOK(initials', visited') /\ ThreeLists(initials', flows', stocks') /\ Result(initials', stack', ret')
  BY <1>1, <1>5, <1>7, <1>8 DEF IInv, lists
<1> QED BY <1>1, <1>5, <1>9, <1>10, NextState

(* A call for a new variable.                                              *)
LEMMA AddNewOK ==
  ASSUME IInv, AddEnter, ~visited[Top.av]
  PROVE  IInv'
<1> DEFINE l == Len(stack)
           f == Next_i
           vg == [visiting EXCEPT ![Top.av] = TRUE]
<1>1. /\ stack # << >> /\ Top.fn = "add" /\ Top.i = 0 /\ ~visiting[Top.av]
      /\ stack' = Retop(f) /\ visiting' = vg /\ UNCHANGED <<m, visited, lists, ret>>
  BY DEF AddEnter, Active
<1>2. /\ TypeOK /\ m \in Model /\ Shape(stack) /\ Marks(stack, visited, visiting) /\ AllProgress(initials, stack)
      /\ FrameOK(Top) /\ Progress(initials, Top, FALSE) /\ m.direct_deps[Top.av] \in Seq(AVar)
      /\ f \in Frame /\ Same(f) /\ f.i = Top.i + 1
  BY <1>1, LoopFacts
<1>3. l \in Nat \ {0} /\ Top = stack[l] /\ Top.av \in AVar
  BY <1>1, <1>2, TopFacts
<1> HIDE DEF f
<1>4. f.fn = "add" /\ f.module = Top.module /\ f.av = Top.av /\ f.i = 1
  BY <1>1, <1>2 DEF Same
<1>5. FrameOK(f) /\ Progress(initials, f, FALSE)
  BY <1>1, <1>2, <1>4 DEF FrameOK, Progress
<1>6. Stepped(stack', f)
  BY <1>1, <1>2, StackStep
<1>7. Shape(stack')
  BY <1>1, <1>2, <1>5, <1>6, ShapeStep
<1>8. AllProgress(initials, stack')
  BY <1>1, <1>2, <1>5, <1>6, ProgressStep
<1>9. /\ stack' \in Seq(Frame) /\ Len(stack') = l /\ stack' # << >> /\ stack'[l] = f
      /\ \A n \in 1 .. l - 1 : stack'[n] = stack[n]
  BY <1>3, <1>6 DEF Stepped
<1>10. /\ vg \in [AVar -> BOOLEAN] /\ vg[Top.av]
       /\ \A v \in AVar : v # Top.av => vg[v] = visiting[v]
  BY <1>2, <1>3 DEF TypeOK
<1>11. \A n \in 1 .. l - 1 : n \in 1 .. l /\ n < l /\ stack[n].av \in AVar /\ stack[n].i > 0
  BY <1>2, <1>3, FlagTypes DEF Shape
<1> HIDE DEF l, vg
<1>12. \A n \in 1 .. l - 1 : Entered(stack[n]) => visiting[stack[n].av] /\ stack[n].av # Top.av
  BY <1>1, <1>2, <1>11 DEF Marks, Marked, l
<1>13. Marks(stack', visited, vg)
  <2>1. ASSUME NEW n \in 1 .. l PROVE Marked(visited, vg, stack'[n]) /\ DepsVisited(visited, stack'[n], n < l)
    <3>1. CASE n = l
      <4>1. Marked(visited, vg, f)
        BY <1>4, <1>10 DEF Marked, Entered
      <4>2. \A k \in DOMAIN m.direct_deps[f.av] : ~(k < 1)
        BY <1>2, <1>4
      <4>3. \A b : DepsVisited(visited, f, b)
        BY <1>4, <4>2 DEF DepsVisited
      <4> QED BY <1>9, <3>1, <4>1, <4>3
    <3>2. CASE n \in 1 .. l - 1
      <4>1. Marked(visited, visiting, stack[n]) /\ DepsVisited(visited, stack[n], n < l)
        BY <1>2, <1>11, <3>2 DEF Marks, l
      <4>2. Marked(visited, vg, stack[n])
        BY <1>10, <1>11, <1>12, <3>2, <4>1 DEF Marked
      <4> QED BY <1>9, <3>2, <4>1, <4>2
    <3> QED BY <1>3, <3>1, <3>2
  <2>2. ASSUME NEW n \in 1 .. l, NEW k \in 1 .. l, Entered(stack'[n]), Entered(stack'[k]), n # k
        PROVE  stack'[n].av # stack'[k].av
    <3>1. CASE n \in 1 .. l - 1 /\ k \in 1 .. l - 1
      BY <1>2, <1>9, <1>11, <2>2, <3>1 DEF Marks, l
    <3>2. CASE n = l /\ k \in 1 .. l - 1
      BY <1>4, <1>9, <1>12, <2>2, <3>2
    <3>3. CASE k = l /\ n \in 1 .. l - 1
      BY <1>4, <1>9, <1>12, <2>2, <3>3
    <3> QED BY <1>3, <2>2, <3>1, <3>2, <3>3
  <2>3. ASSUME NEW v \in AVar, vg[v] PROVE OnStack(stack', v)
    <3>1. CASE v = Top.av
      BY <1>3, <1>4, <1>9, <3>1 DEF OnStack
    <3>2. CASE visiting[v]
      <4>1. PICK n \in 1 .. l : stack[n].av = v /\ stack[n].i > 0
        BY <1>1, <1>2, <3>2 DEF Marks, OnStack, l
      <4>2. n \in 1 .. l - 1
        BY <1>1, <1>3, <4>1
      <4> QED BY <1>9, <1>11, <4>1, <4>2 DEF OnStack
    <3> QED BY <1>10, <2>3, <3>1, <3>2
  <2> QED BY <1>9, <2>1, <2>2, <2>3 DEF Marks
<1>14. TypeOK'
  BY <1>1, <1>2, <1>9, <1>10 DEF TypeOK, lists
<1>15. /\ Marks(stack', visited', visiting') /\ AllProgress(initials', stack')
       /\ ListsOK(initials', visited') /\ ThreeLists(initials', flows', stocks') /\ Result(initials', stack', ret')
  BY <1>1, <1>8, <1>9, <1>13 DEF IInv, lists, Result
<1> QED BY <1>1, <1>7, <1>14, <1>15, NextState

(* A variable put at the end of a list.                                    *)
LEMMA AppendFacts ==
  ASSUME NEW s \in Seq(AVar), NEW x \in AVar
  PROVE  /\ Append(s, x) \in Seq(AVar) /\ Len(Append(s, x)) = Len(s) + 1
         /\ \A n \in 1 .. Len(s) : Append(s, x)[n] = s[n]
         /\ Append(s, x)[Len(s) + 1] = x
         /\ Range(Append(s, x)) = Range(s) \cup {x}
<1> DEFINE t == Append(s, x)
           l == Len(s)
<1>1. /\ t \in Seq(AVar) /\ l \in Nat /\ Len(t) = l + 1 /\ DOMAIN t = 1 .. l + 1 /\ DOMAIN s = 1 .. l
      /\ \A n \in 1 .. l : t[n] = s[n]
      /\ t[l + 1] = x
  OBVIOUS
<1> HIDE DEF t, l
<1>2. \A y \in Range(t) : y \in Range(s) \cup {x}
  <2>1. ASSUME NEW n \in 1 .. l + 1 PROVE t[n] \in Range(s) \cup {x}
    <3>1. n \in 1 .. l \/ n = l + 1
      BY <1>1
    <3> QED BY <1>1, <3>1 DEF Range
  <2> QED BY <1>1, <2>1 DEF Range
<1>3. \A y \in Range(s) : y \in Range(t)
  <2>1. \A n \in 1 .. l : n \in 1 .. l + 1
    BY <1>1
  <2> QED BY <1>1, <2>1 DEF Range
<1>4. x \in Range(t)
  <2>1. l + 1 \in 1 .. l + 1
    BY <1>1
  <2> QED BY <1>1, <2>1 DEF Range
<1> QED BY <1>1, <1>2, <1>3, <1>4 DEF t, l

Joined(res, list, mod, av, joins) ==
  /\ res \in [AVar -> Seq(AVar)]
  /\ \A p \in AVar : p # mod => res[p] = list[p]
  /\ joins => res[mod] = Append(list[mod], av)
  /\ ~joins => res = list
  /\ Range(res[mod]) = Range(list[mod]) \cup {v \in {av} : joins}

LEMMA JoinFacts ==
  ASSUME NEW list \in [AVar -> Seq(AVar)], NEW mod \in AVar, NEW av \in AVar, NEW joins \in BOOLEAN
  PROVE  Joined(Join(list, mod, av, joins), list, mod, av, joins)
<1>1. list[mod] \in Seq(AVar)
  OBVIOUS
<1>2. Append(list[mod], av) \in Seq(AVar) /\ Range(Append(list[mod], av)) = Range(list[mod]) \cup {av}
  BY <1>1, AppendFacts
<1>3. CASE joins
  <2>1. Join(list, mod, av, joins) = [list EXCEPT ![mod] = Append(@, av)]
    BY <1>3 DEF Join
  <2>2. Join(list, mod, av, joins)[mod] = Append(list[mod], av)
    BY <2>1
  <2>3. {v \in {av} : joins} = {av}
    BY <1>3
  <2>4. Range(Join(list, mod, av, joins)[mod]) = Range(list[mod]) \cup {v \in {av} : joins}
    BY <1>2, <2>2, <2>3
  <2>5. Join(list, mod, av, joins) \in [AVar -> Seq(AVar)]
    BY <1>2, <2>1
  <2>6. \A p \in AVar : p # mod => Join(list, mod, av, joins)[p] = list[p]
    BY <2>1
  <2> QED BY <1>3, <2>2, <2>4, <2>5, <2>6 DEF Joined
<1>4. CASE ~joins
  BY <1>4 DEF Join, Joined
<1> QED BY <1>3, <1>4

(* Appended behind its dependencies, a variable keeps a list in order.     *)
LEMMA AppendInOrder ==
  ASSUME NEW s \in Seq(AVar), NEW x \in AVar, IsInjective(s), InOrder(s), x \notin Range(s),
         \A k \in DOMAIN m.direct_deps[x] :
           m.type[m.direct_deps[x][k]] # "ref" => m.direct_deps[x][k] \in Range(s)
  PROVE  IsInjective(Append(s, x)) /\ InOrder(Append(s, x))
<1> DEFINE t == Append(s, x)
           l == Len(s)
<1>1. /\ l \in Nat /\ DOMAIN t = 1 .. l + 1 /\ DOMAIN s = 1 .. l
      /\ \A n \in 1 .. l : t[n] = s[n]
      /\ t[l + 1] = x
  BY AppendFacts
<1> HIDE DEF t, l
<1>2. \A n \in 1 .. l : t[n] # x
  BY <1>1 DEF Range
<1>3. IsInjective(t)
  <2>1. ASSUME NEW i \in 1 .. l + 1, NEW j \in 1 .. l + 1, t[i] = t[j] PROVE i = j
    <3>1. (i \in 1 .. l \/ i = l + 1) /\ (j \in 1 .. l \/ j = l + 1)
      BY <1>1
    <3>2. CASE i \in 1 .. l /\ j \in 1 .. l
      BY <1>1, <2>1, <3>2 DEF IsInjective
    <3> QED BY <1>1, <1>2, <2>1, <3>1, <3>2
  <2> QED BY <1>1, <2>1 DEF IsInjective
<1>4. ASSUME NEW j \in 1 .. l + 1, NEW k \in DOMAIN m.direct_deps[t[j]],
             m.type[m.direct_deps[t[j]][k]] # "ref"
      PROVE  \E n \in 1 .. j - 1 : t[n] = m.direct_deps[t[j]][k]
  <2>1. CASE j \in 1 .. l
    <3>1. PICK n \in 1 .. j - 1 : s[n] = m.direct_deps[t[j]][k]
      BY <1>1, <1>4, <2>1 DEF InOrder
    <3>2. n \in 1 .. l
      BY <1>1, <2>1
    <3> QED BY <1>1, <3>1, <3>2
  <2>2. CASE j = l + 1
    <3>1. m.direct_deps[x][k] \in Range(s)
      BY <1>1, <1>4, <2>2
    <3>2. PICK n \in 1 .. l : s[n] = m.direct_deps[x][k]
      BY <1>1, <3>1 DEF Range
    <3>3. n \in 1 .. j - 1
      BY <1>1, <2>2
    <3> QED BY <1>1, <2>2, <3>2, <3>3
  <2> QED BY <1>1, <2>1, <2>2
<1>5. InOrder(t)
  BY <1>1, <1>4 DEF InOrder
<1> QED BY <1>3, <1>5 DEF t

(* What holds of the variable that the innermost call is about to list.    *)
LEMMA LeaveFacts ==
  ASSUME IInv, AddLeave
  PROVE  /\ stack # << >> /\ Top.fn = "add" /\ Top.i \in Nat /\ Top.i > 0 /\ Len(stack) # 1
         /\ Top.av \in AVar /\ Top.module \in AVar /\ Inside(Top.av, Top.module) /\ ~visited[Top.av]
         /\ AllComplete(initials, Top.av)
         /\ \A p \in AVar : Top.av \notin Range(initials[p])
         /\ \A k \in DOMAIN m.direct_deps[Top.av] :
              m.type[m.direct_deps[Top.av][k]] # "ref" =>
                m.direct_deps[Top.av][k] \in Range(initials[Top.module])
<1>1. stack # << >> /\ Top.fn = "add" /\ Top.i > Len(m.direct_deps[Top.av])
  BY DEF AddLeave, Active
<1>2. /\ TypeOK /\ m \in Model /\ Shape(stack) /\ ListsOK(initials, visited)
      /\ FrameOK(Top) /\ Progress(initials, Top, FALSE)
      /\ Marked(visited, visiting, Top) /\ DepsVisited(visited, Top, FALSE)
      /\ m.direct_deps[Top.av] \in Seq(AVar)
  BY <1>1, LoopFacts
<1>3. Top.av \in AVar /\ Top.module \in AVar /\ Top.i \in Nat /\ Top = stack[Len(stack)]
  BY <1>1, <1>2, TopFacts
<1>4. Top.i > 0 /\ \A k \in DOMAIN m.direct_deps[Top.av] : k < Top.i /\ m.direct_deps[Top.av][k] \in AVar
  <2>1. ASSUME NEW k \in DOMAIN m.direct_deps[Top.av]
        PROVE  k < Top.i /\ m.direct_deps[Top.av][k] \in AVar
    <3>1. k \in 1 .. Len(m.direct_deps[Top.av]) /\ m.direct_deps[Top.av][k] \in AVar
      BY <1>2
    <3>2. Len(m.direct_deps[Top.av]) \in Nat
      BY <1>2
    <3> QED BY <1>1, <1>3, <3>1, <3>2
  <2>2. Len(m.direct_deps[Top.av]) \in Nat
    BY <1>2
  <2> QED BY <1>1, <1>3, <2>1, <2>2
<1>5. Len(stack) # 1
  BY <1>1, <1>2, <1>3 DEF Shape
<1>6. Inside(Top.av, Top.module) /\ AllComplete(initials, Top.av) /\ ~visited[Top.av]
  BY <1>1, <1>2, <1>4 DEF FrameOK, Progress, Marked, Entered
<1>7. \A p \in AVar : Top.av \notin Range(initials[p])
  BY <1>2, <1>6 DEF ListsOK
<1>8. ASSUME NEW k \in DOMAIN m.direct_deps[Top.av], m.type[m.direct_deps[Top.av][k]] # "ref"
      PROVE  m.direct_deps[Top.av][k] \in Range(initials[Top.module])
  <2>1. visited[m.direct_deps[Top.av][k]]
    BY <1>1, <1>2, <1>4 DEF DepsVisited
  <2>2. Inside(m.direct_deps[Top.av][k], Top.module)
    <3>1. m.anc[m.direct_deps[Top.av][k]] = m.anc[Top.av]
      BY <1>2, <1>3, ModelFacts
    <3> QED BY <1>6, <3>1 DEF Inside
  <2> QED BY <1>2, <1>3, <1>4, <1>8, <2>1, <2>2 DEF ListsOK, Listed
<1> QED BY <1>1, <1>3, <1>4, <1>5, <1>6, <1>7, <1>8

(* The end of a call of module_add_to_runlists: the variable joins its     *)
(* lists.                                                                  *)
LEMMA AddLeaveOK ==
  ASSUME IInv, AddLeave
  PROVE  IInv'
<1> DEFINE mod == Top.module
           av == Top.av
           ini == Join(initials, mod, av, OnInitials(av))
           fl == Join(flows, mod, av, OnFlows(av))
           sk == Join(stocks, mod, av, OnStocks(av))
           vd == [visited EXCEPT ![av] = TRUE]
           vg == [visiting EXCEPT ![av] = FALSE]
<1>1. /\ initials' = ini /\ flows' = fl /\ stocks' = sk /\ visited' = vd /\ visiting' = vg
      /\ m' = m /\ Return
  BY DEF AddLeave
<1>2. /\ stack # << >> /\ Top.fn = "add" /\ Top.i \in Nat /\ Top.i > 0 /\ Len(stack) # 1
      /\ av \in AVar /\ mod \in AVar /\ Inside(av, mod) /\ ~visited[av] /\ AllComplete(initials, av)
      /\ \A p \in AVar : av \notin Range(initials[p])
  BY LeaveFacts
<1>3. /\ TypeOK /\ m \in Model /\ Shape(stack) /\ Marks(stack, visited, visiting) /\ AllProgress(initials, stack)
      /\ ListsOK(initials, visited) /\ ThreeLists(initials, flows, stocks)
  BY <1>2, LoopFacts DEF IInv
<1>4. Popped(stack') /\ Shape(stack') /\ Result(ini, stack', ret')
  BY <1>1, <1>2, ReturnOK
<1>5. /\ vd \in [AVar -> BOOLEAN] /\ vg \in [AVar -> BOOLEAN] /\ vd[av] /\ ~vg[av]
      /\ \A v \in AVar : v # av => vd[v] = visited[v] /\ vg[v] = visiting[v]
  BY <1>2, <1>3 DEF TypeOK
<1>6. /\ OnInitials(av) \in BOOLEAN /\ OnFlows(av) \in BOOLEAN /\ OnStocks(av) \in BOOLEAN
      /\ initials \in [AVar -> Seq(AVar)] /\ flows \in [AVar -> Seq(AVar)] /\ stocks \in [AVar -> Seq(AVar)]
  BY <1>3 DEF TypeOK, OnInitials, OnFlows, OnStocks
<1>7. /\ ini \in [AVar -> Seq(AVar)]
      /\ \A p \in AVar : p # mod => ini[p] = initials[p]
      /\ OnInitials(av) => ini[mod] = Append(initials[mod], av)
      /\ ~OnInitials(av) => ini = initials
      /\ Range(ini[mod]) = Range(initials[mod]) \cup {v \in {av} : OnInitials(av)}
  <2>1. Joined(ini, initials, mod, av, OnInitials(av))
    BY <1>2, <1>6, JoinFacts
  <2> QED BY <2>1 DEF Joined
<1>8. /\ fl \in [AVar -> Seq(AVar)]
      /\ \A p \in AVar : p # mod => fl[p] = flows[p]
      /\ Range(fl[mod]) = Range(flows[mod]) \cup {v \in {av} : OnFlows(av)}
  <2>1. Joined(fl, flows, mod, av, OnFlows(av))
    BY <1>2, <1>6, JoinFacts
  <2> QED BY <2>1 DEF Joined
<1>9. /\ sk \in [AVar -> Seq(AVar)]
      /\ \A p \in AVar : p # mod => sk[p] = stocks[p]
      /\ Range(sk[mod]) = Range(stocks[mod]) \cup {v \in {av} : OnStocks(av)}
  <2>1. Joined(sk, stocks, mod, av, OnStocks(av))
    BY <1>2, <1>6, JoinFacts
  <2> QED BY <2>1 DEF Joined
<1> HIDE DEF ini, fl, sk, vd, vg
<1>10. Extends(ini)
  BY <1>7 DEF Extends
<1>11. Listed(ini, av, mod)
  BY <1>7 DEF Listed, OnInitials
<1>12. TypeOK'
  BY <1>1, <1>3, <1>4, <1>5, <1>7, <1>8, <1>9 DEF TypeOK, Popped
<1>13. Marks(stack', vd, vg)
  BY <1>2, <1>3, <1>4, <1>5, MarksPop
<1>14. AllProgress(ini, stack')
  <2>1. \A p \in AVar : ini[p] = initials[p] \/ (Top.fn = "add" /\ p = Top.module)
    BY <1>2, <1>7
  <2> QED BY <1>2, <1>3, <1>4, <1>10, <1>11, <2>1, ProgressPop
<1>15. ListsOK(ini, vd)
  <2>1. ASSUME NEW v \in AVar, NEW p \in AVar, vd[v], Inside(v, p) PROVE Listed(ini, v, p)
    <3>1. CASE v = av
      <4>1. p = mod
        BY <1>2, <1>3, <2>1, <3>1, OneParent
      <4> QED BY <1>11, <3>1, <4>1
    <3>2. CASE v # av
      <4>1. Listed(initials, v, p)
        BY <1>3, <1>5, <2>1, <3>2 DEF ListsOK
      <4> QED BY <1>10, <4>1 DEF Listed, Extends
    <3> QED BY <3>1, <3>2
  <2>2. ASSUME NEW p \in AVar, NEW v \in Range(ini[p])
        PROVE  Inside(v, p) /\ vd[v] /\ m.type[v] # "ref" /\ AllComplete(ini, v)
    <3>1. CASE v \in Range(initials[p])
      <4>1. v \in AVar /\ Inside(v, p) /\ visited[v] /\ m.type[v] # "ref" /\ AllComplete(initials, v)
        BY <1>3, <3>1, ListFacts DEF ListsOK
      <4>2. AllComplete(ini, v)
        BY <1>10, <4>1, CompleteMono
      <4> QED BY <1>2, <1>5, <4>1, <4>2
    <3>2. CASE v = av /\ p = mod /\ OnInitials(av)
      <4>1. AllComplete(ini, av)
        BY <1>2, <1>10, CompleteMono
      <4> QED BY <1>2, <1>5, <3>2, <4>1 DEF OnInitials
    <3>3. v \in Range(initials[p]) \/ (v = av /\ p = mod /\ OnInitials(av))
      BY <1>7, <2>2
    <3> QED BY <3>1, <3>2, <3>3
  <2>3. ASSUME NEW p \in AVar PROVE IsInjective(ini[p]) /\ InOrder(ini[p])
    <3>1. IsInjective(initials[p]) /\ InOrder(initials[p])
      BY <1>3 DEF ListsOK
    <3>2. CASE p # mod \/ ~OnInitials(av)
      BY <1>7, <3>1, <3>2
    <3>3. CASE p = mod /\ OnInitials(av)
      <4>1. initials[mod] \in Seq(AVar)
        BY <1>2, <1>6
      <4>2. IsInjective(Append(initials[mod], av)) /\ InOrder(Append(initials[mod], av))
        BY <1>2, <3>1, <3>3, <4>1, LeaveFacts, AppendInOrder
      <4> QED BY <1>7, <3>3, <4>2
    <3> QED BY <3>2, <3>3
  <2> QED BY <2>1, <2>2, <2>3 DEF ListsOK
<1>16. ThreeLists(ini, fl, sk)
  <2>1. OnInitials(av) <=> OnFlows(av) \/ OnStocks(av)
    <3>1. m.type[av] \in VarType
      BY <1>2, <1>3, ModelFacts
    <3> QED BY <3>1 DEF VarType, OnInitials, OnFlows, OnStocks
  <2>2. ASSUME NEW p \in AVar
        PROVE  /\ Range(fl[p]) \cup Range(sk[p]) = Range(ini[p])
               /\ \A v \in Range(fl[p]) : OnFlows(v)
               /\ \A v \in Range(sk[p]) : OnStocks(v)
    <3>1. /\ Range(flows[p]) \cup Range(stocks[p]) = Range(initials[p])
          /\ \A v \in Range(flows[p]) : OnFlows(v)
          /\ \A v \in Range(stocks[p]) : OnStocks(v)
      BY <1>3 DEF ThreeLists
    <3>2. CASE p # mod
      BY <1>7, <1>8, <1>9, <3>1, <3>2
    <3>3. CASE p = mod
      <4>1. /\ Range(fl[p]) = Range(flows[p]) \cup {v \in {av} : OnFlows(av)}
            /\ Range(sk[p]) = Range(stocks[p]) \cup {v \in {av} : OnStocks(av)}
            /\ Range(ini[p]) = Range(initials[p]) \cup {v \in {av} : OnInitials(av)}
        BY <1>7, <1>8, <1>9, <3>3
      <4> QED BY <2>1, <3>1, <4>1
    <3> QED BY <3>2, <3>3
  <2> QED BY <2>2 DEF ThreeLists
<1>17. /\ Marks(stack', visited', visiting') /\ AllProgress(initials', stack') /\ ListsOK(initials', visited')
       /\ ThreeLists(initials', flows', stocks') /\ Result(initials', stack', ret')
  BY <1>1, <1>4, <1>13, <1>14, <1>15, <1>16
<1> QED BY <1>1, <1>4, <1>12, <1>17, NextState

LEMMA StepOK == IInv /\ [Next]_vars => IInv'
<1> SUFFICES ASSUME IInv, [Next]_vars PROVE IInv'
  OBVIOUS
<1>1. CASE UNCHANGED vars
  <2>1. TypeOK'
    BY <1>1 DEF IInv, TypeOK, vars, lists
  <2> QED BY <1>1, <2>1, NextState DEF IInv, vars, lists
<1>2. CASE SortEnter
  BY <1>2, SortEnterOK
<1>3. CASE SortSkip
  BY <1>3, SortSkipOK
<1>4. CASE SortModule
  BY <1>4, SortModuleOK
<1>5. CASE SortVar
  BY <1>5, SortVarOK
<1>6. CASE SortLeave
  BY <1>6, SortLeaveOK
<1>7. CASE AddCircular
  BY <1>7, AddCircularOK
<1>8. CASE AddEnter
  BY <1>8, AddVisitedOK, AddNewOK
<1>9. CASE AddDep
  BY <1>9, AddDepOK
<1>10. CASE AddLeave
  BY <1>10, AddLeaveOK
<1> QED BY <1>1, <1>2, <1>3, <1>4, <1>5, <1>6, <1>7, <1>8, <1>9, <1>10 DEF Next

(* The frames, the flags and the lists of the search fit together at each  *)
(* of its steps.                                                           *)
THEOREM Invariance == Spec => []IInv
<1>1. Init => IInv
  BY InitOK
<1>2. IInv /\ [Next]_vars => IInv'
  BY StepOK
<1> QED BY <1>1, <1>2, PTL DEF Spec

-----------------------------------------------------------------------------
(* The properties.                                                         *)

\* what a search that has succeeded has listed
LEMMA SucceededComplete ==
  ASSUME IInv, ret = "ok", NEW p \in AVar
  PROVE  Named(p) \/ Complete(initials, p)
<1>1. AllComplete(initials, Root) /\ m \in Model
  BY DEF IInv, Result, TypeOK
<1>2. Below(p, Root)
  BY <1>1, Tree DEF Nested, Below
<1> QED BY <1>1, <1>2 DEF AllComplete

LEMMA OnceInOrder == IInv => ListedOnceInOrder
<1> SUFFICES ASSUME IInv PROVE ListedOnceInOrder
  OBVIOUS
<1>1. TypeOK /\ m \in Model /\ ListsOK(initials, visited) /\ ThreeLists(initials, flows, stocks)
  BY DEF IInv, TypeOK
<1>2. ASSUME NEW p \in AVar, NEW i \in DOMAIN initials[p], NEW k \in DOMAIN m.direct_deps[initials[p][i]],
             m.type[m.direct_deps[initials[p][i]][k]] # "ref"
      PROVE  \E j \in 1 .. i - 1 : initials[p][j] = m.direct_deps[initials[p][i]][k]
  BY <1>1, <1>2 DEF ListsOK, InOrder
<1>3. ASSUME ret = "ok", NEW p \in AVar, NEW v \in Range(m.avars[p]) \ {Time}, ~Named(p)
      PROVE  Cardinality({i \in DOMAIN initials[p] : initials[p][i] = v})
               = IF m.type[v] = "ref" THEN 0 ELSE 1
  <2> DEFINE At_v == {i \in DOMAIN initials[p] : initials[p][i] = v}
  <2>1. Listed(initials, v, p)
    BY <1>3, SucceededComplete DEF Complete
  <2>2. CASE m.type[v] = "ref"
    <3>1. v \notin Range(initials[p])
      BY <1>1, <2>2 DEF ListsOK
    <3>2. At_v = {}
      BY <3>1 DEF Range
    <3> QED BY <2>2, <3>2, FS_EmptySet
  <2>3. CASE m.type[v] # "ref"
    <3>1. PICK i \in DOMAIN initials[p] : initials[p][i] = v
      BY <2>1, <2>3 DEF Listed, Range
    <3>2. IsInjective(initials[p])
      BY <1>1 DEF ListsOK
    <3>3. At_v = {i}
      BY <3>1, <3>2 DEF IsInjective
    <3> QED BY <2>3, <3>3, FS_Singleton
  <2> QED BY <2>2, <2>3
<1>4. ASSUME NEW p \in AVar
      PROVE  /\ Range(flows[p]) \cup Range(stocks[p]) = Range(initials[p])
             /\ \A v \in {x \in Range(flows[p]) : x \in Range(stocks[p])} : m.type[v] = "module"
             /\ \A v \in Range(flows[p]) : m.type[v] # "stock"
  <2>1. \A v : OnFlows(v) /\ OnStocks(v) => m.type[v] = "module"
    BY DEF OnFlows, OnStocks
  <2>2. \A v : OnFlows(v) => m.type[v] # "stock"
    BY DEF OnFlows
  <2> QED BY <1>1, <2>1, <2>2 DEF ThreeLists
<1> QED BY <1>2, <1>3, <1>4 DEF ListedOnceInOrder

(* For every compiled model, at each step of the search: a variable is on  *)
(* the list of its module behind all it depends on; when the search has    *)
(* succeeded all of a module that no equation names is listed, once; and   *)
(* one step computes each variable, a submodule excepted, which is part of *)
(* both (module_add_to_runlists and module_sort_runlists, sim.c).          *)
THEOREM ListedCorrect == Spec => []ListedOnceInOrder
BY Invariance, OnceInOrder, PTL

LEMMA CyclesFound == IInv => CircularIffCycle
<1> SUFFICES ASSUME IInv PROVE CircularIffCycle
  OBVIOUS
<1>1. TypeOK /\ m \in Model /\ ListsOK(initials, visited)
  BY DEF IInv, TypeOK
<1>2. ret = "circular" => HasCycle
  BY DEF IInv, Result
<1>3. ASSUME ret = "ok", HasCycle, \A p \in AVar : ~(m.type[p] = "module" /\ Named(p))
      PROVE  FALSE
  <2>1. PICK S \in (SUBSET AVar) \ {{}} :
               \A v \in S : \E i \in DOMAIN m.direct_deps[v] : m.direct_deps[v][i] \in S
    BY <1>3 DEF HasCycle
  <2>2. ASSUME NEW v \in S
        PROVE  v # Time /\ v # Root /\ m.type[v] # "ref"
    <3>1. m.direct_deps[v] # << >> /\ v \in AVar
      BY <2>1
    <3> QED BY <1>1, <3>1 DEF Model
  <2>3. ASSUME NEW v \in S, NEW p \in AVar, Inside(v, p) PROVE v \in Range(initials[p])
    <3>1. PICK q \in AVar : v \in Range(m.avars[q])
      BY <1>1, <2>2, ModelFacts
    <3>2. q = p
      <4>1. Inside(v, q)
        BY <1>1, <3>1, ModelFacts DEF Range
      <4> QED BY <1>1, <2>3, <4>1, OneParent
    <3>3. m.type[p] = "module"
      <4>1. m.avars[p] # << >>
        BY <3>1, <3>2 DEF Range
      <4> QED BY <1>1, <4>1, ModelFacts
    <3>4. Complete(initials, p)
      BY <1>3, <3>3, SucceededComplete
    <3> QED BY <2>2, <3>1, <3>2, <3>4 DEF Complete, Listed
  <2>4. PICK x \in S : TRUE
    BY <2>1
  <2>5. PICK p \in AVar : x \in Range(m.avars[p])
    BY <1>1, <2>2, ModelFacts
  <2>6. Inside(x, p)
    BY <1>1, <2>5, ModelFacts DEF Range
  <2> DEFINE T == {j \in DOMAIN initials[p] : initials[p][j] \in S}
  <2>7. initials[p] \in Seq(AVar)
    BY <1>1, ListFacts
  <2>8. T \in SUBSET Nat
    BY <2>7
  <2>9. T # {}
    BY <2>3, <2>6 DEF Range
  <2>10. PICK j \in T : \A n \in T : j <= n
    BY <2>8, <2>9, LeastNat
  <2>11. PICK k \in DOMAIN m.direct_deps[initials[p][j]] : m.direct_deps[initials[p][j]][k] \in S
    BY <2>1, <2>10
  <2>12. m.type[m.direct_deps[initials[p][j]][k]] # "ref"
    BY <2>2, <2>11
  <2>13. InOrder(initials[p])
    BY <1>1 DEF ListsOK
  <2>14. PICK n \in 1 .. j - 1 : initials[p][n] = m.direct_deps[initials[p][j]][k]
    BY <2>10, <2>11, <2>12, <2>13 DEF InOrder
  <2>15. n \in DOMAIN initials[p] /\ n < j /\ j \in Nat
    <3>1. DOMAIN initials[p] = 1 .. Len(initials[p]) /\ Len(initials[p]) \in Nat
      BY <2>7
    <3>2. j \in 1 .. Len(initials[p])
      BY <2>10, <3>1
    <3> QED BY <3>1, <3>2
  <2>16. n \in T
    BY <2>11, <2>14, <2>15
  <2> QED BY <2>8, <2>10, <2>15, <2>16
<1> QED BY <1>2, <1>3 DEF CircularIffCycle

(* For every compiled model: the search reports circular equations only    *)
(* where there are some, and where it succeeds on a model that has some an *)
(* equation names a module (sd_sim_new's use of module_sort_runlists).     *)
THEOREM CircularCorrect == Spec => []CircularIffCycle
BY Invariance, CyclesFound, PTL

-----------------------------------------------------------------------------
(* The order within each list.                                             *)
(*                                                                         *)
(* The runlists of the modules keep an order between a submodule and the   *)
(* variables in front of it, which is an invariant of the search (Sorted). *)
(* From the order within each list follows that of the whole, by induction *)
(* on the tree of modules.                                                 *)

\* what goes before v on a list of p: what it depends on, or what is in front of it in the file
Before(p, v) ==
  Range(m.direct_deps[v]) \cup
    {u \in AVar : \E k \in DOMAIN m.avars[p] : \E j \in FirstIndex(p) .. k - 1 :
       m.avars[p][k] = v /\ m.type[v] = "module" /\ ~ Named(v) /\ u = m.avars[p][j]}

\* in the list l of p, what goes before the variable at i does, if it is one of S
Preceded(l, S, p, i) == \A u \in Before(p, l[i]) \cap S : \E j \in 1 .. i - 1 : l[j] = u

\* a list has those of S that are on initials, in that order
Sorted(lst, ini, S) ==
  /\ lst \in [AVar -> Seq(AVar)]
  /\ \A p \in AVar :
       /\ Range(lst[p]) = Range(ini[p]) \cap S
       /\ IsInjective(lst[p])
       /\ \A i \in DOMAIN lst[p] : Preceded(lst[p], S, p, i)

OfInitials == {v \in AVar : OnInitials(v)}
OfFlows == {v \in AVar : OnFlows(v)}

SortedInv == Sorted(initials, initials, OfInitials) /\ Sorted(flows, initials, OfFlows)

\* what goes before a variable that is about to be listed is on initials
LEMMA BeforeListed ==
  ASSUME IInv, AddLeave
  PROVE  \A u \in Before(Top.module, Top.av) : m.type[u] # "ref" => u \in Range(initials[Top.module])
<1> DEFINE mod == Top.module
           av == Top.av
           l == Len(stack)
<1>1. /\ stack # << >> /\ Top.fn = "add" /\ l # 1
      /\ av \in AVar /\ mod \in AVar
      /\ \A k \in DOMAIN m.direct_deps[av] :
           m.type[m.direct_deps[av][k]] # "ref" => m.direct_deps[av][k] \in Range(initials[mod])
  BY LeaveFacts
<1>2. TypeOK /\ m \in Model /\ Shape(stack) /\ AllProgress(initials, stack)
  BY <1>1, LoopFacts DEF IInv
<1>3. ASSUME NEW u \in Range(m.direct_deps[av]), m.type[u] # "ref"
      PROVE  u \in Range(initials[mod])
  BY <1>1, <1>3 DEF Range
<1>4. ASSUME NEW k \in DOMAIN m.avars[mod], NEW j \in FirstIndex(mod) .. k - 1,
             m.avars[mod][k] = av, ~ Named(av), m.type[m.avars[mod][j]] # "ref"
      PROVE  m.avars[mod][j] \in Range(initials[mod])
  <2> DEFINE f == stack[l - 1]
  <2>1. l - 1 \in 1 .. l /\ l - 1 \in 1 .. l - 1 /\ l - 1 < l /\ (l - 1) + 1 = l /\ Top = stack[l] /\ l \in 1 .. l
    <3>1. l \in Nat \ {0} /\ Top = stack[l]
      BY <1>1, <1>2, TopFacts
    <3> HIDE DEF l
    <3> QED BY <1>1, <3>1
  <2>2. f.i > 0 /\ Waits(f, Top) /\ Progress(initials, f, TRUE) /\ f \in Frame
    BY <1>1, <1>2, <2>1, TopFacts DEF Shape, AllProgress
  <2>3. f.fn # "add"
    <3>1. ASSUME f.fn = "add" PROVE FALSE
      <4>1. f.i - 1 \in DOMAIN m.direct_deps[f.av] /\ av = m.direct_deps[f.av][f.i - 1] /\ f.av \in AVar
        BY <2>2, <3>1 DEF Waits, Frame
      <4> QED BY <1>4, <4>1 DEF Named
    <3> QED BY <3>1
  <2>4. f.fn = "sort" /\ ~ f.sorted
    BY <1>1, <2>2, <2>3 DEF Waits, Frame
  <2>5. f.module = mod /\ f.i - 1 \in DOMAIN m.avars[mod] /\ av = m.avars[mod][f.i - 1]
    BY <2>2, <2>4 DEF Waits
  <2>6. IsInjective(m.avars[mod]) /\ m.avars[mod] \in Seq(AVar)
    BY <1>1, <1>2, ModelFacts
  <2>7. f.i - 1 = k
    BY <1>4, <2>5, <2>6 DEF IsInjective
  <2>8. Behind(initials, f, TRUE)
    BY <2>2, <2>4 DEF Progress
  <2>9. FirstIndex(mod) \in {1, 2}
    BY DEF FirstIndex
  <2>10. f.i \in Nat
    BY <2>2 DEF Frame
  <2>11. j \in DOMAIN m.avars[mod] /\ j >= FirstIndex(mod) /\ j < f.i /\ j # f.i - 1
    BY <1>4, <2>6, <2>7, <2>9, <2>10
  <2> QED BY <1>4, <2>5, <2>8, <2>11 DEF Behind, Listed
<1> QED BY <1>3, <1>4 DEF Before

\* a list that a variable joins behind what goes before it
LEMMA SortedAppend ==
  ASSUME IInv, NEW mod \in AVar, NEW av \in AVar, NEW S \in SUBSET AVar, NEW lst, NEW ini \in [AVar -> Seq(AVar)],
         Sorted(lst, initials, S), av \notin Range(initials[mod]), av \in S,
         \A u \in Before(mod, av) \cap S : u \in Range(initials[mod]),
         Joined(ini, initials, mod, av, TRUE),
         NEW new, Joined(new, lst, mod, av, TRUE)
  PROVE  Sorted(new, ini, S)
<1>1. /\ new \in [AVar -> Seq(AVar)] /\ \A p \in AVar : p # mod => new[p] = lst[p]
      /\ new[mod] = Append(lst[mod], av) /\ Range(new[mod]) = Range(lst[mod]) \cup {av}
      /\ \A p \in AVar : p # mod => ini[p] = initials[p]
      /\ Range(ini[mod]) = Range(initials[mod]) \cup {av}
  BY DEF Joined
<1>2. /\ lst[mod] \in Seq(AVar) /\ Range(lst[mod]) = Range(initials[mod]) \cap S
      /\ IsInjective(lst[mod]) /\ \A i \in DOMAIN lst[mod] : Preceded(lst[mod], S, mod, i)
  BY DEF Sorted
<1> DEFINE s == lst[mod]
           t == new[mod]
           n == Len(s)
<1>3. /\ n \in Nat /\ DOMAIN t = 1 .. n + 1 /\ DOMAIN s = 1 .. n
      /\ \A i \in 1 .. n : t[i] = s[i]
      /\ t[n + 1] = av
  BY <1>1, <1>2, AppendFacts
<1> HIDE DEF s, t, n
<1>4. Range(t) = Range(ini[mod]) \cap S
  BY <1>1, <1>2 DEF t
<1>5. IsInjective(t)
  <2>1. \A i \in 1 .. n : t[i] # av
    BY <1>2, <1>3 DEF Range, s
  <2>2. ASSUME NEW i \in 1 .. n + 1, NEW j \in 1 .. n + 1, t[i] = t[j] PROVE i = j
    <3>1. (i \in 1 .. n \/ i = n + 1) /\ (j \in 1 .. n \/ j = n + 1)
      BY <1>3
    <3>2. CASE i \in 1 .. n /\ j \in 1 .. n
      BY <1>2, <1>3, <2>2, <3>2 DEF IsInjective, s
    <3> QED BY <1>3, <2>1, <2>2, <3>1, <3>2
  <2> QED BY <1>3, <2>2 DEF IsInjective
<1>6. ASSUME NEW i \in 1 .. n + 1 PROVE Preceded(t, S, mod, i)
  <2>1. CASE i \in 1 .. n
    <3>1. \A j \in 1 .. i - 1 : j \in 1 .. n
      BY <1>3, <2>1
    <3>2. Preceded(s, S, mod, i)
      BY <1>2, <1>3, <2>1 DEF s
    <3> QED BY <1>3, <2>1, <3>1, <3>2 DEF Preceded
  <2>2. CASE i = n + 1
    <3>1. ASSUME NEW u \in Before(mod, av) \cap S PROVE \E j \in 1 .. i - 1 : t[j] = u
      <4>1. u \in Range(s)
        BY <1>2 DEF s
      <4>2. PICK j \in 1 .. n : s[j] = u
        BY <1>3, <4>1 DEF Range
      <4>3. j \in 1 .. i - 1
        BY <1>3, <2>2
      <4> QED BY <1>3, <4>2, <4>3
    <3> QED BY <1>3, <2>2, <3>1 DEF Preceded
  <2>3. i \in 1 .. n \/ i = n + 1
    BY <1>3
  <2> QED BY <2>1, <2>2, <2>3
<1>7. ASSUME NEW p \in AVar
      PROVE  /\ Range(new[p]) = Range(ini[p]) \cap S /\ IsInjective(new[p])
             /\ \A i \in DOMAIN new[p] : Preceded(new[p], S, p, i)
  <2>1. CASE p = mod
    BY <1>3, <1>4, <1>5, <1>6, <2>1 DEF t
  <2>2. CASE p # mod
    BY <1>1, <2>2 DEF Sorted
  <2> QED BY <2>1, <2>2
<1> QED BY <1>1, <1>7 DEF Sorted

LEMMA SortedInit == Init => SortedInv
<1> SUFFICES ASSUME Init PROVE SortedInv
  OBVIOUS
<1>1. /\ initials \in [AVar -> Seq(AVar)] /\ flows \in [AVar -> Seq(AVar)]
      /\ \A p \in AVar : initials[p] = << >> /\ flows[p] = << >>
  BY DEF Init
<1>2. Range(<< >>) = {} /\ DOMAIN << >> = {} /\ IsInjective(<< >>)
  BY DEF Range, IsInjective
<1> QED BY <1>1, <1>2 DEF SortedInv, Sorted

LEMMA SortedStep == IInv /\ SortedInv /\ [Next]_vars => SortedInv'
<1> SUFFICES ASSUME IInv, SortedInv, [Next]_vars PROVE SortedInv'
  OBVIOUS
<1>1. m' = m
  BY DEF Next, SortEnter, SortSkip, SortModule, SortVar, SortLeave, AddCircular, AddEnter, AddDep, AddLeave, vars
<1>2. OfInitials' = OfInitials /\ OfFlows' = OfFlows
  BY <1>1 DEF OfInitials, OfFlows, OnInitials, OnFlows
<1>3. SUFFICES Sorted(initials', initials', OfInitials) /\ Sorted(flows', initials', OfFlows)
  <2>1. SortedInv' <=> Sorted(initials', initials', OfInitials) /\ Sorted(flows', initials', OfFlows)
    BY <1>1, <1>2 DEF SortedInv, Sorted, Preceded, Before, Named, FirstIndex
  <2> QED BY <2>1
<1>4. CASE initials' = initials /\ flows' = flows
  BY <1>4 DEF SortedInv
<1>5. CASE AddLeave
  <2> DEFINE mod == Top.module
             av == Top.av
  <2>1. /\ av \in AVar /\ mod \in AVar
        /\ \A p \in AVar : av \notin Range(initials[p])
    BY <1>5, LeaveFacts
  <2>2. /\ initials' = Join(initials, mod, av, OnInitials(av))
        /\ flows' = Join(flows, mod, av, OnFlows(av))
    BY <1>5 DEF AddLeave
  <2>3. /\ initials \in [AVar -> Seq(AVar)] /\ flows \in [AVar -> Seq(AVar)] /\ m \in Model
        /\ OnInitials(av) \in BOOLEAN /\ OnFlows(av) \in BOOLEAN
    BY DEF IInv, TypeOK, OnInitials, OnFlows
  <2>4. /\ Joined(initials', initials, mod, av, OnInitials(av))
        /\ Joined(flows', flows, mod, av, OnFlows(av))
    BY <2>1, <2>2, <2>3, JoinFacts
  <2>5. \A u \in Before(mod, av) : m.type[u] # "ref" => u \in Range(initials[mod])
    BY <1>5, BeforeListed
  <2>6. \A u \in OfInitials \cup OfFlows : m.type[u] # "ref"
    BY DEF OfInitials, OfFlows, OnInitials, OnFlows
  <2>7. OnFlows(av) => OnInitials(av)
    BY DEF OnInitials, OnFlows
  <2> HIDE DEF mod, av
  <2>8. initials' \in [AVar -> Seq(AVar)] /\ flows' \in [AVar -> Seq(AVar)]
    BY <2>4 DEF Joined
  <2>9. CASE ~ OnInitials(av)
    <3>1. initials' = initials /\ flows' = flows
      BY <2>4, <2>7, <2>9 DEF Joined
    <3> QED BY <1>4, <3>1
  <2>10. CASE OnInitials(av)
    <3>1. Joined(initials', initials, mod, av, TRUE) /\ av \in OfInitials
      BY <2>1, <2>4, <2>10 DEF OfInitials
    <3>2. Sorted(initials', initials', OfInitials)
      BY <2>1, <2>5, <2>6, <2>8, <3>1, SortedAppend DEF SortedInv, OfInitials
    <3>3. CASE OnFlows(av)
      <4>1. Joined(flows', flows, mod, av, TRUE) /\ av \in OfFlows
        BY <2>1, <2>4, <3>3 DEF OfFlows
      <4> QED BY <2>1, <2>5, <2>6, <2>8, <3>1, <3>2, <4>1, SortedAppend DEF SortedInv, OfFlows
    <3>4. CASE ~ OnFlows(av)
      <4>1. flows' = flows /\ av \notin OfFlows
        BY <2>4, <3>4 DEF Joined, OfFlows
      <4>2. \A p \in AVar : Range(initials'[p]) \cap OfFlows = Range(initials[p]) \cap OfFlows
        BY <3>1, <4>1 DEF Joined
      <4> QED BY <3>2, <4>1, <4>2 DEF SortedInv, Sorted
    <3> QED BY <3>3, <3>4
  <2> QED BY <2>9, <2>10
<1> QED BY <1>4, <1>5 DEF Next, SortEnter, SortSkip, SortModule, SortVar, SortLeave, AddCircular,
           AddEnter, AddDep, vars, lists

-----------------------------------------------------------------------------
(* FlattenSeq.  F is what the first n of the sequences s amount to.        *)

\* all that comes before s[k][a] in them is in F before i
Earlier(F, i, s, k, a) ==
  \A l \in 1 .. k : \A b \in DOMAIN s[l] : l < k \/ b < a => \E j \in 1 .. i - 1 : F[j] = s[l][b]

Distinct(s, n) ==
  /\ \A k \in 1 .. n : IsInjective(s[k])
  /\ \A k, l \in 1 .. n : k # l => Range(s[k]) \cap Range(s[l]) = {}

Flat(F, s, n) ==
  /\ F \in Seq(AVar)
  /\ \A i \in DOMAIN F : \E k \in 1 .. n : \E a \in DOMAIN s[k] : F[i] = s[k][a] /\ Earlier(F, i, s, k, a)
  /\ \A k \in 1 .. n : \A a \in DOMAIN s[k] : s[k][a] \in Range(F)
  /\ Distinct(s, n) => IsInjective(F)

LEMMA Concat ==
  ASSUME NEW F \in Seq(AVar), NEW G \in Seq(AVar)
  PROVE  /\ F \o G \in Seq(AVar)
         /\ Len(F) \in Nat /\ Len(G) \in Nat
         /\ DOMAIN (F \o G) = 1 .. Len(F) + Len(G)
         /\ DOMAIN F = 1 .. Len(F) /\ DOMAIN G = 1 .. Len(G)
         /\ \A i \in 1 .. Len(F) : (F \o G)[i] = F[i]
         /\ \A i \in 1 .. Len(G) : (F \o G)[Len(F) + i] = G[i]
  OBVIOUS

LEMMA FlatStep ==
  ASSUME NEW n \in Nat, NEW s, NEW F, Flat(F, s, n), s[n + 1] \in Seq(AVar)
  PROVE  Flat(F \o s[n + 1], s, n + 1)
<1> DEFINE G == s[n + 1]
           H == F \o G
           f == Len(F)
           g == Len(G)
<1>1. /\ F \in Seq(AVar)
      /\ \A i \in DOMAIN F : \E k \in 1 .. n : \E a \in DOMAIN s[k] : F[i] = s[k][a] /\ Earlier(F, i, s, k, a)
      /\ \A k \in 1 .. n : \A a \in DOMAIN s[k] : s[k][a] \in Range(F)
      /\ Distinct(s, n) => IsInjective(F)
  BY DEF Flat
<1>2. /\ H \in Seq(AVar) /\ f \in Nat /\ g \in Nat
      /\ DOMAIN H = 1 .. f + g /\ DOMAIN F = 1 .. f /\ DOMAIN G = 1 .. g
      /\ \A i \in 1 .. f : H[i] = F[i]
      /\ \A i \in 1 .. g : H[f + i] = G[i]
  BY <1>1, Concat
<1>3. s[n + 1] = G
  OBVIOUS
<1> HIDE DEF G, H, f, g
<1>4. \A k \in 1 .. n + 1 : k \in 1 .. n \/ k = n + 1
  OBVIOUS
<1>5. \A i \in 1 .. f + g : i \in 1 .. f \/ (i - f \in 1 .. g /\ i = f + (i - f))
  BY <1>2
<1>6. \A k \in 1 .. n : k \in 1 .. n + 1
  OBVIOUS
<1>7. \A x \in Range(F) : \E j \in 1 .. f : H[j] = x /\ F[j] = x
  BY <1>2 DEF Range
<1>8. ASSUME NEW i \in 1 .. f + g
      PROVE  \E k \in 1 .. n + 1 : \E a \in DOMAIN s[k] : H[i] = s[k][a] /\ Earlier(H, i, s, k, a)
  <2>1. CASE i \in 1 .. f
    <3>1. PICK k \in 1 .. n : \E a \in DOMAIN s[k] : F[i] = s[k][a] /\ Earlier(F, i, s, k, a)
      BY <1>1, <1>2, <2>1
    <3>2. PICK a \in DOMAIN s[k] : F[i] = s[k][a] /\ Earlier(F, i, s, k, a)
      BY <3>1
    <3>3. \A j \in 1 .. i - 1 : H[j] = F[j]
      <4>1. \A j \in 1 .. i - 1 : j \in 1 .. f
        BY <1>2, <2>1
      <4> QED BY <1>2, <4>1
    <3>4. Earlier(H, i, s, k, a)
      BY <3>2, <3>3 DEF Earlier
    <3> QED BY <1>2, <1>6, <2>1, <3>2, <3>4
  <2>2. CASE i - f \in 1 .. g /\ i = f + (i - f)
    <3> DEFINE a == i - f
    <3>1. a \in DOMAIN G /\ H[i] = G[a] /\ i = f + a /\ a \in 1 .. g
      BY <1>2, <2>2
    <3> HIDE DEF a
    <3>2. ASSUME NEW l \in 1 .. n + 1, NEW b \in DOMAIN s[l], l < n + 1 \/ b < a
          PROVE  \E j \in 1 .. i - 1 : H[j] = s[l][b]
      <4>1. CASE l \in 1 .. n
        <5>1. PICK j \in 1 .. f : H[j] = s[l][b]
          BY <1>1, <1>7, <4>1
        <5>2. j \in 1 .. i - 1
          BY <1>2, <3>1
        <5> QED BY <5>1, <5>2
      <4>2. CASE l = n + 1
        <5>1. b \in 1 .. g /\ b < a
          BY <1>2, <1>3, <3>2, <4>2
        <5>2. f + b \in 1 .. i - 1
          BY <1>2, <3>1, <5>1
        <5>3. H[f + b] = s[l][b]
          BY <1>2, <1>3, <4>2, <5>1
        <5> QED BY <5>2, <5>3
      <4> QED BY <1>4, <4>1, <4>2
    <3>3. Earlier(H, i, s, n + 1, a)
      BY <3>2 DEF Earlier
    <3>4. n + 1 \in 1 .. n + 1
      OBVIOUS
    <3> QED BY <1>3, <3>1, <3>3, <3>4
  <2> QED BY <1>5, <2>1, <2>2
<1>9. ASSUME NEW k \in 1 .. n + 1, NEW a \in DOMAIN s[k] PROVE s[k][a] \in Range(H)
  <2>1. CASE k \in 1 .. n
    <3>1. PICK j \in 1 .. f : H[j] = s[k][a]
      BY <1>1, <1>7, <2>1
    <3>2. j \in 1 .. f + g
      BY <1>2
    <3> QED BY <1>2, <3>1, <3>2 DEF Range
  <2>2. CASE k = n + 1
    <3>1. a \in 1 .. g /\ H[f + a] = s[k][a]
      BY <1>2, <1>3, <2>2
    <3>2. f + a \in 1 .. f + g
      BY <1>2, <3>1
    <3> QED BY <1>2, <3>1, <3>2 DEF Range
  <2> QED BY <1>4, <2>1, <2>2
<1>10. ASSUME Distinct(s, n + 1) PROVE IsInjective(H)
  <2>1. Distinct(s, n) /\ IsInjective(G)
    <3>1. n + 1 \in 1 .. n + 1
      OBVIOUS
    <3> QED BY <1>3, <1>6, <1>10, <3>1 DEF Distinct
  <2>2. IsInjective(F)
    BY <1>1, <2>1
  <2>3. \A x \in Range(F) : x \notin Range(G)
    <3> SUFFICES ASSUME NEW x \in Range(F), x \in Range(G) PROVE FALSE
      OBVIOUS
    <3>1. PICK i \in DOMAIN F : F[i] = x
      BY DEF Range
    <3>2. PICK k \in 1 .. n : \E a \in DOMAIN s[k] : F[i] = s[k][a]
      BY <1>1, <3>1
    <3>3. x \in Range(s[k])
      BY <3>1, <3>2 DEF Range
    <3>4. k \in 1 .. n + 1 /\ n + 1 \in 1 .. n + 1 /\ k # n + 1
      OBVIOUS
    <3> QED BY <1>3, <1>10, <3>3, <3>4 DEF Distinct
  <2>4. ASSUME NEW i \in 1 .. f + g, NEW j \in 1 .. f + g, H[i] = H[j] PROVE i = j
    <3>1. CASE i \in 1 .. f /\ j \in 1 .. f
      BY <1>2, <2>2, <2>4, <3>1 DEF IsInjective
    <3>2. CASE i \in 1 .. f /\ j - f \in 1 .. g /\ j = f + (j - f)
      <4>1. F[i] = G[j - f]
        BY <1>2, <2>4, <3>2
      <4> QED BY <1>2, <2>3, <3>2, <4>1 DEF Range
    <3>3. CASE j \in 1 .. f /\ i - f \in 1 .. g /\ i = f + (i - f)
      <4>1. F[j] = G[i - f]
        BY <1>2, <2>4, <3>3
      <4> QED BY <1>2, <2>3, <3>3, <4>1 DEF Range
    <3>4. CASE i - f \in 1 .. g /\ i = f + (i - f) /\ j - f \in 1 .. g /\ j = f + (j - f)
      <4>1. G[i - f] = G[j - f]
        BY <1>2, <2>4, <3>4
      <4>2. i - f = j - f
        BY <1>2, <2>1, <3>4, <4>1 DEF IsInjective
      <4> QED BY <3>4, <4>2
    <3> QED BY <1>5, <3>1, <3>2, <3>3, <3>4
  <2> QED BY <1>2, <2>4 DEF IsInjective
<1>11. Flat(H, s, n + 1)
  BY <1>2, <1>8, <1>9, <1>10 DEF Flat
<1> QED BY <1>11 DEF H, G

\* the recursive function in FlattenSeq
Flattens(f, s, n) == f = [i \in 1 .. n |-> IF i = 1 THEN s[i] ELSE f[i - 1] \o s[i]]

LEMMA FlattensExists ==
  ASSUME NEW s, NEW n \in Nat
  PROVE  \E f : Flattens(f, s, n)
<1> DEFINE Open == {k \in Nat : ~ \E f : Flattens(f, s, k)}
<1>1. SUFFICES ASSUME Open # {} PROVE FALSE
  OBVIOUS
<1>2. PICK k \in Open : \A y \in Open : k <= y
  <2>1. Open \in SUBSET Nat
    OBVIOUS
  <2> HIDE DEF Open
  <2> QED BY <1>1, <2>1, LeastNat
<1>3. CASE k = 0
  <2> DEFINE f == [i \in 1 .. 0 |-> s]
  <2>1. \A i \in 1 .. 0 : FALSE
    OBVIOUS
  <2>2. Flattens(f, s, 0)
    BY <2>1 DEF Flattens
  <2> QED BY <1>2, <1>3, <2>2
<1>4. CASE k # 0
  <2>1. k - 1 \in Nat /\ k - 1 \notin Open
    BY <1>2, <1>4
  <2>2. PICK g : Flattens(g, s, k - 1)
    BY <2>1
  <2> DEFINE f == [i \in 1 .. k |-> IF i = 1 THEN s[i] ELSE g[i - 1] \o s[i]]
  <2>3. \A i \in 1 .. k - 1 : f[i] = g[i]
    <3>1. \A i \in 1 .. k - 1 : g[i] = IF i = 1 THEN s[i] ELSE g[i - 1] \o s[i]
      BY <2>2 DEF Flattens
    <3>2. \A i \in 1 .. k - 1 : i \in 1 .. k
      BY <1>2
    <3> QED BY <3>1, <3>2
  <2>4. \A i \in 1 .. k : i # 1 => i - 1 \in 1 .. k - 1
    BY <1>2
  <2>5. f = [i \in 1 .. k |-> IF i = 1 THEN s[i] ELSE f[i - 1] \o s[i]]
    <3>1. \A i \in 1 .. k : f[i] = IF i = 1 THEN s[i] ELSE f[i - 1] \o s[i]
      BY <2>3, <2>4
    <3>2. f = [i \in 1 .. k |-> f[i]]
      OBVIOUS
    <3> HIDE DEF f
    <3> QED BY <3>1, <3>2
  <2> HIDE DEF f
  <2>6. Flattens(f, s, k)
    BY <2>5 DEF Flattens
  <2> QED BY <1>2, <2>6
<1> QED BY <1>3, <1>4

LEMMA FlattenIs ==
  ASSUME NEW s \in Seq(Seq(AVar))
  PROVE  Flat(FlattenSeq(s), s, Len(s))
<1>1. Len(s) \in Nat /\ \A k \in 1 .. Len(s) : s[k] \in Seq(AVar)
  OBVIOUS
<1>2. Flat(<< >>, s, 0)
  <2>1. << >> \in Seq(AVar) /\ DOMAIN << >> = {} /\ IsInjective(<< >>) /\ \A k \in 1 .. 0 : FALSE
    BY DEF IsInjective
  <2> QED BY <2>1 DEF Flat
<1>3. CASE Len(s) = 0
  <2>1. s = << >> /\ FlattenSeq(s) = << >>
    BY <1>3 DEF FlattenSeq
  <2> QED BY <1>2, <1>3, <2>1
<1>4. CASE Len(s) # 0
  <2> DEFINE f == CHOOSE f : Flattens(f, s, Len(s))
  <2>1. FlattenSeq(s) = f[Len(s)]
    BY <1>4 DEF FlattenSeq, Flattens
  <2>2. Flattens(f, s, Len(s))
    BY <1>1, FlattensExists
  <2> HIDE DEF f
  <2> DEFINE Bad == {k \in 1 .. Len(s) : ~ Flat(f[k], s, k)}
  <2>3. Bad = {}
    <3>1. SUFFICES ASSUME Bad # {} PROVE FALSE
      OBVIOUS
    <3>2. PICK k \in Bad : \A y \in Bad : k <= y
      <4>1. Bad \in SUBSET Nat
        OBVIOUS
      <4> HIDE DEF Bad
      <4> QED BY <3>1, <4>1, LeastNat
    <3>3. k \in 1 .. Len(s) /\ f[k] = IF k = 1 THEN s[k] ELSE f[k - 1] \o s[k]
      BY <2>2, <3>2 DEF Flattens
    <3>4. CASE k = 1
      <4>1. Flat(<< >> \o s[0 + 1], s, 0 + 1)
        <5>1. 0 \in Nat /\ s[0 + 1] \in Seq(AVar)
          BY <1>1, <3>3, <3>4
        <5> QED BY <1>2, <5>1, FlatStep
      <4>2. << >> \o s[1] = s[1] /\ 0 + 1 = 1
        BY <1>1, <3>3, <3>4
      <4> QED BY <3>2, <3>3, <3>4, <4>1, <4>2
    <3>5. CASE k # 1
      <4> DEFINE n == k - 1
      <4>1. n \in Nat /\ n + 1 = k /\ n \in 1 .. Len(s) /\ n < k
        BY <1>1, <3>3, <3>5
      <4>2. Flat(f[n], s, n)
        <5> HIDE DEF n
        <5>1. n \notin Bad
          BY <3>2, <3>3, <4>1
        <5> QED BY <4>1, <5>1
      <4> HIDE DEF n
      <4>3. s[n + 1] \in Seq(AVar)
        BY <1>1, <3>3, <4>1
      <4>4. Flat(f[n] \o s[n + 1], s, n + 1)
        BY <4>1, <4>2, <4>3, FlatStep
      <4>5. f[k] = f[n] \o s[n + 1]
        BY <3>3, <3>5, <4>1 DEF n
      <4> QED BY <3>2, <4>1, <4>4, <4>5
    <3> QED BY <3>4, <3>5
  <2>4. Len(s) \in 1 .. Len(s)
    BY <1>1, <1>4
  <2> QED BY <2>1, <2>3, <2>4
<1> QED BY <1>3, <1>4

-----------------------------------------------------------------------------
(* The tree of modules, from its leaves up.                                *)

Depth(v) == Cardinality(m.anc[v])

LEMMA DepthFacts ==
  ASSUME m \in Model
  PROVE  /\ Cardinality(AVar) \in Nat
         /\ \A v \in AVar : Depth(v) \in Nat /\ Depth(v) <= Cardinality(AVar)
         /\ \A v, p \in AVar : Inside(v, p) => Depth(v) = Depth(p) + 1
<1>1. Cardinality(AVar) \in Nat
  BY AVarAssumption, FS_CardinalityType
<1>2. ASSUME NEW v \in AVar
      PROVE  IsFiniteSet(m.anc[v]) /\ Depth(v) \in Nat /\ Depth(v) <= Cardinality(AVar)
  <2>1. m.anc[v] \in SUBSET AVar
    BY ModelFacts
  <2> QED BY <2>1, AVarAssumption, FS_Subset, FS_CardinalityType DEF Depth
<1>3. ASSUME NEW v \in AVar, NEW p \in AVar, Inside(v, p) PROVE Depth(v) = Depth(p) + 1
  <2>1. p \notin m.anc[p]
    BY ModelFacts
  <2> QED BY <1>2, <1>3, <2>1, FS_AddElement DEF Depth, Inside
<1> QED BY <1>1, <1>2, <1>3

\* what is handed on from the variables inside a module to the module is true of all
LEMMA FromLeaves ==
  ASSUME m \in Model, NEW T,
         \A q \in AVar : (\A c \in AVar : Inside(c, q) => c \in T) => q \in T
  PROVE  \A q \in AVar : q \in T
<1> DEFINE N == Cardinality(AVar)
           Bad == {q \in AVar : q \notin T}
           Heights == {N - Depth(q) : q \in Bad}
<1>1. /\ N \in Nat
      /\ \A v \in AVar : Depth(v) \in Nat /\ Depth(v) <= N /\ N - Depth(v) \in Nat
  <2>1. N \in Nat /\ \A v \in AVar : Depth(v) \in Nat /\ Depth(v) <= N
    BY DepthFacts
  <2> HIDE DEF N
  <2> QED BY <2>1
<1>2. SUFFICES ASSUME Bad # {} PROVE FALSE
  OBVIOUS
<1> HIDE DEF N
<1>3. PICK h \in Heights : \A y \in Heights : h <= y
  <2>1. Heights \in SUBSET Nat /\ Heights # {}
    BY <1>1, <1>2
  <2> HIDE DEF Heights
  <2> QED BY <2>1, LeastNat
<1>4. PICK q \in Bad : h = N - Depth(q)
  BY <1>3
<1>5. ASSUME NEW c \in AVar, Inside(c, q) PROVE c \in T
  <2>1. Depth(c) = Depth(q) + 1
    BY <1>5, DepthFacts
  <2>2. ASSUME c \notin T PROVE FALSE
    <3>1. N - Depth(c) \in Heights
      BY <2>2
    <3>2. h <= N - Depth(c)
      BY <1>3, <3>1
    <3> QED BY <1>1, <1>4, <2>1, <3>2
  <2> QED BY <2>2
<1> QED BY <1>4, <1>5

-----------------------------------------------------------------------------
(* calc is what its definition says.                                       *)

\* what calc computes for each of a list, when of says it of the modules
Pieces(of, l) == [k \in DOMAIN l |-> Computed(l[k], of[l[k]])]

IsCalc(of, lst) == of = [q \in AVar |-> FlattenSeq(Pieces(of, lst[q]))]

LEMMA PiecesSame ==
  ASSUME NEW f, NEW g, NEW l, \A k \in DOMAIN l : f[l[k]] = g[l[k]]
  PROVE  Pieces(f, l) = Pieces(g, l)
BY DEF Pieces

LEMMA CalcExists ==
  ASSUME m \in Model, NEW lst \in [AVar -> Seq(AVar)], \A p \in AVar : \A v \in Range(lst[p]) : Inside(v, p)
  PROVE  \E of : IsCalc(of, lst)
<1> DEFINE N == Cardinality(AVar)
           Body(f, q) == FlattenSeq(Pieces(f, lst[q]))
           Solves(f, d) == /\ f = [q \in AVar |-> f[q]]
                           /\ \A q \in AVar : Depth(q) >= d => f[q] = Body(f, q)
           Open == {e \in 0 .. N + 1 : ~ \E f : Solves(f, N + 1 - e)}
<1>1. /\ N \in Nat
      /\ \A v \in AVar : Depth(v) \in Nat /\ Depth(v) <= N
      /\ \A v, p \in AVar : Inside(v, p) => Depth(v) = Depth(p) + 1
  BY DepthFacts
<1> HIDE DEF N
<1>2. Open = {}
  <2>1. SUFFICES ASSUME Open # {} PROVE FALSE
    OBVIOUS
  <2>2. PICK e \in Open : \A y \in Open : e <= y
    <3>1. Open \in SUBSET Nat
      BY <1>1
    <3> HIDE DEF Open
    <3> QED BY <2>1, <3>1, LeastNat
  <2>3. e \in 0 .. N + 1 /\ ~ \E f : Solves(f, N + 1 - e)
    BY <2>2
  <2>4. CASE e = 0
    <3> DEFINE f == [q \in AVar |-> << >>]
    <3>1. \A q \in AVar : ~ (Depth(q) >= N + 1 - e)
      BY <1>1, <2>4
    <3>2. f = [q \in AVar |-> f[q]]
      OBVIOUS
    <3> HIDE DEF f, Body
    <3>3. Solves(f, N + 1 - e)
      BY <3>1, <3>2
    <3> QED BY <2>3, <3>3
  <2>5. CASE e # 0
    <3> DEFINE d == N + 1 - e
    <3>1. e - 1 \in 0 .. N + 1 /\ N + 1 - (e - 1) = d + 1 /\ d \in Nat /\ ~ (e <= e - 1)
      BY <1>1, <2>3, <2>5
    <3>2. e - 1 \notin Open
      <4> HIDE DEF Open
      <4> QED BY <2>2, <3>1
    <3>3. PICK g : Solves(g, d + 1)
      BY <3>1, <3>2
    <3> HIDE DEF d
    <3> DEFINE f == [q \in AVar |-> IF Depth(q) = d THEN Body(g, q) ELSE g[q]]
    <3>4. f = [q \in AVar |-> f[q]]
      OBVIOUS
    <3>5. ASSUME NEW q \in AVar, Depth(q) >= d PROVE f[q] = Body(f, q)
      <4>1. ASSUME NEW k \in DOMAIN lst[q] PROVE f[lst[q][k]] = g[lst[q][k]]
        <5>1. lst[q][k] \in AVar /\ Inside(lst[q][k], q)
          BY DEF Range
        <5>2. Depth(lst[q][k]) # d
          BY <1>1, <3>1, <3>5, <5>1
        <5> QED BY <5>1, <5>2
      <4>2. Pieces(f, lst[q]) = Pieces(g, lst[q])
        <5> HIDE DEF f
        <5> QED BY <4>1, PiecesSame
      <4>3. CASE Depth(q) = d
        BY <4>2, <4>3
      <4>4. CASE Depth(q) # d
        <5>1. Depth(q) >= d + 1
          BY <1>1, <3>1, <3>5, <4>4
        <5> QED BY <3>3, <4>2, <4>4, <5>1
      <4> QED BY <4>3, <4>4
    <3> HIDE DEF f, Body
    <3>6. Solves(f, d)
      BY <3>4, <3>5
    <3> QED BY <2>3, <3>6 DEF d
  <2> QED BY <2>4, <2>5
<1>3. PICK f : Solves(f, 0)
  <2>1. N + 1 \in 0 .. N + 1 /\ N + 1 - (N + 1) = 0
    BY <1>1
  <2> QED BY <1>2, <2>1
<1>4. \A q \in AVar : f[q] = Body(f, q)
  BY <1>1, <1>3
<1>5. IsCalc(f, lst)
  BY <1>3, <1>4 DEF IsCalc
<1> QED BY <1>5

LEMMA CalcIs ==
  ASSUME m \in Model, NEW lst \in [AVar -> Seq(AVar)], \A p \in AVar : \A v \in Range(lst[p]) : Inside(v, p)
  PROVE  \E of : IsCalc(of, lst) /\ calc(lst) = of[Root]
<1> DEFINE of == CHOOSE of : IsCalc(of, lst)
<1>1. IsCalc(of, lst)
  BY CalcExists
<1>2. calc(lst) = of[Root]
  BY DEF calc, IsCalc, Pieces
<1> QED BY <1>1, <1>2

-----------------------------------------------------------------------------
(* The order across modules.                                               *)

\* a list of each module has what S has of it, time perhaps excepted
Lists(lst, S) ==
  /\ lst \in [AVar -> Seq(AVar)]
  /\ \A p \in AVar :
       /\ \A v \in Range(lst[p]) : Inside(v, p) /\ v \in S
       /\ \A v \in S \ {Time} : Inside(v, p) => v \in Range(lst[p])
       /\ IsInjective(lst[p])
       /\ \A i \in DOMAIN lst[p] : Preceded(lst[p], S, p, i)

\* S has all modules and no refs
Phase(S) ==
  /\ S \in SUBSET AVar
  /\ \A v \in AVar : m.type[v] = "module" => v \in S
  /\ \A v \in S : m.type[v] # "ref"

\* the variables of S that calc computes, and those of them that are v or inside it
Variables(S) == {v \in S : m.type[v] # "module"} \ {Time}
Part(S, c) == {v \in Variables(S) : Below(v, c)}

LEMMA MoreModelFacts ==
  ASSUME m \in Model
  PROVE  /\ \A v \in AVar : \A a \in m.anc[v] : a \in AVar /\ m.type[a] = "module"
         /\ \A ref \in Range(m.avars[Root]) : m.type[ref] # "ref"
         /\ Root \in AVar /\ Time \in AVar /\ m.type[Time] = "aux"
         /\ \A p \in AVar : \A v \in Range(m.avars[p]) : v \in AVar /\ Inside(v, p)
         /\ \A v \in AVar : \A d \in Range(m.direct_deps[v]) : d \in AVar /\ m.anc[d] = m.anc[v]
         /\ m.src \in [AVar -> AVar]
<1>1. /\ \A v \in AVar : \A a \in m.anc[v] : m.type[a] = "module"
      /\ \A i \in DOMAIN m.avars[Root] : m.type[m.avars[Root][i]] # "ref"
      /\ m.type[Time] = "aux" /\ m.src \in [AVar -> AVar]
  BY DEF Model
<1>2. /\ m.avars \in [AVar -> Seq(AVar)] /\ m.direct_deps \in [AVar -> Seq(AVar)]
      /\ \A p \in AVar : \A i \in DOMAIN m.avars[p] : Inside(m.avars[p][i], p)
      /\ \A v \in AVar : \A i \in DOMAIN m.direct_deps[v] : m.anc[m.direct_deps[v][i]] = m.anc[v]
      /\ Len(m.avars[Root]) >= 1 /\ m.avars[Root][1] = Time
  BY ModelFacts
<1>3. Time \in AVar
  <2>1. m.avars[Root] \in Seq(AVar)
    BY <1>2, AVarAssumption
  <2> QED BY <1>2, <2>1
<1>4. ASSUME NEW v \in AVar, NEW a \in m.anc[v] PROVE a \in AVar /\ m.type[a] = "module"
  <2>1. m.anc[v] \in SUBSET AVar
    BY ModelFacts
  <2> QED BY <1>1, <2>1
<1>5. ASSUME NEW ref \in Range(m.avars[Root]) PROVE m.type[ref] # "ref"
  BY <1>1, <1>5 DEF Range
<1>6. ASSUME NEW p \in AVar, NEW v \in Range(m.avars[p]) PROVE v \in AVar /\ Inside(v, p)
  <2>1. m.avars[p] \in Seq(AVar)
    BY <1>2
  <2>2. PICK i \in DOMAIN m.avars[p] : m.avars[p][i] = v
    BY <1>6 DEF Range
  <2> QED BY <1>2, <2>1, <2>2
<1>7. ASSUME NEW v \in AVar, NEW d \in Range(m.direct_deps[v]) PROVE d \in AVar /\ m.anc[d] = m.anc[v]
  <2>1. m.direct_deps[v] \in Seq(AVar)
    BY <1>2
  <2>2. PICK i \in DOMAIN m.direct_deps[v] : m.direct_deps[v][i] = d
    BY <1>7 DEF Range
  <2> QED BY <1>2, <2>1, <2>2
<1> QED BY <1>1, <1>3, <1>4, <1>5, <1>6, <1>7, AVarAssumption

\* an entry of a list around a variable that one of another entry reads goes before it, or is the same
LEMMA ReadsFrom ==
  ASSUME m \in Model, SourcesFirst,
         NEW q \in AVar, NEW c \in AVar, NEW g \in AVar, Inside(c, q), Inside(g, q),
         NEW v \in AVar, Below(v, c), NEW d \in Range(m.direct_deps[v]),
         slot(d) # Time, m.type[slot(d)] # "module", Below(slot(d), g)
  PROVE  g \in Before(q, c) \/ (g = c /\ c \in m.anc[v])
<1> DEFINE w == slot(d)
<1>1. /\ d \in AVar /\ m.anc[d] = m.anc[v] /\ w \in AVar
      /\ \A x \in AVar : x \notin m.anc[x] /\ Nested(x)
  BY ModelFacts, MoreModelFacts, Tree DEF slot
<1> HIDE DEF w
<1>2. Below(w, g) /\ w # Time /\ m.type[w] # "module"
  BY DEF w
<1>3. CASE m.type[d] # "ref"
  <2>1. w = d
    BY <1>3 DEF w, slot
  <2>2. CASE c = v
    <3>1. Inside(d, q) /\ Below(d, d)
      BY <1>1, <2>2 DEF Inside, Below
    <3>2. g = d
      BY <1>1, <1>2, <2>1, <3>1, Siblings
    <3> QED BY <2>2, <3>2 DEF Before
  <2>3. CASE c \in m.anc[v]
    <3>1. Below(d, c)
      BY <1>1, <2>3 DEF Below
    <3> QED BY <1>1, <1>2, <2>1, <2>3, <3>1, Siblings
  <2> QED BY <2>2, <2>3 DEF Below
<1>4. CASE m.type[d] = "ref"
  <2>1. w = m.src[d]
    BY <1>4 DEF w, slot
  <2>2. PICK r \in AVar : d \in Range(m.avars[r]) /\ Inside(d, r)
    <3>1. d # Root
      BY <1>4, ModelFacts
    <3> QED BY <1>1, <3>1, ModelFacts, MoreModelFacts
  <2>3. r # Root
    BY <1>4, <2>2, MoreModelFacts
  <2>4. PICK p \in AVar : r \in Range(m.avars[p])
    BY <2>3, ModelFacts
  <2>5. PICK k \in DOMAIN m.avars[p] : m.avars[p][k] = r
    BY <2>4 DEF Range
  <2>6. PICK j \in 1 .. k - 1 : m.avars[p][j] \in m.anc[m.src[d]] \cup {m.src[d]}
    BY <1>4, <2>2, <2>5 DEF SourcesFirst
  <2> DEFINE e == m.avars[p][j]
  <2>7. m.avars[p] \in Seq(AVar) /\ IsInjective(m.avars[p])
    BY ModelFacts
  <2>8. j \in DOMAIN m.avars[p] /\ j # k
    BY <2>6, <2>7
  <2>9. e \in AVar /\ Inside(e, p) /\ Inside(r, p) /\ e # r /\ Below(w, e)
    BY <2>1, <2>4, <2>5, <2>6, <2>7, <2>8, MoreModelFacts DEF IsInjective, Below, Range
  <2>10. CASE c = v
    <3>1. Inside(v, q) /\ Inside(v, r)
      BY <1>1, <2>2, <2>10 DEF Inside
    <3>2. r = q
      BY <3>1, OneParent
    <3>3. Below(w, r)
      <4>1. q \in m.anc[g]
        BY DEF Inside
      <4>2. q \in m.anc[w]
        BY <1>1, <1>2, <4>1 DEF Below, Nested
      <4> QED BY <3>2, <4>2 DEF Below
    <3> QED
      <4> HIDE DEF e
      <4> QED BY <1>1, <2>9, <3>3, Siblings
  <2>11. CASE c = r /\ c \in m.anc[v]
    <3>1. p = q
      BY <2>9, <2>11, OneParent
    <3>2. e = g
      <4> HIDE DEF e
      <4> QED BY <1>1, <1>2, <2>9, <3>1, Siblings
    <3>3. m.type[c] = "module" /\ ~ Named(c)
      BY <2>11, MoreModelFacts DEF SourcesFirst
    <3>4. j >= FirstIndex(q)
      <4>1. ASSUME q = Root, j = 1 PROVE FALSE
        <5>1. e = Time
          BY <3>1, <4>1, ModelFacts
        <5> QED BY <1>1, <1>2, <2>9, <5>1, MoreModelFacts DEF Below
      <4>2. j \in Nat /\ j >= 1
        BY <2>6
      <4> QED BY <4>1, <4>2 DEF FirstIndex
    <3>5. j \in FirstIndex(q) .. k - 1
      <4>1. k \in Int /\ FirstIndex(q) \in Int
        BY <2>7 DEF FirstIndex
      <4> QED BY <2>6, <3>4, <4>1
    <3> QED BY <2>5, <2>11, <3>1, <3>2, <3>3, <3>5 DEF Before
  <2>12. CASE c # r /\ c \in m.anc[v]
    <3>1. c \in m.anc[r]
      BY <1>1, <2>2, <2>12 DEF Inside
    <3>2. c \in m.anc[e]
      BY <2>9, <3>1 DEF Inside
    <3>3. Below(w, c)
      <4> HIDE DEF e
      <4> QED BY <1>1, <2>9, <3>2 DEF Below, Nested
    <3> QED BY <1>1, <1>2, <2>12, <3>3, Siblings
  <2> QED BY <2>10, <2>11, <2>12 DEF Below
<1> QED BY <1>3, <1>4

LEMMA PieceIs ==
  ASSUME m \in Model, NEW S, Phase(S), NEW c \in S, NEW of,
         m.type[c] = "module" =>
           of[c] \in Seq(AVar) /\ IsInjective(of[c]) /\ Range(of[c]) = {v \in Variables(S) : c \in m.anc[v]}
  PROVE  /\ Computed(c, of[c]) \in Seq(AVar)
         /\ IsInjective(Computed(c, of[c]))
         /\ Range(Computed(c, of[c])) = Part(S, c)
<1>1. \A v \in AVar : \A a \in m.anc[v] : m.type[a] = "module"
  BY MoreModelFacts
<1>2. c \in AVar /\ \A v \in Variables(S) : v \in AVar /\ m.type[v] # "module" /\ v # Time
  BY DEF Phase, Variables
<1>3. CASE m.type[c] = "module"
  <2>1. Part(S, c) = {v \in Variables(S) : c \in m.anc[v]}
    BY <1>2, <1>3 DEF Part, Below
  <2> QED BY <1>3, <2>1 DEF Computed
<1>4. CASE m.type[c] # "module" /\ c = Time
  <2>1. Part(S, c) = {}
    BY <1>1, <1>2, <1>4 DEF Part, Below
  <2>2. << >> \in Seq(AVar) /\ IsInjective(<< >>) /\ Range(<< >>) = {}
    BY DEF IsInjective, Range
  <2> QED BY <1>4, <2>1, <2>2 DEF Computed
<1>5. CASE m.type[c] # "module" /\ c # Time
  <2>1. Part(S, c) = {c}
    BY <1>1, <1>2, <1>5 DEF Part, Below, Variables
  <2>2. <<c>> \in Seq(AVar) /\ IsInjective(<<c>>) /\ Range(<<c>>) = {c}
    BY <1>2 DEF IsInjective, Range
  <2> QED BY <1>5, <2>1, <2>2 DEF Computed
<1> QED BY <1>3, <1>4, <1>5

\* what calc does for q and all below it
Computes(order, S, q) ==
  /\ order \in Seq(AVar)
  /\ IsInjective(order)
  /\ Range(order) = {v \in Variables(S) : q \in m.anc[v]}
  /\ ReadsAfterWrites(order)

\* what is inside q is inside one of its list
LEMMA PartsAre ==
  ASSUME m \in Model, NEW S, Phase(S), NEW lst, Lists(lst, S), NEW q \in AVar, NEW v \in Variables(S)
  PROVE  q \in m.anc[v] <=> \E c \in Range(lst[q]) : v \in Part(S, c)
<1>1. v \in AVar /\ v \in S /\ m.type[v] # "module" /\ v # Time
  BY DEF Phase, Variables
<1>2. ASSUME NEW c \in Range(lst[q]), v \in Part(S, c) PROVE q \in m.anc[v]
  <2>1. c \in S /\ c \in AVar /\ Inside(c, q) /\ Below(v, c)
    BY <1>2 DEF Lists, Phase, Part
  <2>2. q \in m.anc[c] /\ Nested(v)
    BY <1>1, <2>1, Tree DEF Inside
  <2> QED BY <2>1, <2>2 DEF Below, Nested
<1>3. ASSUME q \in m.anc[v] PROVE \E c \in Range(lst[q]) : v \in Part(S, c)
  <2>1. PICK c \in Range(m.avars[q]) : Below(v, c)
    BY <1>1, <1>3, Tree DEF Nested
  <2>2. c \in AVar /\ Inside(c, q)
    BY MoreModelFacts
  <2>3. c \in S /\ c # Time
    <3>1. CASE c = v
      BY <1>1, <3>1
    <3>2. CASE c \in m.anc[v]
      <4>1. m.type[c] = "module" /\ m.type[Time] = "aux"
        BY <1>1, <3>2, MoreModelFacts
      <4> QED BY <2>2, <4>1 DEF Phase
    <3> QED BY <2>1, <3>1, <3>2 DEF Below
  <2>4. c \in Range(lst[q])
    BY <2>2, <2>3 DEF Lists
  <2> QED BY <2>1, <2>4 DEF Part
<1> QED BY <1>2, <1>3

LEMMA CalcStep ==
  ASSUME m \in Model, SourcesFirst, NEW S, Phase(S), NEW lst, Lists(lst, S), NEW of, IsCalc(of, lst),
         NEW q \in AVar, \A c \in AVar : Inside(c, q) => Computes(of[c], S, c)
  PROVE  Computes(of[q], S, q)
<1> DEFINE l == lst[q]
           s == Pieces(of, l)
           F == of[q]
<1>1. l \in Seq(AVar) /\ Len(l) \in Nat /\ DOMAIN l = 1 .. Len(l) /\ IsInjective(l)
  BY DEF Lists
<1>2. \A k \in DOMAIN l : /\ l[k] \in Range(l) /\ l[k] \in S /\ l[k] \in AVar /\ Inside(l[k], q)
                          /\ Preceded(l, S, q, k)
  BY DEF Lists, Phase, Range
<1>3. F = FlattenSeq(s)
  BY DEF IsCalc
<1>4. DOMAIN s = DOMAIN l /\ \A k \in DOMAIN l : s[k] = Computed(l[k], of[l[k]])
  BY DEF Pieces
<1> HIDE DEF l, s, F
<1>5. ASSUME NEW k \in DOMAIN l
      PROVE  s[k] \in Seq(AVar) /\ IsInjective(s[k]) /\ Range(s[k]) = Part(S, l[k])
  <2>1. Computes(of[l[k]], S, l[k]) /\ l[k] \in S
    BY <1>2
  <2> QED BY <1>4, <2>1, PieceIs DEF Computes
<1>6. s \in Seq(Seq(AVar)) /\ Len(s) = Len(l)
  <2>1. s = [k \in 1 .. Len(l) |-> s[k]]
    BY <1>1 DEF s, Pieces
  <2>2. \A k \in 1 .. Len(l) : s[k] \in Seq(AVar)
    BY <1>1, <1>5
  <2>3. s \in [1 .. Len(l) -> Seq(AVar)]
    BY <2>1, <2>2
  <2> QED BY <1>1, <2>3
<1>7. Flat(F, s, Len(l))
  BY <1>3, <1>6, FlattenIs
<1>8. Distinct(s, Len(l))
  <2>1. ASSUME NEW j \in DOMAIN l, NEW k \in DOMAIN l, j # k PROVE Range(s[j]) \cap Range(s[k]) = {}
    <3> SUFFICES ASSUME NEW v \in Part(S, l[j]), v \in Part(S, l[k]) PROVE FALSE
      BY <1>5
    <3>1. v \in AVar /\ Below(v, l[j]) /\ Below(v, l[k])
      BY DEF Part, Variables, Phase
    <3>2. l[j] = l[k]
      BY <1>2, <3>1, Siblings
    <3> QED BY <1>1, <2>1, <3>2 DEF IsInjective
  <2> QED BY <1>1, <1>5, <2>1 DEF Distinct
<1>9. F \in Seq(AVar) /\ IsInjective(F)
  BY <1>7, <1>8 DEF Flat
<1>10. ASSUME NEW i \in DOMAIN F
       PROVE  \E k \in DOMAIN l : \E a \in DOMAIN s[k] : F[i] = s[k][a] /\ Earlier(F, i, s, k, a)
  BY <1>1, <1>7 DEF Flat
<1>11. Range(F) = {v \in Variables(S) : q \in m.anc[v]}
  <2>1. ASSUME NEW v \in Range(F) PROVE \E c \in Range(l) : v \in Part(S, c)
    <3>1. PICK i \in DOMAIN F : F[i] = v
      BY DEF Range
    <3>2. PICK k \in DOMAIN l : \E a \in DOMAIN s[k] : F[i] = s[k][a]
      BY <1>10
    <3>3. v \in Range(s[k])
      BY <3>1, <3>2 DEF Range
    <3> QED BY <1>2, <1>5, <3>3
  <2>2. ASSUME NEW c \in Range(l), NEW v \in Part(S, c) PROVE v \in Range(F)
    <3>1. PICK k \in DOMAIN l : l[k] = c
      BY DEF Range
    <3>2. v \in Range(s[k])
      BY <1>5, <3>1
    <3>3. PICK a \in DOMAIN s[k] : s[k][a] = v
      BY <3>2 DEF Range
    <3> QED BY <1>1, <1>7, <3>3 DEF Flat
  <2>3. \A v \in Variables(S) : q \in m.anc[v] <=> \E c \in Range(l) : v \in Part(S, c)
    BY PartsAre DEF l
  <2>4. \A c : \A v \in Part(S, c) : v \in Variables(S)
    BY DEF Part
  <2> QED BY <2>1, <2>2, <2>3, <2>4
<1>12. ASSUME NEW i \in DOMAIN F, NEW d \in Range(m.direct_deps[F[i]]), slot(d) \in Range(F)
       PROVE  \E j \in 1 .. i - 1 : F[j] = slot(d)
  <2> DEFINE w == slot(d)
  <2>1. PICK k \in DOMAIN l : \E a \in DOMAIN s[k] : F[i] = s[k][a] /\ Earlier(F, i, s, k, a)
    BY <1>10
  <2>2. PICK a \in DOMAIN s[k] : F[i] = s[k][a] /\ Earlier(F, i, s, k, a)
    BY <2>1
  <2>3. k \in 1 .. Len(l) /\ k \in Int
    BY <1>1
  <2>4. w \in Variables(S) /\ q \in m.anc[w]
    BY <1>11, <1>12
  <2>5. PICK n \in DOMAIN l : w \in Part(S, l[n])
    <3>1. PICK g \in Range(l) : w \in Part(S, g)
      BY <2>4, PartsAre DEF l
    <3> QED BY <3>1 DEF Range
  <2>6. F[i] \in Part(S, l[k])
    BY <1>5, <2>2 DEF Range
  <2>7. F[i] \in AVar /\ Below(F[i], l[k]) /\ Below(w, l[n]) /\ w # Time /\ m.type[w] # "module"
    BY <2>5, <2>6 DEF Part, Variables, Phase
  <2>8. l[n] \in Before(q, l[k]) \/ (l[n] = l[k] /\ l[k] \in m.anc[F[i]])
    BY <1>2, <2>7, ReadsFrom
  <2>9. CASE l[n] \in Before(q, l[k])
    <3>1. PICK j \in 1 .. k - 1 : l[j] = l[n]
      BY <1>2, <2>9 DEF Preceded
    <3>2. j \in DOMAIN l /\ j \in 1 .. k /\ j < k
      BY <1>1, <2>3
    <3>3. w \in Range(s[j])
      BY <1>5, <2>5, <3>1, <3>2
    <3>4. PICK b \in DOMAIN s[j] : s[j][b] = w
      BY <3>3 DEF Range
    <3> QED BY <2>2, <3>2, <3>4 DEF Earlier
  <2>10. CASE l[n] = l[k] /\ l[k] \in m.anc[F[i]]
    <3>1. m.type[l[k]] = "module"
      BY <2>7, <2>10, MoreModelFacts
    <3>2. s[k] = of[l[k]] /\ ReadsAfterWrites(s[k])
      BY <1>2, <1>4, <3>1 DEF Computed, Computes
    <3>3. w \in Range(s[k])
      BY <1>5, <2>5, <2>10
    <3>4. PICK b \in 1 .. a - 1 : s[k][b] = w
      BY <2>2, <3>2, <3>3 DEF ReadsAfterWrites
    <3>5. b \in DOMAIN s[k] /\ b < a
      <4>1. s[k] \in Seq(AVar)
        BY <1>5
      <4>2. Len(s[k]) \in Nat /\ a \in 1 .. Len(s[k]) /\ DOMAIN s[k] = 1 .. Len(s[k])
        BY <4>1
      <4> QED BY <3>4, <4>2
    <3>6. k \in 1 .. k
      BY <2>3
    <3> QED BY <2>2, <3>4, <3>5, <3>6 DEF Earlier
  <2> QED BY <2>8, <2>9, <2>10
<1>13. ReadsAfterWrites(F)
  BY <1>12 DEF ReadsAfterWrites
<1> QED BY <1>9, <1>11, <1>13 DEF Computes, F

LEMMA CalcOrder ==
  ASSUME m \in Model, SourcesFirst, NEW S, Phase(S), NEW lst, Lists(lst, S)
  PROVE  EachOnce(calc(lst), S) /\ ReadsAfterWrites(calc(lst))
<1>1. PICK of : IsCalc(of, lst) /\ calc(lst) = of[Root]
  BY CalcIs DEF Lists
<1> DEFINE T == {q \in AVar : Computes(of[q], S, q)}
<1>2. \A q \in AVar : (\A c \in AVar : Inside(c, q) => c \in T) => q \in T
  BY <1>1, CalcStep
<1>3. \A q \in AVar : q \in T
  <2> HIDE DEF T
  <2> QED BY <1>2, FromLeaves
<1>4. Computes(of[Root], S, Root)
  BY <1>3, AVarAssumption
<1>5. \A v \in Variables(S) : Root \in m.anc[v]
  <2> SUFFICES ASSUME NEW v \in Variables(S) PROVE Root \in m.anc[v]
    OBVIOUS
  <2>1. v \in AVar /\ v # Root
    BY ModelFacts DEF Variables, Phase
  <2> QED BY <2>1, Tree DEF Nested
<1>6. Range(of[Root]) = Variables(S)
  BY <1>4, <1>5 DEF Computes
<1> QED BY <1>1, <1>4, <1>6 DEF Computes, EachOnce, Variables

LEMMA ListsOfSearch ==
  ASSUME IInv, SortedInv, ret = "ok", SourcesFirst
  PROVE  /\ Phase(OfInitials) /\ Lists(initials, OfInitials)
         /\ Phase(OfFlows) /\ Lists(flows, OfFlows)
<1>1. m \in Model /\ AllComplete(initials, Root) /\ ListsOK(initials, visited)
  BY DEF IInv, TypeOK, Result
<1>2. Phase(OfInitials) /\ Phase(OfFlows)
  BY DEF Phase, OfInitials, OfFlows, OnInitials, OnFlows
<1>3. ASSUME NEW p \in AVar, NEW v \in AVar \ {Time}, Inside(v, p), m.type[v] # "ref"
      PROVE  v \in Range(initials[p])
  <2>1. p \in m.anc[v]
    BY <1>3 DEF Inside
  <2>2. m.type[p] = "module" /\ ~ Named(p)
    BY <1>1, <2>1, MoreModelFacts DEF SourcesFirst
  <2>3. Below(p, Root)
    BY <1>1, Tree DEF Nested, Below
  <2>4. Complete(initials, p)
    BY <1>1, <2>2, <2>3 DEF AllComplete
  <2>5. v \in Range(m.avars[p])
    <3>1. v # Root
      BY <1>1, <2>1, ModelFacts
    <3>2. PICK r \in AVar : v \in Range(m.avars[r])
      BY <1>1, <3>1, ModelFacts
    <3>3. r = p
      BY <1>1, <1>3, <3>2, MoreModelFacts, OneParent
    <3> QED BY <3>2, <3>3
  <2> QED BY <1>3, <2>4, <2>5 DEF Complete, Listed
<1>4. \A p \in AVar : \A v \in Range(initials[p]) : Inside(v, p)
  BY <1>1 DEF ListsOK
<1>5. ASSUME NEW lst, NEW S, Phase(S), Sorted(lst, initials, S) PROVE Lists(lst, S)
  <2>1. ASSUME NEW p \in AVar, NEW v \in S \ {Time}, Inside(v, p) PROVE v \in Range(lst[p])
    BY <1>3, <1>5, <2>1 DEF Phase, Sorted
  <2> QED BY <1>4, <1>5, <2>1 DEF Lists, Sorted
<1> QED BY <1>2, <1>5 DEF SortedInv

(***************************************************************************)
(* For every compiled model whose file lists each submodule behind what    *)
(* its refs stand for, once module_sort_runlists has succeeded calc        *)
(* computes each variable of every module once in each phase, and none     *)
(* before a slot it reads, through refs or in its own module.              *)
(***************************************************************************)
THEOREM EvaluationOrdered == Spec => []OrderedAcrossModules
<1>1. Init => IInv /\ SortedInv
  BY InitOK, SortedInit
<1>2. IInv /\ SortedInv /\ [Next]_vars => (IInv /\ SortedInv)'
  BY StepOK, SortedStep
<1>3. IInv /\ SortedInv => OrderedAcrossModules
  <2> SUFFICES ASSUME IInv, SortedInv, ret = "ok", SourcesFirst
               PROVE  /\ EachOnce(calc(initials), OfInitials) /\ ReadsAfterWrites(calc(initials))
                      /\ EachOnce(calc(flows), OfFlows) /\ ReadsAfterWrites(calc(flows))
    BY DEF OrderedAcrossModules, OfInitials, OfFlows
  <2>1. m \in Model
    BY DEF IInv, TypeOK
  <2> QED BY <2>1, ListsOfSearch, CalcOrder
<1> QED BY <1>1, <1>2, <1>3, PTL DEF Spec

=============================================================================
