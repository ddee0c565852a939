------------------------------- MODULE Svisit -------------------------------
(***************************************************************************)
(* The values of equations (sim.c): svisit over the trees of the parser    *)
(* and the built in functions rt_pulse, rt_min and rt_max.  The identifier *)
(* of the equations and the name of their calls stand for what             *)
(* avar_walker_start found for them: a variable or Unresolved, a function  *)
(* or NULL.                                                                *)
(***************************************************************************)
EXTENDS Parser, Double

CONSTANT Bindings     \* the records [x, fn, time, dt] equations are evaluated with

VARIABLES
  bound,     \* the binding of the equation, once it is evaluated
  value      \* what svisit returns for the equation, or NotEvaluated

Unresolved == <<"unresolved">>
NoFn == "NULL"                      \* a function that is not in RT_FNS
Fault == <<"fault">>                \* a null pointer followed, or args written past its end
NotEvaluated == <<"not evaluated">>
Unbound == [x |-> Unresolved, fn |-> NoFn, time |-> D(0), dt |-> D(1)]

ARGS == 6

\* mutant: the pulse that is over is looked for again
rt_pulseOnce(dt, time, a) ==
  IF Lt(time, a[2]) \/ ~ Lt(time, Add(a[2], dt)) THEN D(0) ELSE Div(a[1], dt)

\* rt_pulse; args are at least two, those that are missing 0
rt_pulse(dt, time, a) ==
  LET interval == IF Len(a) > 2 THEN a[3] ELSE D(0)
      from[next \in Seq(Int)] ==
        IF Lt(time, next) THEN D(0)
        ELSE IF Lt(time, Add(next, dt)) THEN Div(a[1], dt)
        ELSE IF Leq(interval, D(0)) THEN D(0)
        ELSE from[Add(next, interval)]
  IN  from[a[2]]

rt_min(a) ==
  IF Len(a) # 2 THEN NaN ELSE IF Lt(a[1], a[2]) THEN a[1] ELSE a[2]
rt_max(a) ==
  IF Len(a) # 2 THEN NaN ELSE IF Lt(a[2], a[1]) THEN a[1] ELSE a[2]

\* the arguments as rt_pulse finds them in its array
Padded(a) == [i \in 1 .. (IF Len(a) < 2 THEN 2 ELSE Len(a)) |->
                   IF i <= Len(a) THEN a[i] ELSE D(0)]

Apply(b, a) ==
  CASE b.fn = "pulse" -> rt_pulse(b.dt, b.time, Padded(a))
    [] b.fn = "min"   -> rt_min(a)
    [] b.fn = "max"   -> rt_max(a)

\* mutant: the switch has no case for ^ either
PowMissing(l, r) == NaN

(***************************************************************************)
(* pow of the C library.  The power for an exponent that is a fraction is  *)
(* seldom one, and is stood for by that of its numerator, which is finite, *)
(* infinite or 0 like it; for a negative base there is none.               *)
(***************************************************************************)
Pow(l, r) ==
  LET size == IF Lt(l, D(0)) THEN Neg(l) ELSE l
      p[k \in Nat] == IF k = 0 THEN D(1) ELSE Mul(IF r[2] = 1 THEN l ELSE size, p[k - 1])
      n == Abs(r[1])
  IN  IF r = D(0) \/ l = D(1) \/ (r[2] = 0 /\ ~ IsNaN(r) /\ size = D(1)) THEN D(1)
      ELSE IF IsNaN(r) \/ IsNaN(l) \/ (r[2] > 1 /\ l[2] # 0 /\ Lt(l, D(0))) THEN NaN
      ELSE IF r[2] = 0 THEN (IF Lt(D(1), size) <=> r[1] > 0 THEN <<1, 0>> ELSE D(0))
      ELSE IF r[1] < 0 THEN Div(D(1), p[n]) ELSE p[n]

Unary(op, l) ==
  CASE op = "+" -> l
    [] op = "-" -> Neg(l)
    [] op = "!" -> Truth(Eq(l, D(0)))

\* the parser knows "%" and a second "!", the switch of svisit does not
Binary(op, l, r) ==
  CASE op = "+"  -> Add(l, r)
    [] op = "-"  -> Sub(l, r)
    [] op = "*"  -> Mul(l, r)
    [] op = "/"  -> Div(l, r)
    [] op = "<"  -> Truth(Lt(l, r))
    [] op = ">"  -> Truth(Lt(r, l))
    [] op = "<=" -> Truth(Leq(l, r))
    [] op = ">=" -> Truth(Leq(r, l))
    [] op = "&"  -> Truth(Eq(l, D(1)) /\ Eq(r, D(1)))
    [] op = "|"  -> Truth(Eq(l, D(1)) \/ Eq(r, D(1)))
    [] op = "="  -> Truth(Eq(l, r))
    [] op = "<>" -> Truth(~ Eq(l, r))
    [] op = "^"  -> Pow(l, r)
    [] OTHER     -> NaN

RECURSIVE svisit(_, _)

\* the value of a node; a condition that is not a number counts as true
svisit(n, b) ==
  LET sub(k) == svisit(n[k], b)
      a == [k \in DOMAIN n[2] |-> svisit(n[2][k], b)]
  IN  CASE n[1] = "null"  -> Fault
        [] n[1] = "num"   -> D(1)
        [] n[1] = "ident" -> IF b.x = Unresolved THEN Fault ELSE b.x
        [] n[1] = "paren" -> sub(2)
        [] n[1] = "if"    ->
             IF sub(2) = Fault THEN Fault
             ELSE IF Eq(sub(2), D(0)) THEN sub(4) ELSE sub(3)
        [] n[1] = "unary" -> IF sub(3) = Fault THEN Fault ELSE Unary(n[2], sub(3))
        [] n[1] = "binary" ->
             IF Fault \in {sub(3), sub(4)} THEN Fault ELSE Binary(Rune1(n[2]), sub(3), sub(4))
        [] n[1] = "call"  ->
             IF Fault \in Range(a) \/ Len(a) > ARGS \/ b.fn = NoFn THEN Fault
             ELSE Apply(b, a)

\* calc evaluates the equation of a variable that was initialised
calc ==
  /\ walked = "ok" /\ value = NotEvaluated
  /\ bound' \in Bindings
  /\ value' = svisit(parsed.tree, bound')
  /\ UNCHANGED vars

-----------------------------------------------------------------------------
(* Properties                                                              *)

Occurs(P(_)) == ~ Everywhere(LAMBDA t : ~ P(t), parsed.tree)
Offends(t) ==
  \/ t[1] = "ident" /\ bound.x = Unresolved
  \/ t[1] = "call" /\ (Len(t[2]) > ARGS \/ bound.fn = NoFn)

(***************************************************************************)
(* Evaluating an equation that was parsed and initialised reads and writes *)
(* nothing it should not, unless it names what avar_init did not find or   *)
(* passes more arguments than svisit has room for; without an if, which    *)
(* may never take that branch, it then does.  A result that is not a       *)
(* number comes from one of the variables, from an operator that svisit    *)
(* does not know, from too few or too many arguments, or from a division.  *)
(***************************************************************************)
ValuesExplained ==
  value # NotEvaluated =>
    /\ value = Fault => Occurs(Offends)
    /\ (Occurs(Offends) /\ ~ Occurs(LAMBDA t : t[1] = "if")) => value = Fault
    /\ value = NaN =>
         \/ bound.x = NaN
         \/ Occurs(LAMBDA t : t[1] = "binary" /\ Rune1(t[2]) \in {"%", "!", "/"})
         \/ Occurs(LAMBDA t : t[1] = "call" /\ Len(t[2]) # 2)

=============================================================================
