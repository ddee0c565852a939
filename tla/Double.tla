------------------------------- MODULE Double -------------------------------
(***************************************************************************)
(* The doubles of the program, without rounding: the fraction <<n, d>> in  *)
(* lowest terms with d > 0, the infinities <<1, 0>> and <<-1, 0>>, and NaN,*)
(* which no comparison holds of.                                           *)
(***************************************************************************)
EXTENDS Integers, Sequences, FiniteSetsExt

NaN == <<0, 0>>
IsNaN(a) == a = NaN

\* the double n / d
Abs(n) == IF n < 0 THEN -n ELSE n

Q(n, d) ==
  LET g == IF n = 0 THEN Abs(d)
           ELSE Max({k \in 1 .. (IF d = 0 THEN Abs(n) ELSE Abs(d)) : n % k = 0 /\ d % k = 0})
      s == IF d < 0 THEN -1 ELSE 1
  IN  IF n = 0 /\ d = 0 THEN NaN ELSE <<s * (n \div g), s * (d \div g)>>

D(n) == <<n, 1>>

Lt(a, b) ==
  IF a[2] = 0 /\ b[2] = 0 THEN a[1] = -1 /\ b[1] = 1 ELSE a[1] * b[2] < b[1] * a[2]
Eq(a, b) == ~ IsNaN(a) /\ a = b
Leq(a, b) == Lt(a, b) \/ Eq(a, b)

Add(a, b) ==
  IF a[2] = 0 /\ b[2] = 0 /\ a[1] = b[1] THEN a
  ELSE Q(a[1] * b[2] + b[1] * a[2], a[2] * b[2])
Neg(a) == <<-a[1], a[2]>>
Sub(a, b) == Add(a, Neg(b))
Mul(a, b) == Q(a[1] * b[1], a[2] * b[2])
Div(a, b) == Q(a[1] * b[2], a[2] * b[1])
Truth(p) == IF p THEN D(1) ELSE D(0)

=============================================================================
