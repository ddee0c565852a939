------------------------------- MODULE Lookup -------------------------------
(***************************************************************************)
(* Graphical functions: a Table is read from a gf element by               *)
(* table_from_node_builder (xml.c) and evaluated by lookup (util.c).       *)
(*                                                                         *)
(* A gf element is [ypts, xpts, xscale]: the fields between the commas of  *)
(* the points, each a double or Junk that strtod does not read to its end, *)
(* and the range <<min, max>>; Absent stands for an element that is not    *)
(* there and Empty for one without text.                                   *)
(***************************************************************************)
EXTENDS Double, Sequences

Junk   == <<"junk">>
Absent == << <<"absent">> >>
Empty  == << <<"empty">> >>
Fault  == <<"fault">>     \* memory outside of the table is read

Table(x, y) == [is |-> "table", x |-> x, y |-> y]
Null     == [is |-> "null", x |-> << >>, y |-> << >>]    \* no table
OverRead == [is |-> "fault", x |-> << >>, y |-> << >>]   \* memory outside of the text is read

\* the fields of a list of points as doubles: strtod of nothing is 0
HasJunk(fields, n) == \E i \in 1 .. n : i <= Len(fields) /\ fields[i] = Junk

\* x spread evenly over the range; a single point divides 0 by 0
Spread(range, n) ==
  [i \in 1 .. n |-> Add(Mul(Div(D(i - 1), D(n - 1)), Sub(range[2], range[1])), range[1])]

\* a table of as many points as ypts has; a list of xpts that is shorter is read past its end
table_from_node_builder(gf) ==
  LET n == Len(gf.ypts)
  IN  IF gf.ypts \in {Absent, Empty} \/ HasJunk(gf.ypts, n) THEN Null
      ELSE IF gf.xpts = Absent
        THEN IF gf.xscale = Absent THEN Null
             ELSE Table(Spread(gf.xscale, n), gf.ypts)
      ELSE IF gf.xpts = Empty THEN OverRead
      ELSE IF HasJunk(gf.xpts, n) THEN Null
      ELSE IF Len(gf.xpts) < n THEN OverRead
      ELSE Table(SubSeq(gf.xpts, 1, n), gf.ypts)

\* the binary search of lookup over low .. high: the first element that is not less
Search(x, index) ==
  LET find[low \in 0 .. Len(x), high \in 0 .. Len(x)] ==
        IF low >= high THEN low
        ELSE LET mid == low + (high - low) \div 2
             IN  IF Lt(x[mid + 1], index) THEN find[mid + 1, high] ELSE find[low, mid]
  IN  find[0, Len(x)]

\* mutant: the slope taken from the element found to the next
lookupNext(t, index) ==
  LET i == Search(t.x, index) + 1
  IN  IF Lt(index, t.x[1]) THEN t.y[1]
      ELSE IF Lt(t.x[Len(t.x)], index) THEN t.y[Len(t.x)]
      ELSE IF i > Len(t.x) THEN Fault
      ELSE IF Eq(t.x[i], index) THEN t.y[i]
      ELSE IF i = Len(t.x) THEN Fault
      ELSE Add(Mul(Sub(index, t.x[i]),
                   Div(Sub(t.y[i + 1], t.y[i]), Sub(t.x[i + 1], t.x[i]))), t.y[i])

\* the nearest element outside of the table, else on the line between two elements
lookup(t, index) ==
  LET i == Search(t.x, index) + 1
      slope == Div(Sub(t.y[i], t.y[i - 1]), Sub(t.x[i], t.x[i - 1]))
  IN  IF Len(t.x) = 0 THEN D(0)
      ELSE IF Lt(index, t.x[1]) THEN t.y[1]
      ELSE IF Lt(t.x[Len(t.x)], index) THEN t.y[Len(t.x)]
      ELSE IF i > Len(t.x) THEN Fault
      ELSE IF Eq(t.x[i], index) THEN t.y[i]
      ELSE IF i = 1 THEN Fault
      ELSE Add(Mul(Sub(index, t.x[i - 1]), slope), t.y[i - 1])

-----------------------------------------------------------------------------
Rising(x) == \A i, j \in DOMAIN x : i <= j => Leq(x[i], x[j])     \* no NaN, either

\* v lies where the polygon of t has index, and at the ends beyond the table
OnPolygon(t, index, v) ==
  LET n == Len(t.x)
  IN  \/ Leq(index, t.x[1]) /\ v = t.y[1]
      \/ Leq(t.x[n], index) /\ v = t.y[n]
      \/ \E i \in 1 .. n - 1 :
           /\ Leq(t.x[i], index) /\ Leq(index, t.x[i + 1])
           /\ Eq(Mul(Sub(v, t.y[i]), Sub(t.x[i + 1], t.x[i])),
                 Mul(Sub(index, t.x[i]), Sub(t.y[i + 1], t.y[i])))

=============================================================================
