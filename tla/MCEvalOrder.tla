---------------------------- MODULE MCEvalOrder -----------------------------
(***************************************************************************)
(* A root module with a stock, an auxiliary or constant and submodules M   *)
(* and P in several orders.  M has a ref to a variable of the root, a      *)
(* flow, an auxiliary and a submodule N of its own, with a ref and one     *)
(* variable; P has a ref to a variable of M and one variable.              *)
(***************************************************************************)
EXTENDS EvalOrder

MCAVar == {"root", "time", "s", "a", "M", "r", "x", "y", "N", "q", "z", "P", "p", "w"}

\* the dependencies considered, as the sequence of a set in a fixed order
DepSeq(S) == SelectSeq(<<"M", "time", "s", "a", "r", "x", "N", "y", "q", "z", "p">>, LAMBDA d : d \in S)

RootOrders == {<<"time", "s", "M", "a", "P">>, <<"time", "a", "M", "P", "s">>,
               <<"time", "P", "M", "a", "s">>}

Compiled(order, sd, ad, xd, yd, zd, wd, const) ==
  [type |-> [v \in MCAVar |-> CASE v \in {"root", "M", "N", "P"} -> "module"
                                [] v = "s" -> "stock"
                                [] v \in {"r", "q", "p"} -> "ref"
                                [] v = "x" -> "flow"
                                [] OTHER -> "aux"],
   is_const |-> const,
   avars |-> [v \in MCAVar |-> CASE v = "root" -> order
                                 [] v = "M" -> <<"r", "x", "N", "y">>
                                 [] v = "N" -> <<"z", "q">>
                                 [] v = "P" -> <<"p", "w">>
                                 [] OTHER -> << >>],
   anc |-> [v \in MCAVar |-> CASE v = "root" -> {}
                               [] v \in {"r", "x", "y", "N"} -> {"root", "M"}
                               [] v \in {"q", "z"} -> {"root", "M", "N"}
                               [] v \in {"p", "w"} -> {"root", "P"}
                               [] OTHER -> {"root"}],
   direct_deps |-> [v \in MCAVar |-> CASE v = "s" -> DepSeq(sd)
                                       [] v = "a" -> DepSeq(ad)
                                       [] v = "x" -> DepSeq(xd)
                                       [] v = "y" -> DepSeq(yd)
                                       [] v = "z" -> DepSeq(zd)
                                       [] v = "w" -> DepSeq(wd)
                                       [] OTHER -> << >>],
   src |-> [v \in MCAVar |-> CASE v = "r" -> "a" [] v = "q" -> "x" [] v = "p" -> "y" [] OTHER -> v]]

MCModels ==
  {Compiled(o, sd, ad, xd, yd, zd, wd, {}) :
     o \in RootOrders, sd \in SUBSET {"s", "a", "M"}, ad \in SUBSET {"time", "s"},
     xd \in SUBSET {"r", "y", "N"}, yd \in SUBSET {"x"}, zd \in SUBSET {"z"},
     wd \in SUBSET {"p"}}
  \cup
  {Compiled(o, sd, {}, xd, {}, {}, wd, {"a", "y", "z"}) :
     o \in RootOrders, sd \in SUBSET {"s", "a", "M"}, xd \in SUBSET {"r", "y"},
     wd \in SUBSET {"p"}}

=============================================================================
