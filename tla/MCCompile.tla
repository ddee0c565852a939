----------------------------- MODULE MCCompile ------------------------------
(***************************************************************************)
(* Projects for Compile: a main model with modules "hare" and "hares", in  *)
(* either order and with connects that lead to the main model, to the      *)
(* other module, to another ghost or nowhere; a module in a module; stocks *)
(* with a flow that is missing; equations that do not parse, that are      *)
(* blank or missing, the last also of a variable called time.              *)
(***************************************************************************)
EXTENDS Compile

Var(n, t) == [name |-> n, type |-> t, src |-> << >>, conns |-> << >>, flows |-> {}, eqn |-> "tree"]
Stock(n, f) == [Var(n, "stock") EXCEPT !.flows = f]
Eqn(n, e) == [Var(n, "aux") EXCEPT !.eqn = e]
Mod(n, c) == [Var(n, "module") EXCEPT !.conns = c]
Conn(n, s) == [Var(n, "ref") EXCEPT !.src = s, !.eqn = "none"]

\* what the area of a module may be connected to
HareConns == {<< >>, <<Conn("area", <<"area">>)>>, <<Conn("area", <<"hares", "area">>)>>,
              <<Conn("area", <<"nowhere">>)>>}
HaresConns == {<< >>, <<Conn("area", <<"area">>)>>, <<Conn("area", <<"hare", "area">>)>>,
               <<Conn("births", <<"hare", "fox", "area">>)>>}
FoxConns == {<< >>, <<Conn("area", <<"area">>)>>, <<Conn("area", <<"births">>)>>}

MainModels ==
  UNION {{<<Var("area", "aux"), Mod("hare", c), Mod("hares", d)>>,
          <<Mod("hares", d), Var("area", "stock"), Mod("hare", c)>>,
          <<Mod("hare", c), Var("area", "aux")>>} : c \in HareConns, d \in HaresConns}

HareModels ==
  {<<Var("births", "aux"), Mod("fox", c), Var("area", "aux")>> : c \in FoxConns}
    \cup {<<Stock("area", {"births"}), Var("births", "aux")>>}

HaresModels == {<<Var("area", "aux")>>, <<Var("births", "aux"), Stock("area", {"births"})>>,
                <<Stock("area", {"deaths"})>>}
    \cup {<<Var("births", "aux"), Eqn("area", e)>> : e \in {"bad", "none", "blank"}}
    \cup {<<Eqn("time", e), Var("area", "aux")>> : e \in {"none", "blank"}}
    \cup {<<[Stock("time", {"deaths"}) EXCEPT !.eqn = "none"], Var("area", "aux")>>}

FoxModel == <<Var("area", "aux"), Var("births", "stock")>>

MCProjects ==
  {[main |-> m, hare |-> h, hares |-> hs, fox |-> FoxModel] :
     m \in MainModels, h \in HareModels, hs \in HaresModels}
  \cup {[main |-> m, hare |-> h] : m \in MainModels, h \in HareModels}

MCStartsWith(b, a) == b = a \/ (b = "hares" /\ a = "hare")

=============================================================================
