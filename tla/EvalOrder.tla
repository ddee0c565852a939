----------------------------- MODULE EvalOrder ------------------------------
(***************************************************************************)
(* The order in which calc evaluates the variables of a model once its     *)
(* runlists are sorted, across modules: a submodule on a list stands for   *)
(* its own list.  A variable reads what its equation names, a ref through  *)
(* the variable src of the enclosing module (svisit).                      *)
(***************************************************************************)
EXTENDS Runlist

\* what calc computes for av, when it computes sub for a module: time has no node
Computed(av, sub) == IF m.type[av] = "module" THEN sub ELSE IF av = Time THEN << >> ELSE <<av>>

\* mutant: the submodules of a list after its other variables, the last one first
calcModulesLast(lst) ==
  LET of[q \in AVar] ==
        LET rest == SelectSeq(lst[q], LAMBDA av : m.type[av] # "module")
            mods == Reverse(SelectSeq(lst[q], LAMBDA av : m.type[av] = "module"))
        IN  FlattenSeq([k \in DOMAIN rest |-> Computed(rest[k], << >>)]
                         \o [k \in DOMAIN mods |-> of[mods[k]]])
  IN  of[Root]

\* calc over the list of the root, and over those of the submodules; lst is initials or flows
calc(lst) ==
  LET of[q \in AVar] ==
        FlattenSeq([k \in DOMAIN lst[q] |-> Computed(lst[q][k], of[lst[q][k]])])
  IN  of[Root]

\* the slot that svisit reads for an identifier
slot(av) == IF m.type[av] = "ref" THEN m.src[av] ELSE av

(* In the order evaluated, a variable reads no slot that the same phase    *)
(* writes only later.  time is there from the start, and in the phase of   *)
(* the flows so are the stocks and constants.                              *)
ReadsAfterWrites(order) ==
  \A i \in DOMAIN order : \A d \in Range(m.direct_deps[order[i]]) :
    LET w == slot(d)
    IN  w \in Range(order) => \E j \in 1 .. i - 1 : order[j] = w

\* each variable of S but time is evaluated once
EachOnce(order, S) ==
  /\ IsInjective(order)
  /\ Range(order) = {v \in S : m.type[v] # "module"} \ {Time}

(* The file lists what a submodule's refs stand for, or the sibling module *)
(* it is in, before the submodule, and no equation names a module.         *)
SourcesFirst ==
  /\ \A p \in AVar : m.type[p] = "module" => ~Named(p)
  /\ \A q \in AVar : \A k \in DOMAIN m.avars[q] :
       \A ref \in Range(m.avars[m.avars[q][k]]) :
         m.type[ref] = "ref" =>
           \E j \in 1 .. k - 1 : m.avars[q][j] \in m.anc[m.src[ref]] \cup {m.src[ref]}

(* For a model that declares its variables in that order, each phase of    *)
(* calc computes every variable of every module that it has to, once, and  *)
(* reads only what it has computed: what holds of each runlist extends     *)
(* across modules.                                                         *)
OrderedAcrossModules ==
  ret = "ok" /\ SourcesFirst =>
    /\ EachOnce(calc(initials), {v \in AVar : OnInitials(v)}) /\ ReadsAfterWrites(calc(initials))
    /\ EachOnce(calc(flows), {v \in AVar : OnFlows(v)}) /\ ReadsAfterWrites(calc(flows))

(* What module_add_to_runlists says of itself: the dependencies of a       *)
(* variable are on the runlists before it.                                 *)
DependenciesFirst ==
  ret = "ok" /\ (\A p \in AVar : m.type[p] = "module" => ~Named(p)) =>
    ReadsAfterWrites(calc(initials))

=============================================================================
