------------------------------ MODULE Runlist -------------------------------
(***************************************************************************)
(* The runlists of a compiled model (sim.c): module_sort_runlists and      *)
(* module_add_to_runlists put every variable of every module on the lists  *)
(* that calc and calc_stocks later walk, by a depth first search over      *)
(* direct_deps that also finds circular equations.                         *)
(*                                                                         *)
(* The recursion of the code is kept as a stack of call frames, so that    *)
(* what the search has done half way can be stated.                        *)
(***************************************************************************)
EXTENDS Integers, Sequences, FiniteSets, SequencesExt

CONSTANTS
  AVar,      \* the annotated variables, modules and refs included
  Root,      \* the root module
  Time,      \* the variable sd_sim_new adds in front of the root's own
  Models     \* the compiled models considered

VarType == {"stock", "flow", "aux", "module", "ref"}

(***************************************************************************)
(* A compiled model.  avars: the variables of a module, in file order;     *)
(* anc: the modules a variable is inside of, up to the root; direct_deps:  *)
(* what the identifiers of its equation resolve to, in the order of the    *)
(* equation; src: for a ref, the variable of another module it stands for. *)
(* Every variable but the root is in a module, and none is inside itself.  *)
(* Refs come from the connects of a module, and the root has none.  A      *)
(* literal has no dependencies, and neither have modules and refs.  The    *)
(* lexer ends an identifier at a dot, so an equation names variables of    *)
(* its own module only, or a submodule as such.                            *)
(***************************************************************************)
Model ==
  {m \in [type: [AVar -> VarType], is_const: SUBSET AVar, avars: [AVar -> Seq(AVar)],
          anc: [AVar -> SUBSET AVar], direct_deps: [AVar -> Seq(AVar)], src: [AVar -> AVar]] :
     /\ m.type[Root] = "module" /\ m.anc[Root] = {}
     /\ Len(m.avars[Root]) >= 1 /\ m.avars[Root][1] = Time /\ m.type[Time] = "aux"
     /\ \A i \in DOMAIN m.avars[Root] : m.type[m.avars[Root][i]] # "ref"
     /\ \A p \in AVar :
          /\ m.type[p] # "module" => m.avars[p] = << >>
          /\ IsInjective(m.avars[p])
          /\ \A i \in DOMAIN m.avars[p] : m.anc[m.avars[p][i]] = m.anc[p] \cup {p}
          /\ p = Root \/ \E q \in AVar : p \in Range(m.avars[q])
          /\ p \notin m.anc[p]
     /\ \A v \in AVar : \A a \in m.anc[v] : m.type[a] = "module"
     /\ \A v \in AVar : m.type[v] \in {"module", "ref"} \/ v \in m.is_const \/ v = Time =>
                          m.direct_deps[v] = << >>
     /\ \A v \in AVar : \A i \in DOMAIN m.direct_deps[v] :
          m.anc[m.direct_deps[v][i]] = m.anc[v]}

ASSUME AVarAssumption == IsFiniteSet(AVar) /\ Root \in AVar

ASSUME ModelsAssumption == Models \subseteq Model

VARIABLES
  m,          \* the model
  visited,    \* av->visited
  visiting,   \* av->visiting
  initials,   \* module->initials, for every module
  flows,      \* module->flows
  stocks,     \* module->stocks
  stack,      \* the active calls, innermost last
  ret         \* what the outermost call returned, "none" before it has

vars == <<m, visited, visiting, initials, flows, stocks, stack, ret>>

lists == <<initials, flows, stocks>>

(* A call: the function, its module and av (for a sort frame the module    *)
(* itself), the index of the loop, and for a sort frame whether the        *)
(* submodule at that index has been sorted.  i = 0: just called.           *)
Frame == [fn: {"sort", "add"}, module: AVar, av: AVar, i: Nat, sorted: BOOLEAN]

sort(mod) == [fn |-> "sort", module |-> mod, av |-> mod, i |-> 0, sorted |-> FALSE]

add(mod, av) == [fn |-> "add", module |-> mod, av |-> av, i |-> 0, sorted |-> FALSE]

Top == stack[Len(stack)]

Active(fn) == stack # << >> /\ Top.fn = fn

\* the stack with its innermost frame replaced, and with another on top of that
Retop(f) == [stack EXCEPT ![Len(stack)] = f]

Next_i == [Top EXCEPT !.i = @ + 1, !.sorted = FALSE]

-----------------------------------------------------------------------------
\* sd_sim_new, after avar_init and module_assign_offsets
Init ==
  /\ m \in Models
  /\ visited = [v \in AVar |-> FALSE]
  /\ visiting = [v \in AVar |-> FALSE]
  /\ initials = [v \in AVar |-> << >>]
  /\ flows = [v \in AVar |-> << >>]
  /\ stocks = [v \in AVar |-> << >>]
  /\ stack = <<sort(Root)>>
  /\ ret = "none"

\* the call returns 0, and with it sd_sim_new's call when it is the outermost
Return ==
  /\ stack' = Front(stack)
  /\ ret' = IF Len(stack) = 1 THEN "ok" ELSE ret

\* module_clear_visited
Cleared(mod, flag) == [v \in AVar |-> flag[v] /\ v # mod /\ mod \notin m.anc[v]]

\* the root's loop starts behind the variable for time
FirstIndex(mod) == IF mod = Root THEN 2 ELSE 1

SortEnter ==
  /\ Active("sort") /\ Top.i = 0
  /\ visited' = Cleared(Top.module, visited)
  /\ visiting' = [Cleared(Top.module, visiting) EXCEPT ![Top.module] = TRUE]
  /\ stack' = Retop([Top EXCEPT !.i = FirstIndex(Top.module)])
  /\ UNCHANGED <<m, lists, ret>>

Sub == m.avars[Top.module][Top.i]

InSortLoop == Active("sort") /\ Top.i > 0 /\ Top.i <= Len(m.avars[Top.module])

\* mutant: the loop does not advance over a visited variable
SortSkipStays ==
  /\ InSortLoop /\ ~Top.sorted /\ visited[Sub]
  /\ UNCHANGED vars

SortSkip ==
  /\ InSortLoop /\ ~Top.sorted /\ visited[Sub]
  /\ stack' = Retop(Next_i)
  /\ UNCHANGED <<m, visited, visiting, lists, ret>>

SortModule ==
  /\ InSortLoop /\ ~Top.sorted /\ ~visited[Sub]
  /\ m.type[Sub] = "module"
  /\ stack' = Append(Retop([Top EXCEPT !.sorted = TRUE]), sort(Sub))
  /\ UNCHANGED <<m, visited, visiting, lists, ret>>

SortVar ==
  /\ InSortLoop
  /\ Top.sorted \/ (~visited[Sub] /\ m.type[Sub] # "module")
  /\ stack' = Append(Retop(Next_i), add(Top.module, Sub))
  /\ UNCHANGED <<m, visited, visiting, lists, ret>>

SortLeave ==
  /\ Active("sort") /\ Top.i > Len(m.avars[Top.module])
  /\ visiting' = [visiting EXCEPT ![Top.module] = FALSE]
  /\ Return
  /\ UNCHANGED <<m, visited, lists>>

-----------------------------------------------------------------------------

\* the error is returned through every active call
AddCircular ==
  /\ Active("add") /\ Top.i = 0
  /\ ~visited[Top.av] /\ visiting[Top.av]
  /\ stack' = << >>
  /\ ret' = "circular"
  /\ UNCHANGED <<m, visited, visiting, lists>>

\* mutant: visited set before the dependencies are listed
AddEnterVisits ==
  /\ Active("add") /\ Top.i = 0
  /\ visited[Top.av] \/ ~visiting[Top.av]
  /\ IF visited[Top.av]
       THEN Return /\ UNCHANGED visited
       ELSE /\ visited' = [visited EXCEPT ![Top.av] = TRUE]
            /\ stack' = Retop(Next_i)
            /\ UNCHANGED ret
  /\ UNCHANGED <<m, visiting, lists>>

\* return at once for a visited variable, else go through its dependencies
AddEnter ==
  /\ Active("add") /\ Top.i = 0
  /\ visited[Top.av] \/ ~visiting[Top.av]
  /\ IF visited[Top.av]
       THEN Return /\ UNCHANGED visiting
       ELSE /\ visiting' = [visiting EXCEPT ![Top.av] = TRUE]
            /\ stack' = Retop(Next_i)
            /\ UNCHANGED ret
  /\ UNCHANGED <<m, visited, lists>>

Dep == m.direct_deps[Top.av][Top.i]

InAddLoop == Active("add") /\ Top.i > 0 /\ Top.i <= Len(m.direct_deps[Top.av])

\* mutant: the search does not descend from stocks, as the comment on direct_deps has it
AddDepNotStock ==
  /\ InAddLoop
  /\ stack' = IF visited[Dep] \/ m.type[Dep] = "stock"
                THEN Retop(Next_i) ELSE Append(Retop(Next_i), add(Top.module, Dep))
  /\ UNCHANGED <<m, visited, visiting, lists, ret>>

AddDep ==
  /\ InAddLoop
  /\ stack' = IF visited[Dep] THEN Retop(Next_i)
                              ELSE Append(Retop(Next_i), add(Top.module, Dep))
  /\ UNCHANGED <<m, visited, visiting, lists, ret>>

\* which of the lists of its module a variable joins
OnInitials(av) == m.type[av] # "ref"

OnFlows(av) == m.type[av] = "module" \/ (m.type[av] \in {"flow", "aux"} /\ av \notin m.is_const)

OnStocks(av) ==
  m.type[av] \in {"module", "stock"} \/ (m.type[av] \in {"flow", "aux"} /\ av \in m.is_const)

Join(list, mod, av, joins) == IF joins THEN [list EXCEPT ![mod] = Append(@, av)] ELSE list

AddLeave ==
  /\ Active("add") /\ Top.i > Len(m.direct_deps[Top.av])
  /\ initials' = Join(initials, Top.module, Top.av, OnInitials(Top.av))
  /\ flows' = Join(flows, Top.module, Top.av, OnFlows(Top.av))
  /\ stocks' = Join(stocks, Top.module, Top.av, OnStocks(Top.av))
  /\ visited' = [visited EXCEPT ![Top.av] = TRUE]
  /\ visiting' = [visiting EXCEPT ![Top.av] = FALSE]
  /\ Return
  /\ UNCHANGED m

Next ==
  \/ SortEnter \/ SortSkip \/ SortModule \/ SortVar \/ SortLeave
  \/ AddCircular \/ AddEnter \/ AddDep \/ AddLeave

Spec == Init /\ [][Next]_vars

(* One thread runs the search to its end.                                  *)
FairSpec == Spec /\ WF_vars(Next)

-----------------------------------------------------------------------------
(* Properties.                                                             *)

(* Equations that need each other: a set of variables each of which uses   *)
(* one of the set.                                                         *)
HasCycle ==
  \E S \in (SUBSET AVar) \ {{}} :
    \A v \in S : \E i \in DOMAIN m.direct_deps[v] : m.direct_deps[v][i] \in S

(* A module that an equation names, or that is inside such a module.  The  *)
(* search reaches it as a dependency, lists it and marks it visited, and   *)
(* then never sorts it.                                                    *)
Named(p) ==
  \E v \in AVar : \E i \in DOMAIN m.direct_deps[v] :
    m.direct_deps[v][i] \in m.anc[p] \cup {p}

(* SD_ERR_CIRCULAR is returned only for models with circular equations,    *)
(* and for all of them unless an equation names a module.                  *)
CircularIffCycle ==
  /\ ret = "circular" => HasCycle
  /\ ret = "ok" /\ HasCycle => \E p \in AVar : m.type[p] = "module" /\ Named(p)

(* On the initials of each module every dependency of a variable comes     *)
(* before it, at each point of the search.  When the search succeeds every *)
(* variable and submodule of a module is on them exactly once, refs        *)
(* excepted, unless the module is one that an equation names.  And one     *)
(* step computes each of them: all of initials is also on flows, where     *)
(* stocks never are, or on stocks, and only submodules are on both.        *)
ListedOnceInOrder ==
  /\ \A p \in AVar : \A i \in DOMAIN initials[p] :
       \A k \in DOMAIN m.direct_deps[initials[p][i]] :
         LET d == m.direct_deps[initials[p][i]][k]
         IN  m.type[d] # "ref" => \E j \in 1 .. i - 1 : initials[p][j] = d
  /\ ret = "ok" =>
       \A p \in AVar : \A v \in Range(m.avars[p]) \ {Time} :
         \/ Named(p)
         \/ Cardinality({i \in DOMAIN initials[p] : initials[p][i] = v})
              = IF m.type[v] = "ref" THEN 0 ELSE 1
  /\ \A p \in AVar :
       LET both == {v \in Range(flows[p]) : v \in Range(stocks[p])}
       IN  /\ Range(flows[p]) \cup Range(stocks[p]) = Range(initials[p])
           /\ \A v \in both : m.type[v] = "module"
           /\ \A v \in Range(flows[p]) : m.type[v] # "stock"

(* The search ends.                                                        *)
SortReturns == <>(ret # "none")

=============================================================================
