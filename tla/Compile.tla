------------------------------ MODULE Compile -------------------------------
(***************************************************************************)
(* How sd_sim_new builds the variables of a simulation (sim.c): module and *)
(* avar instantiate the models of a project, avar_init resolves refs and   *)
(* module_assign_offsets gives every variable its slot.  Afterwards        *)
(* clients find variables by the names of sd_sim_get_varnames, with the    *)
(* resolve that sd_sim_get_value and sd_sim_get_series use.                *)
(*                                                                         *)
(* An AVar is identified by its path, the names from below the root down.  *)
(* A qualified name is such a path too: resolve cuts it at its dots.       *)
(***************************************************************************)
EXTENDS Integers, Sequences, FiniteSets, FiniteSetsExt, SequencesExt

CONSTANTS
  Projects,          \* the projects considered
  StartsWith(_, _)   \* StartsWith(b, a): the name b starts with the name a

Main == "main"    \* the model without a name

\* the variables of a project's models, and the refs of its connects
VarsIn(p) == UNION {Range(p[model]) : model \in DOMAIN p}
ConnsIn(p) == UNION {Range(v.conns) : v \in VarsIn(p)}
ConnListsIn(p) == {<< >>} \cup {v.conns : v \in VarsIn(p)}
NamesIn(p) == {v.name : v \in VarsIn(p)} \cup {"time"}

(***************************************************************************)
(* A project: for each model name the sequence of its variables.  A        *)
(* variable is a Var [name, type, src, conns, flows, eqn]; a module's name *)
(* is also the name of its model, and its conns are the refs, with a src,  *)
(* of its connects.  flows are the names of its inflows and outflows.  Of  *)
(* the equation eqn tells what avar_eqn_parse makes: "tree", a node that   *)
(* node_walk can walk; "blank", no node since there is no token in it;     *)
(* "bad", an error.  "none" is a variable without equation, as refs are.   *)
(*                                                                         *)
(* A model has one variable of a name, and the main model none that is     *)
(* called time.  No model is inside of itself: module() would not return.  *)
(***************************************************************************)
ASSUME ProjectsAssumption ==
  \A p \in Projects :
    /\ IsFiniteSet(DOMAIN p)
    /\ \E depth \in [DOMAIN p -> 0 .. Cardinality(DOMAIN p)] :
         \A model \in DOMAIN p : \A v \in Range(p[model]) :
           v.type = "module" /\ v.name \in DOMAIN p => depth[v.name] < depth[model]
    /\ \A model \in DOMAIN p :
         /\ p[model] \in Seq(Range(p[model]))
         /\ \A j, k \in DOMAIN p[model] : p[model][j].name = p[model][k].name => j = k
         /\ model = Main => \A v \in Range(p[model]) : v.name # "time"
    /\ \A v \in VarsIn(p) : v.type # "ref" /\ v.conns \in Seq(Range(v.conns))
    /\ \A c \in ConnsIn(p) : /\ c.type = "ref" /\ c.src \in Seq(Range(c.src)) \ {<< >>}
                             /\ c.eqn = "none"
    /\ \A a \in NamesIn(p) : StartsWith(a, a)

VARIABLES
  project,   \* the models, a function from names
  phase,     \* how far sd_sim_new has got; "failed" when it returned NULL
  avars,     \* the AVars in the order of the tree: [path, v]
  src,       \* for the ref at a path, the path av->src, or Unset
  offset     \* av->offset, for every path

vars == <<project, phase, avars, src, offset>>

Unset == << >>    \* NULL: the path of no AVar but the root

\* the ref that a connect of the enclosing module puts in the place of v, or v
Connected(v, conns) ==
  LET hit == {j \in DOMAIN conns : conns[j].name = v.name}
  IN  IF hit = {} THEN v ELSE conns[Min(hit)]

\* the AVars of a module, with paths from the module around it
Under(name, as) == [k \in DOMAIN as |-> [as[k] EXCEPT !.path = <<name>> \o @]]

\* avar(): an AVar for v, and behind it those of its model; below has what module() makes
avar(below, v) ==
  <<[path |-> <<v.name>>, v |-> v]>>
    \o (IF v.type = "module" /\ v.name \in DOMAIN below
          THEN Under(v.name, below[v.name][v.conns]) ELSE << >>)

\* the loop of module() over the variables of a model
Instances(below, own, conns) ==
  LET after[k \in 0 .. Len(own)] ==
        IF k = 0 THEN << >> ELSE after[k - 1] \o avar(below, Connected(own[k], conns))
  IN  after[Len(own)]

\* module(): for a model and the connects of its module the AVars, in order
module ==
  LET below[model \in DOMAIN project] ==
        [conns \in ConnListsIn(project) |-> Instances(below, project[model], conns)]
  IN  below

\* avar() fails: there is no model for a module, or the equation does not parse
Fails(v) == IF v.type = "module" THEN v.name \notin DOMAIN project ELSE v.eqn = "bad"

Paths == {avars[k].path : k \in DOMAIN avars}

\* the place of the AVar at p, and its av->v
Place(p) == CHOOSE k \in DOMAIN avars : avars[k].path = p
VarAt(p) == avars[Place(p)].v
TypeOf(p) == VarAt(p).type

(***************************************************************************)
(* resolve: the first variable with the name or, for a name with a dot,    *)
(* the first module that strncmp finds equal in the length of the part     *)
(* before the dot, and in it what is behind the dot.                       *)
(***************************************************************************)
Matches(path, name, d) ==
  {k \in DOMAIN avars :
     /\ Front(avars[k].path) = path
     /\ IF d < Len(name) THEN avars[k].v.type = "module" /\ StartsWith(Last(avars[k].path), name[d])
                         ELSE Last(avars[k].path) = name[d]}
First(ks) == IF ks = {} THEN Unset ELSE avars[Min(ks)].path

resolve(path, name) ==
  LET found[d \in 1 .. Len(name)] ==
        IF d = 1 THEN First(Matches(path, name, d))
        ELSE IF found[d - 1] = Unset THEN Unset ELSE First(Matches(found[d - 1], name, d))
  IN  found[Len(name)]

-----------------------------------------------------------------------------
Init ==
  /\ project \in Projects
  /\ phase = "new"
  /\ avars = << >>
  /\ src = << >>
  /\ offset = << >>

\* the AVar for time of the root
TimeVar == [path |-> <<"time">>, v |-> [name |-> "time", type |-> "aux", src |-> << >>,
                                        conns |-> << >>, flows |-> {}, eqn |-> "none"]]

\* module(p, NULL, model, NULL), with the variable for time in front
Instantiate ==
  /\ phase = "new"
  /\ IF Main \in DOMAIN project /\ \A a \in Range(module[Main][<< >>]) : ~ Fails(a.v)
       THEN /\ phase' = "compile"
            /\ avars' = <<TimeVar>> \o module[Main][<< >>]
       ELSE phase' = "failed" /\ UNCHANGED avars
  /\ UNCHANGED <<project, src, offset>>

Refs == {p \in Paths : TypeOf(p) = "ref"}

\* mutant: resolved in the module that holds the ref
SrcOfOwn == [p \in Refs |-> resolve(Front(p), VarAt(p).src)]

\* resolve(module->parent, av->v->src) for each ref
SrcOf == [p \in Refs |-> resolve(Front(Front(p)), VarAt(p).src)]

\* a variable that has a slot of its own
HasSlot(a) == a.v.type \notin {"module", "ref"}

\* the AVars whose equation and flows avar_init looks at: not a time without equation
Walked(a) == HasSlot(a) /\ ~ (a.v.eqn = "none" /\ a.v.name = "time")

\* those without a node, where node_walk returns false
Treeless == {k \in DOMAIN avars : Walked(avars[k]) /\ avars[k].v.eqn # "tree"}

\* those with an inflow or outflow that does not resolve in their module
LostFlows ==
  {k \in DOMAIN avars :
     Walked(avars[k]) /\ \E f \in avars[k].v.flows : resolve(Front(avars[k].path), <<f>>) = Unset}

\* avar_init returns an error for an AVar below the root
SomeFail == Treeless # {} \/ LostFlows # {} \/ \E p \in Refs : SrcOf[p] = Unset

(***************************************************************************)
(* avar_init on the root: every ref is resolved from the module around its *)
(* own; the equation of any other variable is walked and then its flows    *)
(* are resolved in its own module.  A ref takes over the offset of its     *)
(* source, which at this point is the 0 that calloc left.  All of this is  *)
(* done even where one fails, and then all of it has failed.               *)
(***************************************************************************)
CompileModules ==
  /\ phase = "compile"
  /\ src' = SrcOf
  /\ offset' = [p \in Paths |-> 0]
  /\ phase' = IF SomeFail THEN "failed" ELSE "offsets"
  /\ UNCHANGED <<project, avars>>

\* the slots handed out before the AVar at k
Slots(k) == {n \in 1 .. k - 1 : HasSlot(avars[n])}

\* mutant: the counter incremented before it is used
AssignOffsetsAfter ==
  /\ phase = "offsets"
  /\ offset' = [p \in Paths |-> IF HasSlot(avars[Place(p)]) THEN Cardinality(Slots(Place(p) + 1))
                                ELSE offset[p]]
  /\ phase' = "ready"
  /\ UNCHANGED <<project, avars, src>>

\* module_assign_offsets, over the tree in order
AssignOffsets ==
  /\ phase = "offsets"
  /\ offset' = [p \in Paths |-> IF HasSlot(avars[Place(p)]) THEN Cardinality(Slots(Place(p)))
                                ELSE offset[p]]
  /\ phase' = "ready"
  /\ UNCHANGED <<project, avars, src>>

Next == Instantiate \/ CompileModules \/ AssignOffsets

Spec == Init /\ [][Next]_vars

-----------------------------------------------------------------------------
(* What the finished simulation offers its clients and calc.               *)

\* sd_sim_get_varcount: where module_assign_offsets has got to
nvars == Cardinality(Slots(Len(avars) + 1))

\* sd_sim_get_varnames: the walk of module_get_varnames
varnames ==
  LET result[k \in 0 .. Len(avars)] ==
        IF k = 0 THEN << >>
        ELSE result[k - 1] \o (IF HasSlot(avars[k]) THEN <<avars[k].path>> ELSE << >>)
  IN  result[Len(avars)]

\* the slot that sd_sim_get_value and sd_sim_get_series read for a name
ReadOffset(name) == offset[resolve(<< >>, name)]

\* mutant: the offset of the ref itself
IdentOffsetOwn(p) == offset[p]

\* the slot that svisit reads for an identifier that resolved to p
IdentOffset(p) == IF p \in Refs THEN offset[src[p]] ELSE offset[p]

-----------------------------------------------------------------------------
(* Properties                                                              *)

\* where the connect for the ref p starts, and the full name of what it means
Around(p) == Front(Front(p))
FullSrc(p) == Around(p) \o VarAt(p).src

(***************************************************************************)
(* A name is read as one that it does not say: where a part of it stands   *)
(* for a module, another whose name begins with it comes first or alone.   *)
(***************************************************************************)
Misled(path, name) ==
  \E d \in 1 .. Len(name) - 1 : \E k \in DOMAIN avars :
    LET meant == path \o SubSeq(name, 1, d)
    IN  /\ avars[k].v.type = "module" /\ StartsWith(Last(avars[k].path), name[d])
        /\ Front(avars[k].path) = Front(meant) /\ avars[k].path # meant
        /\ ~ \E j \in 1 .. k - 1 : avars[j].path = meant /\ avars[j].v.type = "module"

(***************************************************************************)
(* The slots of the finished simulation are exactly 0 .. nvars-1, and the  *)
(* variable sd_sim_get_varnames lists at place k owns slot k-1, time slot  *)
(* 0: what sd_sim_get_varcount counts, what module_get_varnames lists and  *)
(* what module_assign_offsets hands out are three walks of the tree that   *)
(* have to agree, with ghosts left out of each.  sd_sim_get_value and      *)
(* sd_sim_get_series resolve the name to that slot, as long as no module   *)
(* in front has a longer name with the same beginning.                     *)
(***************************************************************************)
NamesMatchSlots ==
  phase = "ready" =>
    /\ Len(varnames) = nvars
    /\ varnames[1] = <<"time">>
    /\ \A k \in 1 .. nvars :
         /\ offset[varnames[k]] = k - 1
         /\ Misled(<< >>, varnames[k]) \/ ReadOffset(varnames[k]) = k - 1

(***************************************************************************)
(* What an equation reads through a ghost: a connect to a variable of the  *)
(* enclosing module, or below it, makes svisit read the slot listed under  *)
(* the full name of that variable.  Ghosts of ghosts are left out, as the  *)
(* TODO in module_compile says.                                            *)
(***************************************************************************)
GhostsReadSource ==
  phase = "ready" =>
    \A p \in Refs : \A k \in DOMAIN varnames :
      varnames[k] = FullSrc(p) /\ ~ Misled(Around(p), VarAt(p).src) => IdentOffset(p) = k - 1

(***************************************************************************)
(* avar_init refuses an instantiated model when, and only when, a connect  *)
(* names no variable, a variable has a flow that is not in its model, or   *)
(* one has no equation to compute it by, unless it is called time and has  *)
(* no eqn at all.  So no simulation runs with a ghost of nothing, without  *)
(* one of its flows or with a slot that nothing fills, and none is refused *)
(* here for another reason, but for ghosts that are misled.  (The sort of  *)
(* the runlists comes later, and refuses circular models.)                 *)
(***************************************************************************)
RefusesDangling ==
  LET Dangling(p) == FullSrc(p) \notin Paths
      Astray(p) == Misled(Around(p), VarAt(p).src)
      Own(a) == a.v.type \notin {"module", "ref"} /\ ~ (a.v.name = "time" /\ a.v.eqn = "none")
      FlowMissing == \E a \in Range(avars) : \E f \in a.v.flows :
                       Own(a) /\ Append(Front(a.path), f) \notin Paths
      NoEquation == \E a \in Range(avars) : Own(a) /\ a.v.eqn # "tree"
  IN  /\ phase \in {"offsets", "ready"} =>
           ~ FlowMissing /\ ~ NoEquation /\ \A p \in Refs : Dangling(p) => Astray(p)
      /\ (phase = "failed" /\ avars # << >>) =>
           FlowMissing \/ NoEquation \/ \E p \in Refs : Dangling(p) \/ Astray(p)

(***************************************************************************)
(* A ghost has the offset of its source, which module_compile gives it for *)
(* sd_sim_get_value, sd_sim_get_series and calc_stocks to use, one level   *)
(* deep.  VIOLATED: it does so before there are offsets.                   *)
(***************************************************************************)
GhostsShareOffset ==
  phase = "ready" =>
    \A p \in Refs : TypeOf(src[p]) \in {"stock", "aux"} => offset[p] = offset[src[p]]

=============================================================================
