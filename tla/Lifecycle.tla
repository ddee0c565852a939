----------------------------- MODULE Lifecycle ------------------------------
(***************************************************************************)
(* Who keeps projects, models and simulations alive: the reference counts  *)
(* of project.c and sim.c, with threads that open, share and release them  *)
(* at the same time.  Each atomic __sync operation is a step of its own,   *)
(* and what a call still has to do after it is a list of such operations.  *)
(*                                                                         *)
(* A client calls a function only on what it holds a reference to.         *)
(***************************************************************************)
EXTENDS Integers, Sequences, FiniteSets, FiniteSetsExt, SequencesExt

CONSTANTS
  Threads,
  Sims,
  Root,       \* the model of the simulations
  Subs,       \* the models of the modules of the root model, in order
  MaxHandles  \* bound: references to one object that one thread holds

Models == {Root} \cup Range(Subs)

ASSUME LifecycleAssumption ==
  /\ IsFiniteSet(Threads) /\ IsFiniteSet(Sims)
  /\ Subs \in Seq(Models) /\ MaxHandles \in Nat

VARIABLES
  have,     \* the models that are in the file; the others are not found
  project,  \* [refcount, freed]
  model,    \* [refcount, freed] of each model
  sim,      \* [refcount, freed, modules, project] of each simulation
  ph, mh, sh,  \* the references each thread holds, to project, models, simulations
  todo,     \* the operations left in the call each thread is in
  faults,   \* uses of freed memory
  leaked    \* references to models that nobody will give back

vars == <<have, project, model, sim, ph, mh, sh, todo, faults, leaked>>

handles == <<ph, mh, sh>>

\* a simulation that has not been made yet, or after calloc
NoSim == [refcount |-> 0, freed |-> FALSE, modules |-> << >>, project |-> FALSE]

\* operations: on simulation s, on model m, with the models of the modules built so far
Op(op, s, m, built) == [op |-> op, s |-> s, m |-> m, built |-> built]

model_unref(m) == Op("model_unref", 0, m, << >>)
project_unref == Op("project_unref", 0, 0, << >>)
project_free == Op("project_free", 0, 0, << >>)
sim_unref(s) == Op("sim_unref", s, 0, << >>)
sim_free(s) == Op("sim_free", s, 0, << >>)

\* mutant: the last module forgotten
avar_freeFirst(built) ==
  [k \in 1 .. (IF Len(built) > 1 THEN Len(built) - 1 ELSE Len(built)) |-> model_unref(built[k])]

\* avar_free on a module whose modules have these models, its own first
avar_free(built) == [k \in DOMAIN built |-> model_unref(built[k])]

-----------------------------------------------------------------------------
Init ==
  /\ have \in {h \in SUBSET Models : h # {}}
  /\ project = [refcount |-> 1, freed |-> FALSE]
  /\ model = [m \in Models |-> [refcount |-> IF m \in have THEN 1 ELSE 0, freed |-> FALSE]]
  /\ sim = [s \in Sims |-> NoSim]
  /\ \E t \in Threads : ph = [u \in Threads |-> IF u = t THEN 1 ELSE 0]
  /\ mh = [t \in Threads |-> [m \in Models |-> 0]]
  /\ sh = [t \in Threads |-> [s \in Sims |-> 0]]
  /\ todo = [t \in Threads |-> << >>]
  /\ faults = {}
  /\ leaked = [m \in Models |-> 0]

Idle(t) == todo[t] = << >>

-----------------------------------------------------------------------------
(* What a client can call.                                                 *)

\* sd_project_ref, for another thread
sd_project_ref(t, u) ==
  /\ Idle(t) /\ ph[t] > 0 /\ ph[u] < MaxHandles
  /\ project' = [project EXCEPT !.refcount = @ + 1]
  /\ ph' = [ph EXCEPT ![u] = @ + 1]
  /\ UNCHANGED <<have, model, sim, mh, sh, todo, faults, leaked>>

sd_project_unref(t) ==
  /\ Idle(t) /\ ph[t] > 0
  /\ ph' = [ph EXCEPT ![t] = @ - 1]
  /\ todo' = [todo EXCEPT ![t] = <<project_unref>>]
  /\ UNCHANGED <<have, project, model, sim, mh, sh, faults, leaked>>

\* sd_project_get_model by a client
sd_project_get_model(t, m) ==
  /\ Idle(t) /\ ph[t] > 0 /\ m \in have /\ mh[t][m] < MaxHandles
  /\ model' = [model EXCEPT ![m].refcount = @ + 1]
  /\ mh' = [mh EXCEPT ![t][m] = @ + 1]
  /\ UNCHANGED <<have, project, sim, ph, sh, todo, faults, leaked>>

sd_model_unref(t, m) ==
  /\ Idle(t) /\ mh[t][m] > 0
  /\ mh' = [mh EXCEPT ![t][m] = @ - 1]
  /\ todo' = [todo EXCEPT ![t] = <<model_unref(m)>>]
  /\ UNCHANGED <<have, project, model, sim, ph, sh, faults, leaked>>

\* sd_sim_new, up to the first use of the project
sd_sim_new(t, s) ==
  /\ Idle(t) /\ ph[t] > 0 /\ sim[s] = NoSim
  /\ \A u \in Threads : \A k \in DOMAIN todo[u] : todo[u][k].s # s
  /\ sim' = [sim EXCEPT ![s].refcount = 1]
  /\ todo' = [todo EXCEPT ![t] = <<Op("get_model", s, Root, << >>)>>]
  /\ UNCHANGED <<have, project, model, handles, faults, leaked>>

\* sd_sim_ref, for another thread
sd_sim_ref(t, u, s) ==
  /\ Idle(t) /\ sh[t][s] > 0 /\ sh[u][s] < MaxHandles
  /\ sim' = [sim EXCEPT ![s].refcount = @ + 1]
  /\ sh' = [sh EXCEPT ![u][s] = @ + 1]
  /\ UNCHANGED <<have, project, model, ph, mh, todo, faults, leaked>>

sd_sim_unref(t, s) ==
  /\ Idle(t) /\ sh[t][s] > 0
  /\ sh' = [sh EXCEPT ![t][s] = @ - 1]
  /\ todo' = [todo EXCEPT ![t] = <<sim_unref(s)>>]
  /\ UNCHANGED <<have, project, model, sim, ph, mh, faults, leaked>>

-----------------------------------------------------------------------------
(* The operations of a call.                                               *)

At(t, op) == todo[t] # << >> /\ Head(todo[t]).op = op

\* goes on with the operations next in the place of the one just done
Then(t, next) == todo' = [todo EXCEPT ![t] = next \o Tail(@)]

Touch(o, name) == faults' = IF o.freed THEN faults \cup {name} ELSE faults

\* the variables a step of a call leaves alone
Kept == UNCHANGED <<have, ph, mh>>

\* sd_project_get_model for a module: the model read from the project's files
GetModel(t) ==
  /\ At(t, "get_model")
  /\ Touch(project, "project")
  /\ LET o == Head(todo[t])
     IN  IF o.m \in have
           THEN /\ model' = [model EXCEPT ![o.m].refcount = @ + 1]
                /\ Then(t, <<Op("module", o.s, o.m, o.built)>>)
           ELSE /\ UNCHANGED model
                /\ Then(t, avar_free(o.built) \o <<sim_unref(o.s)>>)
  /\ Kept /\ UNCHANGED <<project, sim, sh, leaked>>

\* the next module of the root model to build, or the end of module()
Continue(o, built) ==
  IF Len(built) <= Len(Subs)
    THEN Op("get_model", o.s, Subs[Len(built)], built)
    ELSE Op("built", o.s, 0, built)

\* module(): no memory for the AVar, whose model is then nobody's
ModuleNoMem(t) ==
  /\ At(t, "module")
  /\ LET o == Head(todo[t])
     IN  /\ leaked' = [leaked EXCEPT ![o.m] = @ + 1]
         /\ Then(t, avar_free(o.built) \o <<sim_unref(o.s)>>)
  /\ Kept /\ UNCHANGED <<project, model, sim, sh, faults>>

(***************************************************************************)
(* module(): one of the module's own variables fails.  It frees itself,    *)
(* then the call around it the root and the modules already built.         *)
(***************************************************************************)
ModuleFails(t) ==
  /\ At(t, "module")
  /\ LET o == Head(todo[t])
     IN  Then(t, <<model_unref(o.m)>> \o avar_free(o.built) \o <<sim_unref(o.s)>>)
  /\ Kept /\ UNCHANGED <<project, model, sim, sh, faults, leaked>>

\* module() goes on, to the next module inside or to its end
ModuleBuilt(t) ==
  /\ At(t, "module")
  /\ LET o == Head(todo[t])
     IN  Then(t, <<Continue(o, Append(o.built, o.m))>>)
  /\ Kept /\ UNCHANGED <<project, model, sim, sh, faults, leaked>>

\* sd_sim_new, after module(): the simulation keeps the project
KeepProject(t) ==
  /\ At(t, "built")
  /\ Touch(project, "project")
  /\ project' = [project EXCEPT !.refcount = @ + 1]
  /\ LET o == Head(todo[t])
     IN  /\ sim' = [sim EXCEPT ![o.s].modules = o.built, ![o.s].project = TRUE]
         /\ Then(t, <<Op("init", o.s, 0, << >>)>>)
  /\ Kept /\ UNCHANGED <<model, sh, leaked>>

\* avar_init and what follows succeed, and the client has a simulation
InitOk(t) ==
  /\ At(t, "init")
  /\ sh' = [sh EXCEPT ![t][Head(todo[t]).s] = 1]
  /\ Then(t, << >>)
  /\ Kept /\ UNCHANGED <<project, model, sim, faults, leaked>>

\* or one of them fails
InitFails(t) ==
  /\ At(t, "init")
  /\ Then(t, <<sim_unref(Head(todo[t]).s)>>)
  /\ Kept /\ UNCHANGED <<project, model, sim, sh, faults, leaked>>

\* sd_sim_unref
SimUnref(t) ==
  /\ At(t, "sim_unref")
  /\ LET s == Head(todo[t]).s
         last == sim[s].refcount = 1
     IN  /\ Touch(sim[s], "sim")
         /\ sim' = [sim EXCEPT ![s].refcount = @ - 1]
         /\ Then(t, IF ~ last THEN << >>
                    ELSE avar_free(sim[s].modules)
                           \o (IF sim[s].project THEN <<project_unref>> ELSE << >>)
                           \o <<sim_free(s)>>)
  /\ Kept /\ UNCHANGED <<project, model, sh, leaked>>

SimFree(t) ==
  /\ At(t, "sim_free")
  /\ LET s == Head(todo[t]).s
     IN  /\ Touch(sim[s], "sim")
         /\ sim' = [sim EXCEPT ![s] = [NoSim EXCEPT !.freed = TRUE]]
  /\ Then(t, << >>)
  /\ Kept /\ UNCHANGED <<project, model, sh, leaked>>

\* mutant: off by one
ProjectUnrefLate(t) ==
  /\ At(t, "project_unref")
  /\ Touch(project, "project")
  /\ project' = [project EXCEPT !.refcount = @ - 1]
  /\ Then(t, IF project.refcount > 2 THEN << >>
             ELSE avar_free(SetToSeq(have)) \o <<project_free>>)
  /\ Kept /\ UNCHANGED <<model, sim, sh, leaked>>

\* sd_project_unref, with file_free on its file
ProjectUnref(t) ==
  /\ At(t, "project_unref")
  /\ Touch(project, "project")
  /\ project' = [project EXCEPT !.refcount = @ - 1]
  /\ Then(t, IF project.refcount > 1 THEN << >>
             ELSE avar_free(SetToSeq(have)) \o <<project_free>>)
  /\ Kept /\ UNCHANGED <<model, sim, sh, leaked>>

ProjectFree(t) ==
  /\ At(t, "project_free")
  /\ Touch(project, "project")
  /\ project' = [project EXCEPT !.freed = TRUE]
  /\ Then(t, << >>)
  /\ Kept /\ UNCHANGED <<model, sim, sh, leaked>>

\* sd_model_unref; the last reference frees the model and its variables
ModelUnref(t) ==
  /\ At(t, "model_unref")
  /\ LET m == Head(todo[t]).m
     IN  /\ Touch(model[m], "model")
         /\ model' = [model EXCEPT ![m].refcount = @ - 1, ![m].freed = (model[m].refcount = 1)]
  /\ Then(t, << >>)
  /\ Kept /\ UNCHANGED <<project, sim, sh, leaked>>

Next ==
  \E t \in Threads :
    \/ \E u \in Threads : sd_project_ref(t, u) \/ \E s \in Sims : sd_sim_ref(t, u, s)
    \/ sd_project_unref(t)
    \/ \E m \in Models : sd_project_get_model(t, m) \/ sd_model_unref(t, m)
    \/ \E s \in Sims : sd_sim_new(t, s) \/ sd_sim_unref(t, s)
    \/ GetModel(t) \/ ModuleNoMem(t) \/ ModuleFails(t) \/ ModuleBuilt(t) \/ KeepProject(t)
    \/ InitOk(t) \/ InitFails(t)
    \/ SimUnref(t) \/ SimFree(t) \/ ProjectUnref(t) \/ ProjectFree(t) \/ ModelUnref(t)

Spec == Init /\ [][Next]_vars

-----------------------------------------------------------------------------
(* Properties                                                              *)

\* the sum of the numbers w[x]: w as a bar chart
SumOf(w) == Cardinality(UNION {{x} \X (1 .. w[x]) : x \in DOMAIN w})

\* how often a sequence has x
Count(seq, x) == SumOf([k \in DOMAIN seq |-> IF seq[k] = x THEN 1 ELSE 0])

\* the models whose references an operation has in hand
ModelsOf(o) == IF o.op \in {"model_unref", "module"} THEN Append(o.built, o.m) ELSE o.built

Constructing == {"get_model", "module", "built", "init"}

\* the references an operation has in hand, and what it frees
InHand(o, what, x) ==
  CASE what = "project" -> IF o.op = "project_unref" THEN 1 ELSE 0
    [] what = "model" -> Count(ModelsOf(o), x)
    [] what = "sim" -> IF o.op \in Constructing \cup {"sim_unref"} /\ o.s = x THEN 1 ELSE 0
    [] what = "project_free" -> IF o.op = "project_free" THEN 1 ELSE 0
    [] what = "sim_free" -> IF o.op = "sim_free" /\ o.s = x THEN 1 ELSE 0

\* the same of lists of operations
InList(seq, what, x) == SumOf([k \in DOMAIN seq |-> InHand(seq[k], what, x)])

InCalls(lists, what, x) == SumOf([t \in Threads |-> InList(lists[t], what, x)])

\* the references of simulations to the project, and to a model
KeptProject(sims) ==
  SumOf([s \in Sims |-> IF sims[s].project /\ sims[s].refcount > 0 THEN 1 ELSE 0])

KeptModel(sims, m) ==
  SumOf([s \in Sims |-> IF sims[s].refcount > 0 THEN Count(sims[s].modules, m) ELSE 0])

(* A thread is in sd_project_unref for the last time: the project is being *)
(* taken apart.                                                            *)
Closing == \E t \in Threads : \E k \in DOMAIN todo[t] : todo[t][k].op = "project_free"

(***************************************************************************)
(* Every reference count is the number of those who will give a reference  *)
(* back: clients, simulations, files, and calls that have just taken one   *)
(* or are about to release it.  References to models that module() lost    *)
(* when it had no memory are the only ones that nobody owns: but for those *)
(* models, everything is freed when no client holds anything and no call   *)
(* is active, whatever failed on the way.                                  *)
(***************************************************************************)
CountsMatchHolders ==
  /\ project.refcount = SumOf(ph) + InCalls(todo, "project", Root) + KeptProject(sim)
  /\ \A s \in Sims : sim[s].refcount = SumOf([t \in Threads |-> sh[t][s]]) + InCalls(todo, "sim", s)
  /\ \A m \in Models :
       model[m].refcount =
         SumOf([t \in Threads |-> mh[t][m]]) + InCalls(todo, "model", m) + KeptModel(sim, m)
         + (IF m \in have /\ ~ Closing /\ ~ project.freed THEN 1 ELSE 0)
         + leaked[m]
  /\ (/\ \A t \in Threads : Idle(t) /\ ph[t] = 0
      /\ \A t \in Threads : \A m \in Models : mh[t][m] = 0
      /\ \A t \in Threads : \A s \in Sims : sh[t][s] = 0) =>
       /\ project.freed
       /\ \A s \in Sims : sim[s] = NoSim \/ sim[s].freed
       /\ \A m \in have : model[m].freed \/ leaked[m] > 0

(***************************************************************************)
(* No step reads or writes a project, model or simulation that was freed.  *)
(* A simulation that a client holds keeps its project, and with it the     *)
(* variables its AVars point to, whatever other threads release.           *)
(***************************************************************************)
NoUseAfterFree ==
  /\ faults = {}
  /\ \A t \in Threads : \A s \in Sims : sh[t][s] > 0 =>
       /\ ~ project.freed /\ ~ Closing
       /\ \A k \in DOMAIN sim[s].modules : ~ model[sim[s].modules[k]].freed

=============================================================================
