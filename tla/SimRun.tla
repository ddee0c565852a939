------------------------------- MODULE SimRun -------------------------------
(***************************************************************************)
(* The simulation engine of libsd (sim.c): the result slab of an SDSim,    *)
(* sd_sim_reset, the integration loop of sd_sim_run_to, and what the       *)
(* accessors sd_sim_get_value and sd_sim_get_series read from the slab.    *)
(*                                                                         *)
(* A row of the slab holds one double per variable.  Which numbers they    *)
(* are is left out; what is kept is which step of the Euler trajectory     *)
(* each class of slots belongs to.  A row is a record                      *)
(*    time    the TIME slot, a number                                      *)
(*    stock   the slots of the stocks                                      *)
(*    flow    the slots of the flows and auxiliaries                       *)
(*    const   the slots of the variables with is_const                     *)
(* where stock and flow hold the number of the step their values are for,  *)
(* Zero for memory that calloc cleared and nothing has written since, or   *)
(* Mixed for values computed from slots of different steps.  The const     *)
(* slots hold "zero", "raw" (the literal) or "gf" (the literal sent        *)
(* through the graphical function of the variable).                        *)
(*                                                                         *)
(* Times are integers, in a unit that start, stop, dt and savestep are     *)
(* multiples of.  The one rounding of the doubles that changes control is  *)
(* kept: the quotient (stop-start)/dt, exact in the reals, may come out    *)
(* just below the integer it should be (0.3/0.1), and is then truncated.   *)
(***************************************************************************)
EXTENDS Integers

CONSTANTS
  Specs,   \* the sim_specs (and the model's gf on a constant) considered
  Ends,    \* the times a client passes to sd_sim_run_to
  One      \* the time 1.0 in the unit that times are counted in

Zero  == -1   \* cleared by calloc
Mixed == -2   \* computed from slots that belong to different steps

(***************************************************************************)
(* SimSpec of a parsed file.  rounddown: the division of line 600 rounds   *)
(* down; gf: the is_const variable carries a graphical function.  A stop   *)
(* more than one dt before start makes the conversion to size_t undefined, *)
(* and so does dt = 0; both are outside the model.                         *)
(***************************************************************************)
SimSpec ==
  {s \in [start: Int, stop: Int, dt: Nat \ {0}, savestep: Nat,
          rounddown: BOOLEAN, gf: BOOLEAN] :
     /\ s.stop + s.dt >= s.start
     /\ s.rounddown => s.stop > s.start /\ (s.stop - s.start) % s.dt = 0}

ASSUME SpecsAssumption == Specs \subseteq SimSpec

ASSUME EndsAssumption == Ends \subseteq Int

ASSUME OneAssumption == One \in Nat \ {0}

VARIABLES
  spec,        \* s->spec
  step,        \* s->step
  save_step,   \* s->save_step; s->curr and s->next are rows save_step and save_step+1
  slab,        \* s->slab, a function on its rows
  allocated,   \* FALSE between a failed calloc in sd_sim_reset and the next reset
  pc,          \* "running" inside the loop of sd_sim_run_to, else "idle"
  end,         \* the argument of the current sd_sim_run_to
  fault        \* "none", "null": slab used while unallocated,
               \* "bounds": a row past the end of the slab written

vars == <<spec, step, save_step, slab, allocated, pc, end, fault>>

-----------------------------------------------------------------------------
(* The sizes sd_sim_reset derives from the sim_specs.                      *)

nsteps ==
  ((spec.stop - spec.start) \div spec.dt) + 1 - (IF spec.rounddown THEN 1 ELSE 0)

\* savestep/dt rounded to the nearest integer, and at least 1
save_every ==
  LET rounded == (2 * spec.savestep + spec.dt) \div (2 * spec.dt)
  IN  IF rounded > 1 THEN rounded ELSE 1

\* mutants: the partial interval at the end not counted; always counted
nsavesDown == nsteps \div save_every

nsavesUp == (nsteps \div save_every) + 1

nsaves ==
  (nsteps \div save_every) + (IF nsteps % save_every # 0 THEN 1 ELSE 0)

Rows == 0 .. nsaves    \* "1 extra step to simplify run_to"

Row == [time: Int, stock: Int, flow: Int, const: {"zero", "raw", "gf"}]

CallocRow == [time |-> 0, stock |-> Zero, flow |-> Zero, const |-> "zero"]

TimeAt(n) == spec.start + n * spec.dt

(***************************************************************************)
(* calc over the initials of the root module: every variable of the row    *)
(* is computed from the equations, graphical functions applied.            *)
(***************************************************************************)
CalcInitials(row) ==
  [row EXCEPT !.stock = 0, !.flow = 0, !.const = IF spec.gf THEN "gf" ELSE "raw"]

(***************************************************************************)
(* calc over the flows: reads the time, stocks and constants of the row    *)
(* and writes its flows.                                                   *)
(***************************************************************************)
Calc(row) ==
  [row EXCEPT !.flow =
     IF row.stock >= 0 /\ row.time = TimeAt(row.stock) /\ row.const # "zero"
       THEN row.stock ELSE Mixed]

\* mutant: is_const variables missing from the stocks runlist
CalcStocksNoConst(curr, next) ==
  [next EXCEPT !.stock = IF curr.stock >= 0 /\ curr.flow = curr.stock
                           THEN curr.stock + 1 ELSE Mixed]

(***************************************************************************)
(* calc_stocks: one Euler step from the stocks and flows of curr into      *)
(* next; constants are evaluated again, without their graphical function.  *)
(***************************************************************************)
CalcStocks(curr, next) ==
  [next EXCEPT !.stock = IF curr.stock >= 0 /\ curr.flow = curr.stock
                           THEN curr.stock + 1 ELSE Mixed,
               !.const = "raw"]

-----------------------------------------------------------------------------
sim_curr == save_step

sim_next == save_step + 1

FreshSlab == [r \in Rows |-> IF r = 0
                               THEN CalcInitials([CallocRow EXCEPT !.time = spec.start])
                               ELSE CallocRow]

\* sd_sim_new ends with a successful sd_sim_reset
Init ==
  /\ spec \in Specs
  /\ step = 0
  /\ save_step = 0
  /\ slab = FreshSlab
  /\ allocated = TRUE
  /\ pc = "idle"
  /\ end = spec.start
  /\ fault = "none"

\* mutant: save_step not reset
ResetKeepsSaveStep ==
  /\ pc = "idle" /\ fault = "none"
  /\ step' = 0
  /\ \/ slab' = FreshSlab /\ allocated' = TRUE
     \/ slab' = << >> /\ allocated' = FALSE
  /\ UNCHANGED <<spec, save_step, pc, end, fault>>

(***************************************************************************)
(* sd_sim_reset: both outcomes of calloc.  The counters are reset and the  *)
(* old slab is freed before the allocation is tried.                       *)
(***************************************************************************)
Reset ==
  /\ pc = "idle" /\ fault = "none"
  /\ step' = 0
  /\ save_step' = 0
  /\ \/ slab' = FreshSlab /\ allocated' = TRUE
     \/ slab' = << >> /\ allocated' = FALSE
  /\ UNCHANGED <<spec, pc, end, fault>>

\* sd_sim_run_to(s, e): curr and next are recomputed and the loop is entered
RunTo(e) ==
  /\ pc = "idle" /\ fault = "none" /\ allocated
  /\ pc' = "running"
  /\ end' = e
  /\ UNCHANGED <<spec, step, save_step, slab, allocated, fault>>

run_to == \E e \in Ends : RunTo(e)

\* sd_sim_run_to_end
run_to_end == RunTo(spec.stop + One)

\* any of run_to, get_value and get_series after a reset that failed
UseWithoutSlab ==
  /\ pc = "idle" /\ fault = "none" /\ ~allocated
  /\ fault' = "null"
  /\ UNCHANGED <<spec, step, save_step, slab, allocated, pc, end>>

\* mutants: end excluded; the last step excluded
InLoopBeforeEnd ==
  /\ pc = "running"
  /\ step < nsteps
  /\ slab[sim_curr].time < end

InLoop ==
  /\ pc = "running"
  /\ step < nsteps
  /\ slab[sim_curr].time <= end

\* the two rows after calc and calc_stocks
CurrRow == Calc(slab[sim_curr])

NextRow == CalcStocks(CurrRow, slab[sim_next])

\* next after its TIME slot is set
TimedNextRow == [NextRow EXCEPT !.time = TimeAt(step + 1)]

\* calc_stocks writes through s->next although the slab ends before it
WritePastSlab ==
  /\ InLoop
  /\ sim_next \notin Rows
  /\ fault' = "bounds"
  /\ pc' = "idle"
  /\ UNCHANGED <<spec, step, save_step, slab, allocated, end>>

\* mutant: no break after the last step
LastIterateNoBreak ==
  /\ InLoop
  /\ sim_next \in Rows
  /\ step + 1 = nsteps
  /\ slab' = [slab EXCEPT ![sim_curr] = CurrRow, ![sim_next] = NextRow]
  /\ UNCHANGED <<spec, step, save_step, allocated, pc, end, fault>>

\* the iteration for the last step leaves the loop without advancing
LastIterate ==
  /\ InLoop
  /\ sim_next \in Rows
  /\ step + 1 = nsteps
  /\ slab' = [slab EXCEPT ![sim_curr] = CurrRow, ![sim_next] = NextRow]
  /\ pc' = "idle"
  /\ UNCHANGED <<spec, step, save_step, allocated, end, fault>>

\* mutant: the row copied to is found by rounding step down
CopyIterateDown ==
  /\ InLoop
  /\ sim_next \in Rows
  /\ step + 1 # nsteps
  /\ step % save_every # 0
  /\ slab' = [slab EXCEPT ![step \div save_every] = TimedNextRow, ![sim_next] = TimedNextRow]
  /\ step' = step + 1
  /\ UNCHANGED <<spec, save_step, allocated, pc, end, fault>>

\* a step that is not saved: next is copied over curr, which is used again
CopyIterate ==
  /\ InLoop
  /\ sim_next \in Rows
  /\ step + 1 # nsteps
  /\ step % save_every # 0
  /\ slab' = [slab EXCEPT ![sim_curr] = TimedNextRow, ![sim_next] = TimedNextRow]
  /\ step' = step + 1
  /\ UNCHANGED <<spec, save_step, allocated, pc, end, fault>>

\* a saved step: curr is left as it is and next becomes curr
SaveIterate ==
  /\ InLoop
  /\ sim_next \in Rows
  /\ step + 1 # nsteps
  /\ step % save_every = 0
  /\ slab' = [slab EXCEPT ![sim_curr] = CurrRow, ![sim_next] = TimedNextRow]
  /\ step' = step + 1
  /\ save_step' = save_step + 1
  /\ UNCHANGED <<spec, allocated, pc, end, fault>>

\* the loop condition is false
LeaveLoop ==
  /\ pc = "running"
  /\ ~InLoop
  /\ pc' = "idle"
  /\ UNCHANGED <<spec, step, save_step, slab, allocated, end, fault>>

Loop == WritePastSlab \/ LastIterate \/ CopyIterate \/ SaveIterate \/ LeaveLoop

Next == Reset \/ run_to \/ run_to_end \/ UseWithoutSlab \/ Loop

Spec == Init /\ [][Next]_vars

(* A call of sd_sim_run_to that has started keeps executing its loop.      *)
FairSpec == Spec /\ WF_vars(Loop)

-----------------------------------------------------------------------------
(* What the accessors return; they change nothing.                         *)

\* sd_sim_get_value: the current row
sd_sim_get_value == slab[sim_curr]

\* sd_sim_get_stepcount
sd_sim_get_stepcount == nsaves

(* sd_sim_get_series into a buffer of len doubles: the rows it copies, as  *)
(* a function on 0..n-1 where n is the number it returns.                  *)
sd_sim_get_series(len) == [i \in {j \in Rows : j < len} |-> slab[i]]

-----------------------------------------------------------------------------
(* Properties.                                                             *)

(* The values every variable can take: the slab has nsaves+1 rows while it *)
(* is allocated, and no rows after a reset that could not allocate it.     *)
TypeOK ==
  /\ spec \in Specs
  /\ step \in Nat
  /\ save_step \in Nat
  /\ allocated \in BOOLEAN
  /\ slab \in IF allocated THEN [Rows -> Row] ELSE {<< >>}
  /\ pc \in {"idle", "running"}
  /\ end \in Int
  /\ fault \in {"none", "null", "bounds"}

(* The constants of row r: only row 0 has them after their graphical       *)
(* function.                                                               *)
ConstOf(r) == IF r = 0 /\ spec.gf THEN "gf" ELSE "raw"

(* The row a completed save leaves behind: row r is for step r*save_every, *)
(* and so are all its slots.                                               *)
SavedRow(r) ==
  [time  |-> TimeAt(r * save_every),
   stock |-> r * save_every,
   flow  |-> r * save_every,
   const |-> ConstOf(r)]

(* step stays inside the run, and save_step is step/save_every rounded up: *)
(* the row that curr points to is the one its next saved step belongs to.  *)
CountersAgree ==
  /\ step = 0 \/ step < nsteps
  /\ step <= save_step * save_every
  /\ save_step * save_every < step + save_every

(* Every row before curr holds a saved step of the trajectory.             *)
RowsBeforeCurr == \A r \in Rows : r < save_step => slab[r] = SavedRow(r)

(* The last step of the run is not one that is saved.                      *)
Ragged == nsteps > 0 /\ (nsteps - 1) % save_every # 0

(* curr holds time, stocks and constants of the current step, and flows    *)
(* that are either for that step or not computed yet, never those of an    *)
(* earlier step.  They are for that step right after a reset and at the    *)
(* end of the run; a run_to that stops earlier leaves them zero.           *)
RowAtCurr ==
  /\ save_step \in Rows
  /\ slab[save_step].time = TimeAt(step)
  /\ slab[save_step].stock = step
  /\ slab[save_step].flow = step \/ (slab[save_step].flow = Zero /\ step > 0)
  /\ slab[save_step].flow = step => step = 0 \/ (step + 1 = nsteps /\ ~Ragged)
  /\ slab[save_step].const = ConstOf(save_step)

(* Past curr only the row next points to has been written, and never the   *)
(* flows: memcpy brings zeros, not old flows, into the slots of curr.      *)
RowsAfterCurr ==
  \A r \in Rows :
    /\ r > save_step => slab[r].flow = Zero
    /\ r > save_step + 1 => slab[r] = CallocRow

(* What the slab of sd_sim_run_to holds after any sequence of resets and   *)
(* partial runs.                                                           *)
SlabIsTrajectory ==
  /\ CountersAgree
  /\ allocated => RowsBeforeCurr /\ RowAtCurr /\ RowsAfterCurr
  /\ ~allocated => step = 0 /\ pc = "idle"

(* sd_sim_run_to writes past the slab only for sim_specs whose last step   *)
(* is not a saved one, and the slab is missed only after a failed reset.   *)
FaultsExplained ==
  /\ fault = "bounds" => Ragged
  /\ fault = "null" => ~allocated

(* A run that has computed its last step.                                  *)
Finished ==
  /\ pc = "idle" /\ fault = "none" /\ allocated
  /\ step + 1 = nsteps
  /\ slab[sim_curr].flow = step

(* Once a run is finished a client that passes a buffer of stepcount       *)
(* elements to sd_sim_get_series gets one element per saved step, the      *)
(* first for start, and the last one for the last step of the run.         *)
SeriesIsTrajectory ==
  Finished =>
    LET series == sd_sim_get_series(sd_sim_get_stepcount)
    IN  /\ DOMAIN series = 0 .. nsaves - 1
        /\ \A i \in DOMAIN series : series[i] = SavedRow(i)
        /\ series[nsaves - 1] = sd_sim_get_value

(* The row added to the slab in sd_sim_reset is all that run_to needs.     *)
ExtraRowSuffices == fault # "bounds"

(* A row before curr is never written again until the next sd_sim_reset.   *)
SavedRowsFrozen ==
  [][step' # 0 => \A r \in Rows : r < save_step => slab'[r] = slab[r]]_vars

(* sd_sim_run_to(end) returns at the first step after end, or at the last  *)
(* step of the run with its flows computed.                                *)
ReturnsWhereAsked ==
  [][pc = "running" /\ pc' = "idle" /\ fault' = "none" =>
       \/ slab'[save_step'].time > end
       \/ (step' + 1 = nsteps /\ slab'[save_step'].flow = step')
       \/ nsteps = 0]_vars

(* Every sd_sim_run_to returns, whatever end is; one by sd_sim_run_to_end  *)
(* returns at the last step of the run, unless the slab ends before it.    *)
RunReturns ==
  /\ pc = "running" ~> pc = "idle"
  /\ pc = "running" /\ end = spec.stop + One ~> Finished \/ fault = "bounds" \/ nsteps = 0

(* The rows before curr, read as the record of the run that Trajectory     *)
(* keeps: a row counts for a step when all its slots are for that step.    *)
KeptRow(r) ==
  IF /\ r \in DOMAIN slab
     /\ slab[r].stock = slab[r].flow
     /\ slab[r].time = TimeAt(slab[r].stock)
     /\ slab[r].const # "zero"
    THEN slab[r].stock ELSE Mixed

Abstract ==
  INSTANCE Trajectory WITH
    last  <- nsteps - 1,
    every <- save_every,
    now   <- step,
    kept  <- [r \in 0 .. save_step - 1 |-> KeptRow(r)]

(* The engine implements Trajectory: sd_sim_run_to, called any number of   *)
(* times with any ends, and sd_sim_reset in between, build the record of   *)
(* one Euler run in the slab.                                              *)
ImplementsTrajectory == Abstract!Spec

=============================================================================
