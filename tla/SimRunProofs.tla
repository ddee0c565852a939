---------------------------- MODULE SimRunProofs ----------------------------
(***************************************************************************)
(* Theorems about SimRun, for every sim_specs and every sequence of calls: *)
(* the slab holds the Euler run, the engine implements Trajectory, and     *)
(* sd_sim_get_series reads a finished run back whole.                      *)
(***************************************************************************)
EXTENDS SimRun, Arithmetic

-----------------------------------------------------------------------------
(* Arithmetic.                                                             *)

LEMMA QuotientBounds ==
  ASSUME NEW d \in Nat \ {0}, NEW x \in Int, NEW y \in Int, NEW z \in 0 .. d - 1,
         x = d * y + z, x + d >= 0
  PROVE  y >= -1 /\ (x > 0 /\ z = 0 => y > 0)
<1>1. 0 * d < (y + 1) * d + d
  OBVIOUS
<1>2. 0 <= y + 1
  BY <1>1, MulLess
<1>3. x > 0 /\ z = 0 => ~(y <= 0)
  OBVIOUS
<1> QED BY <1>2, <1>3

-----------------------------------------------------------------------------
(* The sizes sd_sim_reset computes: there is a row for each saved step.    *)
LEMMA Sizes ==
  ASSUME spec \in Specs
  PROVE  /\ nsteps \in Nat
         /\ save_every \in Nat \ {0}
         /\ nsaves \in Nat
         /\ nsteps <= nsaves * save_every
         /\ nsaves * save_every < nsteps + save_every
<1> USE SpecsAssumption
<1>1. /\ spec.start \in Int
      /\ spec.stop \in Int
      /\ spec.dt \in Nat \ {0}
      /\ spec.savestep \in Nat
      /\ spec.rounddown \in BOOLEAN
      /\ spec.stop + spec.dt >= spec.start
      /\ spec.rounddown => spec.stop > spec.start /\ (spec.stop - spec.start) % spec.dt = 0
  BY DEF SimSpec
<1> DEFINE q == (spec.stop - spec.start) \div spec.dt
           m == (spec.stop - spec.start) % spec.dt
<1>2. /\ q \in Int
      /\ m \in 0 .. spec.dt - 1
      /\ spec.stop - spec.start = spec.dt * q + m
  <2>1. spec.stop - spec.start \in Int
    BY <1>1
  <2> QED BY <1>1, <2>1, DivMod
<1>3. q >= -1 /\ (spec.rounddown => q > 0)
  <2> DEFINE x == spec.stop - spec.start
  <2>1. x \in Int /\ x + spec.dt >= 0 /\ (spec.rounddown => x > 0 /\ m = 0)
    BY <1>1
  <2>2. x = spec.dt * q + m
    BY <1>2
  <2> HIDE DEF x, q, m
  <2> QED BY <1>1, <1>2, <2>1, <2>2, QuotientBounds
<1>4. nsteps \in Nat
  BY <1>1, <1>2, <1>3 DEF nsteps
<1>5. save_every \in Nat \ {0}
  <2> DEFINE e == (2 * spec.savestep + spec.dt) \div (2 * spec.dt)
  <2>1. 2 * spec.savestep + spec.dt \in Int /\ 2 * spec.dt \in Nat \ {0}
    BY <1>1
  <2>2. e \in Int
    BY <2>1, DivMod
  <2>3. save_every = IF e > 1 THEN e ELSE 1
    BY DEF save_every
  <2> QED BY <2>2, <2>3
<1> DEFINE d == nsteps \div save_every
           r == nsteps % save_every
<1>6. /\ d \in Int
      /\ r \in 0 .. save_every - 1
      /\ nsteps = save_every * d + r
  BY <1>4, <1>5, DivMod
<1>7. nsaves = d + (IF r # 0 THEN 1 ELSE 0)
  BY DEF nsaves
<1> HIDE DEF d, r, q, m
<1>8. SUFFICES ASSUME NEW N \in Nat, NEW K \in Nat \ {0}, NEW x \in Int, NEW y \in 0 .. K - 1,
                      NEW S, N = K * x + y, S = x + (IF y # 0 THEN 1 ELSE 0)
               PROVE  S \in Nat /\ N <= S * K /\ S * K < N + K
  BY <1>4, <1>5, <1>6, <1>7
<1>9. 0 * K < x * K + K
  BY <1>8
<1>10. x \in Nat
  BY <1>9, MulLess
<1>11. CASE y = 0
  BY <1>8, <1>10, <1>11
<1>12. CASE y # 0
  <2>1. S = x + 1 /\ S * K = K * x + K
    BY <1>8, <1>10, <1>12
  <2> QED BY <1>8, <1>10, <1>12, <2>1
<1> QED BY <1>11, <1>12

(* A step that is saved belongs to the row its number divided gives.       *)
LEMMA SavedStep ==
  ASSUME NEW n \in Nat, NEW s \in Nat, NEW k \in Nat \ {0},
         n <= s * k, s * k < n + k, n % k = 0
  PROVE  s * k = n /\ n \div k = s
<1> DEFINE d == n \div k
<1>1. d \in Int /\ n = k * d
  BY DivMod
<1> HIDE DEF d
<1>2. s * k < d * k + k /\ d * k < s * k + k
  BY <1>1
<1>3. s <= d /\ d <= s
  BY <1>1, <1>2, MulLess
<1>4. d = s
  BY <1>1, <1>3
<1> QED BY <1>1, <1>4 DEF d

(* A step that is not saved leaves room for the next one in its row.       *)
LEMMA UnsavedStep ==
  ASSUME NEW n \in Nat, NEW s \in Nat, NEW k \in Nat \ {0}, n <= s * k, n % k # 0
  PROVE  n + 1 <= s * k
<1>1. n # s * k
  BY MulMod
<1> QED BY <1>1

(* The row of the current step is inside the slab.                         *)
LEMMA CurrInRows ==
  ASSUME spec \in Specs, step \in Nat, save_step \in Nat, CountersAgree
  PROVE  save_step \in Rows
<1>1. /\ nsteps \in Nat
      /\ save_every \in Nat \ {0}
      /\ nsaves \in Nat
      /\ nsteps <= nsaves * save_every
  BY Sizes
<1>2. save_step * save_every < nsaves * save_every + save_every
  BY <1>1 DEF CountersAgree
<1>3. save_step <= nsaves
  BY <1>1, <1>2, MulLess
<1> QED BY <1>1, <1>3 DEF Rows

(* The row after that of the last saved step is missing only in a run whose *)
(* last step is not saved.                                                  *)
LEMMA NextInRows ==
  ASSUME spec \in Specs, step \in Nat, save_step \in Nat, CountersAgree,
         step < nsteps, save_step + 1 \notin Rows
  PROVE  Ragged
<1>1. /\ nsteps \in Nat
      /\ save_every \in Nat \ {0}
      /\ nsaves \in Nat
      /\ nsteps <= nsaves * save_every
      /\ nsaves * save_every < nsteps + save_every
  BY Sizes
<1>2. save_step = nsaves
  BY <1>1, CurrInRows DEF Rows
<1>3. SUFFICES ASSUME (nsteps - 1) % save_every = 0 PROVE FALSE
  BY <1>1 DEF Ragged
<1> DEFINE j == (nsteps - 1) \div save_every
<1>4. j \in Int /\ nsteps - 1 = save_every * j
  <2>1. nsteps - 1 \in Int
    BY <1>1
  <2>2. nsteps - 1 = save_every * j + ((nsteps - 1) % save_every) /\ j \in Int
    BY <1>1, <2>1, DivMod
  <2> QED BY <1>1, <1>3, <2>2
<1> HIDE DEF j
<1>5. nsaves * save_every < (j + 1) * save_every + save_every
  BY <1>1, <1>4
<1>6. nsaves <= j + 1
  BY <1>1, <1>4, <1>5, MulLess
<1>7. (j + 1) * save_every < save_step * save_every + save_every
  BY <1>1, <1>2, <1>4
<1>8. j + 1 <= save_step
  BY <1>1, <1>4, <1>7, MulLess
<1>9. save_step = j + 1
  BY <1>1, <1>2, <1>4, <1>6, <1>8
<1>10. save_step * save_every = nsteps - 1 + save_every
  BY <1>1, <1>4, <1>9
<1> QED BY <1>1, <1>10 DEF CountersAgree

-----------------------------------------------------------------------------
(* The inductive invariant.                                                *)

IInv == TypeOK /\ SlabIsTrajectory /\ FaultsExplained

(* Neither sd_sim_run_to nor sd_sim_reset changes the sim_specs of a run,  *)
(* so nothing derived from them changes.                                   *)
LEMMA SizesFixed ==
  ASSUME spec' = spec
  PROVE  /\ nsteps' = nsteps
         /\ save_every' = save_every
         /\ nsaves' = nsaves
         /\ Rows' = Rows
         /\ \A n : TimeAt(n)' = TimeAt(n)
         /\ \A r : ConstOf(r)' = ConstOf(r)
         /\ \A r : SavedRow(r)' = SavedRow(r)
         /\ Ragged' = Ragged
<1>1. nsteps' = nsteps
  BY DEF nsteps
<1>2. save_every' = save_every
  BY DEF save_every
<1>3. nsaves' = nsaves
  BY <1>1, <1>2 DEF nsaves
<1>4. Rows' = Rows
  BY <1>3 DEF Rows
<1>5. \A n : TimeAt(n)' = TimeAt(n)
  BY DEF TimeAt
<1>6. \A r : ConstOf(r)' = ConstOf(r)
  BY DEF ConstOf
<1>7. \A r : SavedRow(r)' = SavedRow(r)
  BY <1>2, <1>6 DEF SavedRow, TimeAt
<1>8. Ragged' = Ragged
  BY <1>1, <1>2 DEF Ragged
<1> QED BY <1>1, <1>2, <1>3, <1>4, <1>5, <1>6, <1>7, <1>8

LEMMA TimeAtInt ==
  ASSUME spec \in Specs, NEW n \in Int
  PROVE  TimeAt(n) \in Int
<1>1. spec.start \in Int /\ spec.dt \in Int
  BY SpecsAssumption DEF SimSpec
<1> QED BY <1>1 DEF TimeAt

(* The slab a successful sd_sim_reset leaves.                              *)
LEMMA FreshSlabOK ==
  ASSUME spec \in Specs
  PROVE  /\ FreshSlab \in [Rows -> Row]
         /\ 0 \in Rows
         /\ FreshSlab[0] = SavedRow(0)
         /\ \A r \in Rows : r # 0 => FreshSlab[r] = CallocRow
<1>1. nsaves \in Nat /\ save_every \in Nat
  BY Sizes
<1>2. 0 \in Rows /\ 0 * save_every = 0
  BY <1>1 DEF Rows
<1>3. spec.start \in Int /\ spec.dt \in Int /\ spec.gf \in BOOLEAN
  BY SpecsAssumption DEF SimSpec
<1>4. TimeAt(0) = spec.start
  BY <1>3 DEF TimeAt
<1>5. CallocRow \in Row
  BY DEF CallocRow, Row, Zero
<1>6. CalcInitials([CallocRow EXCEPT !.time = spec.start]) = SavedRow(0)
  <2> DEFINE c == IF spec.gf THEN "gf" ELSE "raw"
  <2>1. SavedRow(0) = [time |-> spec.start, stock |-> 0, flow |-> 0, const |-> c]
    BY <1>2, <1>4 DEF SavedRow, ConstOf
  <2>2. CalcInitials([CallocRow EXCEPT !.time = spec.start])
          = [[CallocRow EXCEPT !.time = spec.start] EXCEPT !.stock = 0, !.flow = 0, !.const = c]
    BY DEF CalcInitials
  <2> HIDE DEF c
  <2>3. CalcInitials([CallocRow EXCEPT !.time = spec.start])
          = [time |-> spec.start, stock |-> 0, flow |-> 0, const |-> c]
    BY <2>2 DEF CallocRow
  <2> QED BY <2>1, <2>3
<1>7. SavedRow(0) \in Row
  BY <1>2, <1>3, <1>4 DEF SavedRow, Row, ConstOf
<1> QED BY <1>2, <1>5, <1>6, <1>7 DEF FreshSlab

LEMMA ConstOfOK ==
  /\ \A r : ConstOf(r) \in {"raw", "gf"}
  /\ \A r : r # 0 => ConstOf(r) = "raw"
BY DEF ConstOf

(* What one iteration of the loop computes: curr becomes the complete row  *)
(* of the current step, next the row of the following step without flows.  *)
LEMMA LoopRows ==
  ASSUME IInv, allocated, save_step + 1 \in Rows
  PROVE  /\ CurrRow = [time |-> TimeAt(step), stock |-> step, flow |-> step,
                       const |-> ConstOf(save_step)]
         /\ CurrRow \in Row
         /\ NextRow \in Row
         /\ NextRow.flow = Zero
         /\ TimedNextRow = [time |-> TimeAt(step + 1), stock |-> step + 1, flow |-> Zero,
                            const |-> "raw"]
         /\ TimedNextRow \in Row
<1> DEFINE curr == slab[save_step]
           next == slab[save_step + 1]
<1>1. /\ spec \in Specs
      /\ step \in Nat /\ save_step \in Nat
      /\ slab \in [Rows -> Row]
      /\ save_step \in Rows
  BY DEF IInv, TypeOK, SlabIsTrajectory, RowAtCurr
<1>2. /\ curr \in Row /\ next \in Row
      /\ curr.time = TimeAt(step) /\ curr.stock = step /\ curr.const = ConstOf(save_step)
      /\ next.flow = Zero
  BY <1>1 DEF IInv, SlabIsTrajectory, RowAtCurr, RowsAfterCurr
<1>3. CurrRow = Calc(curr) /\ NextRow = CalcStocks(CurrRow, next)
  BY DEF CurrRow, NextRow, sim_curr, sim_next
<1>4. TimeAt(step) \in Int /\ TimeAt(step + 1) \in Int
  BY <1>1, TimeAtInt
<1> HIDE DEF curr, next
<1>5. Calc(curr) = [curr EXCEPT !.flow = step]
  BY <1>1, <1>2, ConstOfOK DEF Calc
<1>6. CurrRow = [time |-> TimeAt(step), stock |-> step, flow |-> step,
                 const |-> ConstOf(save_step)]
  BY <1>2, <1>3, <1>5 DEF Row
<1>7. NextRow = [next EXCEPT !.stock = step + 1, !.const = "raw"]
  BY <1>1, <1>3, <1>6 DEF CalcStocks
<1>8. NextRow = [time |-> next.time, stock |-> step + 1, flow |-> Zero, const |-> "raw"]
  BY <1>2, <1>7 DEF Row
<1>9. TimedNextRow = [time |-> TimeAt(step + 1), stock |-> step + 1, flow |-> Zero,
                      const |-> "raw"]
  BY <1>8 DEF TimedNextRow
<1>10. CurrRow \in Row
  BY <1>1, <1>4, <1>6, ConstOfOK DEF Row
<1>11. NextRow \in Row
  BY <1>1, <1>2, <1>8 DEF Row, Zero
<1>12. TimedNextRow \in Row
  BY <1>1, <1>4, <1>9 DEF Row, Zero
<1> QED BY <1>6, <1>8, <1>9, <1>10, <1>11, <1>12

(* Every reachable state satisfies the invariant at the start.             *)
LEMMA InitIInv == Init => IInv
<1> SUFFICES ASSUME Init PROVE IInv
  OBVIOUS
<1>1. spec \in Specs /\ nsteps \in Nat /\ save_every \in Nat \ {0}
  BY Sizes DEF Init
<1>2. spec.start \in Int
  BY <1>1, SpecsAssumption DEF SimSpec
<1>3. TypeOK
  BY <1>1, <1>2, FreshSlabOK DEF Init, TypeOK
<1>4. CountersAgree
  BY <1>1 DEF Init, CountersAgree
<1>5. SavedRow(0) = [time |-> TimeAt(0), stock |-> 0, flow |-> 0, const |-> ConstOf(0)]
  BY <1>1 DEF SavedRow
<1>6. RowsBeforeCurr /\ RowAtCurr /\ RowsAfterCurr
  BY <1>1, <1>5, FreshSlabOK
     DEF Init, RowsBeforeCurr, RowAtCurr, RowsAfterCurr, Rows, CallocRow
<1> QED BY <1>3, <1>4, <1>6 DEF Init, IInv, SlabIsTrajectory, FaultsExplained

-----------------------------------------------------------------------------
(* Each action preserves the invariant.                                    *)

LEMMA ResetIInv == IInv /\ Reset => IInv'
<1> SUFFICES ASSUME IInv, Reset PROVE IInv'
  OBVIOUS
<1>1. spec' = spec /\ spec \in Specs /\ pc = "idle" /\ pc' = "idle" /\ fault' = "none"
  BY DEF IInv, TypeOK, Reset
<1>2. nsteps \in Nat /\ save_every \in Nat \ {0}
  BY <1>1, Sizes
<1>3. TypeOK'
  <2>1. /\ spec' \in Specs /\ step' \in Nat /\ save_step' \in Nat /\ allocated' \in BOOLEAN
        /\ pc' \in {"idle", "running"} /\ end' \in Int /\ fault' \in {"none", "null", "bounds"}
    BY <1>1 DEF IInv, TypeOK, Reset
  <2>2. CASE allocated' = TRUE /\ slab' = FreshSlab
    <3>1. slab' \in [Rows' -> Row]
      BY <1>1, <2>2, FreshSlabOK, SizesFixed
    <3> QED BY <2>1, <2>2, <3>1 DEF TypeOK, Row
  <2>3. CASE allocated' = FALSE /\ slab' = << >>
    BY <2>1, <2>3 DEF TypeOK
  <2> QED BY <2>2, <2>3 DEF Reset
<1>4. CountersAgree'
  BY <1>1, <1>2, SizesFixed DEF Reset, CountersAgree
<1>5. ASSUME allocated' PROVE (RowsBeforeCurr /\ RowAtCurr /\ RowsAfterCurr)'
  <2>1. slab' = FreshSlab /\ save_step' = 0 /\ step' = 0
    BY <1>5 DEF Reset
  <2>2. SavedRow(0) = [time |-> TimeAt(0), stock |-> 0, flow |-> 0, const |-> ConstOf(0)]
    BY <1>2 DEF SavedRow
  <2>3. RowsBeforeCurr'
    BY <1>1, <2>1, SizesFixed, Sizes DEF RowsBeforeCurr, Rows
  <2>4. RowAtCurr'
    BY <1>1, <1>2, <2>1, <2>2, SizesFixed, FreshSlabOK DEF RowAtCurr
  <2>5. RowsAfterCurr'
    BY <1>1, <2>1, SizesFixed, FreshSlabOK DEF RowsAfterCurr, Rows, CallocRow
  <2> QED BY <2>3, <2>4, <2>5
<1> QED BY <1>1, <1>3, <1>4, <1>5 DEF IInv, SlabIsTrajectory, FaultsExplained, Reset

(* Entering the loop, leaving it and faulting change none of the data.     *)
LEMMA ControlIInv ==
  ASSUME IInv, UNCHANGED <<spec, step, save_step, slab, allocated>>,
         pc' \in {"idle", "running"}, end' \in Int, fault' \in {"none", "null", "bounds"},
         pc' = "running" => allocated,
         fault' = "bounds" => Ragged,
         fault' = "null" => ~allocated
  PROVE  IInv'
<1>1. /\ nsteps' = nsteps /\ save_every' = save_every /\ Rows' = Rows /\ Ragged' = Ragged
      /\ \A n : TimeAt(n)' = TimeAt(n)
      /\ \A r : ConstOf(r)' = ConstOf(r)
      /\ \A r : SavedRow(r)' = SavedRow(r)
  BY SizesFixed
<1>2. TypeOK'
  BY <1>1 DEF IInv, TypeOK, Row
<1>3. CountersAgree'
  BY <1>1 DEF IInv, SlabIsTrajectory, CountersAgree
<1>4. RowsBeforeCurr => RowsBeforeCurr'
  BY <1>1 DEF RowsBeforeCurr
<1>5. RowAtCurr => RowAtCurr'
  BY <1>1 DEF RowAtCurr
<1>6. RowsAfterCurr => RowsAfterCurr'
  BY <1>1 DEF RowsAfterCurr, CallocRow
<1>7. SlabIsTrajectory'
  BY <1>3, <1>4, <1>5, <1>6 DEF IInv, SlabIsTrajectory, TypeOK
<1>8. FaultsExplained'
  BY <1>1 DEF FaultsExplained
<1> QED BY <1>2, <1>7, <1>8 DEF IInv

LEMMA RunToIInv == IInv /\ (run_to \/ run_to_end) => IInv'
<1> SUFFICES ASSUME IInv, run_to \/ run_to_end PROVE IInv'
  OBVIOUS
<1>1. spec.stop + One \in Int
  BY SpecsAssumption, OneAssumption DEF IInv, TypeOK, SimSpec
<1>2. PICK e \in Int : RunTo(e)
  BY <1>1, EndsAssumption DEF run_to, run_to_end
<1>3. fault' = "none" /\ pc' = "running" /\ allocated
  BY <1>2 DEF RunTo
<1> QED BY <1>2, <1>3, ControlIInv DEF RunTo

LEMMA UseWithoutSlabIInv == IInv /\ UseWithoutSlab => IInv'
<1> SUFFICES ASSUME IInv, UseWithoutSlab PROVE IInv'
  OBVIOUS
<1>1. fault' = "null" /\ pc' = "idle" /\ ~allocated /\ end' \in Int
  BY DEF UseWithoutSlab, IInv, TypeOK
<1> QED BY <1>1, ControlIInv DEF UseWithoutSlab

LEMMA WritePastSlabIInv == IInv /\ WritePastSlab => IInv'
<1> SUFFICES ASSUME IInv, WritePastSlab PROVE IInv'
  OBVIOUS
<1>1. Ragged
  BY NextInRows DEF IInv, TypeOK, SlabIsTrajectory, WritePastSlab, InLoop, sim_next
<1>2. fault' = "bounds" /\ pc' = "idle" /\ end' \in Int
  BY DEF WritePastSlab, IInv, TypeOK
<1> QED BY <1>1, <1>2, ControlIInv DEF WritePastSlab

LEMMA LeaveLoopIInv == IInv /\ LeaveLoop => IInv'
<1> SUFFICES ASSUME IInv, LeaveLoop PROVE IInv'
  OBVIOUS
<1>1. pc' = "idle" /\ end' \in Int /\ fault' = fault
  BY DEF LeaveLoop, IInv, TypeOK
<1> QED BY <1>1, ControlIInv DEF LeaveLoop, IInv, TypeOK, FaultsExplained

(* The facts the three iterations of the loop share.                       *)
LEMMA LoopFacts ==
  ASSUME IInv, InLoop
  PROVE  /\ spec \in Specs /\ allocated
         /\ nsteps \in Nat /\ save_every \in Nat \ {0} /\ nsaves \in Nat
         /\ step \in Nat /\ save_step \in Nat /\ step < nsteps
         /\ slab \in [Rows -> Row]
         /\ save_step \in Rows /\ Rows = 0 .. nsaves
         /\ CountersAgree /\ RowsBeforeCurr /\ RowAtCurr /\ RowsAfterCurr
         /\ end \in Int
<1>1. allocated /\ spec \in Specs
  BY DEF IInv, InLoop, SlabIsTrajectory, TypeOK
<1> QED BY <1>1, Sizes DEF IInv, InLoop, TypeOK, SlabIsTrajectory, RowAtCurr, Rows

LEMMA LastIterateIInv == IInv /\ LastIterate => IInv'
<1> SUFFICES ASSUME IInv, LastIterate PROVE IInv'
  OBVIOUS
<1>1. InLoop /\ save_step + 1 \in Rows /\ allocated
  BY LoopFacts DEF LastIterate, sim_next
<1>2. /\ spec' = spec /\ step' = step /\ save_step' = save_step /\ allocated' = allocated
      /\ end' = end /\ fault' = fault /\ pc' = "idle" /\ step + 1 = nsteps
      /\ slab' = [slab EXCEPT ![save_step] = CurrRow, ![save_step + 1] = NextRow]
  BY DEF LastIterate, sim_curr, sim_next
<1>3. ~Ragged
  <2>1. step + 1 = nsteps /\ save_step + 1 \in Rows /\ nsteps \in Nat /\ save_step * save_every < step + save_every
    BY <1>1, <1>2, LoopFacts DEF CountersAgree
  <2>2. SUFFICES ASSUME step % save_every # 0 PROVE FALSE
    BY <1>1, <2>1, LoopFacts DEF Ragged
  <2>3. step + 1 <= save_step * save_every
    BY <1>1, <2>2, LoopFacts, UnsavedStep DEF CountersAgree
  <2>4. nsaves * save_every < save_step * save_every + save_every
    <3>1. nsaves * save_every < nsteps + save_every /\ save_every \in Int
      BY <1>1, LoopFacts, Sizes
    <3>2. nsaves * save_every \in Int /\ save_step * save_every \in Int
      BY <1>1, LoopFacts
    <3> QED BY <2>1, <2>3, <3>1, <3>2
  <2>5. nsaves <= save_step
    BY <1>1, <2>4, LoopFacts, MulLess
  <2> QED BY <1>1, <2>5, LoopFacts
<1>4. slab' \in [Rows -> Row]
  BY <1>1, <1>2, LoopFacts, LoopRows
<1>5. /\ \A r \in Rows : r # save_step /\ r # save_step + 1 => slab'[r] = slab[r]
      /\ slab'[save_step] = CurrRow
      /\ slab'[save_step + 1] = NextRow
  BY <1>1, <1>2, LoopFacts
<1>6. TypeOK'
  BY <1>1, <1>2, <1>4, LoopFacts, SizesFixed DEF IInv, TypeOK, Row
<1>7. CountersAgree'
  BY <1>1, <1>2, LoopFacts, SizesFixed DEF CountersAgree
<1>8. RowsBeforeCurr'
  BY <1>1, <1>2, <1>5, LoopFacts, SizesFixed DEF RowsBeforeCurr
<1>9. RowAtCurr'
  BY <1>1, <1>2, <1>3, <1>5, LoopFacts, LoopRows, SizesFixed DEF RowAtCurr
<1>10. RowsAfterCurr'
  BY <1>1, <1>2, <1>5, LoopFacts, LoopRows, SizesFixed DEF RowsAfterCurr, CallocRow
<1>11. FaultsExplained'
  BY <1>2, SizesFixed DEF IInv, FaultsExplained
<1> QED BY <1>1, <1>2, <1>6, <1>7, <1>8, <1>9, <1>10, <1>11 DEF IInv, SlabIsTrajectory

LEMMA CopyIterateIInv == IInv /\ CopyIterate => IInv'
<1> SUFFICES ASSUME IInv, CopyIterate PROVE IInv'
  OBVIOUS
<1>1. InLoop /\ save_step + 1 \in Rows /\ allocated
  BY LoopFacts DEF CopyIterate, sim_next
<1>2. /\ spec' = spec /\ step' = step + 1 /\ save_step' = save_step /\ allocated' = allocated
      /\ end' = end /\ fault' = fault /\ pc' = pc /\ step + 1 # nsteps
      /\ step % save_every # 0
      /\ slab' = [slab EXCEPT ![save_step] = TimedNextRow, ![save_step + 1] = TimedNextRow]
  BY DEF CopyIterate, sim_curr, sim_next
<1>3. slab' \in [Rows -> Row]
  BY <1>1, <1>2, LoopFacts, LoopRows
<1>4. /\ \A r \in Rows : r # save_step /\ r # save_step + 1 => slab'[r] = slab[r]
      /\ slab'[save_step] = TimedNextRow
      /\ slab'[save_step + 1] = TimedNextRow
  BY <1>1, <1>2, LoopFacts
<1>5. TypeOK'
  <2>1. step' \in Nat /\ save_step' \in Nat /\ slab' \in [Rows' -> Row]
    BY <1>1, <1>2, <1>3, LoopFacts, SizesFixed
  <2> QED BY <1>1, <1>2, <2>1 DEF IInv, TypeOK, Row
<1>6. step + 1 <= save_step * save_every
  BY <1>1, <1>2, LoopFacts, UnsavedStep DEF CountersAgree
<1>7. save_step # 0
  BY <1>1, <1>6, LoopFacts
<1>8. CountersAgree'
  <2>1. nsteps' = nsteps /\ save_every' = save_every
    BY <1>2, SizesFixed
  <2>2. step \in Nat /\ nsteps \in Nat /\ save_every \in Nat \ {0} /\ step + 1 < nsteps
    BY <1>1, <1>2, LoopFacts
  <2>3. save_step' * save_every' = save_step * save_every
    BY <1>2, <2>1
  <2>4. save_step * save_every < step + save_every /\ save_step * save_every \in Int
    BY <1>1, <2>2, LoopFacts DEF CountersAgree
  <2>5. step' = step + 1
    BY <1>2
  <2> QED BY <1>6, <2>1, <2>2, <2>3, <2>4, <2>5 DEF CountersAgree
<1>9. RowsBeforeCurr'
  BY <1>1, <1>2, <1>4, LoopFacts, SizesFixed DEF RowsBeforeCurr
<1>10. RowAtCurr'
  BY <1>1, <1>2, <1>4, <1>7, LoopFacts, LoopRows, SizesFixed, ConstOfOK DEF RowAtCurr, Zero
<1>11. RowsAfterCurr'
  BY <1>1, <1>2, <1>4, LoopFacts, LoopRows, SizesFixed DEF RowsAfterCurr, CallocRow
<1>12. FaultsExplained'
  BY <1>2, SizesFixed DEF IInv, FaultsExplained
<1> QED BY <1>1, <1>2, <1>5, <1>8, <1>9, <1>10, <1>11, <1>12 DEF IInv, SlabIsTrajectory

LEMMA SaveIterateIInv == IInv /\ SaveIterate => IInv'
<1> SUFFICES ASSUME IInv, SaveIterate PROVE IInv'
  OBVIOUS
<1>1. InLoop /\ save_step + 1 \in Rows /\ allocated
  BY LoopFacts DEF SaveIterate, sim_next
<1>2. /\ spec' = spec /\ step' = step + 1 /\ save_step' = save_step + 1 /\ allocated' = allocated
      /\ end' = end /\ fault' = fault /\ pc' = pc /\ step + 1 # nsteps
      /\ step % save_every = 0
      /\ slab' = [slab EXCEPT ![save_step] = CurrRow, ![save_step + 1] = TimedNextRow]
  BY DEF SaveIterate, sim_curr, sim_next
<1>3. slab' \in [Rows -> Row]
  BY <1>1, <1>2, LoopFacts, LoopRows
<1>4. /\ \A r \in Rows : r # save_step /\ r # save_step + 1 => slab'[r] = slab[r]
      /\ slab'[save_step] = CurrRow
      /\ slab'[save_step + 1] = TimedNextRow
  BY <1>1, <1>2, LoopFacts
<1>5. TypeOK'
  <2>1. step' \in Nat /\ save_step' \in Nat /\ slab' \in [Rows' -> Row]
    BY <1>1, <1>2, <1>3, LoopFacts, SizesFixed
  <2> QED BY <1>1, <1>2, <2>1 DEF IInv, TypeOK, Row
<1>6. save_step * save_every = step
  BY <1>1, <1>2, LoopFacts, SavedStep DEF CountersAgree
<1>7. (save_step + 1) * save_every = step + save_every
  BY <1>1, <1>6, LoopFacts
<1>8. CountersAgree'
  <2>1. nsteps' = nsteps /\ save_every' = save_every
    BY <1>2, SizesFixed
  <2>2. step \in Nat /\ nsteps \in Nat /\ save_every \in Nat \ {0} /\ step + 1 < nsteps
    BY <1>1, <1>2, LoopFacts
  <2>3. step' = step + 1
    BY <1>2
  <2>4. save_step' * save_every' = step + save_every
    BY <1>2, <1>7, <2>1
  <2>5. step' < nsteps' /\ step' <= step + save_every /\ step + save_every < step' + save_every'
    BY <2>1, <2>2, <2>3
  <2> QED BY <2>4, <2>5 DEF CountersAgree
<1>9. CurrRow = SavedRow(save_step)
  BY <1>1, <1>6, LoopRows DEF SavedRow
<1>10. RowsBeforeCurr'
  BY <1>1, <1>2, <1>4, <1>9, LoopFacts, SizesFixed DEF RowsBeforeCurr
<1>11. RowAtCurr'
  BY <1>1, <1>2, <1>4, LoopFacts, LoopRows, SizesFixed, ConstOfOK DEF RowAtCurr, Zero
<1>12. RowsAfterCurr'
  BY <1>1, <1>2, <1>4, LoopFacts, LoopRows, SizesFixed DEF RowsAfterCurr, CallocRow
<1>13. FaultsExplained'
  BY <1>2, SizesFixed DEF IInv, FaultsExplained
<1> QED BY <1>1, <1>2, <1>5, <1>8, <1>10, <1>11, <1>12, <1>13 DEF IInv, SlabIsTrajectory

-----------------------------------------------------------------------------
(* The invariant holds in every reachable state: from a fresh reset, each  *)
(* call a client can make and each iteration of the loop preserves it.     *)
THEOREM IInvHolds == Spec => []IInv
<1>1. Init => IInv
  BY InitIInv
<1>2. IInv /\ [Next]_vars => IInv'
  <2> SUFFICES ASSUME IInv, [Next]_vars PROVE IInv'
    OBVIOUS
  <2>1. CASE Reset
    BY <2>1, ResetIInv
  <2>2. CASE run_to \/ run_to_end
    BY <2>2, RunToIInv
  <2>3. CASE UseWithoutSlab
    BY <2>3, UseWithoutSlabIInv
  <2>4. CASE WritePastSlab
    BY <2>4, WritePastSlabIInv
  <2>5. CASE LastIterate
    BY <2>5, LastIterateIInv
  <2>6. CASE CopyIterate
    BY <2>6, CopyIterateIInv
  <2>7. CASE SaveIterate
    BY <2>7, SaveIterateIInv
  <2>8. CASE LeaveLoop
    BY <2>8, LeaveLoopIInv
  <2>9. CASE UNCHANGED vars
    <3>1. /\ UNCHANGED <<spec, step, save_step, slab, allocated, pc, end, fault>>
          /\ pc \in {"idle", "running"} /\ end \in Int /\ fault \in {"none", "null", "bounds"}
          /\ pc = "running" => allocated
          /\ fault = "bounds" => Ragged
          /\ fault = "null" => ~allocated
      BY <2>9 DEF vars, IInv, TypeOK, SlabIsTrajectory, FaultsExplained
    <3> QED BY <3>1, ControlIInv
  <2> QED BY <2>1, <2>2, <2>3, <2>4, <2>5, <2>6, <2>7, <2>8, <2>9 DEF Next, Loop
<1> QED BY <1>1, <1>2, PTL DEF Spec

(* The slab has nsaves+1 rows, and every variable keeps its type.          *)
THEOREM TypeCorrect == Spec => []TypeOK
BY IInvHolds, PTL DEF IInv

(* Whatever the sim_specs and the calls, the slab holds the Euler run.     *)
THEOREM SlabCorrect == Spec => []SlabIsTrajectory
BY IInvHolds, PTL DEF IInv

(* sd_sim_run_to stays inside the slab whenever savestep divides the run.  *)
THEOREM FaultsOnlyWhenRagged == Spec => []FaultsExplained
BY IInvHolds, PTL DEF IInv

(* No call after a reset writes a row before curr: an iteration writes the *)
(* rows of curr and next, and everything else leaves the slab alone.       *)
THEOREM RowsFrozen == Spec => SavedRowsFrozen
<1>1. IInv /\ [Next]_vars =>
        [step' # 0 => \A r \in Rows : r < save_step => slab'[r] = slab[r]]_vars
  <2> SUFFICES ASSUME IInv, [Next]_vars, step' # 0, NEW r \in Rows, r < save_step
               PROVE  slab'[r] = slab[r]
    OBVIOUS
  <2>1. CASE Reset
    BY <2>1 DEF Reset
  <2>2. CASE LastIterate \/ CopyIterate \/ SaveIterate
    <3>1. slab \in [Rows -> Row] /\ save_step \in Nat /\ r \in Nat
      BY <2>2, LoopFacts DEF LastIterate, CopyIterate, SaveIterate
    <3>2. r # sim_curr /\ r # sim_next
      BY <3>1 DEF sim_curr, sim_next
    <3> QED BY <2>2, <3>1, <3>2 DEF LastIterate, CopyIterate, SaveIterate
  <2>3. CASE run_to \/ run_to_end \/ UseWithoutSlab \/ WritePastSlab \/ LeaveLoop \/ UNCHANGED vars
    BY <2>3 DEF run_to, run_to_end, RunTo, UseWithoutSlab, WritePastSlab, LeaveLoop, vars
  <2> QED BY <2>1, <2>2, <2>3 DEF Next, Loop
<1> QED BY <1>1, IInvHolds, PTL DEF Spec, SavedRowsFrozen

(* sd_sim_run_to returns from its loop condition or from the break at the  *)
(* last step; both leave curr at the row the client asked for.             *)
THEOREM ReturnsCorrect == Spec => ReturnsWhereAsked
<1> DEFINE Asked == \/ slab'[save_step'].time > end
                    \/ (step' + 1 = nsteps /\ slab'[save_step'].flow = step')
                    \/ nsteps = 0
<1>1. IInv /\ [Next]_vars => [pc = "running" /\ pc' = "idle" /\ fault' = "none" => Asked]_vars
  <2> SUFFICES ASSUME IInv, [Next]_vars, pc = "running", pc' = "idle", fault' = "none"
               PROVE  Asked
    OBVIOUS
  <2>1. CASE LastIterate
    <3>1. /\ save_step' = save_step /\ step' = step /\ step + 1 = nsteps
          /\ slab' = [slab EXCEPT ![save_step] = CurrRow, ![save_step + 1] = NextRow]
          /\ InLoop /\ save_step + 1 \in Rows
      BY <2>1 DEF LastIterate, sim_curr, sim_next
    <3>2. slab \in [Rows -> Row] /\ save_step \in Rows /\ save_step \in Nat
      BY <3>1, LoopFacts
    <3>3. allocated
      BY <3>1, LoopFacts
    <3>4. slab'[save_step] = CurrRow
      BY <3>1, <3>2
    <3>5. CurrRow.flow = step
      BY <3>1, <3>3, LoopRows
    <3> QED BY <3>1, <3>4, <3>5
  <2>2. CASE LeaveLoop
    <3>1. /\ save_step' = save_step /\ slab' = slab
          /\ ~(step < nsteps /\ slab[save_step].time <= end)
      BY <2>2 DEF LeaveLoop, InLoop, sim_curr
    <3>2. /\ allocated /\ spec \in Specs /\ end \in Int
          /\ slab \in [Rows -> Row] /\ save_step \in Rows /\ step \in Nat
          /\ step = 0 \/ step < nsteps
          /\ slab[save_step].time = TimeAt(step)
      BY DEF IInv, TypeOK, SlabIsTrajectory, CountersAgree, RowAtCurr
    <3>3. nsteps \in Nat /\ slab[save_step].time \in Int
      BY <3>2, Sizes, TimeAtInt
    <3> QED BY <3>1, <3>2, <3>3
  <2>3. CASE Reset \/ run_to \/ run_to_end \/ UseWithoutSlab
    BY <2>3 DEF Reset, run_to, run_to_end, RunTo, UseWithoutSlab
  <2>4. CASE WritePastSlab \/ CopyIterate \/ SaveIterate \/ UNCHANGED vars
    BY <2>4 DEF WritePastSlab, CopyIterate, SaveIterate, vars
  <2> QED BY <2>1, <2>2, <2>3, <2>4 DEF Next, Loop
<1> QED BY <1>1, IInvHolds, PTL DEF Spec, ReturnsWhereAsked

-----------------------------------------------------------------------------
(* A row before curr is read as a kept step.                               *)
LEMMA KeptBeforeCurr ==
  ASSUME IInv, NEW r \in 0 .. save_step - 1
  PROVE  allocated /\ slab[r] = SavedRow(r) /\ KeptRow(r) = r * save_every
<1>1. /\ spec \in Specs /\ step \in Nat /\ save_step \in Nat /\ CountersAgree
      /\ allocated => slab \in [Rows -> Row] /\ RowsBeforeCurr
      /\ ~allocated => step = 0
  BY DEF IInv, TypeOK, SlabIsTrajectory
<1>2. save_every \in Nat \ {0} /\ nsaves \in Nat /\ save_step \in Rows
  BY <1>1, Sizes, CurrInRows
<1>3. allocated
  <2>1. SUFFICES ASSUME step = 0 PROVE FALSE
    BY <1>1
  <2>2. save_step * save_every < 0 * save_every + save_every
    BY <1>1, <1>2, <2>1 DEF CountersAgree
  <2>3. save_step <= 0
    BY <1>1, <1>2, <2>2, MulLess
  <2> QED BY <1>1, <2>3
<1>4. r \in Rows /\ r < save_step
  BY <1>1, <1>2 DEF Rows
<1>5. slab[r] = SavedRow(r) /\ r \in DOMAIN slab
  BY <1>1, <1>3, <1>4 DEF RowsBeforeCurr
<1>6. ConstOf(r) # "zero"
  BY ConstOfOK
<1> QED BY <1>3, <1>5, <1>6 DEF SavedRow, KeptRow

(* The record of the run, as the refinement mapping reads it.              *)
kept == [r \in 0 .. save_step - 1 |-> KeptRow(r)]

saved == [r \in 0 .. save_step - 1 |-> r * save_every]

RecordKept == kept = saved

LEMMA RecordIsKept == IInv => RecordKept
BY KeptBeforeCurr DEF RecordKept, kept, saved

LEMMA NextRecordIsKept == IInv' => RecordKept'
BY RecordIsKept, PTL

-----------------------------------------------------------------------------
(* The slab after a reset is an empty record.                              *)
LEMMA InitRefines == Init => Abstract!Init
<1> SUFFICES ASSUME Init PROVE Abstract!Init
  OBVIOUS
<1>1. nsteps - 1 \in Int /\ save_every \in Nat \ {0}
  BY Sizes DEF Init
<1>2. save_step = 0 /\ step = 0
  BY DEF Init
<1>3. [r \in 0 .. save_step - 1 |-> KeptRow(r)] = [i \in 0 .. -1 |-> 0]
  BY <1>2
<1> QED BY <1>1, <1>2, <1>3 DEF Abstract!Init

(* Each step of the engine is one of Trajectory or changes nothing that    *)
(* Trajectory has: a saved iteration keeps a step, another only advances,  *)
(* a reset starts again, and the rest is between the engine and its client. *)
LEMMA StepRefines == IInv /\ IInv' /\ [Next]_vars => [Abstract!Next]_(Abstract!vars)
<1> SUFFICES ASSUME IInv, IInv', [Next]_vars
             PROVE  [Abstract!Next]_(Abstract!vars)
  OBVIOUS
<1> DEFINE Same == nsteps' - 1 = nsteps - 1 /\ save_every' = save_every
<1>1. Same
  <2>1. spec' = spec
    BY DEF Next, Reset, run_to, run_to_end, RunTo, UseWithoutSlab, Loop, WritePastSlab,
           LastIterate, CopyIterate, SaveIterate, LeaveLoop, vars
  <2> QED BY <2>1, SizesFixed
<1>2. kept = saved /\ kept' = saved'
  BY RecordIsKept, NextRecordIsKept DEF RecordKept
<1>3. ASSUME save_step' = save_step PROVE kept' = kept
  BY <1>1, <1>2, <1>3 DEF saved
<1>4. CASE Reset
  <2>1. step' = 0 /\ save_step' = 0
    BY <1>4 DEF Reset
  <2>2. kept' = [i \in 0 .. -1 |-> 0]
    BY <1>2, <2>1 DEF saved
  <2> QED BY <1>1, <2>1, <2>2 DEF kept, Abstract!Next, Abstract!Restart
<1>5. CASE CopyIterate
  <2>1. InLoop /\ step' = step + 1 /\ step + 1 # nsteps /\ step % save_every # 0
        /\ save_step' = save_step
    BY <1>5 DEF CopyIterate
  <2>2. step < nsteps - 1
    BY <2>1, LoopFacts
  <2>3. kept' = kept
    BY <1>3, <2>1
  <2> QED BY <1>1, <2>1, <2>2, <2>3 DEF kept, Abstract!Next, Abstract!Advance
<1>6. CASE SaveIterate
  <2>1. InLoop /\ step' = step + 1 /\ step + 1 # nsteps /\ step % save_every = 0
        /\ save_step' = save_step + 1
    BY <1>6 DEF SaveIterate
  <2>2. step < nsteps - 1
    BY <2>1, LoopFacts
  <2>3. step \div save_every = save_step
    BY <2>1, LoopFacts, SavedStep DEF CountersAgree
  <2>4. kept' = [i \in 0 .. (step \div save_every) |-> i * save_every]
    <3>1. save_step' - 1 = step \div save_every
      BY <2>1, <2>3, LoopFacts
    <3> QED BY <1>1, <1>2, <3>1 DEF saved
  <2> QED BY <1>1, <2>1, <2>2, <2>4 DEF kept, Abstract!Next, Abstract!Keep
<1>7. CASE \/ run_to \/ run_to_end \/ UseWithoutSlab \/ WritePastSlab
           \/ LastIterate \/ LeaveLoop \/ UNCHANGED vars
  <2>1. step' = step /\ save_step' = save_step
    BY <1>7 DEF run_to, run_to_end, RunTo, UseWithoutSlab, WritePastSlab, LastIterate,
                LeaveLoop, vars
  <2>2. kept' = kept
    BY <1>3, <2>1
  <2> QED BY <1>1, <2>1, <2>2 DEF kept, Abstract!vars
<1> QED BY <1>4, <1>5, <1>6, <1>7 DEF Next, Loop

(* The engine implements Trajectory: with sd_sim_run_to called any number  *)
(* of times with any ends, and sd_sim_reset in between, the rows before    *)
(* curr are the record of one Euler run.                                   *)
THEOREM EngineImplementsTrajectory == Spec => ImplementsTrajectory
<1>1. Init => Abstract!Init
  BY InitRefines
<1>2. IInv /\ IInv' /\ [Next]_vars => [Abstract!Next]_(Abstract!vars)
  BY StepRefines
<1> QED BY <1>1, <1>2, IInvHolds, PTL DEF Spec, ImplementsTrajectory, Abstract!Spec

-----------------------------------------------------------------------------
(* A run that is finished has one saved row for each element that          *)
(* sd_sim_get_stepcount counts, and curr is the last of them.              *)
LEMMA LastRowOfFinished ==
  ASSUME IInv, Finished
  PROVE  /\ nsaves \in Nat /\ save_step = nsaves - 1
         /\ DOMAIN slab = 0 .. nsaves
         /\ \A r \in 0 .. nsaves - 1 : slab[r] = SavedRow(r)
<1>1. /\ spec \in Specs /\ step \in Nat /\ save_step \in Nat /\ allocated
      /\ CountersAgree /\ RowsBeforeCurr /\ RowAtCurr
      /\ slab \in [Rows -> Row] /\ step + 1 = nsteps
      /\ slab[save_step].flow = step
  BY DEF IInv, TypeOK, SlabIsTrajectory, Finished, sim_curr
<1>2. /\ nsteps \in Nat /\ save_every \in Nat \ {0} /\ nsaves \in Nat
      /\ nsteps <= nsaves * save_every
      /\ nsaves * save_every < nsteps + save_every
  BY <1>1, Sizes
<1>3. save_step * save_every = step
  <2>1. CASE step = 0
    <3>1. save_step * save_every < 0 * save_every + save_every
      BY <1>1, <1>2, <2>1 DEF CountersAgree
    <3>2. save_step = 0
      BY <1>1, <1>2, <3>1, MulLess
    <3> QED BY <1>2, <2>1, <3>2
  <2>2. CASE step # 0
    <3>1. step % save_every = 0
      BY <1>1, <1>2, <2>2 DEF RowAtCurr, Ragged
    <3> QED BY <1>1, <1>2, <3>1, SavedStep DEF CountersAgree
  <2> QED BY <2>1, <2>2
<1>4. save_step = nsaves - 1
  <2>1. nsaves * save_every < (save_step + 1) * save_every + save_every
    BY <1>1, <1>2, <1>3
  <2>2. nsaves <= save_step + 1
    BY <1>1, <1>2, <2>1, MulLess
  <2>3. nsaves # save_step
    BY <1>1, <1>2, <1>3
  <2>4. save_step * save_every < nsaves * save_every + save_every
    BY <1>1, <1>2, <1>3
  <2>5. save_step <= nsaves
    BY <1>1, <1>2, <2>4, MulLess
  <2> QED BY <1>1, <1>2, <2>2, <2>3, <2>5
<1>5. slab[save_step] = SavedRow(save_step)
  BY <1>1, <1>3 DEF RowAtCurr, SavedRow, Row
<1>6. ASSUME NEW r \in 0 .. nsaves - 1 PROVE slab[r] = SavedRow(r)
  BY <1>1, <1>2, <1>4, <1>5 DEF RowsBeforeCurr, Rows
<1> QED BY <1>1, <1>2, <1>4, <1>6 DEF Rows

(* After a finished run sd_sim_get_series, with a buffer of as many        *)
(* elements as sd_sim_get_stepcount returns, fills it with one element per *)
(* saved step of the run, up to the values sd_sim_get_value returns.       *)
THEOREM SeriesCorrect == Spec => []SeriesIsTrajectory
<1>1. IInv => SeriesIsTrajectory
  <2> SUFFICES ASSUME IInv, Finished PROVE SeriesIsTrajectory
    BY DEF SeriesIsTrajectory
  <2> DEFINE series == sd_sim_get_series(sd_sim_get_stepcount)
  <2>1. /\ nsaves \in Nat /\ save_step = nsaves - 1 /\ save_step \in Nat
        /\ \A r \in 0 .. nsaves - 1 : slab[r] = SavedRow(r)
    BY LastRowOfFinished DEF IInv, TypeOK
  <2>2. {j \in Rows : j < sd_sim_get_stepcount} = 0 .. nsaves - 1
    BY <2>1 DEF Rows, sd_sim_get_stepcount
  <2>3. series = [i \in 0 .. nsaves - 1 |-> slab[i]]
    BY <2>2 DEF sd_sim_get_series
  <2>4. series[nsaves - 1] = sd_sim_get_value
    BY <2>1, <2>3 DEF sd_sim_get_value, sim_curr
  <2> QED BY <2>1, <2>3, <2>4 DEF SeriesIsTrajectory
<1> QED BY <1>1, IInvHolds, PTL

=============================================================================
