----------------------------- MODULE Trajectory -----------------------------
(***************************************************************************)
(* What the simulation engine promises its client: a run advances one      *)
(* Euler step at a time from start to stop, it keeps the values of every   *)
(* every-th step, in order and complete, and only a reset forgets them.    *)
(***************************************************************************)
EXTENDS Integers

VARIABLES
  last,    \* the number of the last step of the run; -1 for a run of no steps
  every,   \* one step in every so many is kept
  now,     \* the number of the current step
  kept     \* the kept steps, a function from 0..m-1

vars == <<last, every, now, kept>>

Init ==
  /\ last \in Int
  /\ every \in Nat \ {0}
  /\ now = 0
  /\ kept = [i \in 0 .. -1 |-> 0]

\* a step that is not kept
Advance ==
  /\ now < last
  /\ now % every # 0
  /\ now' = now + 1
  /\ UNCHANGED <<last, every, kept>>

\* a kept step joins the end of the record of the run
Keep ==
  /\ now < last
  /\ now % every = 0
  /\ now' = now + 1
  /\ kept' = [i \in 0 .. (now \div every) |-> i * every]
  /\ UNCHANGED <<last, every>>

Restart ==
  /\ now' = 0
  /\ kept' = [i \in 0 .. -1 |-> 0]
  /\ UNCHANGED <<last, every>>

Next == Advance \/ Keep \/ Restart

Spec == Init /\ [][Next]_vars

=============================================================================
