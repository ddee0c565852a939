------------------------------ MODULE MCSimRun ------------------------------
(* Instances of SimRun for TLC.                                            *)
EXTENDS SimRun

\* the longest run and the largest ratio of savestep to dt considered
MaxStop == 6
MaxSave == 5

MCSpecs ==
  {s \in [start: {0, 1}, stop: -1 .. MaxStop, dt: {1, 2}, savestep: 0 .. MaxSave,
          rounddown: BOOLEAN, gf: BOOLEAN] : s \in SimSpec}

\* before start, inside the run, at the end of it
MCEnds == {-1, 2, 5}

=============================================================================
