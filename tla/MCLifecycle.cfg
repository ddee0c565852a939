CONSTANTS
  Threads = {t1, t2}
  Sims = {1, 2}
  Root = main
  sub = sub
  Subs <- MCSubs
  MaxHandles = 1
SPECIFICATION Spec
SYMMETRY ThreadSymmetry
CHECK_DEADLOCK FALSE
INVARIANTS
  NoUseAfterFree
  CountsMatchHolders
