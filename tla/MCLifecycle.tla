---------------------------- MODULE MCLifecycle -----------------------------
(***************************************************************************)
(* Two threads and one or two simulations of a model that has two modules  *)
(* of the same model.                                                      *)
(***************************************************************************)
EXTENDS Lifecycle, TLC

CONSTANT sub

MCSubs == <<sub, sub>>

ThreadSymmetry == Permutations(Threads)

=============================================================================
