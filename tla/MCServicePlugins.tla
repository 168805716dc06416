--------------------------- MODULE MCServicePlugins ---------------------------
(***************************************************************************)
(* Small instances of ServicePlugins for TLC.                              *)
(***************************************************************************)
EXTENDS ServicePlugins, TLC

ThreadSymmetry == Permutations(Thread)
=============================================================================
