----------------------------- MODULE MCServiceLoader -----------------------------
(***************************************************************************)
(* Small instances of ServiceLoader for TLC.                               *)
(***************************************************************************)
EXTENDS ServiceLoader
=============================================================================
