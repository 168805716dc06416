----------------------------- MODULE MCInitScripts -----------------------------
(***************************************************************************)
(* Small instances of InitScripts for TLC.                                 *)
(***************************************************************************)
EXTENDS InitScripts

MCScripts == [g \in Stage |-> IF g = "READY" THEN 2 ELSE 1]
=============================================================================
