--------------------------- MODULE MCRuntimeLifecycle ---------------------------
(***************************************************************************)
(* Small instances of RuntimeLifecycle for TLC.                            *)
(***************************************************************************)
EXTENDS RuntimeLifecycle
=============================================================================
