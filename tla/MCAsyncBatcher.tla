----------------------------- MODULE MCAsyncBatcher -----------------------------
(***************************************************************************)
(* Small instances of AsyncBatcher for TLC.                                *)
(***************************************************************************)
EXTENDS AsyncBatcher
=============================================================================
