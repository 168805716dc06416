-------------------------------- MODULE MCServers --------------------------------
(***************************************************************************)
(* Two owners; the server of one is shut down twice, the other keeps its   *)
(* port.                                                                   *)
(***************************************************************************)
EXTENDS Servers

MCStoppers == [o \in Owners |-> IF o = "a" THEN {"k", "l"} ELSE {}]
================================================================================
