------------------------------- MODULE BatchQueue -------------------------------
(***************************************************************************)
(* What a batcher promises: the items it accepts are handed on once each   *)
(* and in the order they came, a whole batch at a time, until it ends; a    *)
(* batcher that was closed ends, and accepts nothing from then on.         *)
(***************************************************************************)
EXTENDS Sequences

CONSTANT Item

VARIABLES
  pending,  \* accepted items that were not handed on
  handed,   \* items handed on
  phase     \* "open", "closed" or "ended"

vars == <<pending, handed, phase>>

Init == pending = <<>> /\ handed = <<>> /\ phase = "open"

Accept ==
  /\ phase = "open"
  /\ \E i \in Item : pending' = Append(pending, i)
  /\ UNCHANGED <<handed, phase>>

Hand ==
  /\ phase # "ended" /\ pending # <<>>
  /\ handed' = handed \o pending
  /\ pending' = <<>>
  /\ UNCHANGED phase

Close == phase = "open" /\ phase' = "closed" /\ UNCHANGED <<pending, handed>>

End == phase = "closed" /\ phase' = "ended" /\ UNCHANGED <<pending, handed>>

Next == Accept \/ Hand \/ Close \/ End

Spec == Init /\ [][Next]_vars /\ WF_vars(End) /\ WF_vars(Hand)
=============================================================================
