------------------------------ MODULE AsyncBatcher ------------------------------
(***************************************************************************)
(* AsyncBatcher of localstack/utils/batching.py: any number of threads add *)
(* items, one thread runs the loop that hands batches to the handler, and  *)
(* some thread closes the batcher. The critical sections of _flush_lock    *)
(* are single steps; wait() gives the lock up, and gets it back in a step   *)
(* of its own after the notification or the timeout.                       *)
(***************************************************************************)
EXTENDS Naturals, Sequences

CONSTANTS
  Item,          \* what is added
  max_batch_size,
  MaxItems       \* bound: number of accepted items

ASSUME BatchSizeAssumption == max_batch_size \in Nat \ {0}
ASSUME MaxItemsAssumption == MaxItems \in Nat

VARIABLES
  buffer,    \* _buffer
  closed,    \* _closed
  run,       \* what the thread in run() does next
  notified,  \* the waiting thread was notified
  batch,     \* the batch run() took from the buffer
  handled,   \* history: items passed to the handler
  added      \* history: items add() accepted

vars == <<buffer, closed, run, notified, batch, handled, added>>

Run == {"loop", "lock", "waiting", "flush", "handle", "returned"}

Init ==
  /\ buffer = <<>> /\ batch = <<>>
  /\ closed = FALSE
  /\ run = "loop"
  /\ notified = FALSE
  /\ handled = <<>> /\ added = <<>>

(* notify_all() reaches the thread that waits at this moment, or nobody.   *)
NotifyAll == notified' = (notified \/ run = "waiting")

-----------------------------------------------------------------------------
(* A closed batcher raises ValueError.                                     *)
Add(item) ==
  /\ ~closed
  /\ Len(added) < MaxItems
  /\ buffer' = Append(buffer, item)
  /\ added' = Append(added, item)
  /\ IF Len(buffer') >= max_batch_size THEN NotifyAll ELSE UNCHANGED notified
  /\ UNCHANGED <<closed, run, batch, handled>>

Close ==
  /\ ~closed
  /\ closed' = TRUE
  /\ NotifyAll
  /\ UNCHANGED <<buffer, run, batch, handled, added>>

-----------------------------------------------------------------------------
(* Variant: while True                                                     *)
LoopForever ==
  /\ run = "loop"
  /\ run' = "lock"
  /\ UNCHANGED <<buffer, closed, notified, batch, handled, added>>

(* while not self._closed, read without the lock                           *)
Loop ==
  /\ run = "loop"
  /\ run' = IF closed THEN "returned" ELSE "lock"
  /\ UNCHANGED <<buffer, closed, notified, batch, handled, added>>

(* with self._flush_lock: self._flush_lock.wait(...)                       *)
EnterWait ==
  /\ run = "lock"
  /\ run' = "waiting"
  /\ notified' = FALSE
  /\ UNCHANGED <<buffer, closed, batch, handled, added>>

(* wait() returns because of a notification or after max_flush_interval.   *)
Wake ==
  /\ run = "waiting"
  /\ run' = "flush"
  /\ notified' = FALSE
  /\ UNCHANGED <<buffer, closed, batch, handled, added>>

(* Variant: the buffer is not cleared after it was copied.                 *)
FlushCopy ==
  /\ run = "flush"
  /\ run' = IF buffer = <<>> THEN "loop" ELSE "handle"
  /\ batch' = buffer
  /\ UNCHANGED <<buffer, closed, notified, handled, added>>

(* Variant: the handler is called even when there is nothing to flush.     *)
FlushAlways ==
  /\ run = "flush"
  /\ run' = "handle"
  /\ batch' = buffer
  /\ buffer' = <<>>
  /\ UNCHANGED <<closed, notified, handled, added>>

(* The rest of the critical section, with the lock taken again.            *)
Flush ==
  /\ run = "flush"
  /\ run' = IF buffer = <<>> THEN "loop" ELSE "handle"
  /\ batch' = buffer
  /\ buffer' = <<>>
  /\ UNCHANGED <<closed, notified, handled, added>>

(* The handler gets the batch outside the lock; an exception is logged.    *)
Handle ==
  /\ run = "handle"
  /\ run' = "loop"
  /\ handled' = handled \o batch
  /\ batch' = <<>>
  /\ UNCHANGED <<buffer, closed, notified, added>>

RunStep == Loop \/ EnterWait \/ Wake \/ Flush \/ Handle

(* Nobody adds or closes any more.                                         *)
Returned == run = "returned" /\ UNCHANGED vars

Next == (\E item \in Item : Add(item)) \/ Close \/ RunStep \/ Returned

Spec == Init /\ [][Next]_vars

(* The thread of run() is scheduled, its wait times out, and the handler    *)
(* returns. Nothing obliges anybody to add or to close.                    *)
FairSpec == Spec /\ WF_vars(RunStep)

-----------------------------------------------------------------------------
(* Properties.                                                             *)

TypeOK ==
  /\ buffer \in Seq(Item) /\ batch \in Seq(Item)
  /\ handled \in Seq(Item) /\ added \in Seq(Item)
  /\ closed \in BOOLEAN
  /\ run \in Run
  /\ notified \in BOOLEAN
  /\ (batch # <<>>) <=> (run = "handle")

(* Every accepted item is in exactly one place and in its order, although  *)
(* producers add while the loop copies, clears and handles: handed to the  *)
(* handler, in the current batch, or in the buffer.                        *)
NothingLost == added = handled \o batch \o buffer

(* The batcher implements the queue: items are handed on once, in order,   *)
(* while it is open they are all handed on, and a closed batcher ends.     *)
phase == IF ~closed THEN "open" ELSE IF run = "returned" THEN "ended" ELSE "closed"

Queue == INSTANCE BatchQueue WITH pending <- buffer, handed <- handled \o batch

ImplementsQueue == Queue!Spec

-----------------------------------------------------------------------------
(* What the code's own words say and the code does not do.                 *)

(* batching.py:252, close() "will cause one last flush, and then end the   *)
(* main event loop".                                                       *)
LastFlush == run = "returned" => buffer = <<>>
=============================================================================
