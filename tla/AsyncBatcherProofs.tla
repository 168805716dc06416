--------------------------- MODULE AsyncBatcherProofs ---------------------------
(***************************************************************************)
(* What AsyncBatcher keeps for any items, batch size and number of items:  *)
(* nothing accepted is lost, and every step is a step of BatchQueue.       *)
(***************************************************************************)
EXTENDS AsyncBatcher, SequenceTheorems, TLAPS

(* The loop is left only when the batcher was closed.                      *)
ReturnedInv == run = "returned" => closed

IInv == TypeOK /\ NothingLost /\ ReturnedInv

LEMMA TypeInit == Init => IInv
<1> SUFFICES ASSUME Init PROVE IInv
  OBVIOUS
<1>1. <<>> \in Seq(Item) /\ <<>> \o <<>> \o <<>> = <<>>
  OBVIOUS
<1>2. TypeOK
  BY <1>1 DEF Init, TypeOK, Run
<1>3. NothingLost
  BY <1>1 DEF Init, NothingLost
<1>4. ReturnedInv
  BY DEF Init, ReturnedInv
<1> QED
  BY <1>2, <1>3, <1>4 DEF IInv

(* An accepted item joins the end of the buffer and of the history alike.  *)
LEMMA AddKeepsInv ==
  ASSUME IInv, NEW item \in Item, Add(item)
  PROVE  IInv'
<1> USE DEF IInv, TypeOK, Run
<1>1. TypeOK'
  <2>1. notified' \in BOOLEAN
    <3>1. CASE Len(buffer') >= max_batch_size
      BY <3>1 DEF Add, NotifyAll
    <3>2. CASE ~(Len(buffer') >= max_batch_size)
      BY <3>2 DEF Add
    <3> QED
      BY <3>1, <3>2
  <2>2. buffer' \in Seq(Item) /\ added' \in Seq(Item)
    BY DEF Add
  <2> QED
    BY <2>1, <2>2 DEF Add
<1>2. handled \o batch \in Seq(Item)
  OBVIOUS
<1>3. Append(handled \o batch \o buffer, item) = handled \o batch \o Append(buffer, item)
  <2>1. Append(buffer, item) = buffer \o <<item>>
    OBVIOUS
  <2>2. Append(handled \o batch \o buffer, item) = (handled \o batch \o buffer) \o <<item>>
    BY SMTT(60), <1>2
  <2>3. (handled \o batch \o buffer) \o <<item>> = handled \o batch \o (buffer \o <<item>>)
    BY SMTT(60), <1>2, ConcatAssociative
  <2> QED
    BY <2>1, <2>2, <2>3
<1>4. NothingLost'
  BY <1>3 DEF Add, NothingLost
<1>5. ReturnedInv'
  BY DEF Add, ReturnedInv
<1> QED
  BY <1>1, <1>4, <1>5

(* The loop moves the buffer to the batch and the batch to the handler.    *)
LEMMA RunKeepsInv == IInv /\ RunStep => IInv'
<1> SUFFICES ASSUME IInv, RunStep PROVE IInv'
  OBVIOUS
<1> USE DEF IInv, TypeOK, Run, NothingLost, ReturnedInv
<1>1. CASE Loop
  BY <1>1 DEF Loop
<1>2. CASE EnterWait
  BY <1>2 DEF EnterWait
<1>3. CASE Wake
  BY <1>3 DEF Wake
<1>4. CASE Flush
  <2>1. batch = <<>>
    BY <1>4 DEF Flush
  <2>2. handled \o <<>> \o buffer = handled \o buffer \o <<>>
    BY ConcatEmptySeq
  <2>3. NothingLost'
    BY <1>4, <2>1, <2>2 DEF Flush
  <2>4. TypeOK'
    BY <1>4 DEF Flush
  <2>5. ReturnedInv'
    BY <1>4 DEF Flush
  <2> QED
    BY <2>3, <2>4, <2>5
<1>5. CASE Handle
  <2>1. handled \o batch \in Seq(Item)
    OBVIOUS
  <2>2. (handled \o batch) \o <<>> = handled \o batch
    BY <2>1, ConcatEmptySeq
  <2>3. NothingLost'
    BY <1>5, <2>2 DEF Handle
  <2>4. TypeOK'
    BY <1>5, <2>1 DEF Handle
  <2>5. ReturnedInv'
    BY <1>5 DEF Handle
  <2> QED
    BY <2>3, <2>4, <2>5
<1> QED
  BY <1>1, <1>2, <1>3, <1>4, <1>5 DEF RunStep

LEMMA Invariance == Spec => []IInv
<1>1. IInv /\ [Next]_vars => IInv'
  <2> SUFFICES ASSUME IInv, [Next]_vars PROVE IInv'
    OBVIOUS
  <2>1. CASE Close
    BY <2>1 DEF Close, NotifyAll, IInv, TypeOK, NothingLost, ReturnedInv
  <2>2. CASE UNCHANGED vars
    BY <2>2 DEF vars, IInv, TypeOK, NothingLost, ReturnedInv
  <2> QED
    BY <2>1, <2>2, AddKeepsInv, RunKeepsInv DEF Next, Returned
<1> QED
  BY <1>1, TypeInit, PTL DEF Spec

(* TypeOK, for any items.                                                  *)
THEOREM TypeCorrect == Spec => []TypeOK
<1>1. IInv => TypeOK
  BY DEF IInv
<1> QED
  BY <1>1, Invariance, PTL

(* NothingLost: every accepted item is handed on once, in its order, or    *)
(* still to be.                                                            *)
THEOREM AcceptedIsKept == Spec => []NothingLost
<1>1. IInv => NothingLost
  BY DEF IInv
<1> QED
  BY <1>1, Invariance, PTL

(* Every step of the batcher is a step of the abstract queue, or none.     *)
THEOREM StepsOfQueue == Spec => Queue!Init /\ [][Queue!Next]_(Queue!vars)
<1> USE DEF Queue!Next, Queue!vars, phase
<1>1. Init => Queue!Init
  BY DEF Init, Queue!Init
<1>2. IInv /\ [Next]_vars => [Queue!Next]_(Queue!vars)
  <2> SUFFICES ASSUME IInv, [Next]_vars PROVE [Queue!Next]_(Queue!vars)
    OBVIOUS
  <2> USE DEF IInv, TypeOK, Run, ReturnedInv
  <2>1. ASSUME NEW item \in Item, Add(item) PROVE Queue!Accept
    <3>1. ~closed /\ UNCHANGED <<closed, run, batch, handled>>
      BY <2>1 DEF Add
    <3>2. buffer' = Append(buffer, item)
      BY <2>1 DEF Add
    <3> QED
      BY <3>1, <3>2 DEF Queue!Accept
  <2>2. CASE Close
    BY <2>2 DEF Close, Queue!Close, Queue!End
  <2>3. CASE Loop
    BY <2>3 DEF Loop, Queue!End
  <2>4. CASE EnterWait \/ Wake
    BY <2>4 DEF EnterWait, Wake
  <2>5. CASE Flush
    <3>1. batch = <<>> /\ handled \o <<>> = handled
      BY <2>5, ConcatEmptySeq DEF Flush
    <3> QED
      BY <2>5, <3>1 DEF Flush, Queue!Hand
  <2>6. CASE Handle
    <3>1. handled \o batch \in Seq(Item)
      OBVIOUS
    <3>2. handled' \o batch' = handled \o batch
      BY <2>6, <3>1, ConcatEmptySeq DEF Handle
    <3> QED
      BY <2>6, <3>2 DEF Handle
  <2>7. CASE UNCHANGED vars
    BY <2>7 DEF vars
  <2> QED
    BY <2>1, <2>2, <2>3, <2>4, <2>5, <2>6, <2>7 DEF Next, RunStep, Returned
<1> QED
  BY <1>1, <1>2, Invariance, PTL DEF Spec
=============================================================================
