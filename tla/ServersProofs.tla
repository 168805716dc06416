----------------------------- MODULE ServersProofs -----------------------------
(***************************************************************************)
(* No two threads hold the same port of reserve_port(), and a server that  *)
(* was joined is over: for any number of threads, any range, any stoppers. *)
(***************************************************************************)
EXTENDS Servers, SequenceTheorems, TLAPS

(* What reserve_port() goes by: its thread holds the lock while it looks    *)
(* for a port, the port it is about to mark is not reserved, and what it   *)
(* gave away is.                                                           *)
InLock == {"try", "reserve"}

Labels ==
  {"idle", "try", "reserve", "again", "mark", "again range", "check range", "mark range",
   "returned", "refused"}
Call == [at : Labels, todo : Seq(Nat), tries : Nat, ports : Seq(Nat)]

CallsInv ==
  /\ calls \in [Owners -> Call]
  /\ leases \in [Owners -> SUBSET Nat]
  /\ \A o \in Owners : calls[o].at \in InLock => calls[o].todo \in Seq(InRange)

LockInv == \A o \in Owners : calls[o].at \in InLock => portsLock = o

FreshInv ==
  \A o \in Owners :
    calls[o].at = "reserve" => calls[o].todo # <<>> /\ Head(calls[o].todo) \notin reserved

LeasesInv == \A o \in Owners : leases[o] \subseteq reserved

IInv == CallsInv /\ LockInv /\ FreshInv /\ LeasesInv /\ ReservationsExclusive
-----------------------------------------------------------------------------
(* A prefix of the range is a sequence of its ports, and so is what is left *)
(* of one.                                                                  *)
LEMMA PortsOfRange ==
  /\ InRange \subseteq Nat
  /\ [i \in 1..(End - Start + 1) |-> Start + i - 1] \in Seq(InRange)
  /\ \A p \in InRange : <<p>> \in Seq(InRange)
  /\ Seq(InRange) \subseteq Seq(Nat)
<1>1. InRange \subseteq Nat
  BY RangeAssumption DEF InRange
<1>5. ASSUME NEW n \in Nat, NEW f \in [1..n -> InRange] PROVE f \in Seq(InRange)
  BY SeqDef
<1>2. [i \in 1..(End - Start + 1) |-> Start + i - 1] \in Seq(InRange)
  <2>1. CASE Start <= End
    <3>1. End - Start + 1 \in Nat
      BY <2>1, RangeAssumption
    <3>2. [i \in 1..(End - Start + 1) |-> Start + i - 1] \in [1..(End - Start + 1) -> InRange]
      BY <2>1, RangeAssumption DEF InRange
    <3> QED  BY <3>1, <3>2, <1>5
  <2>2. CASE Start > End
    <3>1. 1..(End - Start + 1) = 1..0
      BY <2>2, RangeAssumption
    <3>2. [i \in 1..0 |-> Start + i - 1] \in [1..0 -> InRange]
      OBVIOUS
    <3>3. [i \in 1..0 |-> Start + i - 1] \in Seq(InRange)
      BY <3>2, <1>5
    <3> QED  BY <3>1, <3>3
  <2> QED  BY <2>1, <2>2, RangeAssumption
<1>3. \A p \in InRange : <<p>> \in Seq(InRange)
  OBVIOUS
<1>4. \A s \in Seq(InRange) : s \in Seq(Nat)
  BY <1>1, SeqMonotonic
<1> QED  BY <1>1, <1>2, <1>3, <1>4

(* At first nobody calls and nothing is reserved. *)
LEMMA InitInv == Init => IInv
<1> SUFFICES ASSUME Init PROVE IInv
  OBVIOUS
<1>1. CallsInv
  <2>1. Idle \in Call
    <3>1. <<>> \in Seq(Nat)
      BY EmptySeq
    <3> QED  BY <3>1 DEF Idle, Call, Labels
  <2>2. Idle.at \notin InLock
    BY DEF Idle, InLock
  <2> QED  BY <2>1, <2>2 DEF Init, PortsInit, CallsInv
<1> QED
  BY <1>1 DEF Init, PortsInit, IInv, LockInv, FreshInv, LeasesInv, ReservationsExclusive, Idle, InLock

(* A returned call starts and ends outside the lock. *)
LEMMA Ends == 
  /\ Idle \in Call
  /\ \A ports \in Seq(Nat) : [Idle EXCEPT !.at = "returned", !.ports = ports] \in Call
  /\ [Idle EXCEPT !.at = "refused"] \in Call
<1>1. <<>> \in Seq(Nat)
  BY EmptySeq
<1> QED  BY <1>1 DEF Idle, Call, Labels

(* The steps of a call that touch neither the reservations nor the leases,  *)
(* and leave the call of o outside the lock.                                *)
LEMMA OutsideLock ==
  ASSUME IInv, NEW o \in Owners, NEW c \in Call, c.at \notin InLock,
         calls' = [calls EXCEPT ![o] = c],
         leases' = leases, reserved' = reserved,
         portsLock' = portsLock \/ portsLock = o
  PROVE  IInv'
<1> USE DEF IInv
<1>1. CallsInv'
  BY DEF CallsInv
<1>2. \A q \in Owners : q # o => calls'[q] = calls[q]
  BY DEF CallsInv
<1>3. calls'[o] = c
  BY DEF CallsInv
<1>4. LockInv'
  BY <1>2, <1>3 DEF LockInv
<1>5. FreshInv'
  BY <1>2, <1>3 DEF FreshInv, InLock
<1> QED  BY <1>1, <1>4, <1>5 DEF LeasesInv, ReservationsExclusive

(* The marks of get_free_tcp_port and get_free_tcp_port_range need the lock *)
(* free, so no other call is about to mark the same port.                   *)
LEMMA MarksInTurn ==
  ASSUME IInv, NEW o \in Owners, NEW c \in Call, c.at \notin InLock,
         calls' = [calls EXCEPT ![o] = c],
         NEW p, MarkReserved(p),
         leases' = leases, portsLock = "free", portsLock' = portsLock
  PROVE  IInv'
<1> USE DEF IInv
<1>1. \A q \in Owners : calls[q].at \notin InLock
  BY OwnerAssumption DEF LockInv
<1>2. \A q \in Owners : calls'[q].at \notin InLock
  BY <1>1 DEF CallsInv
<1>3. CallsInv'
  BY <1>2 DEF CallsInv
<1>4. LockInv' /\ FreshInv'
  BY <1>2 DEF LockInv, FreshInv, InLock
<1>5. reserved \subseteq reserved'
  BY DEF MarkReserved
<1> QED  BY <1>3, <1>4, <1>5 DEF LeasesInv, ReservationsExclusive

-----------------------------------------------------------------------------
(* Each step of PortRange keeps the invariant: one lemma per function. *)
LEMMA ReserveStep ==
  ASSUME IInv, NEW o \in Owners,
         ReservePort(o) \/ TryReservePort(o) \/ Reserve(o)
  PROVE  IInv'
<1> USE DEF IInv
<1>0. calls[o] \in Call /\ calls[o].todo \in Seq(Nat)
  BY DEF CallsInv, Call
<1>1. CASE ReservePort(o)
  <2>1. PICK todo \in Seq(InRange) : calls' = [calls EXCEPT ![o].at = "try", ![o].todo = todo]
    BY <1>1, PortsOfRange DEF ReservePort
  <2>2. todo \in Seq(Nat)
    BY PortsOfRange
  <2>3. \A q \in Owners : calls[q].at \notin InLock
    BY <1>1, OwnerAssumption DEF ReservePort, TakesPortsLock, LockInv
  <2>4. calls' = [calls EXCEPT ![o] = [calls[o] EXCEPT !.at = "try", !.todo = todo]]
    BY <2>1 DEF CallsInv
  <2>5. [calls[o] EXCEPT !.at = "try", !.todo = todo] \in Call
    BY <1>0, <2>2 DEF Call, Labels
  <2>6. /\ calls'[o].at = "try" /\ calls'[o].todo = todo
        /\ \A q \in Owners : q # o => calls'[q].at \notin InLock
    BY <2>3, <2>4, <1>0 DEF CallsInv, Call
  <2>7. CallsInv'
    BY <1>1, <2>4, <2>5, <2>6 DEF CallsInv, ReservePort
  <2>8. LockInv' /\ FreshInv'
    BY <1>1, <2>6 DEF ReservePort, TakesPortsLock, LockInv, FreshInv, InLock
  <2> QED  BY <1>1, <2>7, <2>8 DEF ReservePort, LeasesInv, ReservationsExclusive
<1>2. CASE TryReservePort(o)
  <2> DEFINE p == Head(calls[o].todo)
  <2>1. calls[o].at = "try" /\ calls[o].todo # <<>> /\ calls[o].todo \in Seq(InRange)
    BY <1>2 DEF TryReservePort, CallsInv, InLock
  <2>2. Tail(calls[o].todo) \in Seq(InRange)
    BY <2>1, HeadTailProperties
  <2>3. Tail(calls[o].todo) \in Seq(Nat)
    BY <2>2, PortsOfRange
  <2>4. \/ calls' = [calls EXCEPT ![o] = [calls[o] EXCEPT !.todo = Tail(calls[o].todo)]]
        \/ p \notin reserved /\ calls' = [calls EXCEPT ![o] = [calls[o] EXCEPT !.at = "reserve"]]
    BY <1>2 DEF TryReservePort, Goto, IsPortReserved, CallsInv
  <2>5. /\ [calls[o] EXCEPT !.todo = Tail(calls[o].todo)] \in Call
        /\ [calls[o] EXCEPT !.at = "reserve"] \in Call
    BY <1>0, <2>3 DEF Call, Labels
  <2>6. \A q \in Owners : q # o => calls'[q] = calls[q]
    BY <2>4 DEF CallsInv
  <2>7. /\ calls'[o] \in Call /\ calls'[o].todo \in Seq(InRange) /\ calls'[o].at \in InLock
        /\ calls'[o].at = "reserve" => calls'[o].todo # <<>> /\ Head(calls'[o].todo) \notin reserved
    BY <1>0, <2>1, <2>2, <2>4, <2>5 DEF CallsInv, Call, InLock
  <2>8. CallsInv'
    BY <1>2, <2>4, <2>5, <2>6, <2>7 DEF CallsInv, TryReservePort
  <2>9. LockInv' /\ FreshInv'
    BY <1>2, <2>1, <2>6, <2>7 DEF TryReservePort, LockInv, FreshInv, InLock
  <2> QED  BY <1>2, <2>8, <2>9 DEF TryReservePort, LeasesInv, ReservationsExclusive
<1>3. CASE Reserve(o)
  <2> DEFINE p == Head(calls[o].todo)
  <2>1. calls[o].at = "reserve" /\ calls[o].todo # <<>> /\ calls[o].todo \in Seq(InRange) /\ p \notin reserved
    BY <1>3 DEF Reserve, CallsInv, InLock, FreshInv
  <2>2. p \in InRange /\ p \in Nat
    BY <2>1, HeadTailProperties, PortsOfRange
  <2>3. <<p>> \in Seq(Nat)
    BY <2>2, PortsOfRange
  <2> DEFINE c == [Idle EXCEPT !.at = "returned", !.ports = <<p>>]
  <2>4. c \in Call /\ c.at = "returned"
    BY <2>3, Ends DEF Idle
  <2>5. calls' = [calls EXCEPT ![o] = c]
    BY <1>3 DEF Reserve, Return
  <2>6. \A q \in Owners : calls'[q].at \notin InLock
    <3>1. portsLock = o
      BY <2>1 DEF LockInv, InLock
    <3>2. \A q \in Owners : q # o => calls[q].at \notin InLock
      BY <3>1 DEF LockInv
    <3> QED  BY <3>2, <2>4, <2>5 DEF CallsInv, InLock
  <2>7. reserved' = reserved \union {p} /\ leases' = [leases EXCEPT ![o] = @ \union {p}]
    BY <1>3, <2>2 DEF Reserve, MarkReserved
  <2>8. CallsInv'
    BY <2>2, <2>4, <2>5, <2>6, <2>7 DEF CallsInv
  <2>9. LockInv' /\ FreshInv'
    BY <2>6 DEF LockInv, FreshInv, InLock
  <2>10. LeasesInv'
    BY <2>7 DEF LeasesInv, CallsInv
  <2>11. ReservationsExclusive'
    BY <2>1, <2>7 DEF ReservationsExclusive, LeasesInv, CallsInv
  <2> QED  BY <2>8, <2>9, <2>10, <2>11
<1> QED  BY <1>1, <1>2, <1>3

LEMMA RefusedStep ==
  ASSUME IInv, NEW o \in Owners,
         ReserveOutside(o) \/ NoneReserved(o) \/ AttemptsSpent(o)
  PROVE  IInv'
<1> DEFINE c == [Idle EXCEPT !.at = "refused"]
<1>1. c \in Call /\ c.at \notin InLock
  BY Ends DEF Idle, InLock
<1>2. calls' = [calls EXCEPT ![o] = c] /\ leases' = leases /\ reserved' = reserved
  BY DEF ReserveOutside, NoneReserved, AttemptsSpent, PortNotAvailable
<1>3. portsLock' = portsLock \/ portsLock = o
  BY DEF ReserveOutside, NoneReserved, AttemptsSpent, IInv, LockInv, InLock
<1> QED  BY <1>1, <1>2, <1>3, OutsideLock

LEMMA FreePortStep ==
  ASSUME IInv, NEW o \in Owners,
         FreePort(o) \/ MarkFreePort(o)
  PROVE  IInv'
<1>0. calls[o] \in Call /\ calls \in [Owners -> Call]
  BY DEF IInv, CallsInv
<1>1. CASE FreePort(o)
  <2>1. PICK p \in SystemPorts :
          \/ calls' = [calls EXCEPT ![o].at = "again", ![o].tries = @ + 1]
          \/ calls' = [calls EXCEPT ![o].at = "mark", ![o].todo = <<p>>]
    BY <1>1 DEF FreePort
  <2>2. p \in Nat
    BY RangeAssumption
  <2>3. <<p>> \in Seq(Nat)
    BY <2>2
  <2>4. PICK c \in Call : c.at \notin InLock /\ calls' = [calls EXCEPT ![o] = c]
    <3>1. CASE calls' = [calls EXCEPT ![o].at = "again", ![o].tries = @ + 1]
      <4> DEFINE c == [calls[o] EXCEPT !.at = "again", !.tries = @ + 1]
      <4>1. c \in Call /\ c.at \notin InLock
        <5>1. c.at = "again"
          BY <1>0 DEF Call
        <5>2. calls[o].tries + 1 \in Nat
          BY <1>0 DEF Call
        <5>3. c \in Call
          BY <1>0, <5>2 DEF Call, Labels
        <5> QED  BY <5>1, <5>3 DEF InLock
      <4>2. calls' = [calls EXCEPT ![o] = c]
        BY <3>1, <1>0
      <4> QED  BY <4>1, <4>2
    <3>2. CASE calls' = [calls EXCEPT ![o].at = "mark", ![o].todo = <<p>>]
      <4> DEFINE c == [calls[o] EXCEPT !.at = "mark", !.todo = <<p>>]
      <4>1. c \in Call /\ c.at \notin InLock
        <5>1. c.at = "mark"
          BY <1>0 DEF Call
        <5>2. c \in Call
          BY <1>0, <2>3 DEF Call, Labels
        <5> QED  BY <5>1, <5>2 DEF InLock
      <4>2. calls' = [calls EXCEPT ![o] = c]
        BY <3>2, <1>0
      <4> QED  BY <4>1, <4>2
    <3> QED  BY <2>1, <3>1, <3>2
  <2> QED  BY <1>1, <2>4, OutsideLock DEF FreePort
<1>2. CASE MarkFreePort(o)
  <2> DEFINE c == [Idle EXCEPT !.at = "returned", !.ports = calls[o].todo]
  <2>1. c \in Call /\ c.at \notin InLock
    <3>1. calls[o].todo \in Seq(Nat)
      BY <1>0 DEF Call
    <3>2. c.at = "returned"
      BY DEF Idle
    <3> QED  BY <3>1, <3>2, Ends DEF InLock
  <2>2. /\ calls' = [calls EXCEPT ![o] = c] /\ MarkReserved(Head(calls[o].todo))
        /\ leases' = leases /\ portsLock = "free" /\ portsLock' = portsLock
    BY <1>2 DEF MarkFreePort, Return
  <2> QED  BY <2>1, <2>2, MarksInTurn
<1> QED  BY <1>1, <1>2

LEMMA PortRangeStep ==
  ASSUME IInv, NEW o \in Owners,
         PickRange(o) \/ CheckRange(o) \/ MarkRange(o)
  PROVE  IInv'
<1>0. calls[o] \in Call /\ calls \in [Owners -> Call]
  BY DEF IInv, CallsInv
<1>4. Len(calls[o].todo) > 1 => Tail(calls[o].todo) \in Seq(Nat)
  <2>1. calls[o].todo \in Seq(Nat)
    BY <1>0 DEF Call
  <2>2. Len(calls[o].todo) > 1 => calls[o].todo # <<>>
    BY <2>1, EmptySeq
  <2> QED  BY <2>1, <2>2, HeadTailProperties
<1> DEFINE rest == [calls[o] EXCEPT !.todo = Tail(calls[o].todo)]
<1>5. Len(calls[o].todo) > 1 => rest \in Call /\ rest.at = calls[o].at
  BY <1>0, <1>4 DEF Call
<1>1. CASE PickRange(o)
  <2>1. PICK range \in Candidates :
          calls' = [calls EXCEPT ![o].at = "check range", ![o].todo = range, ![o].ports = range]
    BY <1>1 DEF PickRange
  <2>2. range \in Seq(Nat)
    <3>1. range \in [1..RangeSize -> Nat] /\ RangeSize \in Nat
      BY RangeAssumption DEF Candidates
    <3> QED  BY <3>1, SeqDef
  <2> DEFINE c == [calls[o] EXCEPT !.at = "check range", !.todo = range, !.ports = range]
  <2>3. c \in Call /\ c.at \notin InLock
    BY <1>0, <2>2 DEF Call, Labels, InLock
  <2>4. calls' = [calls EXCEPT ![o] = c]
    BY <2>1, <1>0
  <2> QED  BY <1>1, <2>3, <2>4, OutsideLock DEF PickRange
<1>2. CASE CheckRange(o)
  <2> DEFINE again == [Idle EXCEPT !.at = "again range", !.tries = calls[o].tries + 1]
             mark == [calls[o] EXCEPT !.at = "mark range", !.todo = calls[o].ports]
  <2>1. \/ calls' = [calls EXCEPT ![o] = again]
        \/ calls' = [calls EXCEPT ![o] = mark]
        \/ Len(calls[o].todo) > 1 /\ calls' = [calls EXCEPT ![o] = rest]
    BY <1>2 DEF CheckRange
  <2>2. again \in Call /\ again.at \notin InLock
    <3>1. calls[o].tries + 1 \in Nat /\ <<>> \in Seq(Nat)
      BY <1>0, EmptySeq DEF Call
    <3> QED  BY <3>1 DEF Call, Labels, InLock, Idle
  <2>3. mark \in Call /\ mark.at \notin InLock
    BY <1>0 DEF Call, Labels, InLock
  <2>4. Len(calls[o].todo) > 1 => rest \in Call /\ rest.at \notin InLock
    BY <1>2, <1>5 DEF CheckRange, InLock
  <2>5. reserved' = reserved /\ leases' = leases /\ portsLock' = portsLock
    BY <1>2 DEF CheckRange
  <2> QED  BY <2>1, <2>2, <2>3, <2>4, <2>5, OutsideLock
<1>3. CASE MarkRange(o)
  <2> DEFINE done == [Idle EXCEPT !.at = "returned", !.ports = calls[o].ports]
  <2>1. \/ Len(calls[o].todo) > 1 /\ calls' = [calls EXCEPT ![o] = rest]
        \/ calls' = [calls EXCEPT ![o] = done]
    BY <1>3, <1>0 DEF MarkRange, Return
  <2>2. Len(calls[o].todo) > 1 => rest \in Call /\ rest.at \notin InLock
    BY <1>3, <1>5 DEF MarkRange, InLock
  <2>3. done \in Call /\ done.at \notin InLock
    <3>1. calls[o].ports \in Seq(Nat)
      BY <1>0 DEF Call
    <3>2. done.at = "returned"
      BY DEF Idle
    <3> QED  BY <3>1, <3>2, Ends DEF InLock
  <2>4. /\ MarkReserved(Head(calls[o].todo)) /\ leases' = leases
        /\ portsLock = "free" /\ portsLock' = portsLock
    BY <1>3 DEF MarkRange
  <2> QED  BY <2>1, <2>2, <2>3, <2>4, MarksInTurn
<1> QED  BY <1>1, <1>2, <1>3

(* A reservation that expires ends the lease of whoever has it. *)
LEMMA ExpireStep ==
  ASSUME IInv, NEW p \in InRange, Expire(p)
  PROVE  IInv'
<1> USE DEF IInv
<1>1. /\ calls' = calls /\ portsLock' = portsLock /\ reserved' = reserved \ {p}
      /\ leases' = [o \in Owners |-> leases[o] \ {p}]
  BY DEF Expire
<1>2. CallsInv'
  BY <1>1 DEF CallsInv
<1>3. LockInv' /\ FreshInv'
  BY <1>1 DEF LockInv, FreshInv
<1> QED  BY <1>1, <1>2, <1>3 DEF LeasesInv, ReservationsExclusive

-----------------------------------------------------------------------------
LEMMA PortsInvariant == Spec => []IInv
<1>1. Init => IInv
  BY InitInv
<1>2. IInv /\ [Next]_vars => IInv'
  <2> SUFFICES ASSUME IInv, [Next]_vars PROVE IInv'
    OBVIOUS
  <2>1. CASE UNCHANGED portVars
    BY <2>1 DEF portVars, IInv, CallsInv, LockInv, FreshInv, LeasesInv, ReservationsExclusive
  <2>2. ASSUME NEW o \in Owners, PortsNext(o) PROVE IInv'
    BY <2>2, ReserveStep, RefusedStep, FreePortStep, PortRangeStep DEF PortsNext
  <2>3. ASSUME NEW p \in InRange, Expire(p) PROVE IInv'
    BY <2>3, ExpireStep
  <2>4. ASSUME NEW o \in Owners,
               \/ StartThread(o) \/ SetStarted(o) \/ Join(o) \/ ThreadNext(o)
               \/ \E k \in Stoppers[o] : Shutdown(o, k) \/ FinishShutdown(o, k)
        PROVE  UNCHANGED portVars
    BY <2>4 DEF StartThread, SetStarted, Join, ThreadNext, Serve, CloseServer, Interrupt, SetStopped,
                SetResult, Shutdown, FinishShutdown
  <2>5. UNCHANGED vars => UNCHANGED portVars
    BY DEF vars, portVars
  <2> QED  BY <2>1, <2>2, <2>3, <2>4, <2>5 DEF Next
<1> QED  BY <1>1, <1>2, PTL DEF Spec

(* Two threads that reserve_port() gave a port never have the same one     *)
(* before its reservation expires, for any range and any number of threads:*)
(* what get_free_tcp_port and get_free_tcp_port_range mark at the same time *)
(* does not matter.                                                        *)
THEOREM PortsReservedOnce == Spec => []ReservationsExclusive
<1>1. IInv => ReservationsExclusive
  BY DEF IInv
<1> QED  BY <1>1, PortsInvariant, PTL

-----------------------------------------------------------------------------
(* The servers. *)
Holders == {"free"} \union Owners \union UNION {Stoppers[o] : o \in Owners}
Threads == {"new", "running", "serving", "left", "stopped", "over"}
Server ==
  [started : BOOLEAN, stopped : BOOLEAN, lock : Holders, thread : Threads, close : BOOLEAN,
   closed : BOOLEAN, loop : {"usable", "stopped", "closed"},
   result : {"none", "error", "value", "interrupted"}, app : {"open", "closed"}]

ServerTypes ==
  /\ servers \in [Owners -> Server]
  /\ DOMAIN stopper = Owners
  /\ \A o \in Owners : DOMAIN stopper[o] = Stoppers[o]
  /\ joined \subseteq Owners

(* One start() gets through: between the start of the thread and _started  *)
(* it holds the lock, and a shutdown() that holds it found _started set.   *)
StartInv ==
  \A o \in Owners :
    /\ ~servers[o].started =>
         servers[o].lock = o \/ (servers[o].lock = "free" /\ servers[o].thread = "new")
    /\ servers[o].started \/ servers[o].lock = o => servers[o].thread # "new"
    /\ \A k \in Stoppers[o] : stopper[o][k] = "closing" => servers[o].started

(* The thread has the port its owner was given, no result before it serves, *)
(* and is over when it was joined.                                         *)
ThreadInv ==
  \A o \in Owners :
    /\ servers[o].thread # "new" => calls[o].at = "returned"
    /\ servers[o].thread \in {"new", "running"} => servers[o].result = "none"
    /\ o \in joined => servers[o].started /\ servers[o].thread = "over"

(* A port is bound by a server that serves on it, or was interrupted.      *)
BoundInv == \A p \in bound : \E o \in Owners : Holds(o) /\ Port(o) = p

SInv == ServerTypes /\ StartInv /\ ThreadInv /\ BoundInv
-----------------------------------------------------------------------------
LEMMA InitServers == Init => SInv
<1> SUFFICES ASSUME Init PROVE SInv
  OBVIOUS
<1>1. NewServer \in Server
  BY DEF NewServer, Server, Holders, Threads
<1>2. ServerTypes
  BY <1>1 DEF Init, ServerTypes
<1>3. ThreadInv
  BY DEF Init, ThreadInv, NewServer
<1>5. \A o \in Owners : servers[o] = NewServer /\ \A k \in Stoppers[o] : stopper[o][k] = "idle"
  BY DEF Init
<1>7. ASSUME NEW o \in Owners
      PROVE  servers[o].started = FALSE /\ servers[o].lock = "free" /\ servers[o].thread = "new" /\ o # "free"
  <2>1. servers[o] = NewServer /\ o # "free"
    BY <1>5, OwnerAssumption
  <2> QED  BY <2>1 DEF NewServer
<1>6. StartInv
  BY <1>5, <1>7 DEF StartInv
<1>4. BoundInv
  BY DEF Init, PortsInit, BoundInv
<1> QED  BY <1>2, <1>3, <1>4, <1>6 DEF SInv

(* A call that goes on has not returned, and changes no other call.        *)
LEMMA CallGoesOn ==
  ASSUME IInv, NEW o \in Owners, PortsNext(o)
  PROVE  /\ calls[o].at # "returned"
         /\ \A q \in Owners : q # o => calls'[q] = calls[q]
         /\ bound' = bound
<1>1. calls \in [Owners -> Call]
  BY DEF IInv, CallsInv
<1>2. CASE ReservePort(o) \/ ReserveOutside(o) \/ TryReservePort(o)
  BY <1>1, <1>2 DEF ReservePort, ReserveOutside, TryReservePort, PortNotAvailable, Goto
<1>3. CASE Reserve(o) \/ NoneReserved(o) \/ AttemptsSpent(o)
  BY <1>1, <1>3 DEF Reserve, NoneReserved, AttemptsSpent, PortNotAvailable, Return
<1>4. CASE FreePort(o) \/ MarkFreePort(o)
  BY <1>1, <1>4 DEF FreePort, MarkFreePort, Return
<1>5. CASE PickRange(o)
  BY <1>1, <1>5 DEF PickRange
<1>6. CASE CheckRange(o)
  BY <1>1, <1>6 DEF CheckRange
<1>7. CASE MarkRange(o)
  BY <1>1, <1>7 DEF MarkRange, Return
<1> QED  BY <1>2, <1>3, <1>4, <1>5, <1>6, <1>7 DEF PortsNext

(* So the ports of the servers stay what they are.                         *)
LEMMA PortsGoOn ==
  ASSUME SInv, UNCHANGED <<servers, stopper, joined, bound>>,
         \A o \in Owners : servers[o].thread # "new" => calls'[o] = calls[o]
  PROVE  SInv'
<1> USE DEF SInv
<1>1. ServerTypes' /\ StartInv'
  BY DEF ServerTypes, StartInv
<1>2. ThreadInv'
  BY DEF ThreadInv
<1>3. \A o \in Owners : Holds(o) => Holds(o)' /\ Port(o)' = Port(o)
  <2> SUFFICES ASSUME NEW o \in Owners, Holds(o) PROVE Holds(o)' /\ Port(o)' = Port(o)
    OBVIOUS
  <2>1. servers[o].thread # "new"
    BY DEF Holds, ThreadInv
  <2> QED  BY <2>1 DEF Holds, Port
<1>4. BoundInv'
  BY <1>3 DEF BoundInv
<1> QED  BY <1>1, <1>2, <1>4

-----------------------------------------------------------------------------
(* A step of one server leaves the others and all calls alone.             *)
LEMMA OneServer ==
  ASSUME SInv, NEW o \in Owners, NEW s \in Server, Becomes(o, s), calls' = calls
  PROVE  /\ servers' \in [Owners -> Server] /\ servers'[o] = s
         /\ \A q \in Owners : q # o => servers'[q] = servers[q]
         /\ \A q \in Owners : Port(q)' = Port(q)
         /\ \A q \in Owners : q # o => Holds(q)' = Holds(q)
  BY DEF SInv, ServerTypes, Becomes, Port, Holds

(* A step that leaves the thread alone keeps the ports bound.              *)
LEMMA SameThread ==
  ASSUME SInv, NEW o \in Owners, NEW s \in Server, Becomes(o, s), UNCHANGED <<calls, bound>>,
         s.thread = servers[o].thread, s.result = servers[o].result
  PROVE  BoundInv'
<1>1. \A q \in Owners : Holds(q)' = Holds(q) /\ Port(q)' = Port(q)
  BY OneServer DEF Holds
<1> QED  BY <1>1 DEF SInv, BoundInv

LEMMA StartStep ==
  ASSUME SInv, NEW o \in Owners, StartThread(o) \/ SetStarted(o)
  PROVE  SInv'
<1>0. servers[o] \in Server /\ o \in Holders /\ "free" \in Holders
  BY DEF SInv, ServerTypes, Holders
<1>1. CASE StartThread(o)
  <2> DEFINE s == [servers[o] EXCEPT !.lock = o, !.thread = "running"]
  <2>1. Becomes(o, s) /\ UNCHANGED <<calls, bound, stopper, joined>>
    BY <1>1 DEF StartThread, portVars
  <2>2. s \in Server /\ s.thread = "running" /\ s.lock = o /\ s.started = servers[o].started
        /\ s.result = servers[o].result
    BY <1>0 DEF Server, Threads
  <2>3. servers[o].thread = "new" /\ ~servers[o].started /\ calls[o].at = "returned"
    BY <1>1, OwnerAssumption DEF StartThread, SInv, StartInv
  <2> HIDE DEF s
  <2>4. ServerTypes'
    BY <2>1, <2>2, OneServer DEF SInv, ServerTypes
  <2>5. StartInv'
    BY <2>1, <2>2, <2>3, OneServer DEF SInv, StartInv
  <2>6. ThreadInv'
    BY <2>1, <2>2, <2>3, OneServer DEF SInv, ThreadInv
  <2>7. ~Holds(o)
    BY <2>3 DEF SInv, ThreadInv, Holds
  <2>8. BoundInv'
    BY <2>1, <2>2, <2>7, OneServer DEF SInv, BoundInv
  <2> QED  BY <2>4, <2>5, <2>6, <2>8 DEF SInv
<1>2. CASE SetStarted(o)
  <2> DEFINE s == [servers[o] EXCEPT !.lock = "free", !.started = TRUE]
  <2>1. Becomes(o, s) /\ UNCHANGED <<calls, bound, stopper, joined>>
    BY <1>2 DEF SetStarted, portVars
  <2>2. s \in Server /\ s.thread = servers[o].thread /\ s.lock = "free" /\ s.started
        /\ s.result = servers[o].result
    BY <1>0 DEF Server
  <2>3. servers[o].thread # "new"
    BY <1>2 DEF SetStarted, SInv, StartInv
  <2> HIDE DEF s
  <2>4. ServerTypes'
    BY <2>1, <2>2, OneServer DEF SInv, ServerTypes
  <2>5. StartInv'
    BY <2>1, <2>2, <2>3, OneServer DEF SInv, StartInv
  <2>6. ThreadInv'
    BY <2>1, <2>2, <2>3, OneServer DEF SInv, ThreadInv
  <2>7. BoundInv'
    BY <2>1, <2>2, SameThread
  <2> QED  BY <2>4, <2>5, <2>6, <2>7 DEF SInv
<1> QED  BY <1>1, <1>2

(* The thread goes from one of its states to a later one and keeps the     *)
(* lock and _started.                                                      *)
LEMMA ThreadGoesOn ==
  ASSUME SInv, NEW o \in Owners, NEW s \in Server, Becomes(o, s),
         UNCHANGED <<calls, stopper, joined>>,
         s.started = servers[o].started, s.lock = servers[o].lock,
         servers[o].thread \notin {"new", "over"}, s.thread \notin {"new", "running"}
  PROVE  ServerTypes' /\ StartInv' /\ ThreadInv'
<1>1. ServerTypes'
  BY OneServer DEF SInv, ServerTypes
<1>2. StartInv'
  BY OneServer DEF SInv, StartInv
<1>3. ThreadInv'
  BY OneServer DEF SInv, ThreadInv
<1> QED  BY <1>1, <1>2, <1>3

LEMMA ThreadStep ==
  ASSUME SInv, NEW o \in Owners, ThreadNext(o)
  PROVE  SInv'
<1>0. servers[o] \in Server
  BY DEF SInv, ServerTypes
<1>1. CASE Serve(o)
  <2>0. servers[o].thread = "running" /\ ~Holds(o) /\ UNCHANGED <<calls, stopper, joined>>
    BY <1>1 DEF Serve, SInv, ThreadInv, Holds, portVars
  <2>1. CASE Becomes(o, Fails(servers[o])) /\ UNCHANGED bound
    <3> DEFINE s == Fails(servers[o])
    <3>1. s \in Server /\ s.thread = "left" /\ s.started = servers[o].started /\ s.lock = servers[o].lock
      BY <1>0 DEF Fails, Server, Threads
    <3> HIDE DEF s
    <3>2. ServerTypes' /\ StartInv' /\ ThreadInv'
      BY <2>0, <2>1, <3>1, ThreadGoesOn DEF s
    <3>3. BoundInv'
      BY <2>0, <2>1, <3>1, OneServer DEF SInv, BoundInv, s
    <3> QED  BY <3>2, <3>3 DEF SInv
  <2>2. CASE Becomes(o, [servers[o] EXCEPT !.thread = "serving"]) /\ bound' = bound \union {Port(o)}
    <3> DEFINE s == [servers[o] EXCEPT !.thread = "serving"]
    <3>1. s \in Server /\ s.thread = "serving" /\ s.started = servers[o].started /\ s.lock = servers[o].lock
      BY <1>0 DEF Server, Threads
    <3> HIDE DEF s
    <3>2. ServerTypes' /\ StartInv' /\ ThreadInv'
      BY <2>0, <2>2, <3>1, ThreadGoesOn DEF s
    <3>3. Holds(o)' /\ Port(o)' = Port(o)
      BY <2>0, <2>2, <3>1, OneServer DEF Holds, s
    <3>4. BoundInv'
      BY <2>0, <2>2, <3>1, <3>3, OneServer DEF SInv, BoundInv, s
    <3> QED  BY <3>2, <3>4 DEF SInv
  <2> QED  BY <1>1, <2>1, <2>2 DEF Serve
<1>2. CASE CloseServer(o)
  <2> DEFINE s == [servers[o] EXCEPT !.thread = "left", !.closed = TRUE, !.result = "value"]
  <2>1. /\ servers[o].thread = "serving" /\ Becomes(o, s) /\ bound' = bound \ {Port(o)}
        /\ UNCHANGED <<calls, stopper, joined>>
    BY <1>2 DEF CloseServer, portVars
  <2>2. s \in Server /\ s.thread = "left" /\ s.started = servers[o].started /\ s.lock = servers[o].lock
    BY <1>0 DEF Server, Threads
  <2> HIDE DEF s
  <2>3. ServerTypes' /\ StartInv' /\ ThreadInv'
    BY <2>1, <2>2, ThreadGoesOn
  <2>4. BoundInv'
    BY <2>1, <2>2, OneServer DEF SInv, BoundInv
  <2> QED  BY <2>3, <2>4 DEF SInv
<1>3. CASE Interrupt(o)
  <2> DEFINE s == [Fails(servers[o]) EXCEPT !.result = "interrupted"]
  <2>1. servers[o].thread = "serving" /\ Becomes(o, s) /\ UNCHANGED <<calls, bound, stopper, joined>>
    BY <1>3 DEF Interrupt, portVars
  <2>2. /\ s \in Server /\ s.thread = "left" /\ s.result = "interrupted"
        /\ s.started = servers[o].started /\ s.lock = servers[o].lock
    BY <1>0 DEF Fails, Server, Threads
  <2> HIDE DEF s
  <2>3. ServerTypes' /\ StartInv' /\ ThreadInv'
    BY <2>1, <2>2, ThreadGoesOn
  <2>4. Holds(o)'
    BY <2>1, <2>2, OneServer DEF Holds
  <2>5. BoundInv'
    BY <2>1, <2>2, <2>4, OneServer DEF SInv, BoundInv
  <2> QED  BY <2>3, <2>5 DEF SInv
<1>4. CASE SetStopped(o) \/ SetResult(o)
  <2>1. PICK s \in Server :
          /\ Becomes(o, s) /\ s.thread \in {"stopped", "over"} /\ s.result = servers[o].result
          /\ s.started = servers[o].started /\ s.lock = servers[o].lock
    <3>1. CASE SetStopped(o)
      <4> DEFINE s == [servers[o] EXCEPT !.thread = "stopped", !.stopped = TRUE]
      <4>1. /\ s \in Server /\ s.thread = "stopped" /\ s.result = servers[o].result
            /\ s.started = servers[o].started /\ s.lock = servers[o].lock
        BY <1>0 DEF Server, Threads
      <4>2. Becomes(o, s)
        BY <3>1 DEF SetStopped
      <4> QED  BY <4>1, <4>2
    <3>2. CASE SetResult(o)
      <4> DEFINE s == [servers[o] EXCEPT !.thread = "over"]
      <4>1. /\ s \in Server /\ s.thread = "over" /\ s.result = servers[o].result
            /\ s.started = servers[o].started /\ s.lock = servers[o].lock
        BY <1>0 DEF Server, Threads
      <4>2. Becomes(o, s)
        BY <3>2 DEF SetResult
      <4> QED  BY <4>1, <4>2
    <3> QED  BY <1>4, <3>1, <3>2
  <2>2. servers[o].thread \in {"left", "stopped"} /\ UNCHANGED <<calls, bound, stopper, joined>>
    BY <1>4 DEF SetStopped, SetResult, portVars
  <2>3. ServerTypes' /\ StartInv' /\ ThreadInv'
    BY <2>1, <2>2, ThreadGoesOn
  <2>4. Holds(o)' = Holds(o)
    BY <2>1, <2>2, OneServer DEF Holds
  <2>5. BoundInv'
    BY <2>1, <2>2, <2>4, OneServer DEF SInv, BoundInv
  <2> QED  BY <2>3, <2>5 DEF SInv
<1> QED  BY <1>1, <1>2, <1>3, <1>4 DEF ThreadNext

LEMMA ShutdownStep ==
  ASSUME SInv, NEW o \in Owners, NEW k \in Stoppers[o], Shutdown(o, k) \/ FinishShutdown(o, k)
  PROVE  SInv'
<1>0. servers[o] \in Server /\ k \in Holders /\ "free" \in Holders
  BY DEF SInv, ServerTypes, Holders
<1>1. PICK label : stopper' = [stopper EXCEPT ![o][k] = label]
  BY DEF Shutdown, FinishShutdown
<1>2. /\ DOMAIN stopper' = Owners /\ \A q \in Owners : DOMAIN stopper'[q] = Stoppers[q]
      /\ \A q \in Owners : \A l \in Stoppers[q] :
           <<q, l>> # <<o, k>> => stopper'[q][l] = stopper[q][l]
  BY <1>1 DEF SInv, ServerTypes
<1>3. UNCHANGED <<calls, bound, joined>>
  BY DEF Shutdown, FinishShutdown, portVars
<1>4. CASE UNCHANGED servers
  <2>1. stopper'[o][k] # "closing" \/ servers[o].started
    BY <1>4, <1>0 DEF Shutdown, FinishShutdown, SInv, StartInv, ServerTypes
  <2>2. ServerTypes' /\ ThreadInv' /\ BoundInv'
    BY <1>2, <1>3, <1>4 DEF SInv, ServerTypes, ThreadInv, BoundInv, Holds, Port
  <2>3. StartInv'
    BY <1>2, <1>4, <2>1 DEF SInv, StartInv
  <2> QED  BY <2>2, <2>3 DEF SInv
<1>5. CASE ~UNCHANGED servers
  <2>1. servers[o].started
    BY <1>5 DEF Shutdown, FinishShutdown, SInv, StartInv
  <2>2. PICK s \in Server :
          /\ Becomes(o, s) /\ s.thread = servers[o].thread /\ s.result = servers[o].result
          /\ s.started = servers[o].started
    <3>1. CASE Shutdown(o, k)
      <4> DEFINE s == [servers[o] EXCEPT !.lock = k, !.stopped = TRUE, !.close = TRUE]
      <4>1. /\ s \in Server /\ s.thread = servers[o].thread /\ s.result = servers[o].result
            /\ s.started = servers[o].started
        BY <1>0 DEF Server
      <4>2. Becomes(o, s)
        BY <1>5, <3>1 DEF Shutdown
      <4> QED  BY <4>1, <4>2
    <3>2. CASE FinishShutdown(o, k)
      <4> DEFINE s == [servers[o] EXCEPT !.lock = "free", !.app = "closed",
                         !.loop = IF servers[o].thread = "serving" THEN "stopped" ELSE "closed"]
      <4>1. /\ s \in Server /\ s.thread = servers[o].thread /\ s.result = servers[o].result
            /\ s.started = servers[o].started
        BY <1>0 DEF Server
      <4>2. Becomes(o, s)
        BY <3>2 DEF FinishShutdown
      <4> QED  BY <4>1, <4>2
    <3> QED  BY <3>1, <3>2
  <2>7. /\ servers' \in [Owners -> Server] /\ servers'[o] = s
        /\ \A q \in Owners : q # o => servers'[q] = servers[q]
    BY <1>3, <2>2, OneServer
  <2>8. \A q \in Owners : /\ servers'[q].started = servers[q].started
                          /\ servers'[q].thread = servers[q].thread
                          /\ servers'[q].result = servers[q].result
    BY <2>2, <2>7
  <2>3. ServerTypes'
    BY <1>2, <1>3, <2>7 DEF SInv, ServerTypes
  <2>4. StartInv'
    <3> SUFFICES ASSUME NEW q \in Owners
                 PROVE  /\ ~servers'[q].started => q # o
                        /\ servers'[q].started \/ servers'[q].lock = q => servers'[q].thread # "new"
                        /\ \A l \in Stoppers[q] : stopper'[q][l] = "closing" => servers'[q].started
      BY <2>7 DEF SInv, StartInv
    <3>1. CASE q = o
      BY <2>1, <2>8, <3>1 DEF SInv, StartInv
    <3>2. CASE q # o
      BY <1>2, <2>7, <3>2 DEF SInv, StartInv
    <3> QED  BY <3>1, <3>2
  <2>5. ThreadInv'
    BY <1>3, <2>8 DEF SInv, ThreadInv
  <2>6. BoundInv'
    BY <1>3, <2>2, SameThread
  <2> QED  BY <2>3, <2>4, <2>5, <2>6 DEF SInv
<1> QED  BY <1>4, <1>5

LEMMA JoinStep ==
  ASSUME SInv, NEW o \in Owners, Join(o)
  PROVE  SInv'
<1>1. UNCHANGED <<calls, bound, servers, stopper>> /\ joined' = joined \union {o}
  BY DEF Join, portVars
<1>2. servers[o].started /\ servers[o].thread = "over"
  BY DEF Join, IsOver
<1>3. ServerTypes' /\ StartInv' /\ ThreadInv'
  BY <1>1, <1>2 DEF SInv, ServerTypes, StartInv, ThreadInv
<1>4. BoundInv'
  BY <1>1 DEF SInv, BoundInv, Holds, Port
<1> QED  BY <1>3, <1>4 DEF SInv

-----------------------------------------------------------------------------
(* join() returns when the thread of the server is over, and whatever port *)
(* is bound then is held by a server that serves on it or that shutdown()  *)
(* gave up waiting for: for any number of servers and stoppers, whatever   *)
(* ports are shared (utils/serving.py:99-151, http/hypercorn.py:56-74).    *)
THEOREM JoinedServersAreOver == Spec => []JoinedIsOver
<1>1. Init => SInv
  BY InitServers
<1>2. IInv /\ SInv /\ [Next]_vars => SInv'
  <2> SUFFICES ASSUME IInv, SInv, [Next]_vars PROVE SInv'
    OBVIOUS
  <2>1. ASSUME NEW o \in Owners, PortsNext(o), UNCHANGED <<servers, stopper, joined>> PROVE SInv'
    <3>1. \A q \in Owners : servers[q].thread # "new" => calls'[q] = calls[q]
      BY <2>1, CallGoesOn DEF SInv, ThreadInv
    <3> QED  BY <2>1, <3>1, CallGoesOn, PortsGoOn
  <2>2. ASSUME NEW p \in InRange, Expire(p), UNCHANGED <<servers, stopper, joined>> PROVE SInv'
    BY <2>2, PortsGoOn DEF Expire
  <2>3. ASSUME NEW o \in Owners, StartThread(o) \/ SetStarted(o) \/ Join(o) \/ ThreadNext(o)
        PROVE  SInv'
    BY <2>3, StartStep, JoinStep, ThreadStep
  <2>4. ASSUME NEW o \in Owners, NEW k \in Stoppers[o], Shutdown(o, k) \/ FinishShutdown(o, k)
        PROVE  SInv'
    BY <2>4, ShutdownStep
  <2>5. CASE UNCHANGED vars
    BY <2>5, PortsGoOn DEF vars
  <2> QED  BY <2>1, <2>2, <2>3, <2>4, <2>5 DEF Next
<1>3. SInv => JoinedIsOver
  BY DEF SInv, ServerTypes, ThreadInv, BoundInv, JoinedIsOver
<1> QED  BY <1>1, <1>2, <1>3, PortsInvariant, PTL DEF Spec
================================================================================
