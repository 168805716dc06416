------------------------------- MODULE PortRange -------------------------------
(***************************************************************************)
(* The port reservations of localstack/utils/net.py: reserve_port() of the *)
(* dynamic range, get_free_tcp_port() and get_free_tcp_port_range(), called *)
(* by any number of threads.  A reservation is read without the lock and   *)
(* written under it.  Trying to bind a port binds and closes a socket; it  *)
(* is one step here.                                                       *)
(***************************************************************************)
EXTENDS Naturals, Sequences

CONSTANTS
  Owners,        \* threads that ask for ports
  Start, End,    \* the range, both ends included
  SystemPorts,   \* what the system assigns to a socket bound to port 0
  RangeSize,     \* how many ports a caller of get_free_tcp_port_range wants
  MaxAttempts    \* bound: 50 in the code
ASSUME RangeAssumption == SystemPorts \union {Start, End, RangeSize, MaxAttempts} \subseteq Nat /\ RangeSize >= 2
ASSUME OwnerAssumption == "free" \notin Owners

VARIABLES
  reserved,      \* _ports_cache: the keys that have not expired
  bound,         \* ports that a server listens on
  portsLock,     \* _ports_lock: its holder, or "free"
  calls,         \* what the call of each thread does next
  leases         \* history: the ports reserve_port gave a thread, until they expire

portVars == <<reserved, portsLock, calls, leases>>

InRange == Start..End
Idle == [at |-> "idle", todo |-> <<>>, tries |-> 0, ports |-> <<>>]
Goto(o, label) == calls' = [calls EXCEPT ![o].at = label]
Return(o, ports) == calls' = [calls EXCEPT ![o] = [Idle EXCEPT !.at = "returned", !.ports = ports]]
PortNotAvailable(o) == calls' = [calls EXCEPT ![o] = [Idle EXCEPT !.at = "refused"]]

PortsInit ==
  /\ reserved = {} /\ bound = {} /\ portsLock = "free"
  /\ calls = [o \in Owners |-> Idle]
  /\ leases = [o \in Owners |-> {}]

IsPortReserved(p) == p \in reserved
PortCanBeBound(p) == p \notin bound

(* The time to live of a reservation is over. *)
Expire(p) ==
  /\ p \in reserved
  /\ reserved' = reserved \ {p}
  /\ leases' = [o \in Owners |-> leases[o] \ {p}]
  /\ UNCHANGED <<bound, portsLock, calls>>

MarkReserved(p) == reserved' = IF p \in InRange THEN reserved \union {p} ELSE reserved

-----------------------------------------------------------------------------
(* Mutant: reserve_port does not take the lock. *)
TakesNoLock(o) == portsLock' = portsLock

(* A given port is one of the range, or refused before the lock is taken;  *)
(* no given port stands for all of them, in their order.                   *)
TakesPortsLock(o) == portsLock = "free" /\ portsLock' = o

ReservePort(o) ==
  /\ calls[o].at = "idle"
  /\ TakesPortsLock(o)
  /\ \E todo \in {<<p>> : p \in InRange} \union {[i \in 1..(End - Start + 1) |-> Start + i - 1]} :
       calls' = [calls EXCEPT ![o].at = "try", ![o].todo = todo]
  /\ UNCHANGED <<reserved, bound, leases>>

ReserveOutside(o) ==
  /\ calls[o].at = "idle"
  /\ PortNotAvailable(o)
  /\ UNCHANGED <<reserved, bound, portsLock, leases>>

TryReservePort(o) ==
  /\ calls[o].at = "try" /\ calls[o].todo # <<>>
  /\ LET p == Head(calls[o].todo)
     IN  IF IsPortReserved(p) \/ ~PortCanBeBound(p)
         THEN calls' = [calls EXCEPT ![o].todo = Tail(@)]
         ELSE Goto(o, "reserve")
  /\ UNCHANGED <<reserved, bound, portsLock, leases>>

Reserve(o) ==
  /\ calls[o].at = "reserve"
  /\ LET p == Head(calls[o].todo)
     IN  /\ MarkReserved(p)
         /\ leases' = [leases EXCEPT ![o] = @ \union {p}]
         /\ Return(o, <<p>>)
  /\ portsLock' = "free"
  /\ UNCHANGED bound

NoneReserved(o) ==
  /\ calls[o].at = "try" /\ calls[o].todo = <<>>
  /\ PortNotAvailable(o)
  /\ portsLock' = "free"
  /\ UNCHANGED <<reserved, bound, leases>>

-----------------------------------------------------------------------------
(* get_free_tcp_port: the port of a socket that the system chose, unless   *)
(* it is reserved.  A port outside the range cannot be marked.             *)
FreePort(o) ==
  /\ calls[o].at \in {"idle", "again"}
  /\ calls[o].tries < MaxAttempts
  /\ \E p \in SystemPorts :
       /\ PortCanBeBound(p)
       /\ IF IsPortReserved(p)
          THEN calls' = [calls EXCEPT ![o].at = "again", ![o].tries = @ + 1]
          ELSE calls' = [calls EXCEPT ![o].at = "mark", ![o].todo = <<p>>]
  /\ UNCHANGED <<reserved, bound, portsLock, leases>>

MarkFreePort(o) ==
  /\ calls[o].at = "mark" /\ portsLock = "free"
  /\ MarkReserved(Head(calls[o].todo))
  /\ Return(o, calls[o].todo)
  /\ UNCHANGED <<bound, portsLock, leases>>

-----------------------------------------------------------------------------
(* get_free_tcp_port_range: a random start that leaves space at the end,   *)
(* the ports checked one by one and then marked one by one.                *)
Candidates == {[i \in 1..RangeSize |-> s + i - 1] : s \in Start..(End - RangeSize - 1)}

PickRange(o) ==
  /\ calls[o].at \in {"idle", "again range"}
  /\ calls[o].tries < MaxAttempts
  /\ \E range \in Candidates :
       calls' = [calls EXCEPT ![o].at = "check range", ![o].todo = range, ![o].ports = range]
  /\ UNCHANGED <<reserved, bound, portsLock, leases>>

CheckRange(o) ==
  /\ calls[o].at = "check range"
  /\ LET c == calls[o]
         p == Head(c.todo)
     IN  calls' = [calls EXCEPT ![o] =
           IF IsPortReserved(p) \/ ~PortCanBeBound(p)
           THEN [Idle EXCEPT !.at = "again range", !.tries = c.tries + 1]
           ELSE IF Len(c.todo) > 1 THEN [c EXCEPT !.todo = Tail(@)]
                ELSE [c EXCEPT !.at = "mark range", !.todo = c.ports]]
  /\ UNCHANGED <<reserved, bound, portsLock, leases>>

MarkRange(o) ==
  /\ calls[o].at = "mark range" /\ portsLock = "free"
  /\ MarkReserved(Head(calls[o].todo))
  /\ IF Len(calls[o].todo) > 1 THEN calls' = [calls EXCEPT ![o].todo = Tail(@)]
     ELSE Return(o, calls[o].ports)
  /\ UNCHANGED <<bound, portsLock, leases>>

AttemptsSpent(o) ==
  /\ calls[o].at \in {"again", "again range"} /\ calls[o].tries = MaxAttempts
  /\ PortNotAvailable(o)
  /\ UNCHANGED <<reserved, bound, portsLock, leases>>

PortsNext(o) ==
  \/ ReservePort(o) \/ ReserveOutside(o) \/ TryReservePort(o) \/ Reserve(o) \/ NoneReserved(o)
  \/ FreePort(o) \/ MarkFreePort(o)
  \/ PickRange(o) \/ CheckRange(o) \/ MarkRange(o) \/ AttemptsSpent(o)

-----------------------------------------------------------------------------
(* Of the threads that asked reserve_port for a port, no two hold the same *)
(* one while its reservation lasts, whatever get_free_tcp_port and          *)
(* get_free_tcp_port_range mark in between: the check and the mark of      *)
(* _try_reserve_port are one critical section.                             *)
ReservationsExclusive ==
  \A o, q \in Owners : o # q => leases[o] \intersect leases[q] = {}
===============================================================================
