-------------------------------- MODULE Servers --------------------------------
(***************************************************************************)
(* Servers that run in a thread: Server of localstack/utils/serving.py and *)
(* FuncThread of localstack/utils/threads.py, with HypercornServer and     *)
(* GatewayServer of localstack/http/hypercorn.py.  Each owner takes a port *)
(* from PortRange, starts a server on it and joins it; stoppers, such as   *)
(* the shutdown handler that aws/serving/edge.py registers, call shutdown()*)
(* at any time.                                                            *)
(***************************************************************************)
EXTENDS PortRange

CONSTANT Stoppers  \* for each owner, the threads that may shut its server down

VARIABLES
  servers,   \* the server of each owner, with its thread and its event loop
  stopper,   \* what each call of shutdown() does next
  joined     \* the owners whose join() returned

vars == <<reserved, bound, portsLock, calls, leases, servers, stopper, joined>>

(* thread: "new", "running", "serving", "left" (do_run is over), "stopped" *)
(* (_stopped is set), "over" (the future has a result).                    *)
NewServer ==
  [started |-> FALSE, stopped |-> FALSE, lock |-> "free", thread |-> "new", close |-> FALSE,
   closed |-> FALSE, loop |-> "usable", result |-> "none", app |-> "open"]

Init ==
  /\ PortsInit
  /\ servers = [o \in Owners |-> NewServer]
  /\ stopper = [o \in Owners |-> [k \in Stoppers[o] |-> "idle"]]
  /\ joined = {}

Port(o) == Head(calls[o].ports)
Becomes(o, s) == servers' = [servers EXCEPT ![o] = s]

-----------------------------------------------------------------------------
(* start(): the thread runs before _started is set.  A second start()      *)
(* changes nothing and answers False.                                      *)
StartThread(o) ==
  /\ calls[o].at = "returned"
  /\ servers[o].lock = "free" /\ ~servers[o].started
  /\ Becomes(o, [servers[o] EXCEPT !.lock = o, !.thread = "running"])
  /\ UNCHANGED <<portVars, bound, stopper, joined>>

SetStarted(o) ==
  /\ servers[o].lock = o
  /\ Becomes(o, [servers[o] EXCEPT !.lock = "free", !.started = TRUE])
  /\ UNCHANGED <<portVars, bound, stopper, joined>>

-----------------------------------------------------------------------------
(* do_run of HypercornServer, in the server thread. *)
Fails(s) == [s EXCEPT !.thread = "left", !.result = "error"]

Serve(o) ==
  /\ servers[o].thread = "running"
  /\ IF servers[o].loop # "usable" \/ ~PortCanBeBound(Port(o))
     THEN /\ Becomes(o, Fails(servers[o]))
          /\ UNCHANGED bound
     ELSE /\ Becomes(o, [servers[o] EXCEPT !.thread = "serving"])
          /\ bound' = bound \union {Port(o)}
  /\ UNCHANGED <<portVars, stopper, joined>>

(* The shutdown trigger: serve() closes its sockets and returns. *)
CloseServer(o) ==
  /\ servers[o].thread = "serving" /\ servers[o].close
  /\ Becomes(o, [servers[o] EXCEPT !.thread = "left", !.closed = TRUE, !.result = "value"])
  /\ bound' = bound \ {Port(o)}
  /\ UNCHANGED <<portVars, stopper, joined>>

(* The loop was stopped under serve(), which keeps its sockets. *)
Interrupt(o) ==
  /\ servers[o].thread = "serving" /\ servers[o].loop = "stopped"
  /\ Becomes(o, [Fails(servers[o]) EXCEPT !.result = "interrupted"])
  /\ UNCHANGED <<portVars, bound, stopper, joined>>

(* finally: self._stopped.set() *)
SetStopped(o) ==
  /\ servers[o].thread = "left"
  /\ Becomes(o, [servers[o] EXCEPT !.thread = "stopped", !.stopped = TRUE])
  /\ UNCHANGED <<portVars, bound, stopper, joined>>

SetResult(o) ==
  /\ servers[o].thread = "stopped"
  /\ Becomes(o, [servers[o] EXCEPT !.thread = "over"])
  /\ UNCHANGED <<portVars, bound, stopper, joined>>

-----------------------------------------------------------------------------
(* shutdown() of a server that is not started raises, that of a stopped    *)
(* one returns; the first of the others asks serve() to end.               *)
Shutdown(o, k) ==
  /\ stopper[o][k] = "idle"
  /\ servers[o].lock = "free"
  /\ IF ~servers[o].started \/ servers[o].stopped
     THEN /\ stopper' = [stopper EXCEPT ![o][k] = IF servers[o].started THEN "returned" ELSE "refused"]
          /\ UNCHANGED servers
     ELSE /\ stopper' = [stopper EXCEPT ![o][k] = "closing"]
          /\ Becomes(o, [servers[o] EXCEPT !.lock = k, !.stopped = TRUE, !.close = TRUE])
  /\ UNCHANGED <<portVars, bound, joined>>

(* Mutant: the wait has no timeout. *)
WaitsForever(o) == servers[o].closed

(* self._closed.wait(timeout=10) *)
WaitForClosed(o) == TRUE

(* The loop is stopped, and closed unless it still runs. *)
FinishShutdown(o, k) ==
  /\ stopper[o][k] = "closing"
  /\ WaitForClosed(o)
  /\ stopper' = [stopper EXCEPT ![o][k] = "returned"]
  /\ Becomes(o, [servers[o] EXCEPT !.lock = "free", !.app = "closed",
                                   !.loop = IF servers[o].thread = "serving" THEN "stopped" ELSE "closed"])
  /\ UNCHANGED <<portVars, bound, joined>>

(* Mutant: join() waits for the event _stopped. *)
IsStopped(s) == s.stopped

(* join() waits for the future of the thread, whatever it holds. *)
IsOver(s) == s.thread = "over"

Join(o) ==
  /\ o \notin joined
  /\ servers[o].started /\ IsOver(servers[o])
  /\ joined' = joined \union {o}
  /\ UNCHANGED <<portVars, bound, servers, stopper>>

-----------------------------------------------------------------------------
ThreadNext(o) == Serve(o) \/ CloseServer(o) \/ Interrupt(o) \/ SetStopped(o) \/ SetResult(o)

Next ==
  \/ \E p \in InRange : Expire(p) /\ UNCHANGED <<servers, stopper, joined>>
  \/ \E o \in Owners :
       \/ PortsNext(o) /\ UNCHANGED <<servers, stopper, joined>>
       \/ StartThread(o) \/ SetStarted(o) \/ Join(o) \/ ThreadNext(o)
       \/ \E k \in Stoppers[o] : Shutdown(o, k) \/ FinishShutdown(o, k)

(* Threads that can go on are scheduled, and a wait with a timeout ends.   *)
Fairness ==
  \A o \in Owners :
    /\ WF_vars(SetStarted(o)) /\ WF_vars(Join(o)) /\ WF_vars(ThreadNext(o))
    /\ \A k \in Stoppers[o] : WF_vars(FinishShutdown(o, k))

Spec == Init /\ [][Next]_vars /\ Fairness

-----------------------------------------------------------------------------
(* The server has its port. *)
Holds(o) == servers[o].thread = "serving" \/ servers[o].result = "interrupted"

(* When join() has returned, the thread of the server is over and its port *)
(* is free again, unless the ten seconds of shutdown() ran out and serve() *)
(* was interrupted: not when _stopped is set, which shutdown() does before *)
(* the server begins to close.                                             *)
JoinedIsOver ==
  \A o \in joined :
    /\ servers[o].thread = "over"
    /\ Holds(o) \/ (Port(o) \in bound => \E q \in Owners : Holds(q) /\ Port(q) = Port(o))

(* A shutdown() that found a running server returns, and the thread of the *)
(* server ends and is joined: also when serve() fails at the same time, so *)
(* that nobody sets _closed.                                               *)
ShutdownEnds ==
  \A o \in Owners : \A k \in Stoppers[o] :
    stopper[o][k] = "closing" ~> stopper[o][k] = "returned" /\ o \in joined
===============================================================================
