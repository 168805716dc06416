---------------------------- MODULE RuntimeLifecycle ----------------------------
(***************************************************************************)
(* The lifecycle of LocalstackRuntime (localstack/runtime/runtime.py): the *)
(* main thread starts up, serves in the reactor and cleans up; the ready   *)
(* monitor announces the runtime; every exit(), from a signal handler or   *)
(* the health endpoint, starts a thread that runs shutdown(); threads of   *)
(* the gateway handle requests meanwhile.                                  *)
(***************************************************************************)
EXTENDS Integers, Sequences

CONSTANTS
  Exit,      \* bound: the calls of exit(), each with its shutdown thread
  Request,   \* bound: the requests the gateway receives
  Internal,  \* the requests that are internal calls or for /_localstack
  Service,   \* services a request may start
  Fragile    \* hooks that may raise

(* The hooks on_infra_shutdown that the repository registers, and "start"  *)
(* and "ready" for the hooks of these two phases.                          *)
ShutdownHook == {"initScripts", "handlers", "services", "afterService"}

Priority == [initScripts |-> 0, handlers |-> 0, services |-> -10, afterService |-> -20]

ASSUME InternalAssumption == Internal \subseteq Request
ASSUME FragileAssumption == Fragile \subseteq ShutdownHook \cup {"start", "ready"}

VARIABLES
  main,       \* what the main thread does next
  stopping, ready, stopped,  \* the events of localstack.runtime.events
  listening,  \* the gateway's port is bound
  pool,       \* the server's thread pool: "none", "unpatched", "patched", "stopped"
  reactor,    \* "idle", "running" or "stopping"; "idle" again when it returned
  monitor,    \* the ready monitor
  shutdown,   \* per exit(): what its thread does next
  todo,       \* shutdown hooks still to run
  ran,        \* history: shutdown hooks in the order they ran
  running,    \* services that are running
  request     \* per request: how far it is

vars == <<main, stopping, ready, stopped, listening, pool, reactor, monitor,
          shutdown, todo, ran, running, request>>

Main == {"starting", "register", "spawn", "getPool", "patchPool", "runReactor",
         "serving", "returning", "exited", "failed"}
MonitorStep == {"none", "wait", "hooks", "done", "dead"}
ShutdownStep == {"none", "check", "hooks", "stopPool", "stopReactor", "done", "dead"}
RequestStep == {"none", "admit", "handle", "done", "rejected"}

Init ==
  /\ main = "starting"
  /\ stopping = FALSE /\ ready = FALSE /\ stopped = FALSE
  /\ listening = FALSE
  /\ pool = "none"
  /\ reactor = "idle"
  /\ monitor = "none"
  /\ shutdown = [k \in Exit |-> "none"]
  /\ todo = ShutdownHook
  /\ ran = <<>>
  /\ running = {}
  /\ request = [r \in Request |-> "none"]

-----------------------------------------------------------------------------
(* run(), on the main thread.                                              *)

(* _on_starting(): one of the start hooks loads services eagerly, if so    *)
(* configured. A hook that raises ends the process.                        *)
OnStarting ==
  /\ main = "starting"
  /\ \/ main' = "register" /\ running' \in SUBSET Service
     \/ "start" \in Fragile /\ main' = "failed" /\ UNCHANGED running
  /\ UNCHANGED <<stopping, ready, stopped, listening, pool, reactor, monitor,
                 shutdown, todo, ran, request>>

(* register(): listen() binds the port at once; a failure to do so is only  *)
(* known to the Deferred nobody looks at.                                  *)
Register ==
  /\ main = "register"
  /\ listening' \in BOOLEAN
  /\ main' = "spawn"
  /\ UNCHANGED <<stopping, ready, stopped, pool, reactor, monitor, shutdown,
                 todo, ran, running, request>>

SpawnMonitor ==
  /\ main = "spawn"
  /\ monitor' = "wait"
  /\ main' = "getPool"
  /\ UNCHANGED <<stopping, ready, stopped, listening, pool, reactor, shutdown,
                 todo, ran, running, request>>

GetPool ==
  /\ main = "getPool"
  /\ pool' = "unpatched"
  /\ main' = "patchPool"
  /\ UNCHANGED <<stopping, ready, stopped, listening, reactor, monitor, shutdown,
                 todo, ran, running, request>>

PatchPool ==
  /\ main = "patchPool"
  /\ pool' = IF pool = "stopped" THEN "stopped" ELSE "patched"
  /\ main' = "runReactor"
  /\ UNCHANGED <<stopping, ready, stopped, listening, reactor, monitor, shutdown,
                 todo, ran, running, request>>

(* run() does not look at stopping. With a thread pool that was stopped     *)
(* before, which cannot be started again, the reactor serves nothing.      *)
RunReactor ==
  /\ main = "runReactor"
  /\ reactor' = "running"
  /\ main' = "serving"
  /\ UNCHANGED <<stopping, ready, stopped, listening, pool, monitor, shutdown, todo,
                 ran, running, request>>

(* The reactor notices that it was stopped, closes its ports and returns.  *)
ReactorReturns ==
  /\ main = "serving"
  /\ reactor = "stopping"
  /\ reactor' = "idle"
  /\ listening' = FALSE
  /\ main' = "returning"
  /\ UNCHANGED <<stopping, ready, stopped, pool, monitor, shutdown, todo, ran,
                 running, request>>

(* _on_return(), and the process ends.                                     *)
OnReturn ==
  /\ main = "returning"
  /\ stopped' = TRUE
  /\ main' = "exited"
  /\ UNCHANGED <<stopping, ready, listening, pool, reactor, monitor, shutdown,
                 todo, ran, running, request>>

MainStep ==
  \/ OnStarting \/ Register \/ SpawnMonitor \/ GetPool \/ PatchPool
  \/ RunReactor \/ ReactorReturns \/ OnReturn

Ended == main \in {"exited", "failed"}

-----------------------------------------------------------------------------
(* _run_ready_monitor(), on a daemon thread.                               *)

(* Variant: the hooks are run without waiting for the port.                *)
WaitForNothing ==
  /\ monitor = "wait" /\ ~Ended
  /\ monitor' = "hooks"
  /\ UNCHANGED <<main, stopping, ready, stopped, listening, pool, reactor,
                 shutdown, todo, ran, running, request>>

(* poll_condition(is_port_open) gives up with a TimeoutError.              *)
WaitForGateway ==
  /\ monitor = "wait" /\ ~Ended
  /\ monitor' = IF listening THEN "hooks" ELSE "dead"
  /\ UNCHANGED <<main, stopping, ready, stopped, listening, pool, reactor,
                 shutdown, todo, ran, running, request>>

(* Variant: nobody sets the ready event.                                   *)
OnReadyQuietly ==
  /\ monitor = "hooks" /\ ~Ended
  /\ monitor' = "done"
  /\ UNCHANGED <<main, stopping, ready, stopped, listening, pool, reactor, shutdown,
                 todo, ran, running, request>>

OnReady ==
  /\ monitor = "hooks" /\ ~Ended
  /\ \/ monitor' = "done" /\ ready' = TRUE
     \/ "ready" \in Fragile /\ monitor' = "dead" /\ UNCHANGED ready
  /\ UNCHANGED <<main, stopping, stopped, listening, pool, reactor, shutdown,
                 todo, ran, running, request>>

-----------------------------------------------------------------------------
(* exit() and the thread that runs shutdown().                             *)

(* The signal handlers are installed before run(); kill comes by a request. *)
CallExit(k) ==
  /\ shutdown[k] = "none" /\ ~Ended
  /\ shutdown' = [shutdown EXCEPT ![k] = "check"]
  /\ UNCHANGED <<main, stopping, ready, stopped, listening, pool, reactor, monitor,
                 todo, ran, running, request>>

(* Variant: shutdown() without a look at the stopping event.               *)
CheckNothing(k) ==
  /\ shutdown[k] = "check"
  /\ stopping' = TRUE
  /\ todo' = ShutdownHook
  /\ shutdown' = [shutdown EXCEPT ![k] = "hooks"]
  /\ UNCHANGED <<main, ready, stopped, listening, pool, reactor, monitor,
                 ran, running, request>>

(* Variant: the server is shut down before the hooks are called.           *)
CheckThenStop(k) ==
  /\ shutdown[k] = "check"
  /\ stopping' = TRUE
  /\ shutdown' = [shutdown EXCEPT ![k] = IF stopping THEN "done" ELSE "stopPool"]
  /\ UNCHANGED <<main, ready, stopped, listening, pool, reactor, monitor, todo,
                 ran, running, request>>

(* The test and set of stopping under _lifecycle_lock.                     *)
CheckStopping(k) ==
  /\ shutdown[k] = "check"
  /\ stopping' = TRUE
  /\ shutdown' = [shutdown EXCEPT ![k] = IF stopping THEN "done" ELSE "hooks"]
  /\ UNCHANGED <<main, ready, stopped, listening, pool, reactor, monitor, todo,
                 ran, running, request>>

(* What a hook does: the services hook stops every service.                *)
RunHook(h) ==
  /\ ran' = Append(ran, h)
  /\ running' = IF h = "services" THEN {} ELSE running

(* Variant: an exception of a hook is not caught.                          *)
HooksUncaught(k) ==
  /\ shutdown[k] = "hooks"
  /\ \/ todo = {} /\ shutdown' = [shutdown EXCEPT ![k] = "stopPool"]
        /\ UNCHANGED <<todo, ran, running>>
     \/ \E h \in todo :
          /\ \A g \in todo : Priority[h] >= Priority[g]
          /\ \/ RunHook(h) /\ todo' = todo \ {h} /\ UNCHANGED shutdown
             \/ /\ h \in Fragile
                /\ shutdown' = [shutdown EXCEPT ![k] = "dead"]
                /\ UNCHANGED <<todo, ran, running>>
  /\ UNCHANGED <<main, stopping, ready, stopped, listening, pool, reactor, monitor,
                 request>>

(* Variant: the hooks are run in the order of their priority values.       *)
HooksAscending(k) ==
  /\ shutdown[k] = "hooks"
  /\ \/ todo = {} /\ shutdown' = [shutdown EXCEPT ![k] = "stopPool"]
        /\ UNCHANGED <<todo, ran, running>>
     \/ \E h \in todo :
          /\ \A g \in todo : Priority[h] <= Priority[g]
          /\ RunHook(h) /\ todo' = todo \ {h} /\ UNCHANGED shutdown
  /\ UNCHANGED <<main, stopping, ready, stopped, listening, pool, reactor, monitor,
                 request>>

(* run_in_order(): one hook after the other, highest priority first. The    *)
(* first that raises ends the loop, and call_safe catches what it raised.  *)
RunHooks(k) ==
  /\ shutdown[k] = "hooks"
  /\ \/ todo = {} /\ shutdown' = [shutdown EXCEPT ![k] = "stopPool"]
        /\ UNCHANGED <<todo, ran, running>>
     \/ \E h \in todo :
          /\ \A g \in todo : Priority[h] >= Priority[g]
          /\ \/ RunHook(h) /\ todo' = todo \ {h} /\ UNCHANGED shutdown
             \/ /\ h \in Fragile
                /\ todo' = {}
                /\ shutdown' = [shutdown EXCEPT ![k] = "stopPool"]
                /\ UNCHANGED <<ran, running>>
  /\ UNCHANGED <<main, stopping, ready, stopped, listening, pool, reactor, monitor,
                 request>>

(* thread_pool.stop(timeout=10): the method that was not patched yet does  *)
(* not know the argument.                                                  *)
StopPool(k) ==
  /\ shutdown[k] = "stopPool"
  /\ shutdown' = [shutdown EXCEPT ![k] =
                    IF pool = "unpatched" THEN "dead" ELSE "stopReactor"]
  /\ pool' = IF pool = "patched" THEN "stopped" ELSE pool
  /\ UNCHANGED <<main, stopping, ready, stopped, listening, reactor, monitor, todo,
                 ran, running, request>>

(* reactor.stop() raises ReactorNotRunning if the reactor does not run.    *)
StopReactor(k) ==
  /\ shutdown[k] = "stopReactor"
  /\ IF reactor = "running"
     THEN reactor' = "stopping" /\ shutdown' = [shutdown EXCEPT ![k] = "done"]
     ELSE shutdown' = [shutdown EXCEPT ![k] = "dead"] /\ UNCHANGED reactor
  /\ UNCHANGED <<main, stopping, ready, stopped, listening, pool, monitor, todo,
                 ran, running, request>>

ShutdownThread(k) ==
  CheckStopping(k) \/ RunHooks(k) \/ StopPool(k) \/ StopReactor(k)

-----------------------------------------------------------------------------
(* Requests, on threads of the pool.                                       *)

Receive(r) ==
  /\ request[r] = "none"
  /\ reactor = "running" /\ listening /\ pool = "patched"
  /\ request' = [request EXCEPT ![r] = "admit"]
  /\ UNCHANGED <<main, stopping, ready, stopped, listening, pool, reactor, monitor,
                 shutdown, todo, ran, running>>

(* RuntimeShutdownHandler, the first handler of the chain.                 *)
Admit(r) ==
  /\ request[r] = "admit" /\ ~Ended
  /\ request' = [request EXCEPT ![r] =
                   IF stopped \/ (stopping /\ r \notin Internal) THEN "rejected"
                   ELSE "handle"]
  /\ UNCHANGED <<main, stopping, ready, stopped, listening, pool, reactor, monitor,
                 shutdown, todo, ran, running>>

(* The request is served; the service it needs is started if necessary.    *)
Handle(r) ==
  /\ request[r] = "handle" /\ ~Ended
  /\ request' = [request EXCEPT ![r] = "done"]
  /\ \E s \in Service : running' = running \cup {s}
  /\ UNCHANGED <<main, stopping, ready, stopped, listening, pool, reactor, monitor,
                 shutdown, todo, ran>>

-----------------------------------------------------------------------------
Next ==
  \/ MainStep \/ WaitForGateway \/ OnReady
  \/ \E k \in Exit : CallExit(k) \/ ShutdownThread(k)
  \/ \E r \in Request : Receive(r) \/ Admit(r) \/ Handle(r)

Spec == Init /\ [][Next]_vars

(* Every thread that can run is scheduled; hooks and requests end. Nothing *)
(* obliges anybody to call exit() or to send a request.                    *)
FairSpec ==
  /\ Spec
  /\ WF_vars(MainStep)
  /\ WF_vars(WaitForGateway) /\ WF_vars(OnReady)
  /\ \A k \in Exit : WF_vars(ShutdownThread(k))
  /\ \A r \in Request : WF_vars(Admit(r)) /\ WF_vars(Handle(r))

-----------------------------------------------------------------------------
(* Properties.                                                             *)

(* Types; a hook that ran is not to be run again.                          *)
TypeOK ==
  /\ main \in Main
  /\ stopping \in BOOLEAN /\ ready \in BOOLEAN
  /\ stopped \in BOOLEAN /\ listening \in BOOLEAN
  /\ pool \in {"none", "unpatched", "patched", "stopped"}
  /\ reactor \in {"idle", "running", "stopping"}
  /\ monitor \in MonitorStep
  /\ shutdown \in [Exit -> ShutdownStep]
  /\ todo \subseteq ShutdownHook
  /\ ran \in Seq(ShutdownHook) /\ \A i \in 1 .. Len(ran) : ran[i] \notin todo
  /\ running \subseteq Service
  /\ request \in [Request -> RequestStep]

(* "Should only be called once, on shutdown" (shutdown.py:45): however     *)
(* many signals and kill requests arrive, no shutdown hook runs twice.     *)
HooksOnce == \A i, j \in 1 .. Len(ran) : ran[i] = ran[j] => i = j

(* "Hooks with a higher priority value will be executed earlier": handlers *)
(* and init scripts run while the services are up, and the handlers of     *)
(* afterService after them, also when an exit() interrupts the start-up.   *)
HooksInOrder ==
  \A i, j \in 1 .. Len(ran) : i < j => Priority[ran[i]] >= Priority[ran[j]]

(* The main thread cleans up resources only when the shutdown hooks are     *)
(* through: the reactor never returns under a hook that is still to run.   *)
CleanupAfterHooks ==
  main \in {"returning", "exited"} =>
    stopping /\ todo = {} /\ \A k \in Exit : shutdown[k] # "hooks"

(* The runtime is announced only after its start hooks and with its port   *)
(* bound, or when it was already told to stop: nobody sees ready set for a  *)
(* gateway that could not bind.                                            *)
ReadyMeansBound == ready => listening \/ stopping

(* exit() of a serving runtime that was not told to stop before ends the   *)
(* process, whatever hooks raise and however many exits race.              *)
ExitEndsServing ==
  (main = "serving" /\ ~stopping /\ \E k \in Exit : shutdown[k] = "check")
    ~> (main = "exited")

(* A runtime that serves on its port gets ready unless it is told to stop  *)
(* or a ready hook raises.                                                 *)
BecomesReady ==
  (main = "serving" /\ listening) ~> (ready \/ stopping \/ monitor = "dead")

-----------------------------------------------------------------------------
(* What the code's own words say and the code does not do.                 *)

(* main.py:39, "signal handler to make sure SIGTERM properly shuts down    *)
(* localstack": the handler is installed before run(), and every exit()    *)
(* ends the process.                                                       *)
SignalShutsDown == \A k \in Exit : (shutdown[k] = "check") ~> Ended
=============================================================================
