----------------------------- MODULE ServiceLoader -----------------------------
(***************************************************************************)
(* The ServiceLoader handler (localstack/aws/handlers/service_plugin.py)   *)
(* and the ServiceRequestRouter it populates (aws/handlers/service.py),    *)
(* composed with the service manager: threads of the gateway take requests *)
(* through load_service and service_request_router, calling the manager's  *)
(* require() on the way, while another thread may stop the services.       *)
(***************************************************************************)
EXTENDS Naturals

CONSTANTS
  Thread, Service, Provided, Enabled, Faulty, Fragile, Ops, MaxCalls, Nobody,
  Op,          \* operations in the dispatch table of every skeleton
  MaxRequests  \* bound: requests each thread serves

ASSUME RequestsAssumption == MaxRequests \in Nat
ASSUME OperationAssumption == Service # {} /\ Op # {}

VARIABLES
  resolved, loaded, pluginErrors, loadLock, nextLock, loads,
  state, captured, up,
  pc, op, svc, myLock, todo, result, calls

Manager == INSTANCE ServicePlugins

(* What the manager assumes of its constants (ServicePlugins).             *)
ASSUME ManagerAssumption ==
  /\ Provided \subseteq Service /\ Enabled \subseteq Service
  /\ Faulty \subseteq Service /\ Fragile \subseteq Service
  /\ Ops \subseteq Manager!Operation
  /\ MaxCalls \in Nat

VARIABLES
  loadedServices,  \* ServiceLoader.loaded_services
  handlers,        \* ServiceRequestRouter.handlers: the keys <<service, operation>>
  step,            \* per thread: where its request is
  target,          \* per thread: context.service and context.operation
  adding,          \* per thread: operations add_skeleton() still has to add
  answer,          \* per thread: what became of its last request
  requests         \* per thread: requests taken so far

specs == <<loaded, pluginErrors, loadLock, nextLock, loads>>
container == <<state, captured, up>>
thread == <<pc, op, svc, myLock, todo, result, calls>>
manager == <<resolved, specs, container, thread>>
loader == <<loadedServices, handlers, step, target, adding, answer, requests>>
vars == <<manager, loader>>

Answer == {"none", "served", "not implemented", "not loaded", "no handler"}
Locked == {"recheck", "addSkeleton"}
At == {"free", "fast", "exists", "require", "awaiting", "lock", "route"} \cup Locked

Init ==
  /\ Manager!Init
  /\ loadedServices = {}
  /\ handlers = {}
  /\ step = [t \in Thread |-> "free"]
  /\ target = [t \in Thread |-> CHOOSE k \in Service \X Op : TRUE]
  /\ adding = [t \in Thread |-> {}]
  /\ answer = [t \in Thread |-> "none"]
  /\ requests = [t \in Thread |-> 0]

-----------------------------------------------------------------------------
GoTo(t, label) == step' = [step EXCEPT ![t] = label]

Reply(t, a) ==
  /\ GoTo(t, "free")
  /\ answer' = [answer EXCEPT ![t] = a]

(* The parsed request reaches the load_service handler.                    *)
Request(t, s, o) ==
  /\ step[t] = "free" /\ pc[t] = "idle"
  /\ requests[t] < MaxRequests /\ calls[t] < MaxCalls
  /\ requests' = [requests EXCEPT ![t] = @ + 1]
  /\ target' = [target EXCEPT ![t] = <<s, o>>]
  /\ answer' = [answer EXCEPT ![t] = "none"]
  /\ GoTo(t, "fast")
  /\ UNCHANGED <<manager, loadedServices, handlers, adding>>

(* The look at loaded_services without a lock.                             *)
FastPath(t) ==
  /\ step[t] = "fast"
  /\ GoTo(t, IF target[t][1] \in loadedServices THEN "route" ELSE "exists")
  /\ UNCHANGED <<manager, loadedServices, handlers, target, adding, answer, requests>>

(* Variant: a request for a disabled API waits until it is enabled.        *)
AwaitEnabled(t) ==
  /\ step[t] = "exists"
  /\ Manager!ReadSpecs
  /\ GoTo(t, IF target[t][1] \in Provided \cap Enabled THEN "require" ELSE "fast")
  /\ UNCHANGED <<specs, container, thread, loadedServices, handlers, target, adding,
                 answer, requests>>

(* service_manager.exists() and is_api_enabled(), else NotImplementedError. *)
CheckEnabled(t) ==
  /\ step[t] = "exists"
  /\ Manager!ReadSpecs
  /\ IF target[t][1] \in Provided \cap Enabled
     THEN GoTo(t, "require") /\ UNCHANGED answer
     ELSE Reply(t, "not implemented")
  /\ UNCHANGED <<specs, container, thread, loadedServices, handlers, target, adding, requests>>

CallRequire(t) ==
  /\ step[t] = "require"
  /\ Manager!Require(t, target[t][1])
  /\ GoTo(t, "awaiting")
  /\ UNCHANGED <<loadedServices, handlers, target, adding, answer, requests>>

(* Variant: a require() that raised counts as one that returned.           *)
RequireEnded(t) ==
  /\ step[t] = "awaiting" /\ pc[t] = "idle"
  /\ GoTo(t, "lock")
  /\ UNCHANGED <<manager, loadedServices, handlers, target, adding, answer, requests>>

(* require() returned the service, or raised and the exception handlers    *)
(* answer the request.                                                     *)
RequireReturned(t) ==
  /\ step[t] = "awaiting" /\ pc[t] = "idle"
  /\ IF result[t] = "running"
     THEN GoTo(t, "lock") /\ UNCHANGED answer
     ELSE Reply(t, "not loaded")
  /\ UNCHANGED <<manager, loadedServices, handlers, target, adding, requests>>

LockService(t) ==
  /\ step[t] = "lock"
  /\ \A u \in Thread : ~(step[u] \in Locked /\ target[u][1] = target[t][1])
  /\ GoTo(t, "recheck")
  /\ UNCHANGED <<manager, loadedServices, handlers, target, adding, answer, requests>>

(* Variant: the service is never added to loaded_services.                 *)
MarkNothing(t) ==
  /\ step[t] = "recheck"
  /\ adding' = [adding EXCEPT ![t] = Op]
  /\ GoTo(t, "addSkeleton")
  /\ UNCHANGED <<manager, loadedServices, handlers, target, answer, requests>>

(* Variant: no second look at loaded_services.                             *)
MarkAlways(t) ==
  /\ step[t] = "recheck"
  /\ loadedServices' = loadedServices \cup {target[t][1]}
  /\ adding' = [adding EXCEPT ![t] = Op]
  /\ GoTo(t, "addSkeleton")
  /\ UNCHANGED <<manager, handlers, target, answer, requests>>

(* The service is marked as loaded before its routes are added.            *)
MarkLoaded(t) ==
  LET s == target[t][1] IN
  /\ step[t] = "recheck"
  /\ IF s \in loadedServices
     THEN GoTo(t, "route") /\ UNCHANGED <<loadedServices, adding>>
     ELSE /\ loadedServices' = loadedServices \cup {s}
          /\ adding' = [adding EXCEPT ![t] = Op]
          /\ GoTo(t, "addSkeleton")
  /\ UNCHANGED <<manager, handlers, target, answer, requests>>

(* Variant: the loop over the dispatch table ends after its first entry.   *)
AddFirstRoute(t) ==
  /\ step[t] = "addSkeleton"
  /\ \E o \in adding[t] :
       /\ handlers' = handlers \cup {<<target[t][1], o>>}
       /\ adding' = [adding EXCEPT ![t] = {}]
       /\ GoTo(t, "route")
  /\ UNCHANGED <<manager, loadedServices, target, answer, requests>>

(* add_skeleton(): add_handler() for one operation of the dispatch table.  *)
(* The last one releases the service's lock.                               *)
AddRoute(t) ==
  /\ step[t] = "addSkeleton"
  /\ \E o \in adding[t] :
       /\ handlers' = handlers \cup {<<target[t][1], o>>}
       /\ adding' = [adding EXCEPT ![t] = @ \ {o}]
       /\ GoTo(t, IF adding[t] = {o} THEN "route" ELSE "addSkeleton")
  /\ UNCHANGED <<manager, loadedServices, target, answer, requests>>

(* ServiceRequestRouter.__call__                                           *)
Route(t) ==
  /\ step[t] = "route"
  /\ Reply(t, IF target[t] \in handlers THEN "served" ELSE "no handler")
  /\ UNCHANGED <<manager, loadedServices, handlers, target, adding, requests>>

(* A thread without a request may run the stop of all services.            *)
StopAll(t) ==
  /\ step[t] = "free"
  /\ Manager!CheckAllOrStop(t, "stop")
  /\ UNCHANGED loader

ManagerStep(t) == Manager!Step(t) /\ UNCHANGED loader

Handle(t) ==
  \/ FastPath(t) \/ CheckEnabled(t) \/ CallRequire(t) \/ RequireReturned(t)
  \/ LockService(t) \/ MarkLoaded(t) \/ AddRoute(t) \/ Route(t)
  \/ ManagerStep(t)

Quiet ==
  /\ \A t \in Thread : step[t] = "free" /\ pc[t] = "idle"
  /\ UNCHANGED vars

Next ==
  \/ \E t \in Thread :
       \/ \E s \in Service, o \in Op : Request(t, s, o)
       \/ StopAll(t)
       \/ Handle(t)
  \/ Quiet

Spec == Init /\ [][Next]_vars

(* Threads of the pool that have work are scheduled.                       *)
FairSpec == Spec /\ \A t \in Thread : WF_vars(Handle(t))

-----------------------------------------------------------------------------
(* Properties.                                                             *)

TypeOK ==
  /\ Manager!TypeOK
  /\ loadedServices \subseteq Service
  /\ handlers \subseteq loadedServices \X Op
  /\ step \in [Thread -> At]
  /\ target \in [Thread -> Service \X Op]
  /\ adding \in [Thread -> SUBSET Op]
  /\ answer \in [Thread -> Answer]
  /\ requests \in [Thread -> 0 .. MaxRequests]

(* The router never overwrites a route: the routes a thread is about to    *)
(* add are not there yet, so no request sees its handler exchanged.        *)
RoutesAddedOnce ==
  \A t \in Thread, o \in Op :
    step[t] = "addSkeleton" /\ o \in adding[t] => <<target[t][1], o>> \notin handlers

(* Only a service the manager has loaded and enabled is routed to, and it  *)
(* was loaded once, however many first requests raced for it.              *)
RoutedServicesLoaded ==
  \A k \in handlers : k[1] \in loaded \cap Enabled /\ loads[k[1]] = 1

(* The window in which a service counts as loaded without all its routes   *)
(* closes: every operation of a loaded service is routed in the end.       *)
RoutesComplete ==
  \A s \in Service, o \in Op : (s \in loadedServices) ~> (<<s, o>> \in handlers)

(* Every request is answered, although threads wait for each other in the  *)
(* manager and at the lock of the service.                                 *)
RequestsAnswered == \A t \in Thread : (step[t] # "free") ~> (step[t] = "free")

(* aws/app.py:51-52: "once we have the service request we can make sure we *)
(* load the service", "once we know the service is loaded we can route the *)
(* request": a request for an operation of the dispatch table that passed  *)
(* the loader finds its handler.                                           *)
LoadedIsRouted == \A t \in Thread : answer[t] # "no handler"
=============================================================================
