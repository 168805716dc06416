-------------------------- MODULE ServiceLoaderProofs --------------------------
(***************************************************************************)
(* The routes of a service are added once, and lead to a service that the   *)
(* manager has loaded, for any number of threads, services and operations. *)
(***************************************************************************)
EXTENDS ServiceLoader, TLAPS

(* What the steps of the loader rely on of its variables. *)
LoaderTypes ==
  /\ step \in [Thread -> At]
  /\ target \in [Thread -> Service \X Op]
  /\ adding \in [Thread -> SUBSET Op]

(* The lock of a service has one holder. *)
LockInv ==
  \A t, u \in Thread :
    step[t] \in Locked /\ step[u] \in Locked /\ target[t][1] = target[u][1] => t = u

(* Whoever adds routes has marked the service; a service without a mark has *)
(* no route.  So a thread that finds no mark under the lock finds no route. *)
MarkInv ==
  /\ \A k \in handlers : k[1] \in loadedServices
  /\ \A t \in Thread : step[t] = "addSkeleton" => target[t][1] \in loadedServices

IInv == LoaderTypes /\ LockInv /\ MarkInv /\ RoutesAddedOnce
-----------------------------------------------------------------------------
LEMMA InitIInv == Init => IInv
<1> SUFFICES ASSUME Init PROVE IInv
  OBVIOUS
<1>0. PICK s \in Service : TRUE
  BY OperationAssumption
<1>a. PICK o \in Op : TRUE
  BY OperationAssumption
<1>b. <<s, o>> \in Service \X Op
  OBVIOUS
<1>c. (CHOOSE k \in Service \X Op : TRUE) \in Service \X Op
  BY <1>b
<1>1. target \in [Thread -> Service \X Op]
  BY <1>c DEF Init
<1>2. step \in [Thread -> At] /\ \A t \in Thread : step[t] = "free"
  BY DEF Init, At
<1> QED
  BY <1>1, <1>2 DEF Init, IInv, LoaderTypes, LockInv, MarkInv, RoutesAddedOnce, Locked

(* The manager and the requests for it leave what the invariant is about.  *)
LEMMA StutterStep == IInv /\ UNCHANGED loader => IInv'
<1> SUFFICES ASSUME IInv, UNCHANGED loader PROVE IInv'
  OBVIOUS
<1>1. UNCHANGED <<step, target, adding, loadedServices, handlers>>
  BY DEF loader
<1> QED  BY <1>1 DEF IInv, LoaderTypes, LockInv, MarkInv, RoutesAddedOnce

(* So does a step of a thread that holds no lock before or after it and    *)
(* adds nothing, whatever it does to its request.                          *)
LEMMA UnlockedStep ==
  ASSUME IInv, NEW t \in Thread,
         step[t] \notin Locked,
         step' \in [Thread -> At], step'[t] \notin Locked,
         target' \in [Thread -> Service \X Op],
         \A u \in Thread \ {t} : step'[u] = step[u] /\ target'[u] = target[u],
         UNCHANGED <<adding, loadedServices, handlers>>
  PROVE  IInv'
<1>1. \A u \in Thread : step'[u] \in Locked => u # t
  OBVIOUS
<1>2. LoaderTypes'
  BY DEF IInv, LoaderTypes
<1>3. LockInv'
  BY <1>1 DEF IInv, LockInv
<1>4. MarkInv'
  BY <1>1 DEF IInv, MarkInv, Locked
<1>5. RoutesAddedOnce'
  BY <1>1 DEF IInv, RoutesAddedOnce, Locked
<1> QED  BY <1>2, <1>3, <1>4, <1>5 DEF IInv

LEMMA LoaderStep == IInv /\ [Next]_vars => IInv'
<1> SUFFICES ASSUME IInv, [Next]_vars PROVE IInv'
  OBVIOUS
<1>0. LoaderTypes
  BY DEF IInv
<1>1. ASSUME NEW t \in Thread, NEW s \in Service, NEW o \in Op, Request(t, s, o) PROVE IInv'
  <2>1. step[t] = "free" /\ step' = [step EXCEPT ![t] = "fast"] /\ target' = [target EXCEPT ![t] = <<s, o>>]
    BY <1>1 DEF Request, GoTo
  <2>2. UNCHANGED <<adding, loadedServices, handlers>>
    BY <1>1 DEF Request
  <2> QED  BY <1>0, <2>1, <2>2, UnlockedStep DEF LoaderTypes, At, Locked
<1>2. ASSUME NEW t \in Thread,
             step[t] \in {"fast", "exists", "require", "awaiting"},
             NEW label \in {"free", "route", "exists", "require", "awaiting", "lock"},
             step' = [step EXCEPT ![t] = label],
             UNCHANGED <<target, adding, loadedServices, handlers>>
      PROVE  IInv'
  <2>1. step' \in [Thread -> At] /\ step'[t] \notin Locked /\ step[t] \notin Locked
    BY <1>0, <1>2 DEF LoaderTypes, At, Locked
  <2> QED  BY <1>0, <1>2, <2>1, UnlockedStep DEF LoaderTypes
<1>3. ASSUME NEW t \in Thread, FastPath(t) PROVE IInv'
  <2>1. step' = [step EXCEPT ![t] = "route"] \/ step' = [step EXCEPT ![t] = "exists"]
    BY <1>3 DEF FastPath, GoTo
  <2> QED  BY <1>2, <1>3, <2>1 DEF FastPath
<1>4. ASSUME NEW t \in Thread, CheckEnabled(t) PROVE IInv'
  <2>1. step' = [step EXCEPT ![t] = "require"] \/ step' = [step EXCEPT ![t] = "free"]
    BY <1>4 DEF CheckEnabled, GoTo, Reply
  <2> QED  BY <1>2, <1>4, <2>1 DEF CheckEnabled
<1>5. ASSUME NEW t \in Thread, CallRequire(t) PROVE IInv'
  BY <1>2, <1>5 DEF CallRequire, GoTo
<1>6. ASSUME NEW t \in Thread, RequireReturned(t) PROVE IInv'
  <2>1. step' = [step EXCEPT ![t] = "lock"] \/ step' = [step EXCEPT ![t] = "free"]
    BY <1>6 DEF RequireReturned, GoTo, Reply
  <2> QED  BY <1>2, <1>6, <2>1 DEF RequireReturned
<1>7. ASSUME NEW t \in Thread, LockService(t) PROVE IInv'
  <2>1. step' = [step EXCEPT ![t] = "recheck"]
    BY <1>7 DEF LockService, GoTo
  <2>2. UNCHANGED <<target, adding, loadedServices, handlers>>
    BY <1>7 DEF LockService
  <2>3. \A u \in Thread : ~(step[u] \in Locked /\ target[u][1] = target[t][1])
    BY <1>7 DEF LockService
  <2>4. LoaderTypes'
    BY <1>0, <2>1, <2>2 DEF LoaderTypes, At, Locked
  <2>5. \A u \in Thread : u # t => step'[u] = step[u]
    BY <1>0, <2>1 DEF LoaderTypes
  <2>6. LockInv'
    BY <2>2, <2>3, <2>5 DEF IInv, LockInv
  <2>7. step'[t] # "addSkeleton"
    BY <1>0, <2>1 DEF LoaderTypes
  <2>8. MarkInv' /\ RoutesAddedOnce'
    BY <2>2, <2>5, <2>7 DEF IInv, MarkInv, RoutesAddedOnce
  <2> QED  BY <2>4, <2>6, <2>8 DEF IInv
<1>8. ASSUME NEW t \in Thread, MarkLoaded(t) PROVE IInv'
  <2> DEFINE s == target[t][1]
  <2>0. step[t] = "recheck" /\ UNCHANGED <<handlers, target>> /\ s \in Service
    BY <1>0, <1>8 DEF MarkLoaded, LoaderTypes
  <2>1. CASE s \in loadedServices
    <3>1. step' = [step EXCEPT ![t] = "route"] /\ UNCHANGED <<loadedServices, adding>>
      BY <1>8, <2>1 DEF MarkLoaded, GoTo
    <3>2. LoaderTypes' /\ \A u \in Thread : step'[u] \in Locked => u # t /\ step'[u] = step[u]
      BY <1>0, <2>0, <3>1 DEF LoaderTypes, At, Locked
    <3>3. LockInv'
      BY <2>0, <3>2 DEF IInv, LockInv
    <3>4. MarkInv' /\ RoutesAddedOnce'
      BY <2>0, <3>1, <3>2 DEF IInv, MarkInv, RoutesAddedOnce, Locked
    <3> QED  BY <3>2, <3>3, <3>4 DEF IInv
  <2>2. CASE s \notin loadedServices
    <3>1. /\ loadedServices' = loadedServices \cup {s}
          /\ adding' = [adding EXCEPT ![t] = Op]
          /\ step' = [step EXCEPT ![t] = "addSkeleton"]
      BY <1>8, <2>2 DEF MarkLoaded, GoTo
    <3>2. LoaderTypes' /\ \A u \in Thread : u # t => step'[u] = step[u] /\ adding'[u] = adding[u]
      BY <1>0, <2>0, <3>1 DEF LoaderTypes, At, Locked
    <3>3. LockInv'
      <4>1. \A u \in Thread : step'[u] \in Locked => step[u] \in Locked
        BY <2>0, <3>2 DEF Locked
      <4> QED  BY <2>0, <4>1 DEF IInv, LockInv
    <3>4. MarkInv'
      <4>1. \A k \in handlers' : k[1] \in loadedServices'
        BY <2>0, <3>1 DEF IInv, MarkInv
      <4>2. ASSUME NEW u \in Thread, step'[u] = "addSkeleton" PROVE target'[u][1] \in loadedServices'
        BY <2>0, <3>1, <3>2, <4>2 DEF IInv, MarkInv
      <4> QED  BY <4>1, <4>2 DEF MarkInv
    <3>5. RoutesAddedOnce'
      <4>1. ASSUME NEW o \in Op PROVE <<s, o>> \notin handlers
        BY <2>2 DEF IInv, MarkInv
      <4> QED  BY <2>0, <3>2, <4>1 DEF IInv, RoutesAddedOnce
    <3> QED  BY <3>2, <3>3, <3>4, <3>5 DEF IInv
  <2> QED  BY <2>1, <2>2
<1>9. ASSUME NEW t \in Thread, AddRoute(t) PROVE IInv'
  <2>1. step[t] = "addSkeleton" /\ UNCHANGED <<loadedServices, target>>
    BY <1>9 DEF AddRoute
  <2>2. PICK o \in adding[t] :
          /\ handlers' = handlers \cup {<<target[t][1], o>>}
          /\ adding' = [adding EXCEPT ![t] = @ \ {o}]
          /\ step' = [step EXCEPT ![t] = IF adding[t] = {o} THEN "route" ELSE "addSkeleton"]
    BY <1>9 DEF AddRoute, GoTo
  <2>3. o \in Op /\ adding'[t] = adding[t] \ {o} /\ \A u \in Thread : u # t => adding'[u] = adding[u]
    BY <1>0, <2>2 DEF LoaderTypes
  <2>4. LoaderTypes' /\ \A u \in Thread : step'[u] = step[u] \/ (u = t /\ step'[u] = "route")
    BY <1>0, <2>1, <2>2 DEF LoaderTypes, At, Locked
  <2>5. LockInv'
    BY <2>1, <2>4 DEF IInv, LockInv, Locked
  <2>6. target[t][1] \in loadedServices
    BY <2>1 DEF IInv, MarkInv
  <2>7. MarkInv'
    BY <2>1, <2>2, <2>4, <2>6 DEF IInv, MarkInv
  <2>8. ASSUME NEW u \in Thread, NEW q \in Op, step'[u] = "addSkeleton", q \in adding'[u]
        PROVE  <<target'[u][1], q>> \notin handlers'
    <3>1. step[u] = "addSkeleton"
      BY <2>4, <2>8
    <3>2. q \in adding[u] /\ <<target[u][1], q>> \notin handlers
      BY <2>3, <2>8, <3>1 DEF IInv, RoutesAddedOnce
    <3>3. u # t => target[u][1] # target[t][1]
      BY <2>1, <3>1 DEF IInv, LockInv, Locked
    <3>4. u = t => q # o
      BY <2>3, <2>8
    <3> QED  BY <2>1, <2>2, <3>2, <3>3, <3>4
  <2> QED  BY <2>4, <2>5, <2>7, <2>8 DEF IInv, RoutesAddedOnce
<1>10. ASSUME NEW t \in Thread, Route(t) PROVE IInv'
  <2>1. step[t] = "route" /\ step' = [step EXCEPT ![t] = "free"]
    BY <1>10 DEF Route, Reply, GoTo
  <2>2. UNCHANGED <<target, adding, loadedServices, handlers>>
    BY <1>10 DEF Route
  <2> QED  BY <1>0, <2>1, <2>2, UnlockedStep DEF LoaderTypes, At, Locked
<1>11. ASSUME NEW t \in Thread, StopAll(t) \/ ManagerStep(t) PROVE IInv'
  BY <1>11, StutterStep DEF StopAll, ManagerStep
<1>12. CASE UNCHANGED vars
  BY <1>12, StutterStep DEF vars
<1> QED
  BY <1>1, <1>3, <1>4, <1>5, <1>6, <1>7, <1>8, <1>9, <1>10, <1>11, <1>12 DEF Next, Handle, Quiet

(* The second look at loaded_services under the lock of the service lets   *)
(* one thread add its routes, once each (service_plugin.py:66-72).         *)
THEOREM RoutesOnce == Spec => []RoutesAddedOnce
<1>1. IInv => RoutesAddedOnce
  BY DEF IInv
<1> QED  BY InitIInv, LoaderStep, <1>1, PTL DEF Spec

-----------------------------------------------------------------------------
(* The manager below the loader.  What ServicePluginsProofs proves of its  *)
(* steps holds of the steps that the threads of the gateway take in it.    *)
P == INSTANCE ServicePluginsProofs

LEMMA ManagerAssumptions ==
  /\ P!ServiceAssumption /\ P!ProvidedAssumption /\ P!EnabledAssumption /\ P!FailureAssumption
  /\ P!OpsAssumption /\ P!CallsAssumption
  BY ManagerAssumption, OperationAssumption
  DEF P!ServiceAssumption, P!ProvidedAssumption, P!EnabledAssumption, P!FailureAssumption,
      P!OpsAssumption, P!CallsAssumption, Manager!Operation, P!Operation

(* Manager and P are two instances of the same definitions.                *)
LEMMA SameInit == Manager!Init <=> P!Init
  BY DEF Manager!Init, P!Init

LEMMA SameCalls ==
  \A t : /\ \A s : Manager!Require(t, s) <=> P!Require(t, s)
         /\ \A o : Manager!CheckAllOrStop(t, o) <=> P!CheckAllOrStop(t, o)
  BY DEF Manager!Require, P!Require, Manager!CheckAllOrStop, P!CheckAllOrStop, Manager!BeginCall,
     P!BeginCall, Manager!Goto, P!Goto, Manager!manager, P!manager, Manager!container, P!container

LEMMA SameStep == \A t : Manager!Step(t) <=> P!Step(t)
  BY DEF Manager!Step, P!Step, Manager!GetServiceContainer, P!GetServiceContainer,
     Manager!RequireContainer, P!RequireContainer, Manager!StopServices, P!StopServices,
     Manager!Collect, P!Collect, Manager!CheckNext, P!CheckNext, Manager!IfCheckable, P!IfCheckable,
     Manager!Get, P!Get, Manager!Exists, P!Exists, Manager!GetLoadLock, P!GetLoadLock,
     Manager!AcquireLoadLock, P!AcquireLoadLock, Manager!Recheck, P!Recheck, Manager!Load, P!Load,
     Manager!LoadRaises, P!LoadRaises, Manager!LoadEmpty, P!LoadEmpty, Manager!AddService,
     P!AddService, Manager!DelLoadLock, P!DelLoadLock, Manager!Unlock, P!Unlock, Manager!PollStart,
     P!PollStart, Manager!WaitStart, P!WaitStart, Manager!PollStop, P!PollStop, Manager!WaitStop,
     P!WaitStop, Manager!LockContainer, P!LockContainer, Manager!IfRunning, P!IfRunning,
     Manager!IfError, P!IfError, Manager!IfStartable, P!IfStartable, Manager!SetStarting,
     P!SetStarting, Manager!Starting, P!Starting, Manager!Checking, P!Checking, Manager!SetRunning,
     P!SetRunning, Manager!Failed, P!Failed, Manager!AppendError, P!AppendError, Manager!StopMutex,
     P!StopMutex, Manager!StopNext, P!StopNext, Manager!SetStopping, P!SetStopping,
     Manager!Stopping, P!Stopping, Manager!SetStopped, P!SetStopped, Manager!AppendStopError,
     P!AppendStopError, Manager!ReadSpecs, P!ReadSpecs, Manager!Goto, P!Goto, Manager!MutexFree,
     P!MutexFree, Manager!HoldsMutex, P!HoldsMutex, Manager!MutexRegion, P!MutexRegion,
     Manager!HoldsLoadLock, P!HoldsLoadLock, Manager!LoadRegion, P!LoadRegion,
     Manager!HoldsContainer, P!HoldsContainer, Manager!ContainerRegion, P!ContainerRegion,
     Manager!StartRegion, P!StartRegion, Manager!CheckRegion, P!CheckRegion, Manager!Finish,
     P!Finish, Manager!GotContainer, P!GotContainer, Manager!NoContainer, P!NoContainer,
     Manager!SetState, P!SetState, Manager!GetState, P!GetState, Manager!ReadOnly, P!ReadOnly,
     Manager!manager, P!manager, Manager!container, P!container

(* Between its look at the specs and its route a request has a service that *)
(* is enabled, and from the return of require() on one that is loaded.     *)
RequestInv ==
  \A t \in Thread :
    /\ step[t] \in {"require", "awaiting"} => target[t][1] \in Enabled
    /\ step[t] = "awaiting" =>
         /\ op[t] = "require" /\ svc[t] = target[t][1]
         /\ pc[t] = "idle" /\ result[t] = "running" => svc[t] \in loaded
    /\ step[t] \in {"lock"} \cup Locked => target[t][1] \in loaded \cap Enabled

LoadedInv == loadedServices \subseteq loaded \cap Enabled

RInv == IInv /\ P!CallerInv /\ RequestInv /\ LoadedInv

LEMMA InitRInv == Init => RInv
<1> SUFFICES ASSUME Init PROVE RInv
  OBVIOUS
<1>1. IInv
  BY InitIInv
<1>2. P!CallerInv
  BY SameInit, ManagerAssumptions, P!CallerInit DEF Init
<1>3. RequestInv /\ LoadedInv
  BY DEF Init, RequestInv, LoadedInv, Locked
<1> QED  BY <1>1, <1>2, <1>3 DEF RInv

(* A thread in the manager: its own request may see its call end, those of *)
(* the others only see more services loaded.                               *)
LEMMA ManagerKeeps ==
  ASSUME RInv, NEW t \in Thread, Manager!Step(t), UNCHANGED loader
  PROVE  RequestInv' /\ LoadedInv'
<1>1. UNCHANGED <<step, target, loadedServices>>
  BY DEF loader
<1>2. /\ pc[t] # "idle" /\ op' = op /\ loaded \subseteq loaded'
      /\ \A u \in Thread \ {t} : pc'[u] = pc[u] /\ svc'[u] = svc[u] /\ result'[u] = result[u]
      /\ op[t] = "require" => P!Served(t)
  BY SameStep, ManagerAssumptions, P!StepServes DEF RInv
<1>3. LoadedInv'
  BY <1>1, <1>2 DEF RInv, LoadedInv
<1>4. ASSUME NEW u \in Thread, step'[u] = "awaiting"
      PROVE  /\ op'[u] = "require" /\ svc'[u] = target'[u][1]
             /\ pc'[u] = "idle" /\ result'[u] = "running" => svc'[u] \in loaded'
  <2>1. /\ op[u] = "require" /\ svc[u] = target[u][1]
        /\ pc[u] = "idle" /\ result[u] = "running" => svc[u] \in loaded
    BY <1>1, <1>4 DEF RInv, RequestInv
  <2>2. CASE u = t
    BY <1>1, <1>2, <2>1, <2>2 DEF P!Served
  <2>3. CASE u # t
    BY <1>1, <1>2, <2>1, <2>3
  <2> QED  BY <2>2, <2>3
<1>5. RequestInv'
  BY <1>1, <1>2, <1>4 DEF RInv, RequestInv
<1> QED  BY <1>3, <1>5

(* A step of the loader moves the request of one thread to a label whose   *)
(* condition it establishes, and leaves the manager alone.                 *)
Ready(s, label) ==
  /\ label \notin {"awaiting"}
  /\ label = "require" => s \in Enabled
  /\ label \in {"lock"} \cup Locked => s \in loaded \cap Enabled

LEMMA LoaderKeeps ==
  ASSUME RInv, NEW t \in Thread, NEW label, step' = [step EXCEPT ![t] = label],
         Ready(target'[t][1], label), \A u \in Thread \ {t} : target'[u] = target[u],
         UNCHANGED <<loaded, thread>>
  PROVE  RequestInv'
<1>1. step'[t] = label /\ \A u \in Thread \ {t} : step'[u] = step[u]
  BY DEF RInv, IInv, LoaderTypes
<1>2. UNCHANGED <<loaded, pc, op, svc, result>>
  BY DEF thread
<1> QED  BY <1>1, <1>2 DEF RInv, RequestInv, Ready

LEMMA RInvStep == RInv /\ [Next]_vars => RInv'
<1> SUFFICES ASSUME RInv, [Next]_vars PROVE RInv'
  OBVIOUS
<1>0. IInv'
  BY LoaderStep DEF RInv
<1>a. ASSUME UNCHANGED manager PROVE P!CallerInv'
  <2>1. resolved' \in BOOLEAN
    BY <1>a DEF manager, RInv, P!CallerInv, P!TypeInv, P!TypeOK
  <2> QED
    BY <1>a, <2>1, ManagerAssumptions, P!CallerReads
    DEF RInv, manager, specs, container, thread, P!container, P!thread
<1>b. ASSUME UNCHANGED <<manager, loadedServices>> PROVE LoadedInv'
  BY <1>b DEF manager, specs, RInv, LoadedInv
<1>1. ASSUME NEW t \in Thread, NEW label, UNCHANGED <<manager, loadedServices>>,
             step' = [step EXCEPT ![t] = label], Ready(target'[t][1], label),
             \A u \in Thread \ {t} : target'[u] = target[u]
      PROVE  RInv'
  <2>1. RequestInv'
    BY <1>1, LoaderKeeps DEF manager, specs
  <2> QED  BY <1>0, <1>1, <1>a, <1>b, <2>1 DEF RInv
<1>2. ASSUME NEW t \in Thread, NEW s \in Service, NEW o \in Op, Request(t, s, o) PROVE RInv'
  <2>1. \A u \in Thread \ {t} : target'[u] = target[u]
    BY <1>2 DEF Request, RInv, IInv, LoaderTypes
  <2>2. UNCHANGED <<manager, loadedServices>> /\ step' = [step EXCEPT ![t] = "fast"]
    BY <1>2 DEF Request, GoTo
  <2> QED  BY <1>1, <2>1, <2>2 DEF Ready, Locked
<1>3. ASSUME NEW t \in Thread, FastPath(t) PROVE RInv'
  <2>1. UNCHANGED <<manager, loadedServices, target>>
    BY <1>3 DEF FastPath
  <2>2. step' = [step EXCEPT ![t] = "route"] \/ step' = [step EXCEPT ![t] = "exists"]
    BY <1>3 DEF FastPath, GoTo
  <2> QED  BY <1>1, <2>1, <2>2 DEF Ready, Locked
<1>4. ASSUME NEW t \in Thread, CheckEnabled(t) PROVE RInv'
  <2>1. /\ resolved' = TRUE /\ UNCHANGED <<loaded, pluginErrors, loadLock, nextLock, loads, container, thread>>
        /\ UNCHANGED <<loadedServices, target>>
    BY <1>4 DEF CheckEnabled, Manager!ReadSpecs, specs
  <2>2. \/ step' = [step EXCEPT ![t] = "free"]
        \/ step' = [step EXCEPT ![t] = "require"] /\ target[t][1] \in Enabled
    BY <1>4 DEF CheckEnabled, GoTo, Reply
  <2>3. P!CallerInv'
    BY <2>1, ManagerAssumptions, P!CallerReads DEF RInv, container, thread, P!container, P!thread
  <2>4. RequestInv'
    BY <2>1, <2>2, LoaderKeeps DEF Ready, Locked
  <2>5. LoadedInv'
    BY <2>1 DEF RInv, LoadedInv
  <2> QED  BY <1>0, <2>3, <2>4, <2>5 DEF RInv
<1>5. ASSUME NEW t \in Thread, CallRequire(t) PROVE RInv'
  <2>1. /\ step[t] = "require" /\ step' = [step EXCEPT ![t] = "awaiting"]
        /\ Manager!Require(t, target[t][1]) /\ UNCHANGED <<target, loadedServices>>
    BY <1>5 DEF CallRequire, GoTo
  <2>2. target[t][1] \in Service /\ target[t][1] \in Enabled
    BY <2>1 DEF RInv, IInv, LoaderTypes, RequestInv
  <2>3. P!Call(t)
    BY <2>1, <2>2, SameCalls DEF P!Call
  <2>4. P!CallerInv'
    BY <2>3, ManagerAssumptions, P!CallerCall DEF RInv
  <2>5. /\ op' = [op EXCEPT ![t] = "require"] /\ svc' = [svc EXCEPT ![t] = target[t][1]]
        /\ pc' = [pc EXCEPT ![t] = "get"] /\ result' = [result EXCEPT ![t] = "none"] /\ loaded' = loaded
    BY <2>1 DEF Manager!Require, Manager!BeginCall, Manager!Goto, Manager!manager
  <2>6. /\ op \in [Thread -> P!Operation] /\ svc \in [Thread -> Service] /\ pc \in [Thread -> P!PC]
        /\ result \in [Thread -> P!Result] /\ step \in [Thread -> At]
    BY DEF RInv, IInv, LoaderTypes, P!CallerInv, P!TypeInv, P!TypeOK
  <2>7. /\ op'[t] = "require" /\ svc'[t] = target[t][1] /\ pc'[t] = "get" /\ step'[t] = "awaiting"
        /\ \A u \in Thread \ {t} : /\ op'[u] = op[u] /\ svc'[u] = svc[u] /\ pc'[u] = pc[u]
                                   /\ result'[u] = result[u] /\ step'[u] = step[u]
    BY <2>1, <2>5, <2>6
  <2>8. RequestInv'
    BY <2>1, <2>2, <2>5, <2>7 DEF RInv, RequestInv, Locked
  <2>9. LoadedInv'
    BY <2>1, <2>5 DEF RInv, LoadedInv
  <2> QED  BY <1>0, <2>4, <2>8, <2>9 DEF RInv
<1>6. ASSUME NEW t \in Thread, RequireReturned(t) PROVE RInv'
  <2>1. UNCHANGED <<manager, loadedServices, target>> /\ step[t] = "awaiting" /\ pc[t] = "idle"
    BY <1>6 DEF RequireReturned
  <2>2. \/ step' = [step EXCEPT ![t] = "free"]
        \/ step' = [step EXCEPT ![t] = "lock"] /\ result[t] = "running"
    BY <1>6 DEF RequireReturned, GoTo, Reply
  <2>3. result[t] = "running" => target[t][1] \in loaded \cap Enabled
    BY <2>1 DEF RInv, RequestInv
  <2> QED  BY <1>1, <2>1, <2>2, <2>3 DEF Ready, Locked
<1>7. ASSUME NEW t \in Thread, LockService(t) PROVE RInv'
  <2>1. UNCHANGED <<manager, loadedServices, target>> /\ step' = [step EXCEPT ![t] = "recheck"]
    BY <1>7 DEF LockService, GoTo
  <2>2. target[t][1] \in loaded \cap Enabled
    BY <1>7 DEF LockService, RInv, RequestInv
  <2> QED  BY <1>1, <2>1, <2>2 DEF Ready
<1>8. ASSUME NEW t \in Thread, MarkLoaded(t) PROVE RInv'
  <2>1. UNCHANGED <<manager, target>> /\ loadedServices' \subseteq loadedServices \cup {target[t][1]}
    BY <1>8 DEF MarkLoaded
  <2>2. step' = [step EXCEPT ![t] = "route"] \/ step' = [step EXCEPT ![t] = "addSkeleton"]
    BY <1>8 DEF MarkLoaded, GoTo
  <2>3. target[t][1] \in loaded \cap Enabled
    BY <1>8 DEF MarkLoaded, RInv, RequestInv, Locked
  <2>4. UNCHANGED <<loaded, thread>>
    BY <2>1 DEF manager, specs
  <2>5. RequestInv'
    BY <2>1, <2>2, <2>3, <2>4, LoaderKeeps DEF Ready, Locked
  <2>6. LoadedInv'
    BY <2>1, <2>3, <2>4 DEF RInv, LoadedInv
  <2> QED  BY <1>0, <1>a, <2>1, <2>5, <2>6 DEF RInv
<1>9. ASSUME NEW t \in Thread, AddRoute(t) PROVE RInv'
  <2>1. UNCHANGED <<manager, loadedServices, target>> /\ step[t] = "addSkeleton"
    BY <1>9 DEF AddRoute
  <2>2. step' = [step EXCEPT ![t] = "route"] \/ step' = [step EXCEPT ![t] = "addSkeleton"]
    BY <1>9 DEF AddRoute, GoTo
  <2>3. target[t][1] \in loaded \cap Enabled
    BY <2>1 DEF RInv, RequestInv, Locked
  <2> QED  BY <1>1, <2>1, <2>2, <2>3 DEF Ready, Locked
<1>10. ASSUME NEW t \in Thread, Route(t) PROVE RInv'
  <2>1. UNCHANGED <<manager, loadedServices, target>> /\ step' = [step EXCEPT ![t] = "free"]
    BY <1>10 DEF Route, Reply, GoTo
  <2> QED  BY <1>1, <2>1 DEF Ready, Locked
<1>11. ASSUME NEW t \in Thread, ManagerStep(t) PROVE RInv'
  <2>1. P!CallerInv'
    BY <1>11, SameStep, ManagerAssumptions, P!CallerStep DEF ManagerStep, RInv
  <2>2. RequestInv' /\ LoadedInv'
    BY <1>11, ManagerKeeps DEF ManagerStep
  <2> QED  BY <1>0, <2>1, <2>2 DEF RInv
<1>12. ASSUME NEW t \in Thread, StopAll(t) PROVE RInv'
  <2>1. step[t] = "free" /\ Manager!CheckAllOrStop(t, "stop") /\ UNCHANGED <<step, target, loadedServices>>
    BY <1>12 DEF StopAll, loader
  <2>2. "stop" \in Ops
    BY <2>1 DEF Manager!CheckAllOrStop, Manager!BeginCall
  <2>3. P!Call(t)
    BY <2>1, <2>2, SameCalls DEF P!Call
  <2>4. P!CallerInv'
    BY <2>3, ManagerAssumptions, P!CallerCall DEF RInv
  <2>5. /\ op' = [op EXCEPT ![t] = "stop"] /\ pc' = [pc EXCEPT ![t] = "collect"]
        /\ result' = [result EXCEPT ![t] = "none"] /\ loaded' = loaded /\ svc' = svc
    BY <2>1 DEF Manager!CheckAllOrStop, Manager!BeginCall, Manager!Goto, Manager!manager
  <2>6. /\ op \in [Thread -> P!Operation] /\ pc \in [Thread -> P!PC] /\ result \in [Thread -> P!Result]
    BY DEF RInv, P!CallerInv, P!TypeInv, P!TypeOK
  <2>7. \A u \in Thread \ {t} : op'[u] = op[u] /\ pc'[u] = pc[u] /\ result'[u] = result[u]
    BY <2>5, <2>6
  <2>8. RequestInv'
    BY <2>1, <2>5, <2>7 DEF RInv, RequestInv, Locked
  <2>9. LoadedInv'
    BY <2>1, <2>5 DEF RInv, LoadedInv
  <2> QED  BY <1>0, <2>4, <2>8, <2>9 DEF RInv
<1>13. CASE UNCHANGED vars
  <2>1. UNCHANGED manager /\ UNCHANGED <<step, target, loadedServices>>
    BY <1>13 DEF vars, loader
  <2>2. RequestInv'
    BY <2>1 DEF RInv, RequestInv, manager, specs, thread
  <2> QED  BY <1>0, <1>a, <1>b, <2>1, <2>2 DEF RInv
<1> QED
  BY <1>2, <1>3, <1>4, <1>5, <1>6, <1>7, <1>8, <1>9, <1>10, <1>11, <1>12, <1>13 DEF Next, Handle, Quiet

(* A route leads only to a service that is enabled and that the manager    *)
(* has loaded, once: service_plugin.py:50-72 asks is_api_enabled() before  *)
(* require(), and adds routes only when require() returned the service,    *)
(* whatever the lazy loading, other requests, health checks and the stop   *)
(* of all services do in between.                                          *)
THEOREM RoutesToLoaded == Spec => []RoutedServicesLoaded
<1>1. RInv => RoutedServicesLoaded
  <2> SUFFICES ASSUME RInv, NEW k \in handlers PROVE k[1] \in loaded \cap Enabled /\ loads[k[1]] = 1
    BY DEF RoutedServicesLoaded
  <2>1. k[1] \in loaded \cap Enabled
    BY DEF RInv, IInv, MarkInv, LoadedInv
  <2>2. k[1] \in Service
    BY <2>1, ManagerAssumption
  <2> QED  BY <2>1, <2>2 DEF RInv, P!CallerInv, P!LoadInv, P!LoadsCounted
<1> QED  BY InitRInv, RInvStep, <1>1, PTL DEF Spec
================================================================================
