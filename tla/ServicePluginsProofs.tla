------------------------- MODULE ServicePluginsProofs -------------------------
(***************************************************************************)
(* What ServicePlugins guarantees for any number of threads, services and  *)
(* calls.                                                                  *)
(***************************************************************************)
EXTENDS ServicePlugins, TLAPS

-----------------------------------------------------------------------------
(* Types. loaded \subseteq Provided needs to know that only provided names *)
(* get beyond exists().                                                    *)

LoadsProvided ==
  \A t \in Thread :
    pc[t] \in {"loadLock", "acquire"} \cup LoadRegion => svc[t] \in Provided

TypeInv == TypeOK /\ LoadsProvided

(* Init has the types of TypeOK: the manager starts empty.                 *)
LEMMA InitTypes == Init => TypeInv
<1> SUFFICES ASSUME Init PROVE TypeInv
  OBVIOUS
<1>1. (CHOOSE s \in Service : TRUE) \in Service
  BY ServiceAssumption
<1>2. LoadsProvided
  BY DEF Init, LoadsProvided, LoadRegion
<1>3. svc \in [Thread -> Service]
  BY <1>1 DEF Init
<1>4. pc \in [Thread -> PC]
  BY DEF Init, PC
<1>8. resolved \in BOOLEAN
  BY DEF Init
<1>5. /\ loaded \subseteq Provided
      /\ pluginErrors \subseteq Provided
      /\ loadLock \in [Service -> Nat]
      /\ nextLock \in [Service -> Nat \ {0}]
  BY DEF Init
<1>6. /\ state \in [Service -> State]
      /\ captured \in [Service -> BOOLEAN]
      /\ up \in [Service -> BOOLEAN]
      /\ loads \in [Service -> Nat]
  BY DEF Init, State
<1>7. /\ op \in [Thread -> Operation]
      /\ myLock \in [Thread -> Nat]
      /\ todo \in [Thread -> SUBSET Service]
      /\ result \in [Thread -> Result]
      /\ calls \in [Thread -> Nat]
  BY DEF Init, Operation, Result
<1> QED
  BY <1>2, <1>3, <1>4, <1>5, <1>6, <1>7, <1>8 DEF TypeInv, TypeOK

(* The definitions every proof of type preservation expands.               *)
LEMMA CallTypes ==
  ASSUME TypeInv, NEW t \in Thread, Call(t)
  PROVE  TypeInv'
<1>1. CASE \E s \in Service : Require(t, s)
  BY <1>1 DEF TypeInv, TypeOK, LoadsProvided, LoadRegion, Require, BeginCall, Goto,
     manager, container, Operation, Result, PC, State
<1>2. CASE \E s \in Service : Check(t, s)
  BY <1>2 DEF TypeInv, TypeOK, LoadsProvided, LoadRegion, Check, BeginCall, Goto,
     manager, container, Operation, Result, PC, State
<1>3. CASE \E o \in Ops : CheckAllOrStop(t, o)
  BY <1>3 DEF TypeInv, TypeOK, LoadsProvided, LoadRegion, CheckAllOrStop, BeginCall,
     Goto, manager, container, Operation, Result, PC, State
<1> QED
  BY <1>1, <1>2, <1>3 DEF Call

(* Every step of a call keeps the types.                                   *)
LEMMA StepTypes ==
  ASSUME TypeInv, NEW t \in Thread, Step(t)
  PROVE  TypeInv'
<1> USE DEF TypeInv, TypeOK, LoadsProvided, LoadRegion, ContainerRegion,
            MutexRegion, StartRegion, CheckRegion, PC, State, Operation, Result,
            Goto, Finish, manager, container
<1>1. CASE Collect(t)
  <2>1. resolved' \in BOOLEAN
    BY <1>1 DEF Collect, ReadSpecs
  <2>2. todo' \in [Thread -> SUBSET Service]
    BY <1>1, ProvidedAssumption DEF Collect
  <2>3. pc' \in [Thread -> PC] /\ LoadsProvided'
    BY <1>1 DEF Collect
  <2> QED
    BY <1>1, <2>1, <2>2, <2>3 DEF Collect
<1>2. CASE Get(t)
  BY <1>2 DEF Get, GotContainer
<1>3. CASE Exists(t)
  BY <1>3 DEF Exists, ReadSpecs, NoContainer
<1>4. CASE GetLoadLock(t)
  BY <1>4 DEF GetLoadLock
<1>5. CASE AcquireLoadLock(t)
  BY <1>5 DEF AcquireLoadLock
<1>6. CASE Recheck(t)
  BY <1>6 DEF Recheck, GotContainer
<1>7. CASE Load(t)
  BY <1>7 DEF Load
<1>8. CASE LoadRaises(t)
  BY <1>8 DEF LoadRaises
<1>9. CASE LoadEmpty(t)
  BY <1>9 DEF LoadEmpty, NoContainer
<1>10. CASE AddService(t)
  BY <1>10 DEF AddService, SetState
<1>11. CASE DelLoadLock(t)
  BY <1>11 DEF DelLoadLock
<1>12. CASE Unlock(t)
  BY <1>12 DEF Unlock, GotContainer
<1>13. CASE PollStart(t)
  BY <1>13 DEF PollStart, ReadOnly
<1>14. CASE WaitStart(t)
  BY <1>14 DEF WaitStart, ReadOnly
<1>15. CASE PollStop(t)
  BY <1>15 DEF PollStop, ReadOnly
<1>16. CASE WaitStop(t)
  BY <1>16 DEF WaitStop, ReadOnly
<1>17. CASE LockContainer(t)
  BY <1>17 DEF LockContainer, ReadOnly
<1>18. CASE IfRunning(t)
  BY <1>18 DEF IfRunning, ReadOnly
<1>19. CASE IfError(t)
  BY <1>19 DEF IfError, ReadOnly
<1>20. CASE IfStartable(t)
  BY <1>20 DEF IfStartable, ReadOnly
<1>21. CASE SetStarting(t)
  BY <1>21 DEF SetStarting, SetState
<1>22. CASE Starting(t)
  BY ZenonT(60), <1>22 DEF Starting
<1>23. CASE Checking(t)
  BY <1>23 DEF Checking, ReadOnly
<1>24. CASE SetRunning(t)
  BY <1>24 DEF SetRunning, SetState
<1>25. CASE Failed(t)
  BY <1>25 DEF Failed, SetState
<1>26. CASE AppendError(t)
  BY <1>26 DEF AppendError
<1>27. CASE CheckNext(t)
  BY <1>27 DEF CheckNext
<1>28. CASE IfCheckable(t)
  BY <1>28 DEF IfCheckable, ReadSpecs
<1>29. CASE StopMutex(t)
  BY <1>29 DEF StopMutex, ReadOnly
<1>30. CASE StopNext(t)
  BY <1>30 DEF StopNext
<1>31. CASE SetStopping(t)
  BY <1>31 DEF SetStopping, SetState
<1>32. CASE Stopping(t)
  BY ZenonT(60), <1>32 DEF Stopping
<1>33. CASE SetStopped(t)
  BY <1>33 DEF SetStopped, SetState
<1>34. CASE AppendStopError(t)
  BY <1>34 DEF AppendStopError
<1> QED
  BY <1>1, <1>2, <1>3, <1>4, <1>5, <1>6, <1>7, <1>8, <1>9, <1>10, <1>11, <1>12, <1>13, <1>14, <1>15, <1>16, <1>17, <1>18, <1>19, <1>20, <1>21, <1>22, <1>23, <1>24, <1>25, <1>26, <1>27, <1>28, <1>29, <1>30, <1>31, <1>32, <1>33, <1>34
  DEF Step, GetServiceContainer, RequireContainer, StopServices

LEMMA NextTypes == TypeInv /\ [Next]_vars => TypeInv'
<1> SUFFICES ASSUME TypeInv, [Next]_vars PROVE TypeInv'
  OBVIOUS
<1>1. CASE \E t \in Thread : Call(t) \/ Step(t)
  BY <1>1, CallTypes, StepTypes
<1>2. CASE UNCHANGED vars
  BY <1>2 DEF vars, manager, container, thread, TypeInv, TypeOK, LoadsProvided
<1> QED
  BY <1>1, <1>2 DEF Next, Quiet

(* Every variable keeps the type the code gives it; only names with a      *)
(* provider ever get a container.                                          *)
THEOREM TypeCorrect == Spec => []TypeOK
<1>1. Spec => []TypeInv
  BY InitTypes, NextTypes, PTL DEF Spec
<1> QED
  BY <1>1, PTL DEF TypeInv

-----------------------------------------------------------------------------
(* Lazy loading. The lock a thread waits for is the one in the dictionary  *)
(* as long as the service has no container, so all threads that may load   *)
(* it wait for the same lock; the lock leaves the dictionary only after    *)
(* the container is there, so a thread that creates a new one finds the    *)
(* container at its second look.                                           *)

Loading == {"acquire"} \cup LoadRegion

LoadExclusive ==
  \A t, u \in Thread :
    HoldsLoadLock(t) /\ HoldsLoadLock(u) /\ svc[t] = svc[u] /\ myLock[t] = myLock[u]
      => t = u

CurrentLock ==
  \A t \in Thread :
    pc[t] \in Loading =>
      /\ myLock[t] # 0
      /\ svc[t] \notin loaded => loadLock[svc[t]] = myLock[t]

LoaderAlone ==
  \A t \in Thread :
    /\ pc[t] \in {"load", "addService"} => svc[t] \notin loaded
    /\ pc[t] = "delLock" => svc[t] \in loaded

Adding(s) == \E t \in Thread : pc[t] = "addService" /\ svc[t] = s

LoadsCounted ==
  \A s \in Service : loads[s] = IF s \in loaded \/ Adding(s) THEN 1 ELSE 0

LoadInv ==
  LoadExclusive /\ CurrentLock /\ LoaderAlone /\ DelFindsLock /\ LoadsCounted

LEMMA InitLoads == Init => LoadInv
  BY DEF Init, LoadInv, Loading, LoadsCounted, Adding, LoadExclusive, CurrentLock,
     LoaderAlone, DelFindsLock, HoldsLoadLock, LoadRegion

LEMMA CallLoads ==
  ASSUME TypeInv, LoadInv, NEW t \in Thread, Call(t)
  PROVE  LoadInv'
<1> USE DEF TypeInv, TypeOK, LoadInv, Loading, LoadsCounted, Adding, LoadExclusive,
            CurrentLock, LoaderAlone, DelFindsLock, HoldsLoadLock, LoadRegion,
            Goto, manager, container, BeginCall
<1>1. CASE \E s \in Service : Require(t, s)
  BY <1>1 DEF Require
<1>2. CASE \E s \in Service : Check(t, s)
  BY <1>2 DEF Check
<1>3. CASE \E o \in Ops : CheckAllOrStop(t, o)
  BY <1>3 DEF CheckAllOrStop
<1> QED
  BY <1>1, <1>2, <1>3 DEF Call

(* Every step of a call keeps the loading invariant.                       *)
LEMMA StepLoads ==
  ASSUME TypeInv, LoadInv, NEW t \in Thread, Step(t)
  PROVE  LoadInv'
<1> USE DEF TypeInv, TypeOK, LoadInv, Loading, LoadsCounted, Adding, LoadExclusive,
            CurrentLock, LoaderAlone, DelFindsLock, HoldsLoadLock, LoadRegion,
            Goto, Finish, manager, container
<1>1. CASE Collect(t)
  BY <1>1 DEF Collect, ReadSpecs
<1>2. CASE Get(t)
  BY <1>2 DEF Get, GotContainer
<1>3. CASE Exists(t)
  BY <1>3 DEF Exists, ReadSpecs, NoContainer
<1>4. CASE GetLoadLock(t)
  BY <1>4 DEF GetLoadLock
<1>5. CASE AcquireLoadLock(t)
  BY <1>5 DEF AcquireLoadLock
<1>6. CASE Recheck(t)
  BY <1>6 DEF Recheck, GotContainer
<1>7. CASE Load(t)
  BY <1>7 DEF Load
<1>8. CASE LoadRaises(t)
  BY <1>8 DEF LoadRaises
<1>9. CASE LoadEmpty(t)
  BY <1>9 DEF LoadEmpty, NoContainer
<1>10. CASE AddService(t)
  BY <1>10 DEF AddService, SetState
<1>11. CASE DelLoadLock(t)
  BY <1>11 DEF DelLoadLock
<1>12. CASE Unlock(t)
  BY <1>12 DEF Unlock, GotContainer
<1>13. CASE PollStart(t)
  BY <1>13 DEF PollStart, ReadOnly
<1>14. CASE WaitStart(t)
  BY <1>14 DEF WaitStart, ReadOnly
<1>15. CASE PollStop(t)
  BY <1>15 DEF PollStop, ReadOnly
<1>16. CASE WaitStop(t)
  BY <1>16 DEF WaitStop, ReadOnly
<1>17. CASE LockContainer(t)
  BY <1>17 DEF LockContainer, ReadOnly
<1>18. CASE IfRunning(t)
  BY <1>18 DEF IfRunning, ReadOnly
<1>19. CASE IfError(t)
  BY <1>19 DEF IfError, ReadOnly
<1>20. CASE IfStartable(t)
  BY <1>20 DEF IfStartable, ReadOnly
<1>21. CASE SetStarting(t)
  BY <1>21 DEF SetStarting, SetState
<1>22. CASE Starting(t)
  BY <1>22 DEF Starting
<1>23. CASE Checking(t)
  BY <1>23 DEF Checking, ReadOnly
<1>24. CASE SetRunning(t)
  BY <1>24 DEF SetRunning, SetState
<1>25. CASE Failed(t)
  BY <1>25 DEF Failed, SetState
<1>26. CASE AppendError(t)
  BY <1>26 DEF AppendError
<1>27. CASE CheckNext(t)
  BY SMTT(60), <1>27 DEF CheckNext
<1>28. CASE IfCheckable(t)
  BY <1>28 DEF IfCheckable, ReadSpecs
<1>29. CASE StopMutex(t)
  BY <1>29 DEF StopMutex, ReadOnly
<1>30. CASE StopNext(t)
  BY <1>30 DEF StopNext
<1>31. CASE SetStopping(t)
  BY <1>31 DEF SetStopping, SetState
<1>32. CASE Stopping(t)
  BY <1>32 DEF Stopping
<1>33. CASE SetStopped(t)
  BY <1>33 DEF SetStopped, SetState
<1>34. CASE AppendStopError(t)
  BY <1>34 DEF AppendStopError
<1> QED
  BY <1>1, <1>2, <1>3, <1>4, <1>5, <1>6, <1>7, <1>8, <1>9, <1>10, <1>11, <1>12, <1>13, <1>14, <1>15, <1>16, <1>17, <1>18, <1>19, <1>20, <1>21, <1>22, <1>23, <1>24, <1>25, <1>26, <1>27, <1>28, <1>29, <1>30, <1>31, <1>32, <1>33, <1>34
  DEF Step, GetServiceContainer, RequireContainer, StopServices

LEMMA NextLoads == TypeInv /\ LoadInv /\ [Next]_vars => LoadInv'
<1> SUFFICES ASSUME TypeInv, LoadInv, [Next]_vars PROVE LoadInv'
  OBVIOUS
<1>1. CASE \E t \in Thread : Call(t) \/ Step(t)
  BY <1>1, CallLoads, StepLoads
<1>2. CASE UNCHANGED vars
  BY <1>2 DEF vars, manager, container, thread, LoadInv, Loading, LoadsCounted, Adding, LoadExclusive, CurrentLock,
            LoaderAlone, DelFindsLock, HoldsLoadLock, LoadRegion
<1> QED
  BY <1>1, <1>2 DEF Next, Quiet

LEMMA LoadInvariant == Spec => [](TypeInv /\ LoadInv)
  BY InitTypes, NextTypes, InitLoads, NextLoads, PTL DEF Spec

(* A service is instantiated at most once, whatever threads race through   *)
(* get_service_container().                                                *)
THEOREM ServiceLoadedOnce == Spec => []LoadedOnce
<1>1. TypeInv /\ LoadInv => LoadedOnce
  BY DEF LoadInv, LoadsCounted, LoadedOnce
<1> QED
  BY <1>1, LoadInvariant, PTL

(* The thread that deletes a load lock from _plugin_load_locks finds it    *)
(* there, and it is the one it holds.                                      *)
THEOREM DeletedLockExists == Spec => []DelFindsLock
<1>1. TypeInv /\ LoadInv => DelFindsLock
  BY DEF LoadInv
<1> QED
  BY <1>1, LoadInvariant, PTL

-----------------------------------------------------------------------------
(* The lifecycle of a container. Only require() takes the container's      *)
(* lock, and only with the lock held is STARTING written, so a container   *)
(* in STARTING belongs to the thread that wrote it until that thread       *)
(* writes the outcome; check() and stop_services() may overwrite the state *)
(* meanwhile, never with STARTING.                                         *)

RequireOnly ==
  {"pollStart", "waitStart", "pollStop", "waitStop", "lockContainer", "ifRunning",
   "ifError", "ifStartable", "setStarting"} \cup StartRegion

RequireSteps == \A t \in Thread : pc[t] \in RequireOnly => op[t] = "require"

ContainerExclusive ==
  \A t, u \in Thread :
    HoldsContainer(t) /\ HoldsContainer(u) /\ svc[t] = svc[u] => t = u

LifecycleInv ==
  RequireSteps /\ ContainerExclusive /\ StartingIsOwned /\ ErrorHasCause

LEMMA InitLifecycle == Init => LifecycleInv
<1> USE DEF LifecycleInv, RequireSteps, RequireOnly, ContainerExclusive,
            StartingIsOwned, ErrorHasCause, HoldsContainer, ContainerRegion,
            StartRegion, CheckRegion, State
<1> QED
  BY DEF Init

LEMMA CallLifecycle ==
  ASSUME TypeInv, LifecycleInv, NEW t \in Thread, Call(t)
  PROVE  LifecycleInv'
<1> USE DEF LifecycleInv, RequireSteps, RequireOnly, ContainerExclusive,
            StartingIsOwned, ErrorHasCause, HoldsContainer, ContainerRegion,
            StartRegion, CheckRegion, State,
            TypeInv, TypeOK, Goto, manager, container, BeginCall
<1>1. CASE \E s \in Service : Require(t, s)
  BY <1>1 DEF Require
<1>2. CASE \E s \in Service : Check(t, s)
  BY <1>2 DEF Check
<1>3. CASE \E o \in Ops : CheckAllOrStop(t, o)
  BY <1>3 DEF CheckAllOrStop
<1> QED
  BY <1>1, <1>2, <1>3 DEF Call

(* Every step of a call keeps LifecycleInv.                                *)
LEMMA StepLifecycle ==
  ASSUME TypeInv, LifecycleInv, NEW t \in Thread, Step(t)
  PROVE  LifecycleInv'
<1> USE DEF LifecycleInv, RequireSteps, RequireOnly, ContainerExclusive,
            StartingIsOwned, ErrorHasCause, HoldsContainer, ContainerRegion,
            StartRegion, CheckRegion, State,
            TypeInv, TypeOK, Goto, Finish, manager, container
<1>1. CASE Collect(t)
  <2>1. RequireSteps'
    BY <1>1 DEF Collect, ReadSpecs
  <2>2. ContainerExclusive'
    BY <1>1 DEF Collect, ReadSpecs
  <2>3. StartingIsOwned'
    BY <1>1 DEF Collect, ReadSpecs
  <2>4. ErrorHasCause'
    BY <1>1 DEF Collect, ReadSpecs
  <2> QED
    BY <2>1, <2>2, <2>3, <2>4
<1>2. CASE Get(t)
  BY <1>2 DEF Get, GotContainer
<1>3. CASE Exists(t)
  BY SMTT(60), <1>3 DEF Exists, ReadSpecs, NoContainer
<1>4. CASE GetLoadLock(t)
  BY <1>4 DEF GetLoadLock
<1>5. CASE AcquireLoadLock(t)
  BY <1>5 DEF AcquireLoadLock
<1>6. CASE Recheck(t)
  BY <1>6 DEF Recheck, GotContainer
<1>7. CASE Load(t)
  BY <1>7 DEF Load
<1>8. CASE LoadRaises(t)
  BY <1>8 DEF LoadRaises
<1>9. CASE LoadEmpty(t)
  BY <1>9 DEF LoadEmpty, NoContainer
<1>10. CASE AddService(t)
  BY <1>10 DEF AddService, SetState
<1>11. CASE DelLoadLock(t)
  BY <1>11 DEF DelLoadLock
<1>12. CASE Unlock(t)
  BY <1>12 DEF Unlock, GotContainer
<1>13. CASE PollStart(t)
  BY SMTT(60), <1>13 DEF PollStart, ReadOnly
<1>14. CASE WaitStart(t)
  BY SMTT(60), <1>14 DEF WaitStart, ReadOnly
<1>15. CASE PollStop(t)
  BY SMTT(60), <1>15 DEF PollStop, ReadOnly
<1>16. CASE WaitStop(t)
  BY SMTT(60), <1>16 DEF WaitStop, ReadOnly
<1>17. CASE LockContainer(t)
  BY SMTT(60), <1>17 DEF LockContainer, ReadOnly
<1>18. CASE IfRunning(t)
  BY SMTT(60), <1>18 DEF IfRunning, ReadOnly
<1>19. CASE IfError(t)
  BY SMTT(60), <1>19 DEF IfError, ReadOnly
<1>20. CASE IfStartable(t)
  BY SMTT(60), <1>20 DEF IfStartable, ReadOnly
<1>21. CASE SetStarting(t)
  BY <1>21 DEF SetStarting, SetState
<1>22. CASE Starting(t)
  <2>1. RequireSteps'
    BY <1>22 DEF Starting
  <2>2. ContainerExclusive'
    BY <1>22 DEF Starting
  <2>3. StartingIsOwned'
    BY <1>22 DEF Starting
  <2>4. ErrorHasCause'
    BY <1>22 DEF Starting
  <2> QED
    BY <2>1, <2>2, <2>3, <2>4
<1>23. CASE Checking(t)
  BY <1>23 DEF Checking, ReadOnly
<1>24. CASE SetRunning(t)
  BY <1>24 DEF SetRunning, SetState
<1>25. CASE Failed(t)
  BY <1>25 DEF Failed, SetState
<1>26. CASE AppendError(t)
  BY <1>26 DEF AppendError
<1>27. CASE CheckNext(t)
  BY <1>27 DEF CheckNext
<1>28. CASE IfCheckable(t)
  BY <1>28 DEF IfCheckable, ReadSpecs
<1>29. CASE StopMutex(t)
  BY <1>29 DEF StopMutex, ReadOnly
<1>30. CASE StopNext(t)
  BY SMTT(60), <1>30 DEF StopNext
<1>31. CASE SetStopping(t)
  BY <1>31 DEF SetStopping, SetState
<1>32. CASE Stopping(t)
  BY SMTT(60), <1>32 DEF Stopping
<1>33. CASE SetStopped(t)
  BY <1>33 DEF SetStopped, SetState
<1>34. CASE AppendStopError(t)
  BY <1>34 DEF AppendStopError
<1> QED
  BY <1>1, <1>2, <1>3, <1>4, <1>5, <1>6, <1>7, <1>8, <1>9, <1>10, <1>11, <1>12, <1>13, <1>14, <1>15, <1>16, <1>17, <1>18, <1>19, <1>20, <1>21, <1>22, <1>23, <1>24, <1>25, <1>26, <1>27, <1>28, <1>29, <1>30, <1>31, <1>32, <1>33, <1>34
  DEF Step, GetServiceContainer, RequireContainer, StopServices

LEMMA NextLifecycle == TypeInv /\ LifecycleInv /\ [Next]_vars => LifecycleInv'
<1> SUFFICES ASSUME TypeInv, LifecycleInv, [Next]_vars PROVE LifecycleInv'
  OBVIOUS
<1>1. CASE \E t \in Thread : Call(t) \/ Step(t)
  BY <1>1, CallLifecycle, StepLifecycle
<1>2. CASE UNCHANGED vars
  BY <1>2 DEF vars, manager, container, thread, LifecycleInv, RequireSteps, RequireOnly, ContainerExclusive,
            StartingIsOwned, ErrorHasCause, HoldsContainer, ContainerRegion,
            StartRegion, CheckRegion, State
<1> QED
  BY <1>1, <1>2 DEF Next, Quiet

LEMMA LifecycleInvariant == Spec => [](TypeInv /\ LifecycleInv)
  BY InitTypes, NextTypes, InitLifecycle, NextLifecycle, PTL DEF Spec

(* No two threads are inside the start() of the same service.              *)
THEOREM OneStarter == Spec => []StartExclusive
<1>1. TypeInv /\ LifecycleInv => StartExclusive
  BY DEF LifecycleInv, RequireSteps, RequireOnly, ContainerExclusive, HoldsContainer,
     ContainerRegion, StartExclusive
<1> QED
  BY <1>1, LifecycleInvariant, PTL

(* A container in STARTING is being started by a thread.                   *)
THEOREM StartingHasOwner == Spec => []StartingIsOwned
<1>1. TypeInv /\ LifecycleInv => StartingIsOwned
  BY DEF LifecycleInv
<1> QED
  BY <1>1, LifecycleInvariant, PTL

(* A container in ERROR has the error, or a thread about to append it.     *)
THEOREM ErrorsHaveCauses == Spec => []ErrorHasCause
<1>1. TypeInv /\ LifecycleInv => ErrorHasCause
  BY DEF LifecycleInv
<1> QED
  BY <1>1, LifecycleInvariant, PTL

-----------------------------------------------------------------------------
(* Services that are not enabled. A thread works on the lifecycle of a     *)
(* service only if it is enabled: require() refuses DISABLED, check() and  *)
(* stop_services() pick containers by a state a disabled one never has,    *)
(* and a name that failed to load never gets a container at all.           *)

LifecycleWork ==
  {"setStarting", "setStopping", "stopping", "setStopped", "stopFailed",
   "appendStopError"} \cup StartRegion \cup CheckRegion

HasContainer ==
  {"delLock", "unlock"} \cup RequireOnly \cup LifecycleWork

WorksOnEnabled ==
  \A t \in Thread :
    /\ pc[t] \in LifecycleWork => svc[t] \in Enabled
    /\ pc[t] \in HasContainer => svc[t] \in loaded
    /\ pc[t] \in {"stopMutex"} \cup MutexRegion => todo[t] \subseteq loaded

FailedNotLoaded ==
  \A s \in pluginErrors :
    s \notin loaded /\ \A t \in Thread : ~(pc[t] = "addService" /\ svc[t] = s)

ChecksKnown ==
  \A t \in Thread :
    op[t] # "require" /\ pc[t] \in {"get", "exists", "loadLock", "acquire"} \cup LoadRegion
      => svc[t] \in pluginErrors \cup (loaded \cap Enabled)

DisabledInv ==
  /\ WorksOnEnabled /\ FailedNotLoaded /\ ChecksKnown
  /\ \A s \in loaded \ Enabled : state[s] = "DISABLED"
  /\ \A s \in Service \ Enabled : ~up[s]
  /\ \A t \in Thread : pc[t] = "idle" /\ result[t] = "running" => svc[t] \in Enabled
  /\ CheckFindsContainer

LEMMA InitDisabled == Init => DisabledInv
<1> USE DEF DisabledInv, WorksOnEnabled, FailedNotLoaded, ChecksKnown,
            LifecycleWork, HasContainer, RequireOnly, StartRegion, CheckRegion,
            MutexRegion, LoadRegion, CheckFindsContainer
<1> QED
  BY DEF Init

LEMMA CallDisabled ==
  ASSUME TypeInv, LoadInv, DisabledInv, NEW t \in Thread, Call(t)
  PROVE  DisabledInv'
<1> USE DEF DisabledInv, WorksOnEnabled, FailedNotLoaded, ChecksKnown,
            LifecycleWork, HasContainer, RequireOnly, StartRegion, CheckRegion,
            MutexRegion, LoadRegion, CheckFindsContainer,
            TypeInv, TypeOK, Goto, manager, container, BeginCall
<1>1. CASE \E s \in Service : Require(t, s)
  BY <1>1 DEF Require
<1>2. CASE \E s \in Service : Check(t, s)
  BY <1>2 DEF Check
<1>3. CASE \E o \in Ops : CheckAllOrStop(t, o)
  BY <1>3 DEF CheckAllOrStop
<1> QED
  BY <1>1, <1>2, <1>3 DEF Call

(* Every step of a call keeps DisabledInv.                                 *)
LEMMA StepDisabled ==
  ASSUME TypeInv, LoadInv, DisabledInv, NEW t \in Thread, Step(t)
  PROVE  DisabledInv'
<1> USE DEF DisabledInv, WorksOnEnabled, FailedNotLoaded, ChecksKnown,
            LifecycleWork, HasContainer, RequireOnly, StartRegion, CheckRegion,
            MutexRegion, LoadRegion, CheckFindsContainer, LoadInv, LoadExclusive, CurrentLock,
            LoaderAlone, Loading, HoldsLoadLock, Operation, Result, GetState,
            TypeInv, TypeOK, Goto, Finish, manager, container
<1>1. CASE Collect(t)
  BY <1>1 DEF Collect, ReadSpecs
<1>2. CASE Get(t)
  BY <1>2 DEF Get, GotContainer
<1>3. CASE Exists(t)
  BY <1>3, ProvidedAssumption DEF Exists, ReadSpecs, NoContainer
<1>4. CASE GetLoadLock(t)
  BY <1>4 DEF GetLoadLock
<1>5. CASE AcquireLoadLock(t)
  BY <1>5 DEF AcquireLoadLock
<1>6. CASE Recheck(t)
  BY <1>6 DEF Recheck, GotContainer
<1>7. CASE Load(t)
  BY <1>7 DEF Load
<1>8. CASE LoadRaises(t)
  BY <1>8 DEF LoadRaises
<1>9. CASE LoadEmpty(t)
  BY <1>9 DEF LoadEmpty, NoContainer
<1>10. CASE AddService(t)
  BY <1>10 DEF AddService, SetState
<1>11. CASE DelLoadLock(t)
  BY <1>11 DEF DelLoadLock
<1>12. CASE Unlock(t)
  BY <1>12 DEF Unlock, GotContainer
<1>13. CASE PollStart(t)
  BY <1>13 DEF PollStart, ReadOnly
<1>14. CASE WaitStart(t)
  BY <1>14 DEF WaitStart, ReadOnly
<1>15. CASE PollStop(t)
  BY <1>15 DEF PollStop, ReadOnly
<1>16. CASE WaitStop(t)
  BY <1>16 DEF WaitStop, ReadOnly
<1>17. CASE LockContainer(t)
  BY <1>17 DEF LockContainer, ReadOnly
<1>18. CASE IfRunning(t)
  BY <1>18 DEF IfRunning, ReadOnly
<1>19. CASE IfError(t)
  BY <1>19 DEF IfError, ReadOnly
<1>20. CASE IfStartable(t)
  BY <1>20 DEF IfStartable, ReadOnly
<1>21. CASE SetStarting(t)
  BY <1>21 DEF SetStarting, SetState
<1>22. CASE Starting(t)
  BY <1>22 DEF Starting
<1>23. CASE Checking(t)
  BY <1>23 DEF Checking, ReadOnly
<1>24. CASE SetRunning(t)
  BY <1>24 DEF SetRunning, SetState
<1>25. CASE Failed(t)
  BY <1>25 DEF Failed, SetState
<1>26. CASE AppendError(t)
  BY <1>26 DEF AppendError
<1>27. CASE CheckNext(t)
  BY <1>27 DEF CheckNext
<1>28. CASE IfCheckable(t)
  BY <1>28 DEF IfCheckable, ReadSpecs
<1>29. CASE StopMutex(t)
  BY <1>29 DEF StopMutex, ReadOnly
<1>30. CASE StopNext(t)
  BY <1>30 DEF StopNext
<1>31. CASE SetStopping(t)
  BY <1>31 DEF SetStopping, SetState
<1>32. CASE Stopping(t)
  BY <1>32 DEF Stopping
<1>33. CASE SetStopped(t)
  BY <1>33 DEF SetStopped, SetState
<1>34. CASE AppendStopError(t)
  BY <1>34 DEF AppendStopError
<1> QED
  BY <1>1, <1>2, <1>3, <1>4, <1>5, <1>6, <1>7, <1>8, <1>9, <1>10, <1>11, <1>12, <1>13, <1>14, <1>15, <1>16, <1>17, <1>18, <1>19, <1>20, <1>21, <1>22, <1>23, <1>24, <1>25, <1>26, <1>27, <1>28, <1>29, <1>30, <1>31, <1>32, <1>33, <1>34
  DEF Step, GetServiceContainer, RequireContainer, StopServices

LEMMA NextDisabled == TypeInv /\ LoadInv /\ DisabledInv /\ [Next]_vars => DisabledInv'
<1> SUFFICES ASSUME TypeInv, LoadInv, DisabledInv, [Next]_vars PROVE DisabledInv'
  OBVIOUS
<1>1. CASE \E t \in Thread : Call(t) \/ Step(t)
  BY <1>1, CallDisabled, StepDisabled
<1>2. CASE UNCHANGED vars
  BY <1>2 DEF vars, manager, container, thread, DisabledInv, WorksOnEnabled, FailedNotLoaded, ChecksKnown,
            LifecycleWork, HasContainer, RequireOnly, StartRegion, CheckRegion,
            MutexRegion, LoadRegion, CheckFindsContainer
<1> QED
  BY <1>1, <1>2 DEF Next, Quiet

LEMMA DisabledInvariant == Spec => [](TypeInv /\ LoadInv /\ DisabledInv)
  BY InitTypes, NextTypes, InitLoads, NextLoads, InitDisabled, NextDisabled, PTL DEF Spec

(* A service that is not enabled is never started and never returned.      *)
THEOREM DisabledNeverStarted == Spec => []DisabledStaysOff
<1>1. TypeInv /\ DisabledInv => DisabledStaysOff
  BY EnabledAssumption, ProvidedAssumption DEF TypeInv, TypeOK, DisabledInv, DisabledStaysOff
<1> QED
  BY <1>1, DisabledInvariant, PTL
(* check() never calls a method of None.                                   *)
THEOREM CheckNeverFindsNone == Spec => []CheckFindsContainer
<1>1. TypeInv /\ DisabledInv => CheckFindsContainer
  BY DEF DisabledInv
<1> QED
  BY <1>1, DisabledInvariant, PTL

-----------------------------------------------------------------------------
(* What a caller of require() may rely on: a call stays with its name, and *)
(* when it returns running there is a container for that name.             *)
Elsewhere == {"collect", "checkNext", "ifCheckable", "stopMutex"} \cup MutexRegion

RequiresInside == \A t \in Thread : op[t] = "require" => pc[t] \notin Elsewhere

CallerInv == TypeInv /\ LoadInv /\ DisabledInv /\ RequiresInside

(* A step of t, as the caller of require() in t sees it.                   *)
Served(t) ==
  /\ pc'[t] \notin Elsewhere /\ svc'[t] = svc[t]
  /\ pc'[t] = "idle" /\ result'[t] = "running" => svc[t] \in loaded

LEMMA StepServes ==
  ASSUME CallerInv, NEW t \in Thread, Step(t)
  PROVE  /\ pc[t] # "idle" /\ op' = op /\ loaded \subseteq loaded'
         /\ \A u \in Thread \ {t} : pc'[u] = pc[u] /\ svc'[u] = svc[u] /\ result'[u] = result[u]
         /\ op[t] = "require" => Served(t)
<1> USE DEF CallerInv, TypeInv, TypeOK, RequiresInside, Elsewhere, Served, DisabledInv, WorksOnEnabled,
            LifecycleWork, HasContainer, RequireOnly, StartRegion, CheckRegion, MutexRegion, LoadRegion,
            Goto, Finish, manager, container
<1>1. CASE Collect(t)
  BY <1>1 DEF Collect, ReadSpecs
<1>2. CASE Get(t)
  BY <1>2 DEF Get, GotContainer
<1>3. CASE Exists(t)
  BY <1>3 DEF Exists, ReadSpecs, NoContainer
<1>4. CASE GetLoadLock(t)
  BY <1>4 DEF GetLoadLock
<1>5. CASE AcquireLoadLock(t)
  BY <1>5 DEF AcquireLoadLock
<1>6. CASE Recheck(t)
  BY <1>6 DEF Recheck, GotContainer
<1>7. CASE Load(t)
  BY <1>7 DEF Load
<1>8. CASE LoadRaises(t)
  BY <1>8 DEF LoadRaises
<1>9. CASE LoadEmpty(t)
  BY <1>9 DEF LoadEmpty, NoContainer
<1>10. CASE AddService(t)
  BY <1>10 DEF AddService
<1>11. CASE DelLoadLock(t)
  BY <1>11 DEF DelLoadLock
<1>12. CASE Unlock(t)
  BY <1>12 DEF Unlock, GotContainer
<1>13. CASE PollStart(t)
  BY <1>13 DEF PollStart, ReadOnly
<1>14. CASE WaitStart(t)
  BY <1>14 DEF WaitStart, ReadOnly
<1>15. CASE PollStop(t)
  BY <1>15 DEF PollStop, ReadOnly
<1>16. CASE WaitStop(t)
  BY <1>16 DEF WaitStop, ReadOnly
<1>17. CASE LockContainer(t)
  BY <1>17 DEF LockContainer, ReadOnly
<1>18. CASE IfRunning(t)
  BY <1>18 DEF IfRunning, ReadOnly
<1>19. CASE IfError(t)
  BY <1>19 DEF IfError, ReadOnly
<1>20. CASE IfStartable(t)
  BY <1>20 DEF IfStartable, ReadOnly
<1>21. CASE SetStarting(t)
  BY <1>21 DEF SetStarting
<1>22. CASE Starting(t)
  BY <1>22 DEF Starting
<1>23. CASE Checking(t)
  BY <1>23 DEF Checking, ReadOnly
<1>24. CASE SetRunning(t)
  BY <1>24 DEF SetRunning
<1>25. CASE Failed(t)
  BY <1>25 DEF Failed
<1>26. CASE AppendError(t)
  BY <1>26 DEF AppendError
<1>27. CASE CheckNext(t)
  BY <1>27 DEF CheckNext
<1>28. CASE IfCheckable(t)
  BY <1>28 DEF IfCheckable, ReadSpecs
<1>29. CASE StopMutex(t)
  BY <1>29 DEF StopMutex, ReadOnly
<1>30. CASE StopNext(t)
  BY <1>30 DEF StopNext
<1>31. CASE SetStopping(t)
  BY <1>31 DEF SetStopping
<1>32. CASE Stopping(t)
  BY <1>32 DEF Stopping
<1>33. CASE SetStopped(t)
  BY <1>33 DEF SetStopped
<1>34. CASE AppendStopError(t)
  BY <1>34 DEF AppendStopError
<1> QED
  BY <1>1, <1>2, <1>3, <1>4, <1>5, <1>6, <1>7, <1>8, <1>9, <1>10, <1>11,
     <1>12, <1>13, <1>14, <1>15, <1>16, <1>17, <1>18, <1>19, <1>20, <1>21,
     <1>22, <1>23, <1>24, <1>25, <1>26, <1>27, <1>28, <1>29, <1>30, <1>31,
     <1>32, <1>33, <1>34
  DEF Step, GetServiceContainer, RequireContainer, StopServices

LEMMA CallerInit == Init => CallerInv
<1>1. Init => RequiresInside
  BY DEF Init, RequiresInside, Elsewhere, MutexRegion
<1> QED  BY <1>1, InitTypes, InitLoads, InitDisabled DEF CallerInv

LEMMA CallerStep ==
  ASSUME CallerInv, NEW t \in Thread, Step(t)
  PROVE  CallerInv'
<1>1. TypeInv' /\ LoadInv' /\ DisabledInv'
  BY StepTypes, StepLoads, StepDisabled DEF CallerInv
<1>2. RequiresInside'
  BY StepServes DEF CallerInv, RequiresInside, Served
<1> QED  BY <1>1, <1>2 DEF CallerInv

LEMMA CallerCall ==
  ASSUME CallerInv, NEW t \in Thread, Call(t)
  PROVE  CallerInv'
<1>1. TypeInv' /\ LoadInv' /\ DisabledInv'
  BY CallTypes, CallLoads, CallDisabled DEF CallerInv
<1>2. RequiresInside'
  BY DEF CallerInv, TypeInv, TypeOK, RequiresInside, Elsewhere, MutexRegion, Call, Require, Check,
     CheckAllOrStop, BeginCall, Goto
<1> QED  BY <1>1, <1>2 DEF CallerInv

(* Others may read the plugin specs, which resolves them.                  *)
LEMMA CallerReads ==
  ASSUME CallerInv, resolved' \in BOOLEAN,
         UNCHANGED <<loaded, pluginErrors, loadLock, nextLock, loads, container, thread>>
  PROVE  CallerInv'
<1> USE DEF container, thread
<1>1. TypeInv'
  BY DEF CallerInv, TypeInv, TypeOK, LoadsProvided
<1>2. LoadInv'
  BY DEF CallerInv, LoadInv, LoadExclusive, CurrentLock, LoaderAlone, DelFindsLock, LoadsCounted, Adding,
     HoldsLoadLock
<1>3. DisabledInv'
  BY DEF CallerInv, DisabledInv, WorksOnEnabled, FailedNotLoaded, ChecksKnown, CheckFindsContainer
<1>4. RequiresInside'
  BY DEF CallerInv, RequiresInside
<1> QED  BY <1>1, <1>2, <1>3, <1>4 DEF CallerInv

-----------------------------------------------------------------------------
(* The manager with its locks takes only the steps of ServiceRegistry: the *)
(* safety half of ImplementsRegistry, for any number of threads and names. *)

IsStarter(t, s) == svc[t] = s /\ pc[t] \in StartRegion

IInv == TypeInv /\ LoadInv /\ LifecycleInv /\ DisabledInv

LEMMA Invariance == Spec => []IInv
  BY TypeCorrect, LoadInvariant, LifecycleInvariant, DisabledInvariant, PTL DEF IInv

(* The lock of the container keeps the starter unique.                     *)
LEMMA OnlyStarter == IInv => StartExclusive
  BY DEF IInv, LifecycleInv, RequireSteps, RequireOnly, ContainerExclusive,
     HoldsContainer, ContainerRegion, StartExclusive

(* So the refinement mapping picks the thread inside start(), if any.      *)
StarterFound ==
  \A s \in Service :
    /\ \A t \in Thread : IsStarter(t, s) => Starter(s) = t
    /\ (\A t \in Thread : ~IsStarter(t, s)) => Starter(s) = Nobody

LEMMA StarterIs == StartExclusive => StarterFound
<1> SUFFICES ASSUME StartExclusive, NEW s \in Service
             PROVE  /\ \A t \in Thread : IsStarter(t, s) => Starter(s) = t
                    /\ (\A t \in Thread : ~IsStarter(t, s)) => Starter(s) = Nobody
  BY DEF StarterFound
<1>1. CASE \A t \in Thread : ~IsStarter(t, s)
  BY <1>1 DEF IsStarter, Starter
<1>2. CASE \E t \in Thread : IsStarter(t, s)
  <2> DEFINE P(t) == svc[t] = s /\ pc[t] \in StartRegion
  <2>1. \E t \in Thread : P(t)
    BY <1>2 DEF IsStarter
  <2>2. Starter(s) = CHOOSE t \in Thread : P(t)
    BY <2>1 DEF Starter
  <2>3. Starter(s) \in Thread /\ P(Starter(s))
    <3> HIDE DEF P
    <3> QED
      BY <2>1, <2>2
  <2>4. \A t \in Thread : IsStarter(t, s) => t = Starter(s)
    BY <2>3 DEF StartExclusive, IsStarter
  <2> QED
    BY <1>2, <2>4
<1> QED
  BY <1>1, <1>2

-----------------------------------------------------------------------------
(* Steps that no thread enters or leaves start() with.                     *)
Unmoved ==
  /\ loads' = loads
  /\ \A t \in Thread, s \in Service : IsStarter(t, s)' <=> IsStarter(t, s)

LEMMA QuietStep == StarterFound /\ StarterFound' /\ Unmoved => UNCHANGED Registry!vars
<1> SUFFICES ASSUME StarterFound, StarterFound', Unmoved
             PROVE  UNCHANGED Registry!vars
  OBVIOUS
<1>1. ASSUME NEW s \in Service PROVE Starter(s)' = Starter(s)
  <2>1. CASE \A t \in Thread : ~IsStarter(t, s)
    BY <2>1 DEF StarterFound, Unmoved
  <2>2. CASE \E t \in Thread : IsStarter(t, s)
    BY <2>2 DEF StarterFound, Unmoved
  <2> QED
    BY <2>1, <2>2
<1> QED
  BY <1>1 DEF Unmoved, Registry!vars

(* t enters start() of a service nobody else is starting.                  *)
LEMMA EnterStart ==
  ASSUME StarterFound, StarterFound', loads' = loads,
         NEW t \in Thread, NEW s \in Enabled, s \in Service, loads[s] = 1,
         \A u \in Thread : ~IsStarter(u, s),
         IsStarter(t, s)',
         \A u \in Thread, r \in Service \ {s} : IsStarter(u, r)' <=> IsStarter(u, r)
  PROVE  Registry!BeginStart(t, s)
<1>1. Starter(s) = Nobody /\ Starter(s)' = t
  BY DEF StarterFound
<1>2. ASSUME NEW r \in Service \ {s} PROVE Starter(r)' = Starter(r)
  <2>1. CASE \A u \in Thread : ~IsStarter(u, r)
    BY <2>1 DEF StarterFound
  <2>2. CASE \E u \in Thread : IsStarter(u, r)
    BY <2>2 DEF StarterFound
  <2> QED
    BY <2>1, <2>2
<1> QED
  BY <1>1, <1>2 DEF Registry!BeginStart

(* t leaves start() of s.                                                  *)
LEMMA LeaveStart ==
  ASSUME StarterFound, StarterFound', loads' = loads,
         NEW t \in Thread, NEW s \in Service,
         IsStarter(t, s),
         \A u \in Thread : ~IsStarter(u, s)',
         \A u \in Thread, r \in Service \ {s} : IsStarter(u, r)' <=> IsStarter(u, r)
  PROVE  Registry!EndStart(t, s)
<1>1. Starter(s) = t /\ Starter(s)' = Nobody
  BY DEF StarterFound
<1>2. ASSUME NEW r \in Service \ {s} PROVE Starter(r)' = Starter(r)
  <2>1. CASE \A u \in Thread : ~IsStarter(u, r)
    BY <2>1 DEF StarterFound
  <2>2. CASE \E u \in Thread : IsStarter(u, r)
    BY <2>2 DEF StarterFound
  <2> QED
    BY <2>1, <2>2
<1> QED
  BY <1>1, <1>2 DEF Registry!EndStart

-----------------------------------------------------------------------------
(* The steps of a call that the registry does not see.                     *)
LEMMA GetContainerUnmoved ==
  ASSUME IInv, NEW t \in Thread,
         Get(t) \/ Exists(t) \/ GetLoadLock(t) \/ AcquireLoadLock(t) \/ Recheck(t)
           \/ LoadRaises(t) \/ LoadEmpty(t) \/ AddService(t) \/ DelLoadLock(t)
           \/ Unlock(t)
  PROVE  Unmoved
<1> USE DEF IInv, TypeInv, TypeOK, Unmoved, IsStarter, StartRegion, Goto, Finish,
            manager, container
<1>1. CASE Get(t)
  BY <1>1 DEF Get, GotContainer
<1>2. CASE Exists(t)
  BY <1>2 DEF Exists, ReadSpecs, NoContainer
<1>3. CASE GetLoadLock(t)
  BY <1>3 DEF GetLoadLock
<1>4. CASE AcquireLoadLock(t)
  BY <1>4 DEF AcquireLoadLock
<1>5. CASE Recheck(t)
  BY <1>5 DEF Recheck, GotContainer
<1>6. CASE LoadRaises(t)
  BY <1>6 DEF LoadRaises
<1>7. CASE LoadEmpty(t)
  BY <1>7 DEF LoadEmpty, NoContainer
<1>8. CASE AddService(t)
  BY <1>8 DEF AddService, SetState
<1>9. CASE DelLoadLock(t)
  BY <1>9 DEF DelLoadLock
<1>10. CASE Unlock(t)
  BY <1>10 DEF Unlock, GotContainer
<1> QED
  BY <1>1, <1>2, <1>3, <1>4, <1>5, <1>6, <1>7, <1>8, <1>9, <1>10

LEMMA RequireUnmoved ==
  ASSUME IInv, NEW t \in Thread,
         PollStart(t) \/ WaitStart(t) \/ PollStop(t) \/ WaitStop(t)
           \/ LockContainer(t) \/ IfRunning(t) \/ IfError(t) \/ IfStartable(t)
           \/ Checking(t) \/ SetRunning(t) \/ AppendError(t)
  PROVE  Unmoved
<1> USE DEF IInv, TypeInv, TypeOK, Unmoved, IsStarter, StartRegion, Goto, Finish,
            manager, container
<1>1. CASE PollStart(t)
  BY <1>1 DEF PollStart, ReadOnly
<1>2. CASE WaitStart(t)
  BY <1>2 DEF WaitStart, ReadOnly
<1>3. CASE PollStop(t)
  BY <1>3 DEF PollStop, ReadOnly
<1>4. CASE WaitStop(t)
  BY <1>4 DEF WaitStop, ReadOnly
<1>5. CASE LockContainer(t)
  BY <1>5 DEF LockContainer, ReadOnly
<1>6. CASE IfRunning(t)
  BY <1>6 DEF IfRunning, ReadOnly
<1>7. CASE IfError(t)
  BY <1>7 DEF IfError, ReadOnly
<1>8. CASE IfStartable(t)
  BY <1>8 DEF IfStartable, ReadOnly
<1>9. CASE Checking(t)
  BY <1>9 DEF Checking, ReadOnly
<1>10. CASE SetRunning(t)
  BY <1>10 DEF SetRunning
<1>11. CASE AppendError(t)
  BY <1>11 DEF AppendError
<1> QED
  BY <1>1, <1>2, <1>3, <1>4, <1>5, <1>6, <1>7, <1>8, <1>9, <1>10, <1>11

LEMMA OtherUnmoved ==
  ASSUME IInv, NEW t \in Thread,
         Collect(t) \/ CheckNext(t) \/ IfCheckable(t) \/ StopMutex(t) \/ StopNext(t)
           \/ SetStopping(t) \/ Stopping(t) \/ SetStopped(t) \/ AppendStopError(t)
  PROVE  Unmoved
<1> USE DEF IInv, TypeInv, TypeOK, Unmoved, IsStarter, StartRegion, Goto, Finish,
            manager, container
<1>1. CASE Collect(t)
  BY <1>1 DEF Collect, ReadSpecs
<1>2. CASE CheckNext(t)
  BY <1>2 DEF CheckNext
<1>3. CASE IfCheckable(t)
  BY <1>3 DEF IfCheckable, ReadSpecs
<1>4. CASE StopMutex(t)
  BY <1>4 DEF StopMutex, ReadOnly
<1>5. CASE StopNext(t)
  BY <1>5 DEF StopNext
<1>6. CASE SetStopping(t)
  BY <1>6 DEF SetStopping
<1>7. CASE Stopping(t)
  BY <1>7 DEF Stopping
<1>8. CASE SetStopped(t)
  BY <1>8 DEF SetStopped
<1>9. CASE AppendStopError(t)
  BY <1>9 DEF AppendStopError
<1> QED
  BY <1>1, <1>2, <1>3, <1>4, <1>5, <1>6, <1>7, <1>8, <1>9

(* A new call: the thread was outside every start().                       *)
LEMMA CallUnmoved ==
  ASSUME IInv, NEW t \in Thread, Call(t)
  PROVE  Unmoved
<1> USE DEF IInv, TypeInv, TypeOK, Unmoved, IsStarter, StartRegion, Goto, BeginCall,
            manager, container
<1>1. CASE \E s \in Service : Require(t, s)
  BY <1>1 DEF Require
<1>2. CASE \E s \in Service : Check(t, s)
  BY <1>2 DEF Check
<1>3. CASE \E o \in Ops : CheckAllOrStop(t, o)
  BY <1>3 DEF CheckAllOrStop
<1> QED
  BY <1>1, <1>2, <1>3 DEF Call

-----------------------------------------------------------------------------
(* The steps the registry sees.                                            *)

(* A load is the only one of its service.                                  *)
LEMMA LoadCreates ==
  ASSUME IInv, StarterFound, StarterFound', NEW t \in Thread, NEW s \in Service,
         svc[t] = s, Load(t)
  PROVE  Registry!Create(s)
<1>1. s \notin loaded
  BY DEF IInv, TypeInv, TypeOK, LoadInv, LoaderAlone, Load
<1>2. ~Adding(s)
  <2> SUFFICES ASSUME NEW u \in Thread, pc[u] = "addService", svc[u] = s
               PROVE  FALSE
    BY DEF Adding
  <2>1. myLock[u] = myLock[t]
    BY <1>1 DEF IInv, LoadInv, CurrentLock, Loading, LoadRegion, Load
  <2> QED
    BY <2>1 DEF IInv, LoadInv, LoadExclusive, HoldsLoadLock, LoadRegion, Load
<1>3. loads[s] = 0 /\ loads' = [loads EXCEPT ![s] = 1]
  <2>1. loads[s] = 0
    BY <1>1, <1>2 DEF IInv, LoadInv, LoadsCounted
  <2>2. loads' = [loads EXCEPT ![s] = loads[s] + 1]
    BY DEF Load
  <2> QED
    BY <2>1, <2>2
<1>4. \A u \in Thread, r \in Service : IsStarter(u, r)' <=> IsStarter(u, r)
  BY DEF IInv, TypeInv, TypeOK, IsStarter, StartRegion, Load, Goto
<1>5. ASSUME NEW r \in Service PROVE Starter(r)' = Starter(r)
  <2>1. CASE \A u \in Thread : ~IsStarter(u, r)
    BY <2>1, <1>4 DEF StarterFound
  <2>2. CASE \E u \in Thread : IsStarter(u, r)
    BY <2>2, <1>4 DEF StarterFound
  <2> QED
    BY <2>1, <2>2
<1> QED
  BY <1>3, <1>5 DEF Registry!Create

(* The thread that writes STARTING holds the container's lock.             *)
LEMMA SetStartingBegins ==
  ASSUME IInv, StarterFound, StarterFound', NEW t \in Thread, NEW s \in Service,
         svc[t] = s, SetStarting(t)
  PROVE  Registry!BeginStart(t, s)
<1>1. s \in Enabled /\ s \in loaded
  BY DEF IInv, TypeInv, TypeOK, DisabledInv, WorksOnEnabled, LifecycleWork,
     HasContainer, RequireOnly, SetStarting
<1>2. loads[s] = 1 /\ loads' = loads
  BY <1>1 DEF IInv, LoadInv, LoadsCounted, SetStarting, manager
<1>3. \A u \in Thread : ~IsStarter(u, s)
  BY DEF IInv, LifecycleInv, RequireSteps, RequireOnly, ContainerExclusive,
     HoldsContainer, ContainerRegion, StartRegion, IsStarter, SetStarting
<1>4. IsStarter(t, s)'
  BY DEF IInv, TypeInv, TypeOK, IsStarter, StartRegion, SetStarting, Goto
<1>5. \A u \in Thread, r \in Service \ {s} : IsStarter(u, r)' <=> IsStarter(u, r)
  BY DEF IInv, TypeInv, TypeOK, IsStarter, StartRegion, SetStarting, Goto
<1> QED
  BY <1>1, <1>2, <1>3, <1>4, <1>5, EnterStart

(* It leaves start() when the service has started ...                      *)
LEMMA StartingEnds ==
  ASSUME IInv, StarterFound, StarterFound', NEW t \in Thread, NEW s \in Service,
         svc[t] = s, Starting(t)
  PROVE  Unmoved \/ Registry!EndStart(t, s)
<1> USE DEF IInv, TypeInv, TypeOK, IsStarter, StartRegion, Starting, Goto, manager
<1>1. CASE pc'[t] = "startFailed"
  BY <1>1 DEF Unmoved
<1>2. CASE pc'[t] = "checking"
  <2>1. IsStarter(t, s) /\ loads' = loads
    OBVIOUS
  <2>2. \A u \in Thread : ~IsStarter(u, s)'
    BY <1>2 DEF LifecycleInv, RequireSteps, RequireOnly, ContainerExclusive,
       HoldsContainer, ContainerRegion
  <2>3. \A u \in Thread, r \in Service \ {s} : IsStarter(u, r)' <=> IsStarter(u, r)
    BY <1>2
  <2> QED
    BY <2>1, <2>2, <2>3, LeaveStart
<1> QED
  BY <1>1, <1>2

(* ... or when it has written ERROR.                                       *)
LEMMA FailedEnds ==
  ASSUME IInv, StarterFound, StarterFound', NEW t \in Thread, NEW s \in Service,
         svc[t] = s, Failed(t)
  PROVE  Unmoved \/ Registry!EndStart(t, s)
<1> USE DEF IInv, TypeInv, TypeOK, IsStarter, StartRegion, Failed, Goto, manager
<1>1. CASE pc[t] = "checkFailed"
  BY <1>1 DEF Unmoved
<1>2. CASE pc[t] = "startFailed"
  <2>1. IsStarter(t, s) /\ loads' = loads
    BY <1>2
  <2>2. \A u \in Thread : ~IsStarter(u, s)'
    BY <1>2 DEF LifecycleInv, RequireSteps, RequireOnly, ContainerExclusive,
       HoldsContainer, ContainerRegion
  <2>3. \A u \in Thread, r \in Service \ {s} : IsStarter(u, r)' <=> IsStarter(u, r)
    BY <1>2
  <2> QED
    BY <2>1, <2>2, <2>3, LeaveStart
<1> QED
  BY <1>1, <1>2

-----------------------------------------------------------------------------
LEMMA NextOfRegistry ==
  IInv /\ StarterFound /\ StarterFound' /\ [Next]_vars
    => Registry!Next \/ UNCHANGED Registry!vars
<1> SUFFICES ASSUME IInv, StarterFound, StarterFound', [Next]_vars
             PROVE  Registry!Next \/ UNCHANGED Registry!vars
  OBVIOUS
<1>1. CASE UNCHANGED vars
  <2>1. Unmoved
    BY <1>1 DEF Unmoved, IsStarter, StartRegion, vars, manager, thread
  <2> QED
    BY <2>1, QuietStep
<1>2. ASSUME NEW t \in Thread, Call(t)
      PROVE  UNCHANGED Registry!vars
  BY <1>2, CallUnmoved, QuietStep
<1>3. ASSUME NEW t \in Thread, Step(t)
      PROVE  Registry!Next \/ UNCHANGED Registry!vars
  <2>1. PICK r \in Service : svc[t] = r
    BY DEF IInv, TypeInv, TypeOK
  <2>2. CASE Load(t)
    BY <2>1, <2>2, LoadCreates DEF Registry!Next
  <2>3. CASE SetStarting(t)
    BY <2>1, <2>3, SetStartingBegins DEF Registry!Next
  <2>4. CASE Starting(t)
    BY <2>1, <2>4, StartingEnds, QuietStep DEF Registry!Next
  <2>5. CASE Failed(t)
    BY <2>1, <2>5, FailedEnds, QuietStep DEF Registry!Next
  <2>6. CASE ~(Load(t) \/ SetStarting(t) \/ Starting(t) \/ Failed(t))
    <3>1. Unmoved
      BY <1>3, <2>6, GetContainerUnmoved, RequireUnmoved, OtherUnmoved
      DEF Step, GetServiceContainer, RequireContainer, StopServices
    <3> QED
      BY <3>1, QuietStep
  <2> QED
    BY <2>2, <2>3, <2>4, <2>5, <2>6
<1> QED
  BY <1>1, <1>2, <1>3 DEF Next, Quiet

(* The manager starts as an empty registry, and each of its steps is one   *)
(* step of the registry or none: what ServiceRegistry forbids, a second    *)
(* instance, a start by two threads or of a disabled API, cannot happen.   *)
THEOREM StepsOfRegistry == Spec => Registry!Init /\ [][Registry!Next]_(Registry!vars)
<1>1. Init => Registry!Init
  BY DEF Init, Registry!Init, Starter, StartRegion
<1>2. IInv => StarterFound
  BY OnlyStarter, StarterIs
<1>3. IInv /\ IInv' /\ [Next]_vars => [Registry!Next]_(Registry!vars)
  <2>1. IInv' => StarterFound'
    BY <1>2, PTL
  <2> QED
    BY <1>2, <2>1, NextOfRegistry
<1> QED
  BY <1>1, <1>3, Invariance, PTL DEF Spec
=============================================================================
