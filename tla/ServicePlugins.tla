---------------------------- MODULE ServicePlugins ----------------------------
(***************************************************************************)
(* The service manager of the gateway: ServicePluginManager, ServiceManager *)
(* and ServiceContainer of localstack/services/plugins.py.                  *)
(*                                                                         *)
(* Threads of the gateway's pool call require(name) for every request,     *)
(* check(name) and check_all() for the health endpoint, and the shutdown   *)
(* thread calls stop_services(). Three kinds of locks protect the manager: *)
(*   - one load lock per service name, kept in _plugin_load_locks and      *)
(*     deleted after the service was loaded;                               *)
(*   - the manager's _mutex;                                               *)
(*   - the lock of each ServiceContainer, which only require() takes.      *)
(* A thread owns a lock exactly while its program counter is in the region *)
(* the `with` statement encloses, so no variable holds the owners.         *)
(***************************************************************************)
EXTENDS Naturals

CONSTANTS
  Thread,    \* threads that call the manager
  Service,   \* service names callers ask for
  Provided,  \* names with a configured provider among the plugin specs
  Enabled,   \* names is_api_enabled() answers True for
  Faulty,    \* names whose plugin may fail to load
  Fragile,   \* names whose start, check and stop functions may raise
  Ops,       \* operations the threads call, a subset of Operation
  MaxCalls,  \* bound: number of calls each thread makes
  Nobody     \* no thread

Operation == {"require", "check", "stop"}

ASSUME ServiceAssumption  == Service # {}
ASSUME ProvidedAssumption == Provided \subseteq Service
ASSUME EnabledAssumption  == Enabled \subseteq Service
ASSUME FailureAssumption  == Faulty \subseteq Service /\ Fragile \subseteq Service
ASSUME OpsAssumption      == Ops \subseteq Operation
ASSUME CallsAssumption    == MaxCalls \in Nat

VARIABLES
  resolved,     \* _api_provider_specs is set
  loaded,       \* names with a container in _services
  pluginErrors, \* names the ServicePluginErrorCollector holds an error for
  loadLock,     \* _plugin_load_locks: the lock stored for a name, 0 if none
  nextLock,     \* identity of the next lock the default dict creates
  state,        \* ServiceContainer.state (meaningless until loaded)
  captured,     \* ServiceContainer.errors is not empty
  up,           \* the last completed service.start() / service.stop() was a start
  loads,        \* history: completed loads of a name
  pc, op, svc,  \* per thread: step, operation, name of the current call
  myLock,       \* per thread: the load lock it read from the dictionary
  todo,         \* per thread: names still to be checked or stopped
  result,       \* per thread: how its last call ended
  calls         \* per thread: calls made so far

manager == <<resolved, loaded, pluginErrors, loadLock, nextLock, loads>>
container == <<state, captured, up>>
thread == <<pc, op, svc, myLock, todo, result, calls>>
vars == <<manager, container, thread>>

State == {"AVAILABLE", "DISABLED", "STARTING", "RUNNING", "STOPPING",
          "STOPPED", "ERROR"}

Result == {"none", "running", "checked", "stopped", "ValueError", "PluginError",
           "AttributeError", "TimeoutError", "ServiceDisabled", "captured",
           "IndexError", "ServiceStateException"}

-----------------------------------------------------------------------------
(* Regions of the program counter in which a thread owns a lock.           *)

LoadRegion      == {"recheck", "load", "addService", "delLock", "unlock"}
StartRegion     == {"starting", "startFailed"}
CheckRegion     == {"checking", "setRunning", "checkFailed", "appendError"}
ContainerRegion == {"ifRunning", "ifError", "ifStartable", "setStarting"}
                     \cup StartRegion \cup CheckRegion
MutexRegion     == {"stopNext", "setStopping", "stopping", "setStopped",
                    "stopFailed", "appendStopError"}

PC == {"idle", "collect", "checkNext", "ifCheckable", "get", "exists",
       "loadLock", "acquire", "pollStart", "waitStart", "pollStop", "waitStop",
       "lockContainer", "stopMutex"}
        \cup LoadRegion \cup ContainerRegion \cup MutexRegion

HoldsLoadLock(t)  == pc[t] \in LoadRegion
HoldsContainer(t) == op[t] = "require" /\ pc[t] \in ContainerRegion
HoldsMutex(t)     == pc[t] \in MutexRegion

MutexFree == \A u \in Thread : ~HoldsMutex(u)

-----------------------------------------------------------------------------
Goto(t, label) == pc' = [pc EXCEPT ![t] = label]

(* The call of t ends: it returns or raises r.                             *)
Finish(t, r) ==
  /\ Goto(t, "idle")
  /\ result' = [result EXCEPT ![t] = r]

(* get_service_container returned a container to t ...                     *)
GotContainer(t) == Goto(t, IF op[t] = "require" THEN "pollStart" ELSE "checking")

(* ... or None: require() raises ValueError, check() calls None.check().   *)
NoContainer(t) ==
  Finish(t, IF op[t] = "require" THEN "ValueError" ELSE "AttributeError")

SetState(s, new) == state' = [state EXCEPT ![s] = new]

(* Variant: a service that is not loaded counts as failed.                 *)
GetStateUnloaded(s) == IF s \in loaded THEN state[s] ELSE "ERROR"

(* get_state(name), as check() and the health endpoint read it.            *)
GetState(s) ==
  IF s \in loaded THEN state[s]
  ELSE IF s \notin Provided THEN "none"
  ELSE IF s \in pluginErrors THEN "ERROR"
  ELSE IF s \in Enabled THEN "AVAILABLE" ELSE "DISABLED"

(* Reading api_provider_specs: the first reader resolves the plugin specs  *)
(* under the manager's mutex.                                              *)
ReadSpecs ==
  /\ resolved \/ MutexFree
  /\ resolved' = TRUE

-----------------------------------------------------------------------------
(* Calls.                                                                  *)

Init ==
  /\ resolved = FALSE
  /\ loaded = {}
  /\ pluginErrors = {}
  /\ loadLock = [s \in Service |-> 0]
  /\ nextLock = [s \in Service |-> 1]
  /\ state = [s \in Service |-> "AVAILABLE"]
  /\ captured = [s \in Service |-> FALSE]
  /\ up = [s \in Service |-> FALSE]
  /\ loads = [s \in Service |-> 0]
  /\ pc = [t \in Thread |-> "idle"]
  /\ op = [t \in Thread |-> "require"]
  /\ svc = [t \in Thread |-> CHOOSE s \in Service : TRUE]
  /\ myLock = [t \in Thread |-> 0]
  /\ todo = [t \in Thread |-> {}]
  /\ result = [t \in Thread |-> "none"]
  /\ calls = [t \in Thread |-> 0]

BeginCall(t, o) ==
  /\ pc[t] = "idle"
  /\ o \in Ops
  /\ calls[t] < MaxCalls
  /\ calls' = [calls EXCEPT ![t] = @ + 1]
  /\ op' = [op EXCEPT ![t] = o]
  /\ result' = [result EXCEPT ![t] = "none"]
  /\ UNCHANGED <<manager, container, myLock>>

Require(t, s) ==
  /\ BeginCall(t, "require")
  /\ svc' = [svc EXCEPT ![t] = s]
  /\ Goto(t, "get")
  /\ UNCHANGED todo

(* check(name) of check_service_health().                                  *)
Check(t, s) ==
  /\ BeginCall(t, "check")
  /\ todo' = [todo EXCEPT ![t] = {s}]
  /\ Goto(t, "checkNext")
  /\ UNCHANGED svc

(* check_all() of GET /_localstack/health?reload and stop_services().      *)
CheckAllOrStop(t, o) ==
  /\ o \in {"check", "stop"}
  /\ BeginCall(t, o)
  /\ Goto(t, "collect")
  /\ UNCHANGED <<svc, todo>>

(* list_available() for check_all(), _get_loaded_service_containers() for  *)
(* stop_services(): a snapshot taken before any lock is held.              *)
Collect(t) ==
  /\ pc[t] = "collect"
  /\ ReadSpecs
  /\ IF op[t] = "check"
     THEN /\ todo' = [todo EXCEPT ![t] = Provided]
          /\ Goto(t, "checkNext")
     ELSE /\ todo' = [todo EXCEPT ![t] = loaded]
          /\ Goto(t, "stopMutex")
  /\ UNCHANGED <<loaded, pluginErrors, loadLock, nextLock, loads, container,
                 op, svc, myLock, result, calls>>

-----------------------------------------------------------------------------
(* get_service_container(name): lazy loading of the service plugin.        *)

Get(t) ==
  /\ pc[t] = "get"
  /\ IF svc[t] \in loaded THEN GotContainer(t) ELSE Goto(t, "exists")
  /\ UNCHANGED <<manager, container, op, svc, myLock, todo, result, calls>>

(* Variant: names without a provider are not refused.                      *)
ExistsAlways(t) ==
  /\ pc[t] = "exists"
  /\ ReadSpecs
  /\ Goto(t, "loadLock")
  /\ UNCHANGED <<loaded, pluginErrors, loadLock, nextLock, loads, container,
                 op, svc, myLock, todo, result, calls>>

Exists(t) ==
  /\ pc[t] = "exists"
  /\ ReadSpecs
  /\ IF svc[t] \in Provided
     THEN Goto(t, "loadLock") /\ UNCHANGED result
     ELSE NoContainer(t)
  /\ UNCHANGED <<loaded, pluginErrors, loadLock, nextLock, loads, container,
                 op, svc, myLock, todo, calls>>

(* self._plugin_load_locks[name]: a missing entry is created.              *)
GetLoadLock(t) ==
  LET s == svc[t] IN
  /\ pc[t] = "loadLock"
  /\ IF loadLock[s] = 0
     THEN /\ loadLock' = [loadLock EXCEPT ![s] = nextLock[s]]
          /\ nextLock' = [nextLock EXCEPT ![s] = @ + 1]
          /\ myLock' = [myLock EXCEPT ![t] = nextLock[s]]
     ELSE /\ myLock' = [myLock EXCEPT ![t] = loadLock[s]]
          /\ UNCHANGED <<loadLock, nextLock>>
  /\ Goto(t, "acquire")
  /\ UNCHANGED <<resolved, loaded, pluginErrors, loads, container,
                 op, svc, todo, result, calls>>

(* Variant: get_service_container without the load lock.                   *)
AcquireNothing(t) ==
  /\ pc[t] = "acquire"
  /\ Goto(t, "recheck")
  /\ UNCHANGED <<manager, container, op, svc, myLock, todo, result, calls>>

AcquireLoadLock(t) ==
  /\ pc[t] = "acquire"
  /\ \A u \in Thread : ~(HoldsLoadLock(u) /\ svc[u] = svc[t] /\ myLock[u] = myLock[t])
  /\ Goto(t, "recheck")
  /\ UNCHANGED <<manager, container, op, svc, myLock, todo, result, calls>>

(* Variant: no second look at _services under the lock.                    *)
RecheckSkipped(t) ==
  /\ pc[t] = "recheck"
  /\ Goto(t, "load")
  /\ UNCHANGED <<manager, container, op, svc, myLock, todo, result, calls>>

(* The second look at _services; returning releases the load lock.         *)
Recheck(t) ==
  /\ pc[t] = "recheck"
  /\ IF svc[t] \in loaded THEN GotContainer(t) ELSE Goto(t, "load")
  /\ UNCHANGED <<manager, container, op, svc, myLock, todo, result, calls>>

(* _load_service_plugin(name) succeeds ... The plugin manager keeps the     *)
(* error of a plugin that failed and raises it again at every later load.  *)
Load(t) ==
  /\ pc[t] = "load"
  /\ svc[t] \notin pluginErrors
  /\ loads' = [loads EXCEPT ![svc[t]] = @ + 1]
  /\ Goto(t, "addService")
  /\ UNCHANGED <<resolved, loaded, pluginErrors, loadLock, nextLock, container,
                 op, svc, myLock, todo, result, calls>>

(* Variant: a failed load also deletes the load lock.                      *)
LoadRaisesDeletes(t) ==
  /\ pc[t] = "load"
  /\ svc[t] \in Faulty
  /\ loadLock' = [loadLock EXCEPT ![svc[t]] = 0]
  /\ Finish(t, "PluginError")
  /\ UNCHANGED <<resolved, loaded, pluginErrors, nextLock, loads, container,
                 op, svc, myLock, todo, calls>>

(* ... or raises after its listener recorded the error (or, for a disabled *)
(* plugin, recorded nothing) ...                                           *)
LoadRaises(t) ==
  /\ pc[t] = "load"
  /\ svc[t] \in Faulty
  /\ pluginErrors' \in {pluginErrors, pluginErrors \cup {svc[t]}}
  /\ Finish(t, "PluginError")
  /\ UNCHANGED <<resolved, loaded, loadLock, nextLock, loads, container,
                 op, svc, myLock, todo, calls>>

(* ... or yields a plugin without a service. The load lock stays in the    *)
(* dictionary in both failures.                                            *)
LoadEmpty(t) ==
  /\ pc[t] = "load"
  /\ svc[t] \in Faulty \ pluginErrors
  /\ NoContainer(t)
  /\ UNCHANGED <<manager, container, op, svc, myLock, todo, calls>>

(* Variant: add_service() does not ask whether the service is enabled.     *)
AddAvailable(t) ==
  /\ pc[t] = "addService"
  /\ MutexFree
  /\ loaded' = loaded \cup {svc[t]}
  /\ SetState(svc[t], "AVAILABLE")
  /\ captured' = [captured EXCEPT ![svc[t]] = FALSE]
  /\ Goto(t, "delLock")
  /\ UNCHANGED <<resolved, pluginErrors, loadLock, nextLock, loads, up,
                 op, svc, myLock, todo, result, calls>>

AddService(t) ==
  LET s == svc[t] IN
  /\ pc[t] = "addService"
  /\ MutexFree
  /\ loaded' = loaded \cup {s}
  /\ SetState(s, IF s \in Enabled THEN "AVAILABLE" ELSE "DISABLED")
  /\ captured' = [captured EXCEPT ![s] = FALSE]
  /\ Goto(t, "delLock")
  /\ UNCHANGED <<resolved, pluginErrors, loadLock, nextLock, loads, up,
                 op, svc, myLock, todo, result, calls>>

DelLoadLock(t) ==
  /\ pc[t] = "delLock"
  /\ loadLock' = [loadLock EXCEPT ![svc[t]] = 0]
  /\ Goto(t, "unlock")
  /\ UNCHANGED <<resolved, loaded, pluginErrors, nextLock, loads, container,
                 op, svc, myLock, todo, result, calls>>

Unlock(t) ==
  /\ pc[t] = "unlock"
  /\ GotContainer(t)
  /\ UNCHANGED <<manager, container, op, svc, myLock, todo, result, calls>>

GetServiceContainer(t) ==
  \/ Get(t) \/ Exists(t) \/ GetLoadLock(t) \/ AcquireLoadLock(t) \/ Recheck(t)
  \/ Load(t) \/ LoadRaises(t) \/ LoadEmpty(t) \/ AddService(t)
  \/ DelLoadLock(t) \/ Unlock(t)

-----------------------------------------------------------------------------
(* require(name), once it has the container.                               *)

(* A step of t that reads container.state and touches nothing shared.      *)
ReadOnly(t) == UNCHANGED <<manager, container, op, svc, myLock, todo, calls>>

PollStart(t) ==
  /\ pc[t] = "pollStart"
  /\ Goto(t, IF state[svc[t]] = "STARTING" THEN "waitStart" ELSE "pollStop")
  /\ ReadOnly(t) /\ UNCHANGED result

(* poll_condition(state != STARTING, timeout=30)                           *)
WaitStart(t) ==
  /\ pc[t] = "waitStart"
  /\ \/ state[svc[t]] # "STARTING" /\ Goto(t, "pollStop") /\ UNCHANGED result
     \/ state[svc[t]] = "STARTING" /\ Finish(t, "TimeoutError")
  /\ ReadOnly(t)

PollStop(t) ==
  /\ pc[t] = "pollStop"
  /\ Goto(t, IF state[svc[t]] = "STOPPING" THEN "waitStop" ELSE "lockContainer")
  /\ ReadOnly(t) /\ UNCHANGED result

(* Variant: polling for STOPPED without a timeout.                         *)
WaitStopForever(t) ==
  /\ pc[t] = "waitStop"
  /\ state[svc[t]] = "STOPPED"
  /\ Goto(t, "lockContainer")
  /\ ReadOnly(t) /\ UNCHANGED result

(* poll_condition(state == STOPPED, timeout=30)                            *)
WaitStop(t) ==
  /\ pc[t] = "waitStop"
  /\ \/ state[svc[t]] = "STOPPED" /\ Goto(t, "lockContainer") /\ UNCHANGED result
     \/ state[svc[t]] # "STOPPED" /\ Finish(t, "TimeoutError")
  /\ ReadOnly(t)

(* Variant: require() without the container's lock.                        *)
LockNothing(t) ==
  /\ pc[t] = "lockContainer"
  /\ Goto(t, "ifRunning")
  /\ ReadOnly(t) /\ UNCHANGED result

LockContainer(t) ==
  /\ pc[t] = "lockContainer"
  /\ \A u \in Thread : ~(HoldsContainer(u) /\ svc[u] = svc[t])
  /\ Goto(t, "ifRunning")
  /\ ReadOnly(t) /\ UNCHANGED result

(* The tests under the lock are separate reads: check() and stop_services() *)
(* write container.state without the lock. DISABLED is never overwritten,  *)
(* so its test and the one for RUNNING are one step.                       *)
IfRunning(t) ==
  /\ pc[t] = "ifRunning"
  /\ CASE state[svc[t]] = "DISABLED" -> Finish(t, "ServiceDisabled")
       [] state[svc[t]] = "RUNNING"  -> Finish(t, "running")
       [] OTHER                      -> Goto(t, "ifError") /\ UNCHANGED result
  /\ ReadOnly(t)

(* raise container.errors[-1]                                              *)
IfError(t) ==
  /\ pc[t] = "ifError"
  /\ IF state[svc[t]] = "ERROR"
     THEN Finish(t, IF captured[svc[t]] THEN "captured" ELSE "IndexError")
     ELSE Goto(t, "ifStartable") /\ UNCHANGED result
  /\ ReadOnly(t)

IfStartable(t) ==
  /\ pc[t] = "ifStartable"
  /\ IF state[svc[t]] \in {"AVAILABLE", "STOPPED"}
     THEN Goto(t, "setStarting") /\ UNCHANGED result
     ELSE Finish(t, "ServiceStateException")
  /\ ReadOnly(t)

-----------------------------------------------------------------------------
(* ServiceContainer.start() and check(). check() ends start(), under the   *)
(* container's lock, and is what the health endpoint calls, without it.    *)

SetStarting(t) ==
  /\ pc[t] = "setStarting"
  /\ SetState(svc[t], "STARTING")
  /\ Goto(t, "starting")
  /\ UNCHANGED <<manager, captured, up, op, svc, myLock, todo, result, calls>>

(* service.start(asynchronous=True) returns or raises.                     *)
Starting(t) ==
  /\ pc[t] = "starting"
  /\ \/ up' = [up EXCEPT ![svc[t]] = TRUE] /\ Goto(t, "checking")
     \/ svc[t] \in Fragile /\ UNCHANGED up /\ Goto(t, "startFailed")
  /\ UNCHANGED <<manager, state, captured, op, svc, myLock, todo, result, calls>>

(* service.check(print_error=True) returns or raises.                      *)
Checking(t) ==
  /\ pc[t] = "checking"
  /\ \/ Goto(t, "setRunning")
     \/ svc[t] \in Fragile /\ Goto(t, "checkFailed")
  /\ ReadOnly(t) /\ UNCHANGED result

SetRunning(t) ==
  /\ pc[t] = "setRunning"
  /\ SetState(svc[t], "RUNNING")
  /\ Finish(t, IF op[t] = "require" THEN "running" ELSE "checked")
  /\ UNCHANGED <<manager, captured, up, op, svc, myLock, todo, calls>>

(* Variant: a failure is recorded but the state is left as it was.         *)
FailedQuietly(t) ==
  /\ pc[t] \in {"startFailed", "checkFailed"}
  /\ Goto(t, "appendError")
  /\ UNCHANGED <<manager, container, op, svc, myLock, todo, result, calls>>

(* except Exception: the state is set first, the error appended after it.  *)
Failed(t) ==
  /\ pc[t] \in {"startFailed", "checkFailed"}
  /\ SetState(svc[t], "ERROR")
  /\ Goto(t, "appendError")
  /\ UNCHANGED <<manager, captured, up, op, svc, myLock, todo, result, calls>>

(* Variant: the error is logged but not appended to errors.                *)
AppendNothing(t) ==
  /\ pc[t] = "appendError"
  /\ IF op[t] = "require"
     THEN Finish(t, "captured")
     ELSE Goto(t, "checkNext") /\ UNCHANGED result
  /\ UNCHANGED <<manager, container, op, svc, myLock, todo, calls>>

(* start() returned False: require() raises errors[-1]. A check that found *)
(* the service unhealthy goes on with the next name of check_all().        *)
AppendError(t) ==
  /\ pc[t] = "appendError"
  /\ captured' = [captured EXCEPT ![svc[t]] = TRUE]
  /\ IF op[t] = "require"
     THEN Finish(t, "captured")
     ELSE Goto(t, "checkNext") /\ UNCHANGED result
  /\ UNCHANGED <<manager, state, up, op, svc, myLock, todo, calls>>

RequireContainer(t) ==
  \/ PollStart(t) \/ WaitStart(t) \/ PollStop(t) \/ WaitStop(t)
  \/ LockContainer(t) \/ IfRunning(t) \/ IfError(t) \/ IfStartable(t)
  \/ SetStarting(t) \/ Starting(t) \/ Checking(t) \/ SetRunning(t)
  \/ Failed(t) \/ AppendError(t)

-----------------------------------------------------------------------------
(* check(name) and check_all(): any() stops at the first healthy service.  *)

CheckNext(t) ==
  /\ pc[t] = "checkNext"
  /\ \/ \E s \in todo[t] :
          /\ todo' = [todo EXCEPT ![t] = @ \ {s}]
          /\ svc' = [svc EXCEPT ![t] = s]
          /\ Goto(t, "ifCheckable")
          /\ UNCHANGED result
     \/ /\ todo[t] = {}
        /\ Finish(t, "checked")
        /\ UNCHANGED <<todo, svc>>
  /\ UNCHANGED <<manager, container, op, myLock, calls>>

(* The service is checked only if it is RUNNING or in ERROR at this moment. *)
(* For a plugin that failed to load the next step, get_service_container,  *)
(* tries to load it again.                                                 *)
IfCheckable(t) ==
  /\ pc[t] = "ifCheckable"
  /\ IF svc[t] \in loaded THEN UNCHANGED resolved ELSE ReadSpecs
  /\ Goto(t, IF GetState(svc[t]) \in {"RUNNING", "ERROR"} THEN "get" ELSE "checkNext")
  /\ UNCHANGED <<loaded, pluginErrors, loadLock, nextLock, loads, container,
                 op, svc, myLock, todo, result, calls>>

-----------------------------------------------------------------------------
(* _stop_services(): the mutex is held throughout, the containers' locks   *)
(* are not taken.                                                          *)

StopMutex(t) ==
  /\ pc[t] = "stopMutex"
  /\ MutexFree
  /\ Goto(t, "stopNext")
  /\ ReadOnly(t) /\ UNCHANGED result

StopNext(t) ==
  /\ pc[t] = "stopNext"
  /\ \/ \E s \in todo[t] :
          /\ todo' = [todo EXCEPT ![t] = @ \ {s}]
          /\ svc' = [svc EXCEPT ![t] = s]
          /\ Goto(t, IF state[s] \in {"STARTING", "RUNNING"} THEN "setStopping"
                     ELSE "stopNext")
          /\ UNCHANGED result
     \/ /\ todo[t] = {}
        /\ Finish(t, "stopped")
        /\ UNCHANGED <<todo, svc>>
  /\ UNCHANGED <<manager, container, op, myLock, calls>>

SetStopping(t) ==
  /\ pc[t] = "setStopping"
  /\ SetState(svc[t], "STOPPING")
  /\ Goto(t, "stopping")
  /\ UNCHANGED <<manager, captured, up, op, svc, myLock, todo, result, calls>>

(* service.stop() returns or raises.                                       *)
Stopping(t) ==
  /\ pc[t] = "stopping"
  /\ \/ up' = [up EXCEPT ![svc[t]] = FALSE] /\ Goto(t, "setStopped")
     \/ svc[t] \in Fragile /\ UNCHANGED up /\ Goto(t, "stopFailed")
  /\ UNCHANGED <<manager, state, captured, op, svc, myLock, todo, result, calls>>

SetStopped(t) ==
  /\ pc[t] \in {"setStopped", "stopFailed"}
  /\ SetState(svc[t], IF pc[t] = "setStopped" THEN "STOPPED" ELSE "ERROR")
  /\ Goto(t, IF pc[t] = "setStopped" THEN "stopNext" ELSE "appendStopError")
  /\ UNCHANGED <<manager, captured, up, op, svc, myLock, todo, result, calls>>

AppendStopError(t) ==
  /\ pc[t] = "appendStopError"
  /\ captured' = [captured EXCEPT ![svc[t]] = TRUE]
  /\ Goto(t, "stopNext")
  /\ UNCHANGED <<manager, state, up, op, svc, myLock, todo, result, calls>>

StopServices(t) ==
  \/ StopMutex(t) \/ StopNext(t) \/ SetStopping(t) \/ Stopping(t)
  \/ SetStopped(t) \/ AppendStopError(t)

-----------------------------------------------------------------------------
Call(t) ==
  \/ \E s \in Service : Require(t, s) \/ Check(t, s)
  \/ \E o \in Ops : CheckAllOrStop(t, o)

Step(t) ==
  \/ Collect(t) \/ CheckNext(t) \/ IfCheckable(t)
  \/ GetServiceContainer(t)
  \/ RequireContainer(t)
  \/ StopServices(t)

(* Between calls the manager has nothing to do.                            *)
Quiet ==
  /\ \A t \in Thread : pc[t] = "idle"
  /\ UNCHANGED vars

Next == (\E t \in Thread : Call(t) \/ Step(t)) \/ Quiet

Spec == Init /\ [][Next]_vars

(* A call that was begun is scheduled until it ends: the threads of the    *)
(* gateway's pool are operating-system threads, and no call of a service's *)
(* own functions blocks for ever. Nothing obliges a thread to begin a call. *)
FairSpec == Spec /\ \A t \in Thread : WF_vars(Step(t))
-----------------------------------------------------------------------------
(* Properties.                                                             *)

TypeOK ==
  /\ resolved \in BOOLEAN
  /\ loaded \subseteq Provided
  /\ pluginErrors \subseteq Provided
  /\ loadLock \in [Service -> Nat]
  /\ nextLock \in [Service -> Nat \ {0}]
  /\ state \in [Service -> State]
  /\ captured \in [Service -> BOOLEAN]
  /\ up \in [Service -> BOOLEAN]
  /\ loads \in [Service -> Nat]
  /\ pc \in [Thread -> PC]
  /\ op \in [Thread -> Operation]
  /\ svc \in [Thread -> Service]
  /\ myLock \in [Thread -> Nat]
  /\ todo \in [Thread -> SUBSET Service]
  /\ result \in [Thread -> Result]
  /\ calls \in [Thread -> Nat]

(* "this control path will be executed once per service": whatever threads *)
(* race through get_service_container, a service is instantiated at most   *)
(* once, although its load lock is deleted while others may wait for it.   *)
LoadedOnce == \A s \in Service : loads[s] <= 1

(* del self._plugin_load_locks[name] finds the entry: no two threads delete *)
(* it, and the loader deletes the very lock it holds.                      *)
DelFindsLock ==
  \A t \in Thread :
    pc[t] = "delLock" => loadLock[svc[t]] = myLock[t] /\ myLock[t] # 0

(* ServiceContainer.start() of a service is run by one thread at a time:   *)
(* two requests never start the same service concurrently.                 *)
StartExclusive ==
  \A t, u \in Thread :
    pc[t] \in StartRegion /\ pc[u] \in StartRegion /\ svc[t] = svc[u] => t = u

(* A container that says STARTING has a thread inside its start(), so a     *)
(* request that polls for the end of STARTING is not waiting for nobody,   *)
(* however check() and stop_services() interleave their own writes.        *)
StartingIsOwned ==
  \A s \in loaded : state[s] = "STARTING" =>
    \E t \in Thread :
      /\ svc[t] = s
      /\ HoldsContainer(t)
      /\ pc[t] \in StartRegion \cup (CheckRegion \ {"appendError"})

(* An API that is not enabled is never started, checked to RUNNING or      *)
(* stopped, and no require() ever returns it, in whatever order requests,  *)
(* health checks, failed loads and shutdown reach it.                      *)
DisabledStaysOff ==
  \A s \in loaded \ Enabled :
    /\ state[s] = "DISABLED"
    /\ ~up[s]
    /\ \A t \in Thread : svc[t] = s /\ pc[t] = "idle" => result[t] # "running"

(* A container in ERROR has an error to raise, or the thread that put it   *)
(* there is about to append it: start(), check() and stop() of different   *)
(* threads never leave an ERROR without its cause.                         *)
ErrorHasCause ==
  \A s \in loaded : state[s] = "ERROR" =>
    \/ captured[s]
    \/ \E t \in Thread : svc[t] = s /\ pc[t] \in {"appendError", "appendStopError"}

(* check() never calls None.check(): get_state() and get_service_container() *)
(* agree on which names have a container, also after failed loads.         *)
CheckFindsContainer == \A t \in Thread : result[t] # "AttributeError"

(* Every call of require(), check_all() and stop_services() ends: neither  *)
(* the load locks, the mutex and the container locks nor the polling loops *)
(* hold a thread for ever.                                                 *)
CallReturns == \A t \in Thread : (pc[t] # "idle") ~> (pc[t] = "idle")

-----------------------------------------------------------------------------
(* The registry the manager implements: loads counts the instances, and    *)
(* the thread inside service.start() is the starter.                       *)

Starter(s) ==
  IF \E t \in Thread : svc[t] = s /\ pc[t] \in StartRegion
  THEN CHOOSE t \in Thread : svc[t] = s /\ pc[t] \in StartRegion
  ELSE Nobody

Registry == INSTANCE ServiceRegistry
  WITH instances <- loads, starter <- [s \in Service |-> Starter(s)]

(* With its locks, the lazy loading, the check-then-act of require() and   *)
(* the racing health checks and shutdown, the manager behaves as the       *)
(* lock-free registry, and every start that begins ends.                   *)
ImplementsRegistry == Registry!Spec

-----------------------------------------------------------------------------
(* What the code's own words say and the code does not do.                 *)

(* plugins.py:265, require() "always returns a running service, or raises  *)
(* an error": when it returns, the service has been started and not been   *)
(* stopped since.                                                          *)
RequireReturnsRunning ==
  [][\A t \in Thread :
       result'[t] = "running" /\ result[t] # "running" => up'[svc[t]]]_vars

(* plugins.py:290, "raise any capture error": a require() that finds the   *)
(* container in ERROR raises the error that was captured.                  *)
RaisesCapturedError == \A t \in Thread : result[t] # "IndexError"
=============================================================================
