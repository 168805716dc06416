# A verification project for localstack-bb

TLA+ models, model-checking runs and machine-checked proofs of
`src/localstack-core/localstack/`: the path of a request through the gateway (routing,
parsing, authentication, dispatch, serialization, errors, metrics), the transfer service
and its stores, the service manager and the lazy loading of services, the lifecycle of
the runtime, of its init scripts and of its servers, port reservations and the
asynchronous batcher. Paths below are relative to that directory.
`PROJECT.json` holds the same project as data: components, hazards, runs, mutants,
the map from definitions to source lines, findings and theorems.

1. Inventory · 2. Modules and code · 3. Runs and bounds · 4. Fairness · 5. Proofs ·
6. Where code and words differ · 7. What is left out · 8. Plan

## 1. Inventory

The program is one process. The main thread starts up and then runs a twisted reactor.
Requests are handled on the reactor's thread pool by a chain of handlers, which loads
the service of a request on first use and dispatches to its provider. A ready monitor,
signal handlers (each `exit()` starts a thread) and background helpers run beside it.
The threads share Python objects, protected by locks in some places and by nothing in
others; there is no persistence, so there is no recovery to get right, only start, stop
and what happens between them.

| Part | State it keeps | Operations | Hard behaviour | What makes it correct |
|---|---|---|---|---|
| Service manager, `services/plugins.py` | `_services`, `_plugin_load_locks`, `_mutex`, plugin specs, plugin errors; per container `state`, `errors`, `lock` | `require`, `get_service_container`, `check`, `check_all`, `stop_services` | a lock dictionary whose entries are deleted while others wait; states written with and without the container's lock; polling with time-outs | a service is instantiated once and started by one thread at a time; a disabled one never starts; an ERROR has a cause; every call ends |
| Service loader and router, `aws/handlers/service_plugin.py`, `aws/handlers/service.py` | `loaded_services`, `service_locks`, the route table `handlers` | `ServiceLoader.require_service`, `ServiceRequestRouter.__call__`, `add_skeleton` | an unlocked fast path beside a locked slow path that updates two structures | routes are added once, only for loaded services, and every request is answered |
| Runtime, `runtime/*.py`, `aws/serving/twisted.py` | events `starting`, `ready`, `stopping`, `stopped`; `_lifecycle_lock`; exit code; hooks and shutdown handlers; reactor and thread pool | `run`, `exit`, `shutdown`, ready monitor, signal handlers | signals at any moment, hooks that raise, a pool that is patched while it may be stopped | shutdown runs once and in order, clean-up comes last, a runtime told to stop ends |
| Init scripts, `runtime/init.py` | per stage: completed flag, script states; `os.environ` | `run_stage` | a process-wide environment copied and restored by threads that do not exclude each other | a stage completes whatever its scripts do; their AWS variables do not leak |
| Batching, `utils/batching.py` | buffer, closed flag, condition variable | `add`, `run`, `close`; `Batcher.add`, `flush` | a notification that may come when nobody waits; the handler outside the lock | accepted items are handled once and in order; a closed batcher ends |
| Stores, `services/stores.py` | account → region → store; attributes made on first access | attribute access, bundle access, `reset` | check-then-act without a lock; `reset` while requests hold stores | one store and one value per key; an acknowledged write is visible |
| Transfer, `services/transfer/provider.py` | `servers` and `users` in a store | `create_server`, `describe_server`, `create_user`, `list_users`, `delete_user` | requests on several threads against plain dicts | each operation behaves as one step on its server |
| Ports, `utils/net.py` | cache of reserved ports with expiry, lock | `reserve_port`, `mark_reserved`, `get_free_tcp_port`, `get_free_tcp_port_range`, `subrange` | checks outside the lock that marks; expiry | a port is handed out once while its reservation lives |
| Synchronisation helpers, `utils/sync.py`, `utils/objects.py` | `Once`, `once_func`, `singleton_factory`, `SynchronizedDefaultDict` | `do`, `get`, `clear`, `retry`, `poll_condition` | one lock shared by all `Once` objects | a function runs once; nobody waits for itself |
| Server and process lifecycle, `utils/serving.py`, `utils/threads.py`, `utils/run.py` | thread, `_started`, `_stopped`, result future, subprocess | `start`, `shutdown`, `join`, the restart loop | the thread may end before `start` returns; a kill races the restart | a stopped server or process stays stopped |
| Asyncio helpers, `utils/asyncio.py` | thread pool with its idle semaphore, named event loops | `submit`, `run_sync`, `get_named_event_loop` | the count of idle threads; one loop per name | the pool is used and bounded |
| Gateway chain, `aws/app.py`, `aws/handlers/*`, `http/trace.py` | request context, response, chain flags, metric items | request, exception and response handlers, finalizers | a handler that stops or terminates the chain, or raises, at every position | every request gets one response; finalizers run; the metric of a request is its answer |
| Routing, `aws/protocol/service_router.py`, `op_router.py`, `aws/spec.py` | indexes of the service catalogue | `determine_aws_service_model`, `determine_aws_protocol`, `match` | five families of rules, tried in an order, with services that share names, prefixes and hosts | a request is routed to the operation its client wrote it for |
| Protocols, `aws/protocol/parser.py`, `serializer.py`, `validate.py` | none | parse a request, serialize results, errors and event streams, validate | seven protocols, eight places of a member, empty and missing values, cut bodies | what is written is what is read; what is malformed is refused |
| Skeleton, `aws/skeleton.py`, `aws/forwarder.py` | dispatch table | dispatch, error serialization, fallback dispatchers | class trees, missing parameters | the method of the most derived class answers |
| Client factory, `aws/connect.py` | cached clients, creation lock | `get_client` | an unlocked cache in front of a lock | clients are equal for equal parameters |
| Utilities: `utils/bootstrap.py`, `aws/accounts.py`, `utils/aws/arns.py`, `utils/backoff.py`, `utils/collections.py`, `utils/patch.py` | little or none | resolution of APIs, accounts, ARNs, back-off, paging, patching | recursion, boundaries, order of undoing | agree with their definitions |

How they interact: the chain calls the loader, the loader calls `SERVICE_PLUGINS.require`
and fills the router; the health resource calls `check_all`; a shutdown hook calls
`stop_all_services`; the start, ready and shutdown hooks call `run_stage`;
`RuntimeShutdownHandler`, the first handler of the chain, reads the events that
`shutdown()` sets. Every component, the ones that are only I/O or data conversion
included, is listed in `PROJECT.json`; so are the hazards, each at its line.

## 2. Modules and code

| Module | Models | Composed of |
|---|---|---|
| `ServicePlugins` | `ServicePluginManager`, `ServiceManager`, `ServiceContainer` | |
| `ServiceRegistry` | what the manager promises, without locks | refined by `ServicePlugins` |
| `ServiceLoader` | `ServiceLoader`, `ServiceRequestRouter` | INSTANCE of `ServicePlugins` on shared variables |
| `RuntimeLifecycle` | `LocalstackRuntime`, `HookManager`, shutdown handlers, twisted server, `RuntimeShutdownHandler` | |
| `InitScripts` | `InitScriptManager.run_stage` | |
| `AsyncBatcher` | `AsyncBatcher` | |
| `BatchQueue` | what a batcher promises | refined by `AsyncBatcher` |
| `Shapes` | shapes, values and the forms they have on the wire | |
| `Cbor` | the CBOR encoder and decoder, byte by byte | `Shapes` |
| `RequestParser`, `ResponseSerializer`, `RequestValidation` | the protocols | `Shapes`, `Cbor` |
| `ProtocolExchange` | a client and a service that exchange a request and a response | the three before |
| `Stores` | account, region and attribute look-up of a store | |
| `TransferApi` | the interface class `TransferApi` | |
| `Skeleton` | dispatch table and dispatch | |
| `RequestIdentity` | account and region of a request | |
| `TransferProvider` | the transfer service under concurrent clients | `Stores`, `TransferApi`, `Skeleton`, INSTANCE of `RequestIdentity` |
| `TransferDirectory` | what the transfer service promises | refined by `TransferProvider` |
| `ServiceRouter` | service look-up, routing rules, protocol detection | |
| `OperationRouter` | operations of REST services | |
| `Gateway` | the handler chain with everything a request meets in it | `ServiceRouter`, `OperationRouter`, `Skeleton`, INSTANCE of `RequestIdentity` |
| `ClientRequests` | how clients write requests, and how a service can be told from the others: the assumptions under which routing is right | `Gateway` |
| `PortRange` | port reservations | |
| `Servers` | `Server`, `FuncThread`, hypercorn servers | `PortRange` |
| `MC*` | the instances TLC checks | |
| `*Proofs` | theorems and their proofs | |

An action is what a thread does between two moments at which another thread can see or
change something it uses. Each thread has a program counter; a thread owns a lock exactly
while its counter is in the region that the `with` statement encloses, so the locks need
no variables. Operators named "Variant" describe the code with one thing wrong (a dropped
guard, a missing lock); no specification uses them. They serve to show that a property
can be violated.

**ServicePlugins.** `loaded` is the key set of `_services`; `loadLock` is
`_plugin_load_locks` with the identity of each lock, because the entry is deleted after a
load while other threads may hold or wait for the deleted lock, and a later reader makes
a new one. `captured` says that `errors` is not empty, `up` is what the service itself was
last told. `Get` … `Unlock` is `get_service_container`, `PollStart` … `AppendError` is
`require`, `start` and `check`, `CheckNext` and `IfCheckable` the loop of `check_all`,
`StopMutex` … `AppendStopError` is `_stop_services`. `start()` ends in `check()`, so both
callers share those actions, one with and one without the container's lock. The states
are written before the errors are appended, as in the code. A plugin may fail to load in
three ways: with an error its listener records, without one (a disabled plugin), or by
yielding no service. `poll_condition` either sees its condition or times out.

**ServiceLoader.** `step` is where a thread's request is. `FastPath` is the unlocked look
at `loaded_services`, `MarkLoaded` adds the name under the lock of the service, and
`AddRoute` adds one operation at a time, as the loop of `add_skeleton` does. While the
request is in the manager, `awaiting`, the thread takes steps of `ServicePlugins`.

**RuntimeLifecycle.** `main` is the main thread from the start hooks to the clean-up;
`shutdown[k]` is the thread of the k-th `exit()`. The hooks run one by one, highest
priority first; the first that raises ends the loop and is caught. `pool` distinguishes
the thread pool before and after `stop` was patched. The thread that monitors readiness is
a daemon and stops with the process.

**InitScripts.** `env` says, for each variable that `run_stage` restores, which stage's
script wrote it last. `env_original` is a stage's copy, and the restoration is one step
per variable. The three stages are run by the main thread (START), the ready monitor
(READY, after START) and the shutdown thread (SHUTDOWN, any time).

**AsyncBatcher.** The critical sections of `_flush_lock` are single steps. `EnterWait`
gives the lock up; `Wake` is the notification or the time-out; `Flush`, with the lock
taken again, copies and clears; `Handle` runs outside the lock.

**Shapes, Cbor, RequestParser, ResponseSerializer, RequestValidation.** A shape is a record
of the traits the code asks for (type, name, location, flattened, payload, required, …).
A value is a tagged tuple, `<<"num", 7>>`; `None` is Python's, apart from an absent key.
What a conversion does is in the tag of a text: `Text("iso8601", 5000)` is that time in
that format, and a parser that expects another one fails. JSON and XML bodies are trees;
CBOR is a sequence of bytes, so that a body can be cut in the middle of an item, and a
byte has `Byte` values (256 in the code) so that every width of an integer occurs with
small numbers. A class hierarchy of parsers is one operator with the protocol as a
parameter, and a CASE where a subclass overrides. The operators return an error in place
of raising; `RequestParser` says which exception the caller sees.

**ProtocolExchange.** The client is botocore and external: `EncodeRequest` writes a
request by the conventions of the protocol, `Answered` reads a response. Between them
`ParseRequest`, `Return`, `Fail` and `Stream` are the code. The operation answers what it
was called with, so one case goes through both directions.

**Stores, TransferProvider.** The bundle look-up is one step (it is under a lock), every
access to an attribute of a store another one: `Miss` finds it absent, `Default` assigns
the default, in two steps as in `LocalAttribute.__get__`. `at` is the next access of a
call. A call that raises what the service does not declare is answered with status 500,
as the skeleton and the exception handlers do. `ApiClass` and `ProviderClass` go through
`DispatchTable`, so an operation the provider does not override is answered by the
interface: NotImplementedError.

**Gateway.** A request is a record of the indicators that the handlers read. `phase` and
`at` say which handler comes next; an action is one handler, which runs to its end.
`Advance` and `Thrown` are the chain of rolo: what a stopped, a terminated or a failing
chain does next. `loaded`, `items` and `metrics` are shared by the requests. Handlers in
which nothing is registered, or which log, are `PassSilently`. `ServiceRouter` returns the
set of models a request may be given where the code depends on the order of a set.

**PortRange, Servers.** Looking a port up is one step without the lock, marking it one
with the lock; `_try_reserve_port` keeps the lock over both. `leases` is a history
variable. In `Servers` an owner takes its port from `PortRange` and starts a server on
it; `thread` is the server thread, up to the result of its future; `loop` is the event
loop, which `shutdown()` stops when the server does not close in time.

## 3. Runs and bounds

| Run | Question | Instance |
|---|---|---|
| `plugins_race` | single instantiation, lock bookkeeping, exclusive starts, causes of errors | three threads, two calls each, one service whose load, start, check and stop may fail; threads symmetric; 2.7 million states |
| `plugins_live` | do calls end, does a disabled API stay off, does the manager implement `ServiceRegistry` | two threads, two calls, an enabled service, a disabled one, an unknown name |
| `plugins_stop_race` | does `require()` return a running service (section 6) | two threads |
| `loader_live` | routes added once and completely, requests answered | two threads, one request and up to two calls each, an enabled and a disabled service with two operations |
| `runtime_live` | hooks once and in order, clean-up last, readiness, and the end of a serving runtime | two exits, an external and an internal request, every hook may raise |
| `init_live` | stages complete, scripts run in order, no leak between scripts in turn | stages of 1, 2 and 1 scripts, one write each, two variables |
| `batcher_queue` | nothing lost, doubled or reordered; implements `BatchQueue` | five items of two kinds, batches of two |
| `protocols` | do writing and reading agree, is what is malformed refused, do errors and missing members agree in all protocols | a dozen shapes with every trait, 1,709 cases of a shape, a value and two protocols |
| `transfer` | are stores isolated, and does a client alone in its store see a directory (`TransferDirectory`) whatever others do | two clients that share a store, one alone, one in a region the service lacks; two server ids, one user, up to three requests each; 540,000 states |
| `gateway` | is every request routed as it was written, every failure answered, every metric the answer of its request | a catalogue of 15 services, 45 requests of one client beside two of another, shutdown at any time, two services that may fail to load; 590,000 states |
| `gateway_trace` | do finalizers run in the traced chain (section 6) | the same, with `Tracing` |
| `servers` | are reservations exclusive, is a joined server over, does `shutdown()` end | two owners; the server of one is shut down by two threads, that of the other by none; ports 1 to 4, the system hands out 2 and 9; 180,000 states |

Bounds are the constants `MaxCalls`, `MaxRequests`, `Exit`, `Request`, `Writes` and
`MaxItems`; all of them stand in guards of the actions that begin something, so what was
begun is never cut short. Three threads on one service give the load lock a holder, a
thread waiting for it and one that makes a new lock after its deletion, which is the
longest chain the code can build; two calls per thread give a second call on a loaded,
failed or stopped container. Two exits are enough for a winner and a loser; a third exit
takes the loser's path again. One external and one internal request show both answers of
the admission. Two READY scripts show that one script's writes do not reach the next, two
variables that the restoration is not atomic. Five items with batches of two let a full
buffer, a partly filled one and an add during the handler follow each other.

`transfer`: two clients of one store reach every interleaving of the accesses of two
calls; the client alone has three requests, enough to create a server and a user and to
delete or list it. `gateway`: the chain reads no more of another request than the shared
`loaded`, `items` and `metrics`, so a second client with two requests is enough; the
requests of the first have every routing rule, both outcomes of every handler, and every
protocol; 26 of them are written for an operation, one or more for each indicator in
`ClientRequests` (a signing name of one service, a rule for a path, a target, the operation, a
path, a host, an action, the services nothing tells apart), and TLC evaluates
`WritingAssumption` and `CatalogueAssumption` on them before it starts. `protocols`: `Byte = 26` is the smallest base in which the additional
information of a CBOR head (up to 25 for two bytes) fits a byte, so integers of one, two
and more bytes are below 1,000. `servers`: `RangeSize` is 2 and `MaxAttempts` 2 (50 in
the code): a third attempt finds no state a second one does not; two stoppers are a
winner and a loser; four ports let both owners use `reserve_port` on overlapping ports
while the other marks a range.

Deadlock is checked everywhere except in `RuntimeLifecycle`, where the process ends, in
`ProtocolExchange`, `Gateway` and `TransferProvider`, where every request is answered and
no more are sent, and in `Servers`, where servers are over and calls returned. In
the other modules the state in which nobody has anything to do is an explicit stuttering
step (`Quiet`, `Returned`), so any other state without successor is reported.

## 4. Fairness

`FairSpec` asks weak fairness of the steps of a thread that is in the middle of something,
thread by thread: these are operating-system threads, and Python's locks are given to
somebody. Nothing is asked of the environment: no call, request, exit, add or close has
to happen. It is assumed that the functions the code calls return, that is the start,
check and stop of a service, hooks, scripts and batch handlers, and that waiting with a
time-out ends. Weak fairness does not make a Python lock fair to one waiter; the
properties hold because the number of calls is bounded, so that a lock cannot be taken
from a waiter for ever. The twisted reactor is assumed to notice `stop()` from another
thread, since its timers wake it regularly. In `ServiceRegistry` fairness is asked of
`EndStart` only, in `BatchQueue` of `Hand` and `End`.

`Servers` asks it of `SetStarted`, `Join`, the steps of a server thread and the end of the
wait in `shutdown()`, which has a time-out; nothing obliges anybody to start a server, to
shut one down or to give a port back. `ProtocolExchange`, `Gateway` and `TransferProvider`
state safety only and no fairness: their requests are bounded sequences of handlers.

## 5. Proofs

All constants are arbitrary: any number of threads, services, exits, requests and items,
and any failure sets. The only assumptions are the named ASSUMEs of the modules, which
say what the constants are (`Service # {}`, `Enabled \subseteq Service`, a batch size of
at least one, what a service may do, …). Each inductive invariant was checked by TLC on the
run of its module before it was proved.

**ServicePluginsProofs** strengthens in four layers, each inductive given the ones before:

- `TypeInv`: types, and that only names with a provider reach the load lock.
- `LoadInv`, for `LoadedOnce` and `DelFindsLock`. `LoadedOnce` counts loads, and nothing in
  it says why a second thread cannot load. The reason is `CurrentLock`: as long as the
  service has no container, the lock a thread read is still the one in the dictionary, so
  all candidates compete for the same lock; once the entry is deleted the container is
  there, and whoever made a new lock finds it at the second look.
- `LifecycleInv`, for `StartExclusive`, `StartingIsOwned` and `ErrorHasCause`: only
  `require` takes the container's lock, and only under it is STARTING written; `check`
  and `stop` may overwrite the state meanwhile, but never with STARTING.
- `DisabledInv`, for `DisabledStaysOff` and `CheckFindsContainer`: a thread works on the
  lifecycle of a service only if it is enabled, a name that failed to load never gets a
  container, and a health check goes on only with a name that has a container or an error.

`StepsOfRegistry`, in the same module, is the safety half of the refinement: the refinement
mapping picks the thread inside `start()`, which the container's lock makes unique, and every
step is `Create`, `BeginStart`, `EndStart` or leaves the registry alone. A section before it
(`CallerInv`, `CallerStep`, `CallerCall`) says what a caller of `require` may rely on: its
thread works on no other service until the call ends, a call that ends well leaves the service
in `loaded`, and nothing is ever taken out of `loaded`. It is stated for one step of any thread
and for calls that begin at any moment, so that a composition can use it.

**RuntimeLifecycleProofs** uses `WinnerInv` (at most one exit is past the test of
`stopping`, and before it nothing has run), `OverInv` (a reactor that is stopping has no
hook left), `OrderInv` (what still has to run has a priority no higher than what ran) and
`ReadyInv` (the monitor gets to its hooks only with the port bound). `HooksOnce` and
`HooksInOrder` are not inductive: they speak of the past only.

**AsyncBatcherProofs** proves `NothingLost` and that every step is one of `BatchQueue` or
none. `NothingLost` is inductive; the refinement also needs that `run` returns only when
the batcher is closed (`ReturnedInv`).

**ServersProofs** proves `ReservationsExclusive` of `Servers`, with any number of threads, any
range and any system ports: `LockInv` (who looks for a port in `reserve_port` holds the
lock), `FreshInv` (the port it is about to mark is not reserved, since only the holder of
the lock marks), `LeasesInv` (a lease is a reservation) and `CallsInv` (types). The marks of
`get_free_tcp_port` and of ranges take the lock but test without it; the proof shows that
they can disturb each other and not the leases.

`JoinedServersAreOver` proves `JoinedIsOver` of the same module. `StartInv` says that one `start()` gets through: between the start of the thread and
`_started` it holds the lock of the server, and a `shutdown()` that is past the lock found
`_started` set, so it closes a server that has a thread. `ThreadInv` says that a thread has the port
its owner was given and no result before it serves; `BoundInv` that a bound port has a server
that serves on it or was interrupted. Without `StartInv` a stopper could go on to join before
there is a thread, and return from it at once.

**InitScriptsProofs** proves `CompletedStagesRan` and `EnvRestoredInTurn` with `PlaceInv` (where
every stage is, and which of its scripts are done by then: a completed stage has no script
left) and `TurnInv` (as long as no two stages have overlapped, at most one is active, the copy
it took of the environment is the original, and between its scripts nothing has changed). The
second is why the condition on overlaps cannot be dropped: a copy taken while another stage
runs a script is a copy of that script's changes.

**ServiceLoaderProofs** proves `RoutesAddedOnce` with `LockInv` (the lock of a service has one
holder) and `MarkInv` (a service with a route is in `loaded_services`, and so is one whose
routes are being added). Nothing the service manager does meanwhile matters to it.

`RoutesToLoaded` proves `RoutedServicesLoaded`: no request is routed to a service whose
plugin the manager has not loaded. This one is about both components. `RInv` joins the
invariants of the loader (`RequestInv`: a thread that awaits the manager is in a call of
`require` for the service of its request, and when that call has ended well the service is in
`loaded`; `LoadedInv`: what is in `loaded_services` the manager has) with `CallerInv` of the
manager, which the proof takes from an INSTANCE of ServicePluginsProofs. A step of the composition is a step of the
manager's own `Next`, a call it receives or a read of what it returned (`SameCalls`,
`SameStep`), so none of the manager's steps is proved again. `ManagerAssumption` states for the
instance what the modules assume of the manager's constants.

**GatewayProofs** proves `FailuresAnswered` and `MetricsMatch`, for any catalogue, requests and
clients. Both compare what a client is told with what happened handlers earlier, so `IInv`
says for each place in the chain what has been settled by then. `InRequest`: nobody has
written a body before the last handlers, and a request that has an operation is past the
parser. `InException`: the error is one nobody expected, and by the fourth handler the client of
a known service has an answer of at least 400, a body and an exception on record. `InResponse`,
`InFinal` and `InDone`: the answer is as `FailuresAnswered` wants it, and from the parser of
responses on there is a response or an exception to meter (`Settled`). `Recorded` says that the
item of a request in the metric handler is what was parsed from it, `Metered` that a metric on
record is the answer its request was given. The chain leaves every phase by stopping,
terminating, raising or running out of handlers; the lemmas `StaysInRequest`,
`RaisesInRequest`, `ExceptionGoesOn`, `ResponseGoesOn` and `FinalGoesOn` treat that once, and
a handler has to say only what it does to the record. `OutcomesAssumption` says what a provider may do
(a result, an error of the service with a status and a code, an exception), and nothing is
assumed about the catalogue for these two: which service a request reaches does not matter to
what becomes of it.

`RoutedAsWritten` is the other half of the module: for any catalogue, a request is routed to the
service and the operation it was written for. That cannot be true of every request, so
`ClientRequests` says of which, and its two assumptions are all the proof uses.
`CatalogueAssumption` is the layout of the specs: one file for a service, a second one
`<service>-<protocol>` where the first does not speak the protocol (`aws/spec.py:117`), no empty
names, finitely many services and rules. `WritingAssumption` has two halves. `WrittenFor` is how
the protocols write a request (the path of CBOR, the target of JSON, action and version of a
form, a path of the http block of a REST operation) and what the clients of an operation do not
do (call a resource of the gateway or a data plane host). `ToldApart` lists by what a service
can be told from the others: signing name, path rule, target, the operations of the candidates,
path, host, action and version, or the conventions of `resolve_conflicts`. A request that
fails one of them is still routed to some service, and no claim is made about it. The
assumptions speak of the catalogue and of the tables of hand-written rules; the stages of
`Determine`, their order and what each leaves to the next are what the proof has to deal with.

The proof goes three ways. *Service*: `ServiceFound` takes each way of being told apart, and
shows that the stages before it find nothing or the same (`ReadRivals`: the sought service is
never among those removed) and that the set of candidates has one element
when `pop()` takes one, so the nondeterminism of `Determine` is gone. *Protocol and operation*:
`ProtocolFound` follows the priorities of the detection; `OperationFound` shows for a REST
service that the rule of the operation outweighs every other rule that matches: its path is more
specific, or it requires more arguments (`SpecificityIsStrict`, `Scores`). *Chain*: `RInv` says
where a request is on its way (`OnItsWay`: the service is set by handler 12 and the operation by
18, both right; its encoding is readable; the error is none of the parser's; a 404 comes from
the provider only). It is inductive given `IInv`: each handler leaves these fields alone
(`Unswayed`), except `parse_service_name`, `parse_service_request` and `empty_response`, which
have proofs of their own (`FindsItsService`, `FindsItsOperation`, `CarriesAnswers`).
`StandsFor` is what the property allows for services that nothing tells apart: their stand-in,
and only for an operation the stand-in has. TLC showed that a WriteRecords of
timestream-write needs no stand-in, since timestream-query does not have it.

**TransferProofs** proves `StoresIsolated` for any clients, credentials and requests, with
`SlotsProper`: every entry under an attribute of a store carries the account and region of the
store. It rests on `LocalAssumption`, that both attributes are LocalAttributes
(`services/transfer/models.py:25`), and on nothing about the order of steps: a lost update
loses an entry, it never moves one.

`AloneSeesADirectory` proves `ImplementsDirectory`, the whole of it, since `TransferDirectory`
states no fairness: a client alone in its account and region sees `TransferDirectory`, with any
clients elsewhere, any credentials and any requests. `AloneInv` says
at each access of a call what its method has found out before (`Knows`: the server is kept,
the dictionary of its users is there, the user is not yet in it, …). In general that is false a
moment later; it stays true here because a step of a client touches no slot but its own
(`StepsAreOwn`) and no other client has the same slots (`OthersKeepTheirs`). For the same reason a
default is written only where nothing was (`DefaultIsMissing`), and the KeyError of `KeyFails`
is out of its reach. The lemmas `TableOfProvider` and `EarlyAnswers` work out the
dispatch table of the provider for every operation of the interface: what it implements is
what `TransferDirectory` serves, and all else is refused with the status that `Refusals` allows. Then
each action of a client alone is one action of the directory or none, and those of others are
none. `RequestsAssumption` says what the input shapes leave in a request
(`aws/api/transfer/__init__.py`): no id in a CreateServer, no user name where the shape has
none, and a user name out of `Users`.

Only model-checked: every liveness property and the liveness half of `ImplementsRegistry` and
`ImplementsQueue` (fairness and ENABLED are beyond the prover); the five properties of
`protocols`, whose parsers are recursive (in those modules, which no theorem reaches, the arms
of a CASE that overlap stand for an `elif` chain: TLC takes the first that holds). Every
other invariant of a passing run has a theorem.

## 6. Where code and words differ

Two of these are runs that TLC refutes; `PROJECT.json` quotes the lines.

- `plugins_stop_race`: `require()` "always returns a running service, or raises an error".
  `_stop_services` does not take the container's lock; a service that is stopped while
  its `start()` ends in `check()` is set to RUNNING and returned although it is stopped.
- `gateway_trace`: the traced chain has a "List of finalizer traces".
  `_call_finalizers` calls the response handlers a second time and the finalizers never
  (`http/trace.py:298`).

The modules state six more, which the models do not satisfy; no run spends time on them.

- `ServicePlugins!RaisesCapturedError`: `require()` is to raise the captured error.
  `check()` and `stop()` set ERROR before they append the error, so `errors[-1]` may fail
  with IndexError.
- `ServiceLoader!LoadedIsRouted`: "once we know the service is loaded we can route the
  request". The name is in `loaded_services` before its routes are there; a second request
  finds no handler.
- `RuntimeLifecycle!SignalShutsDown`: the signal handler is "to make sure SIGTERM properly
  shuts down localstack". A signal before the reactor runs sets `stopping` and then fails to
  stop it; from then on every further exit returns at once and the process goes on serving.
- `InitScripts!EnvRestored`: "Discard env variables overridden in startup script". When
  SHUTDOWN scripts overlap START or READY scripts, a stage restores another's changes.
- `AsyncBatcher!LastFlush`: `close()` "will cause one last flush". If the loop is not
  waiting at that moment it ends with items in the buffer.
- `TransferProvider!DuplicateRefused`: `test_create_user_duplicate` expects the second
  CreateUser of a name to be refused. Two at once both pass the test and are acknowledged;
  a first user may also be wiped by the dictionary of another (`store.users[id] = {}`).

Seen while modelling:

*Runtime and helpers.* A service may be started after the services hook has stopped all
others, and before the later shutdown handlers; a batch may be larger than
`max_batch_size`, and a full buffer may wait a whole interval, since a notification while
nobody waits is lost; a health check can turn the ERROR of a failed start into RUNNING;
the core pool of `AdaptiveThreadPool` is never used, as its semaphore starts at zero
(`utils/asyncio.py:57`); all `Once` objects share one lock (`utils/sync.py:200`).

*Stores and transfer.* The first accesses of one attribute race, and the writes to the
dictionary that loses are lost; a region that is valid for another service but not for
transfer raises ValueError in `RegionBundle` and is answered with status 500.

*Ports and servers.* `_ports_cache` holds as many entries as the range has ports, but its
keys are (port, protocol), so TCP and UDP reservations together can evict a live one
(`utils/net.py:312`). `get_free_tcp_port` and `_range` may hand out a port `reserve_port` just
gave away, or each other's. `randint(start, end - n - 1)` never uses the last starts and
raises ValueError if the range has no more than n + 1 ports. `GatewayServer.shutdown()`
after `serve()` failed returns without `do_shutdown`, so the application is never closed
(`utils/serving.py:109`); an interrupted loop keeps its socket.

*Gateway.* A host that matches a custom rule but no model fails with AttributeError
(`custom_host_match[0].name`). An access key that starts with twelve digits counts as an
account whatever follows. In the OpenAPI validation a refusal by one spec is not undone
by a later one that accepts. A missing required parameter is a TypeError in the call of
the provider, hence status 500. Keys with three or more parts in `HealthResource` are not
nested. Metrics of errors with a CBOR body are never recorded; their items, like those of
requests without an operation or with a terminated chain, stay in memory.

*Protocols.* The RPC-v2 parser reads members by their names while the serializer writes
their location names (`parser.py:1353`). Booleans in headers and query strings of rest-json
stay strings (`parser.py:903`). An unknown operation of the JSON and RPC-v2 protocols, a
missing target header and a null body are UnknownParserErrors; an empty RPC-v2 body with
members to read is a ProtocolParserError. XML in the unixTimestamp format is an
UnknownSerializerError. CBOR refuses members that JSON and XML skip. S3 and the rfc822
format lose fractions of seconds. The error header of SQS always names the sender while
its XML body follows a table. The XML parser sets absent located members to None, which
the validation reports as an invalid type; `validate_request` has no caller in `src`.

## 7. What is left out

- The plugin manager (plux), twisted, hypercorn, asyncio, the handler chain and router of
  rolo, `threading.Condition` and botocore are libraries. They are modelled by how the code
  uses them and marked external: a plugin that failed to load raises its error again at
  every later load; a stopped thread pool cannot be started again; `reactor.stop()` raises
  when the reactor does not run; the port is bound by `listen()`; botocore writes requests
  by the conventions of the protocols.
- The list of services in `check_all` and `stop_services` is a snapshot in one step;
  taking it is a single operation on a dict.
- Discovery of init scripts and plugins, the boot stage, shell scripts (they run in a
  process of their own), the exit code (every caller passes 0), logging.
- Protocols: rewriting of virtual host addresses of S3, XML namespaces, escaping of SQS,
  the MD5 header, event streams in requests, ranges and lengths in the validation, CBOR
  strings sent in chunks (no writer of the repository sends them).
- Stores: `reset()` and `iter_stores()`, which nothing calls while requests run; the locks
  inside Python's dict operations are taken for granted.
- Gateway: proxy, analytics, pre-signed addresses, the legacy router; a handler is one
  step, since what it shares with other requests is a single operation on a dict or a set
  (`ServiceLoader` has the one exception, loading, in detail).
- Ports: `subrange`, UDP and durations (a reservation may expire at any time).
- Client factory, configuration, `resolve_apis`, ARNs, back-off, collections, patching,
  shell threads, asyncio helpers: `PROJECT.json` says of each why.
- Everything that is I/O, generated or a wrapper of a library, as listed there.

## 8. Plan

1. A composition of `RuntimeLifecycle` and `InitScripts`, in which the hooks call
   `run_stage` and the overlap of stages comes from the exits; `Gateway` with
   `ServiceLoader` in place of `RequireService`.
2. Theorems about those compositions, from `CallerInv` of the manager and the invariants of
   the parts.
3. `resolve_apis` (a least fixed point), ARNs, paging and back-off against reference
   definitions; the client factory with its cache outside its lock.

Hazards these are for, beyond the ones in `PROJECT.json`: `services/stores.py:264`
(`reset()` iterates without the lock) and `:281` (a store that is still written after a
reset); `services/transfer/provider.py:186` (ListUsers iterates over a live dict) and
`:215` (two DeleteUser); `utils/net.py:312`; `aws/handlers/service_plugin.py:45`
(`loaded_services` is never cleared); `utils/batching.py:129` (the window of `Batcher`
restarts at a flush); `utils/asyncio.py:131` and `:139` (two first callers of an event
loop, and a late thread); `utils/bootstrap.py:177` (a cached set of enabled services).
