------------------------- MODULE RuntimeLifecycleProofs -------------------------
(***************************************************************************)
(* Safety of RuntimeLifecycle for any number of exits and requests.        *)
(***************************************************************************)
EXTENDS RuntimeLifecycle, TLAPS

(* The thread that won the test and set of stopping has still work to do.  *)
Active == {"hooks", "stopPool", "stopReactor"}

(* One thread at most shuts the runtime down, once stopping is set, and it  *)
(* leaves the hooks only when none is left to run.                         *)
WinnerInv ==
  /\ \A k \in Exit : shutdown[k] \in Active => stopping
  /\ \A k, l \in Exit : shutdown[k] \in Active /\ shutdown[l] \in Active => k = l
  /\ \A k \in Exit : shutdown[k] \in {"stopPool", "stopReactor"} => todo = {}

(* The hooks are through, for good.                                        *)
HooksOver == stopping /\ todo = {} /\ \A k \in Exit : shutdown[k] # "hooks"

OverInv == reactor = "stopping" \/ main \in {"returning", "exited"} => HooksOver

(* What ran came before what is still to run, and is not run again.        *)
OrderInv ==
  /\ \A i \in 1 .. Len(ran) :
       /\ ran[i] \notin todo
       /\ \A h \in todo : Priority[ran[i]] >= Priority[h]
       /\ \A j \in 1 .. Len(ran) : i < j =>
            ran[i] # ran[j] /\ Priority[ran[i]] >= Priority[ran[j]]

(* The monitor is spawned after the port was bound, or not.                *)
ReadyInv ==
  /\ main \in {"starting", "register", "spawn"} => monitor = "none"
  /\ monitor = "none" => ~ready
  /\ ready \/ monitor = "hooks" => listening \/ stopping

IInv == TypeOK /\ WinnerInv /\ OverInv /\ OrderInv /\ ReadyInv

-----------------------------------------------------------------------------
LEMMA PriorityType == \A h \in ShutdownHook : Priority[h] \in Int
BY DEF Priority, ShutdownHook

LEMMA InitInv == Init => IInv
<1> SUFFICES ASSUME Init PROVE IInv
  OBVIOUS
<1>1. ran \in Seq(ShutdownHook) /\ Len(ran) = 0
  BY DEF Init
<1>2. stopping \in BOOLEAN /\ ready \in BOOLEAN /\ stopped \in BOOLEAN /\ listening \in BOOLEAN
  BY DEF Init
<1>3. TypeOK
  BY <1>1, <1>2 DEF Init, TypeOK, Main, MonitorStep, ShutdownStep, RequestStep
<1>4. WinnerInv /\ OverInv
  BY DEF Init, WinnerInv, OverInv, Active
<1>5. OrderInv
  BY <1>1 DEF OrderInv
<1>6. ReadyInv
  BY DEF Init, ReadyInv
<1> QED
  BY <1>3, <1>4, <1>5, <1>6 DEF IInv

(* The main thread changes no hook, and stops only after the reactor.      *)
LEMMA MainKeepsInv == IInv /\ MainStep => IInv'
<1> SUFFICES ASSUME IInv, MainStep PROVE IInv'
  OBVIOUS
<1> USE DEF IInv, TypeOK, WinnerInv, OverInv, OrderInv, ReadyInv, Active, HooksOver,
            Main, MonitorStep, ShutdownStep, RequestStep
<1>1. CASE OnStarting
  BY <1>1 DEF OnStarting
<1>2. CASE Register
  BY <1>2 DEF Register
<1>3. CASE SpawnMonitor
  BY <1>3 DEF SpawnMonitor
<1>4. CASE GetPool
  BY <1>4 DEF GetPool
<1>5. CASE PatchPool
  BY <1>5 DEF PatchPool
<1>6. CASE RunReactor
  BY <1>6 DEF RunReactor
<1>7. CASE ReactorReturns
  BY ZenonT(60), <1>7 DEF ReactorReturns
<1>8. CASE OnReturn
  BY <1>8 DEF OnReturn
<1> QED
  BY <1>1, <1>2, <1>3, <1>4, <1>5, <1>6, <1>7, <1>8 DEF MainStep

LEMMA MonitorKeepsInv == IInv /\ (WaitForGateway \/ OnReady) => IInv'
<1> SUFFICES ASSUME IInv, WaitForGateway \/ OnReady PROVE IInv'
  OBVIOUS
<1> USE DEF IInv, TypeOK, WinnerInv, OverInv, OrderInv, ReadyInv, Active, HooksOver,
            Main, MonitorStep, ShutdownStep, RequestStep
<1>1. CASE WaitForGateway
  BY <1>1 DEF WaitForGateway
<1>2. CASE OnReady
  <2>1. ready' \in BOOLEAN /\ monitor' \in MonitorStep /\ monitor' # "none"
    BY <1>2 DEF OnReady
  <2>2. ReadyInv'
    BY <1>2 DEF OnReady
  <2> QED
    BY <1>2, <2>1, <2>2 DEF OnReady
<1> QED
  BY <1>1, <1>2

LEMMA RequestKeepsInv ==
  ASSUME IInv, NEW r \in Request, Receive(r) \/ Admit(r) \/ Handle(r)
  PROVE  IInv'
<1> USE DEF IInv, TypeOK, WinnerInv, OverInv, OrderInv, ReadyInv, Active, HooksOver,
            Main, MonitorStep, ShutdownStep, RequestStep
<1>1. CASE Receive(r)
  BY <1>1 DEF Receive
<1>2. CASE Admit(r)
  BY <1>2 DEF Admit
<1>3. CASE Handle(r)
  BY <1>3 DEF Handle
<1> QED
  BY <1>1, <1>2, <1>3

(* A hook that runs has the highest priority of those left, so it goes to  *)
(* the end of the history in its place.                                    *)
LEMMA HookKeepsInv ==
  ASSUME IInv, NEW k \in Exit, RunHooks(k)
  PROVE  IInv'
<1> USE DEF IInv, TypeOK, WinnerInv, OverInv, OrderInv, ReadyInv, Active, HooksOver,
            Main, MonitorStep, ShutdownStep, RequestStep
<1>1. CASE todo = {} /\ UNCHANGED <<todo, ran, running>>
  BY <1>1 DEF RunHooks
<1>2. ASSUME NEW h \in todo, \A g \in todo : Priority[h] >= Priority[g],
             RunHook(h), todo' = todo \ {h}, UNCHANGED shutdown
      PROVE  IInv'
  <2>1. /\ ran' \in Seq(ShutdownHook)
        /\ Len(ran') = Len(ran) + 1
        /\ \A i \in 1 .. Len(ran) : ran'[i] = ran[i]
        /\ ran'[Len(ran) + 1] = h
    BY <1>2 DEF RunHook
  <2>2. \A i \in 1 .. Len(ran) : ran[i] \in ShutdownHook /\ Priority[ran[i]] \in Int
    BY PriorityType
  <2>3. \A i \in 1 .. Len(ran') : ran'[i] \notin todo'
    BY <1>2, <2>1
  <2>4. \A i \in 1 .. Len(ran'), g \in todo' : Priority[ran'[i]] >= Priority[g]
    BY <1>2, <2>1
  <2>5. \A i, j \in 1 .. Len(ran') : i < j =>
          ran'[i] # ran'[j] /\ Priority[ran'[i]] >= Priority[ran'[j]]
    <3> SUFFICES ASSUME NEW i \in 1 .. Len(ran'), NEW j \in 1 .. Len(ran'), i < j
                 PROVE  ran'[i] # ran'[j] /\ Priority[ran'[i]] >= Priority[ran'[j]]
      OBVIOUS
    <3>1. /\ ran \in Seq(ShutdownHook)
          /\ Len(ran) \in Nat
          /\ i \in 1 .. Len(ran)
          /\ ran'[i] = ran[i]
      BY <2>1
    <3>2. CASE j \in 1 .. Len(ran)
      <4>1. ran'[j] = ran[j]
        BY <2>1, <3>2
      <4>2. ran[i] # ran[j] /\ Priority[ran[i]] >= Priority[ran[j]]
        BY <3>1, <3>2
      <4> QED
        BY <3>1, <4>1, <4>2
    <3>3. CASE j = Len(ran) + 1
      <4>1. ran'[j] = h
        BY <2>1, <3>3
      <4>2. ran[i] \notin todo /\ Priority[ran[i]] >= Priority[h]
        BY <1>2, <3>1
      <4> QED
        BY <1>2, <3>1, <4>1, <4>2
    <3> QED
      BY <2>1, <3>1, <3>2, <3>3
  <2>6. OrderInv'
    BY <2>3, <2>4, <2>5
  <2>7. running' \subseteq Service
    BY <1>2 DEF RunHook
  <2>8. TypeOK'
    BY <1>2, <2>1, <2>3, <2>7 DEF RunHooks
  <2> QED
    BY <1>2, <2>6, <2>8 DEF RunHooks
<1>3. ASSUME todo' = {}, shutdown' = [shutdown EXCEPT ![k] = "stopPool"],
             UNCHANGED <<ran, running>>
      PROVE  IInv'
  BY <1>3 DEF RunHooks
<1> QED
  BY <1>1, <1>2, <1>3 DEF RunHooks

LEMMA ShutdownKeepsInv ==
  ASSUME IInv, NEW k \in Exit, CallExit(k) \/ ShutdownThread(k)
  PROVE  IInv'
<1> USE DEF IInv, TypeOK, WinnerInv, OverInv, OrderInv, ReadyInv, Active, HooksOver,
            Main, MonitorStep, ShutdownStep, RequestStep
<1>1. CASE CallExit(k)
  BY <1>1 DEF CallExit
<1>2. CASE CheckStopping(k)
  BY <1>2 DEF CheckStopping
<1>3. CASE RunHooks(k)
  BY <1>3, HookKeepsInv
<1>4. CASE StopPool(k)
  BY <1>4 DEF StopPool
<1>5. CASE StopReactor(k)
  BY <1>5 DEF StopReactor
<1> QED
  BY <1>1, <1>2, <1>3, <1>4, <1>5 DEF ShutdownThread

(* The invariant all theorems below rest on.                               *)
LEMMA Invariance == Spec => []IInv
<1>1. IInv /\ UNCHANGED vars => IInv'
  BY DEF IInv, TypeOK, WinnerInv, OverInv, OrderInv, ReadyInv, Active, HooksOver, vars
<1>2. IInv /\ [Next]_vars => IInv'
  BY <1>1, MainKeepsInv, MonitorKeepsInv, RequestKeepsInv, ShutdownKeepsInv DEF Next
<1> QED
  BY InitInv, <1>2, PTL DEF Spec

(* TypeOK, for any number of exits and requests.                           *)
THEOREM TypeCorrect == Spec => []TypeOK
<1>1. IInv => TypeOK
  BY DEF IInv
<1> QED
  BY <1>1, Invariance, PTL

(* HooksOnce: whatever races through exit(), no shutdown hook runs twice.  *)
THEOREM HooksRunOnce == Spec => []HooksOnce
<1>1. IInv => HooksOnce
  BY DEF IInv, OrderInv, HooksOnce
<1> QED
  BY <1>1, Invariance, PTL

(* HooksInOrder: the shutdown hooks run in the order of their priorities.  *)
THEOREM HooksRunInOrder == Spec => []HooksInOrder
<1>1. IInv => HooksInOrder
  BY DEF IInv, OrderInv, HooksInOrder
<1> QED
  BY <1>1, Invariance, PTL

(* CleanupAfterHooks: run() returns and cleans up after the shutdown hooks. *)
THEOREM CleanupIsLast == Spec => []CleanupAfterHooks
<1>1. IInv => CleanupAfterHooks
  BY DEF IInv, OverInv, HooksOver, CleanupAfterHooks
<1> QED
  BY <1>1, Invariance, PTL

(* ReadyMeansBound: nobody is told of a gateway that is not bound.         *)
THEOREM ReadyIsBound == Spec => []ReadyMeansBound
<1>1. IInv => ReadyMeansBound
  BY DEF IInv, ReadyInv, ReadyMeansBound
<1> QED
  BY <1>1, Invariance, PTL
=============================================================================
