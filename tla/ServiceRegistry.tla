---------------------------- MODULE ServiceRegistry ----------------------------
(***************************************************************************)
(* What the service manager promises the threads that share it, without    *)
(* its locks: a service is created once, only an enabled one is started,   *)
(* one thread at a time starts it, and whoever begins a start ends it.     *)
(* ServicePlugins implements it with load locks, a mutex, container locks  *)
(* and polling.                                                            *)
(***************************************************************************)
EXTENDS Naturals

CONSTANTS
  Thread,   \* threads that use the registry
  Service,  \* service names
  Enabled,  \* names that may be started
  Nobody    \* no thread

VARIABLES
  instances,  \* how many times a service was created
  starter     \* the thread inside a service's start(), or Nobody

vars == <<instances, starter>>

Init ==
  /\ instances = [s \in Service |-> 0]
  /\ starter = [s \in Service |-> Nobody]

Create(s) ==
  /\ instances[s] = 0
  /\ instances' = [instances EXCEPT ![s] = 1]
  /\ UNCHANGED starter

BeginStart(t, s) ==
  /\ s \in Enabled
  /\ instances[s] = 1
  /\ starter[s] = Nobody
  /\ starter' = [starter EXCEPT ![s] = t]
  /\ UNCHANGED instances

EndStart(t, s) ==
  /\ starter[s] = t
  /\ starter' = [starter EXCEPT ![s] = Nobody]
  /\ UNCHANGED instances

Next ==
  \E s \in Service :
    \/ Create(s)
    \/ \E t \in Thread : BeginStart(t, s) \/ EndStart(t, s)

Fairness == \A s \in Service : WF_vars(\E t \in Thread : EndStart(t, s))

Spec == Init /\ [][Next]_vars /\ Fairness
=============================================================================
