------------------------------ MODULE InitScripts ------------------------------
(***************************************************************************)
(* InitScriptManager (localstack/runtime/init.py): the start hooks run the *)
(* scripts of START on the main thread, the ready monitor those of READY,  *)
(* and the thread of shutdown() those of SHUTDOWN, at any time. Python      *)
(* scripts are executed in the process, so what they write to os.environ   *)
(* is visible to everybody until run_stage() puts the AWS variables back.  *)
(***************************************************************************)
EXTENDS Naturals

CONSTANTS
  Scripts,  \* per stage: how many scripts were discovered
  Var,      \* variables run_stage() restores
  Writes    \* bound: writes to the variables a script makes

Stage == {"START", "READY", "SHUTDOWN"}
Script == {<<g, i>> : g \in Stage, i \in 1 .. 9}

ASSUME ScriptsAssumption == Scripts \in [Stage -> 0 .. 9]
ASSUME WritesAssumption == Writes \in Nat

VARIABLES
  env,             \* os.environ: "original", or the stage whose script wrote last
  stage_completed, \* stage_completed
  state,           \* Script.state
  at,              \* per stage: what the thread in run_stage() does next
  index,           \* per stage: the script it is at
  env_original,    \* per stage: the copy of os.environ
  restoring,       \* per stage: variables still to be restored
  writes,          \* per stage: writes of the current script
  overlap          \* history: two stages were run at the same time

vars == <<env, stage_completed, state, at, index, env_original, restoring, writes,
          overlap>>

Found == {s \in Script : s[2] <= Scripts[s[1]]}
Original == [v \in Var |-> "original"]

Init ==
  /\ env = Original
  /\ stage_completed = [g \in Stage |-> FALSE]
  /\ state = [s \in Found |-> "UNKNOWN"]
  /\ at = [g \in Stage |-> "none"]
  /\ index = [g \in Stage |-> 1]
  /\ env_original = [g \in Stage |-> Original]
  /\ restoring = [g \in Stage |-> {}]
  /\ writes = [g \in Stage |-> 0]
  /\ overlap = FALSE

Active(g) == at[g] \notin {"none", "returned"}
GoTo(g, label) == at' = [at EXCEPT ![g] = label]
Current(g) == <<g, index[g]>>

-----------------------------------------------------------------------------
(* The hooks of the runtime call run_stage(): READY follows START, since   *)
(* the monitor is spawned after the start hooks; SHUTDOWN may come anytime. *)
RunStage(g) ==
  /\ at[g] = "none"
  /\ g = "READY" => at["START"] = "returned"
  /\ GoTo(g, IF stage_completed[g] THEN "returned" ELSE "next")
  /\ overlap' = (overlap \/ \E h \in Stage : Active(h))
  /\ UNCHANGED <<env, stage_completed, state, index, env_original, restoring, writes>>

(* The next script of the loop, its environment copied before it runs.     *)
NextScript(g) ==
  /\ at[g] = "next" /\ index[g] <= Scripts[g]
  /\ state' = [state EXCEPT ![Current(g)] = "RUNNING"]
  /\ env_original' = [env_original EXCEPT ![g] = env]
  /\ writes' = [writes EXCEPT ![g] = 0]
  /\ GoTo(g, "run")
  /\ UNCHANGED <<env, stage_completed, index, restoring, overlap>>

Write(g) ==
  /\ at[g] = "run" /\ writes[g] < Writes
  /\ \E v \in Var : env' = [env EXCEPT ![v] = g]
  /\ writes' = [writes EXCEPT ![g] = @ + 1]
  /\ UNCHANGED <<stage_completed, state, at, index, env_original, restoring, overlap>>

(* Variant: the variables are not restored at all.                     *)
RestoreNothing(g) ==
  /\ at[g] = "restore"
  /\ restoring' = [restoring EXCEPT ![g] = {}]
  /\ index' = [index EXCEPT ![g] = @ + 1]
  /\ GoTo(g, "next")
  /\ UNCHANGED <<env, stage_completed, state, env_original, writes, overlap>>

(* Variant: a script that raises ends the loop ...                         *)
EndScriptBreak(g) ==
  /\ at[g] = "run"
  /\ \/ /\ state' = [state EXCEPT ![Current(g)] = "SUCCESSFUL"]
        /\ UNCHANGED index
     \/ /\ state' = [state EXCEPT ![Current(g)] = "ERROR"]
        /\ index' = [index EXCEPT ![g] = Scripts[g]]
  /\ restoring' = [restoring EXCEPT ![g] = Var]
  /\ GoTo(g, "restore")
  /\ UNCHANGED <<env, stage_completed, env_original, writes, overlap>>

(* Variant: ... or run_stage() before the stage is marked as completed.    *)
EndScriptRaises(g) ==
  /\ at[g] = "run"
  /\ \/ /\ state' = [state EXCEPT ![Current(g)] = "SUCCESSFUL"]
        /\ GoTo(g, "restore")
     \/ /\ state' = [state EXCEPT ![Current(g)] = "ERROR"]
        /\ GoTo(g, "returned")
  /\ restoring' = [restoring EXCEPT ![g] = Var]
  /\ UNCHANGED <<env, stage_completed, index, env_original, writes, overlap>>

(* The script ends or raises; an exception does not end the loop.          *)
EndScript(g) ==
  /\ at[g] = "run"
  /\ \E outcome \in {"SUCCESSFUL", "ERROR"} :
       state' = [state EXCEPT ![Current(g)] = outcome]
  /\ restoring' = [restoring EXCEPT ![g] = Var]
  /\ GoTo(g, "restore")
  /\ UNCHANGED <<env, stage_completed, index, env_original, writes, overlap>>

(* The finally clause restores one variable after the other.               *)
Restore(g) ==
  /\ at[g] = "restore"
  /\ \/ \E v \in restoring[g] :
          /\ env' = [env EXCEPT ![v] = env_original[g][v]]
          /\ restoring' = [restoring EXCEPT ![g] = @ \ {v}]
          /\ UNCHANGED <<at, index>>
     \/ /\ restoring[g] = {}
        /\ index' = [index EXCEPT ![g] = @ + 1]
        /\ GoTo(g, "next")
        /\ UNCHANGED <<env, restoring>>
  /\ UNCHANGED <<stage_completed, state, env_original, writes, overlap>>

Complete(g) ==
  /\ at[g] = "next" /\ index[g] > Scripts[g]
  /\ stage_completed' = [stage_completed EXCEPT ![g] = TRUE]
  /\ GoTo(g, "returned")
  /\ UNCHANGED <<env, state, index, env_original, restoring, writes, overlap>>

(* Nothing runs, whatever was started has returned.                        *)
Quiet == (\A g \in Stage : ~Active(g)) /\ UNCHANGED vars

Step(g) == NextScript(g) \/ Write(g) \/ EndScript(g) \/ Restore(g) \/ Complete(g)

Next == (\E g \in Stage : RunStage(g) \/ Step(g)) \/ Quiet

Spec == Init /\ [][Next]_vars

(* The threads are scheduled and the scripts end.                          *)
FairSpec == Spec /\ \A g \in Stage : WF_vars(Step(g))

-----------------------------------------------------------------------------
(* Properties.                                                             *)

(* Types; variables are restored only by the stage that is at it.          *)
TypeOK ==
  /\ env \in [Var -> Stage \cup {"original"}]
  /\ stage_completed \in [Stage -> BOOLEAN]
  /\ state \in [Found -> {"UNKNOWN", "RUNNING", "SUCCESSFUL", "ERROR"}]
  /\ at \in [Stage -> {"none", "next", "run", "restore", "returned"}]
  /\ index \in [Stage -> 1 .. 10]
  /\ env_original \in [Stage -> [Var -> Stage \cup {"original"}]]
  /\ restoring \in [Stage -> SUBSET Var]
  /\ \A g \in Stage : restoring[g] # {} => at[g] = "restore"
  /\ writes \in [Stage -> 0 .. Writes]
  /\ overlap \in BOOLEAN

(* A completed stage has run all its scripts to an end, also when some of   *)
(* them raised; and a stage runs one script at a time, in order.           *)
CompletedStagesRan ==
  \A s \in Found :
    /\ stage_completed[s[1]] => state[s] \in {"SUCCESSFUL", "ERROR"}
    /\ state[s] # "UNKNOWN" =>
         \A i \in 1 .. s[2] - 1 : state[<<s[1], i>>] \in {"SUCCESSFUL", "ERROR"}

(* While the stages do not overlap, a script sees none of the AWS variables *)
(* an earlier script set, whether that one succeeded or raised.            *)
EnvRestoredInTurn ==
  ~overlap /\ (\A g \in Stage : at[g] \in {"none", "next", "returned"}) => env = Original

(* A stage that was begun completes, whatever its scripts do.              *)
StagesComplete ==
  \A g \in Stage : Active(g) ~> stage_completed[g]

-----------------------------------------------------------------------------
(* What the code's own words say and the code does not do.                 *)

(* init.py:171, "Discard env variables overridden in startup script that   *)
(* may cause side-effects".                                                *)
EnvRestored ==
  (\A g \in Stage : at[g] \in {"none", "next", "returned"}) => env = Original
=============================================================================
