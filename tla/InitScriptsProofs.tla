-------------------------- MODULE InitScriptsProofs --------------------------
(***************************************************************************)
(* For any number of scripts up to nine a stage, any variables and any     *)
(* number of writes: a completed stage has run its scripts, and while the  *)
(* stages run in turn no variable of one script is seen by the next.       *)
(***************************************************************************)
EXTENDS InitScripts, TLAPS

Ended == {"SUCCESSFUL", "ERROR"}

(* Where a stage is, and what its scripts before and after that have done. *)
Place(g) ==
  /\ index[g] <= Scripts[g] + 1
  /\ \A i \in 1 .. Scripts[g] :
       /\ i < index[g] => state[<<g, i>>] \in Ended
       /\ i > index[g] => state[<<g, i>>] = "UNKNOWN"
       /\ i = index[g] /\ at[g] = "restore" => state[<<g, i>>] \in Ended
  /\ at[g] \in {"run", "restore"} => index[g] <= Scripts[g]
  /\ stage_completed[g] => index[g] > Scripts[g]

PlaceInv == \A g \in Stage : Place(g)

(* In turn: one stage at most is active, the environment is the original    *)
(* between its scripts, and the copy it restores from is the original.     *)
TurnInv ==
  ~overlap =>
    /\ \A g, h \in Stage : Active(g) /\ Active(h) => g = h
    /\ (\A g \in Stage : at[g] \in {"none", "next", "returned"}) => env = Original
    /\ \A g \in Stage :
         /\ at[g] \in {"run", "restore"} => env_original[g] = Original
         /\ at[g] = "restore" => \A v \in Var \ restoring[g] : env[v] = "original"

IInv == TypeOK /\ PlaceInv /\ TurnInv
-----------------------------------------------------------------------------
LEMMA FoundScripts ==
  /\ \A g \in Stage : \A i \in 1 .. Scripts[g] : <<g, i>> \in Found
  /\ \A s \in Found : \E g \in Stage : \E i \in 1 .. Scripts[g] : s = <<g, i>>
<1>1. \A g \in Stage : Scripts[g] \in 0 .. 9
  BY ScriptsAssumption
<1>2. ASSUME NEW g \in Stage, NEW i \in 1 .. Scripts[g] PROVE <<g, i>> \in Found
  <2>1. i \in 1 .. 9
    BY <1>1
  <2> QED  BY <2>1 DEF Found, Script
<1>3. ASSUME NEW s \in Found PROVE \E g \in Stage : \E i \in 1 .. Scripts[g] : s = <<g, i>>
  <2>1. PICK g \in Stage, i \in 1 .. 9 : s = <<g, i>>
    BY DEF Found, Script
  <2>2. i <= Scripts[g]
    BY <2>1 DEF Found
  <2>3. i \in 1 .. Scripts[g]
    BY <2>2, <1>1
  <2> QED  BY <2>1, <2>3
<1> QED  BY <1>2, <1>3

(* The script a stage is at is one that was found. *)
LEMMA CurrentFound ==
  ASSUME TypeOK, NEW g \in Stage, index[g] <= Scripts[g]
  PROVE  Current(g) \in Found
<1>1. index[g] \in 1 .. Scripts[g]
  BY ScriptsAssumption DEF TypeOK
<1> QED  BY <1>1, FoundScripts DEF Current

LEMMA InitIInv == Init => IInv
<1> SUFFICES ASSUME Init PROVE IInv
  OBVIOUS
<1>1. TypeOK
  <2>1. env \in [Var -> Stage \cup {"original"}] /\ env_original \in [Stage -> [Var -> Stage \cup {"original"}]]
    BY DEF Init, Original
  <2>2. at \in [Stage -> {"none", "next", "run", "restore", "returned"}] /\ stage_completed \in [Stage -> BOOLEAN]
    BY DEF Init
  <2>3. state \in [Found -> {"UNKNOWN", "RUNNING", "SUCCESSFUL", "ERROR"}]
    BY DEF Init
  <2>4. index \in [Stage -> 1 .. 10] /\ writes \in [Stage -> 0 .. Writes]
    BY WritesAssumption DEF Init
  <2>5. restoring \in [Stage -> SUBSET Var] /\ \A g \in Stage : restoring[g] # {} => at[g] = "restore"
    BY DEF Init
  <2> QED  BY <2>1, <2>2, <2>3, <2>4, <2>5 DEF Init, TypeOK
<1>2. PlaceInv
  BY ScriptsAssumption, FoundScripts DEF Init, PlaceInv, Place
<1>3. TurnInv
  BY DEF Init, TurnInv, Active, Original
<1> QED  BY <1>1, <1>2, <1>3 DEF IInv
-----------------------------------------------------------------------------
LEMMA TypeStep == TypeOK /\ PlaceInv /\ [Next]_vars => TypeOK'
<1> SUFFICES ASSUME TypeOK, PlaceInv, [Next]_vars PROVE TypeOK'
  OBVIOUS
<1>1. ASSUME NEW g \in Stage, RunStage(g) PROVE TypeOK'
  BY <1>1 DEF RunStage, GoTo, TypeOK
<1>2. ASSUME NEW g \in Stage, NextScript(g) PROVE TypeOK'
  <2>1. Current(g) \in Found
    BY <1>2, CurrentFound DEF NextScript
  <2>2. state' \in [Found -> {"UNKNOWN", "RUNNING", "SUCCESSFUL", "ERROR"}]
    BY <1>2, <2>1 DEF NextScript, TypeOK
  <2>3. restoring' = restoring /\ restoring[g] = {}
    BY <1>2 DEF NextScript, TypeOK
  <2>4. \A h \in Stage : restoring'[h] # {} => at'[h] = "restore"
    BY <1>2, <2>3 DEF NextScript, GoTo, TypeOK
  <2> QED  BY <1>2, <2>2, <2>3, <2>4, WritesAssumption DEF NextScript, GoTo, TypeOK
<1>3. ASSUME NEW g \in Stage, Write(g) PROVE TypeOK'
  <2>1. env' \in [Var -> Stage \cup {"original"}]
    BY <1>3 DEF Write, TypeOK
  <2>2. writes' \in [Stage -> 0 .. Writes]
    BY <1>3, WritesAssumption DEF Write, TypeOK
  <2> QED  BY <1>3, <2>1, <2>2 DEF Write, TypeOK
<1>4. ASSUME NEW g \in Stage, EndScript(g) PROVE TypeOK'
  <2>1. index[g] <= Scripts[g]
    BY <1>4 DEF EndScript, PlaceInv, Place
  <2>2. Current(g) \in Found
    BY <2>1, CurrentFound
  <2>3. PICK outcome \in {"SUCCESSFUL", "ERROR"} : state' = [state EXCEPT ![Current(g)] = outcome]
    BY <1>4 DEF EndScript
  <2>4. state' \in [Found -> {"UNKNOWN", "RUNNING", "SUCCESSFUL", "ERROR"}]
    BY <2>2, <2>3 DEF TypeOK
  <2>5. \A h \in Stage : restoring'[h] # {} => at'[h] = "restore"
    BY <1>4 DEF EndScript, GoTo, TypeOK
  <2> QED  BY <1>4, <2>4, <2>5 DEF EndScript, GoTo, TypeOK
<1>5. ASSUME NEW g \in Stage, Restore(g) PROVE TypeOK'
  <2>1. CASE \E v \in restoring[g] :
                /\ env' = [env EXCEPT ![v] = env_original[g][v]]
                /\ restoring' = [restoring EXCEPT ![g] = @ \ {v}]
                /\ UNCHANGED <<at, index>>
    <3>1. PICK v \in restoring[g] :
             /\ env' = [env EXCEPT ![v] = env_original[g][v]]
             /\ restoring' = [restoring EXCEPT ![g] = @ \ {v}]
             /\ UNCHANGED <<at, index>>
      BY <2>1
    <3>2. v \in Var /\ env_original[g][v] \in Stage \cup {"original"}
      BY DEF TypeOK
    <3>3. env' \in [Var -> Stage \cup {"original"}]
      BY <3>1, <3>2 DEF TypeOK
    <3>4. \A h \in Stage : restoring'[h] # {} => at'[h] = "restore"
      BY <1>5, <3>1 DEF Restore, TypeOK
    <3> QED  BY <1>5, <3>1, <3>3, <3>4 DEF Restore, TypeOK
  <2>2. CASE /\ restoring[g] = {}
             /\ index' = [index EXCEPT ![g] = @ + 1]
             /\ GoTo(g, "next")
             /\ UNCHANGED <<env, restoring>>
    <3>0. index[g] <= Scripts[g] /\ Scripts[g] \in 0 .. 9
      BY <1>5, ScriptsAssumption DEF Restore, PlaceInv, Place
    <3>1. index[g] \in 1 .. 9
      BY <3>0 DEF TypeOK
    <3>2. index' \in [Stage -> 1 .. 10]
      BY <2>2, <3>1 DEF TypeOK
    <3>3. \A h \in Stage : restoring'[h] # {} => at'[h] = "restore"
      BY <2>2 DEF GoTo, TypeOK
    <3> QED  BY <1>5, <2>2, <3>2, <3>3 DEF Restore, GoTo, TypeOK
  <2> QED  BY <1>5, <2>1, <2>2 DEF Restore
<1>6. ASSUME NEW g \in Stage, Complete(g) PROVE TypeOK'
  BY <1>6 DEF Complete, GoTo, TypeOK
<1>7. CASE UNCHANGED vars
  BY <1>7 DEF vars, TypeOK
<1> QED  BY <1>1, <1>2, <1>3, <1>4, <1>5, <1>6, <1>7 DEF Next, Step, Quiet
LEMMA PlaceStep == TypeOK /\ PlaceInv /\ [Next]_vars => PlaceInv'
<1> SUFFICES ASSUME TypeOK, PlaceInv, [Next]_vars PROVE PlaceInv'
  OBVIOUS
<1>0. \A g \in Stage : Scripts[g] \in 0 .. 9 /\ index[g] \in 1 .. 10
  BY ScriptsAssumption DEF TypeOK
(* A step of one stage leaves the place of the others alone. *)
<1>b. ASSUME NEW g \in Stage, NEW h \in Stage, h # g,
             index'[h] = index[h], at'[h] = at[h], stage_completed'[h] = stage_completed[h],
             \A i \in 1 .. Scripts[h] : state'[<<h, i>>] = state[<<h, i>>]
      PROVE  Place(h)'
  BY <1>b DEF PlaceInv, Place
(* A step of a stage that ends a script, or begins one, writes the state of *)
(* the script the stage is at and of no other.                             *)
<1>a. ASSUME NEW g \in Stage, NEW value, index[g] <= Scripts[g],
             state' = [state EXCEPT ![Current(g)] = value]
      PROVE  /\ state'[<<g, index[g]>>] = value
             /\ \A h \in Stage : \A i \in 1 .. Scripts[h] :
                  h # g \/ i # index[g] => state'[<<h, i>>] = state[<<h, i>>]
  <2>1. <<g, index[g]>> \in Found
    BY <1>a, CurrentFound DEF Current
  <2>2. \A h \in Stage : \A i \in 1 .. Scripts[h] : <<h, i>> \in Found
    BY FoundScripts
  <2>3. state \in [Found -> {"UNKNOWN", "RUNNING", "SUCCESSFUL", "ERROR"}]
    BY DEF TypeOK
  <2> QED  BY <1>a, <2>1, <2>2, <2>3 DEF Current
<1>1. ASSUME NEW g \in Stage, RunStage(g) PROVE PlaceInv'
  BY <1>1, <1>0 DEF RunStage, GoTo, PlaceInv, Place, TypeOK
<1>2. ASSUME NEW g \in Stage, NextScript(g) PROVE PlaceInv'
  <2>1. index[g] <= Scripts[g] /\ index' = index /\ stage_completed' = stage_completed
    BY <1>2 DEF NextScript
  <2>2. at' = [at EXCEPT ![g] = "run"]
    BY <1>2 DEF NextScript, GoTo
  <2>3. \A h \in Stage : \A i \in 1 .. Scripts[h] : h # g \/ i # index[g] => state'[<<h, i>>] = state[<<h, i>>]
    BY <1>2, <1>a, <2>1 DEF NextScript
  <2>4. Place(g)'
    <3>1. Place(g) /\ at'[g] = "run"
      BY <2>2 DEF PlaceInv, TypeOK
    <3>2. ASSUME NEW i \in 1 .. Scripts[g]
          PROVE  /\ i < index'[g] => state'[<<g, i>>] \in Ended
                 /\ i > index'[g] => state'[<<g, i>>] = "UNKNOWN"
      <4>1. CASE i = index[g]
        BY <1>0, <2>1, <4>1
      <4>2. CASE i # index[g]
        BY <2>1, <2>3, <3>1, <4>2 DEF Place
      <4> QED  BY <4>1, <4>2
    <3>3. index'[g] <= Scripts[g] + 1 /\ index'[g] <= Scripts[g] /\ (stage_completed'[g] => index'[g] > Scripts[g])
      BY <2>1, <3>1 DEF Place
    <3> QED  BY <3>1, <3>2, <3>3 DEF Place
  <2>5. ASSUME NEW h \in Stage, h # g PROVE Place(h)'
    BY <1>b, <2>1, <2>2, <2>3, <2>5 DEF TypeOK
  <2> QED  BY <2>4, <2>5 DEF PlaceInv
<1>3. ASSUME NEW g \in Stage, Write(g) PROVE PlaceInv'
  BY <1>3 DEF Write, PlaceInv, Place
<1>4. ASSUME NEW g \in Stage, EndScript(g) PROVE PlaceInv'
  <2>1. index[g] <= Scripts[g] /\ index' = index /\ stage_completed' = stage_completed
    BY <1>4 DEF EndScript, PlaceInv, Place
  <2>2. at' = [at EXCEPT ![g] = "restore"]
    BY <1>4 DEF EndScript, GoTo
  <2>3. PICK outcome \in Ended : state' = [state EXCEPT ![Current(g)] = outcome]
    BY <1>4 DEF EndScript, Ended
  <2>4. /\ state'[<<g, index[g]>>] \in Ended
        /\ \A h \in Stage : \A i \in 1 .. Scripts[h] : h # g \/ i # index[g] => state'[<<h, i>>] = state[<<h, i>>]
    BY <1>a, <2>1, <2>3
  <2>5. Place(g)'
    <3>1. \A i \in 1 .. Scripts[g] : i # index[g] => state'[<<g, i>>] = state[<<g, i>>]
      BY <2>4
    <3>2. at'[g] = "restore"
      BY <2>2 DEF TypeOK
    <3>3. Place(g)
      BY DEF PlaceInv
    <3>4. ASSUME NEW i \in 1 .. Scripts[g]
          PROVE  /\ i < index'[g] => state'[<<g, i>>] \in Ended
                 /\ i > index'[g] => state'[<<g, i>>] = "UNKNOWN"
                 /\ i = index'[g] => state'[<<g, i>>] \in Ended
      <4>1. CASE i = index[g]
        BY <1>0, <2>1, <2>4, <4>1
      <4>2. CASE i # index[g]
        BY <2>1, <3>1, <3>3, <4>2 DEF Place
      <4> QED  BY <4>1, <4>2
    <3>5. index'[g] <= Scripts[g] + 1 /\ index'[g] <= Scripts[g] /\ (stage_completed'[g] => index'[g] > Scripts[g])
      BY <2>1, <3>3 DEF Place
    <3> QED  BY <3>4, <3>5 DEF Place
  <2>6. ASSUME NEW h \in Stage, h # g PROVE Place(h)'
    BY <1>b, <2>1, <2>2, <2>4, <2>6 DEF TypeOK
  <2> QED  BY <2>5, <2>6 DEF PlaceInv
<1>5. ASSUME NEW g \in Stage, Restore(g) PROVE PlaceInv'
  <2>1. CASE restoring[g] # {} /\ UNCHANGED <<at, index>>
    BY <1>5, <2>1 DEF Restore, PlaceInv, Place
  <2>2. CASE index' = [index EXCEPT ![g] = @ + 1] /\ at' = [at EXCEPT ![g] = "next"]
    <3>1. at[g] = "restore" /\ index[g] <= Scripts[g] /\ UNCHANGED <<state, stage_completed>>
      BY <1>5 DEF Restore, PlaceInv, Place
    <3>2. Place(g)'
      <4>1. index'[g] = index[g] + 1 /\ at'[g] = "next"
        BY <2>2 DEF TypeOK
      <4>2. Place(g) /\ at[g] = "restore"
        BY <3>1 DEF PlaceInv
      <4>3. ASSUME NEW i \in 1 .. Scripts[g]
            PROVE  /\ i < index'[g] => state'[<<g, i>>] \in Ended
                   /\ i > index'[g] => state'[<<g, i>>] = "UNKNOWN"
        <5>1. i \in Nat /\ index[g] \in Nat
          BY <1>0, <4>3
        <5>2. state'[<<g, i>>] = state[<<g, i>>]
          BY <3>1
        <5>3. i <= index[g] => state[<<g, i>>] \in Ended
          BY <4>2, <5>1 DEF Place
        <5>4. i > index[g] => state[<<g, i>>] = "UNKNOWN"
          BY <4>2 DEF Place
        <5> QED  BY <4>1, <5>1, <5>2, <5>3, <5>4
      <4>4. index'[g] <= Scripts[g] + 1 /\ (stage_completed'[g] => index'[g] > Scripts[g])
        BY <1>0, <3>1, <4>1, <4>2 DEF Place
      <4> QED  BY <4>1, <4>3, <4>4 DEF Place
    <3>3. ASSUME NEW h \in Stage, h # g PROVE Place(h)'
      BY <1>b, <2>2, <3>1, <3>3 DEF TypeOK
    <3> QED  BY <3>2, <3>3 DEF PlaceInv
  <2> QED  BY <1>5, <2>1, <2>2 DEF Restore, GoTo
<1>6. ASSUME NEW g \in Stage, Complete(g) PROVE PlaceInv'
  <2>1. index[g] > Scripts[g] /\ at' = [at EXCEPT ![g] = "returned"] /\ UNCHANGED <<state, index>>
    BY <1>6 DEF Complete, GoTo
  <2>2. stage_completed' = [stage_completed EXCEPT ![g] = TRUE]
    BY <1>6 DEF Complete
  <2> QED  BY <1>0, <2>1, <2>2 DEF PlaceInv, Place, TypeOK
<1>7. CASE UNCHANGED vars
  BY <1>7 DEF vars, PlaceInv, Place
<1> QED  BY <1>1, <1>2, <1>3, <1>4, <1>5, <1>6, <1>7 DEF Next, Step, Quiet
-----------------------------------------------------------------------------
LEMMA TurnStep == TypeOK /\ TurnInv /\ [Next]_vars => TurnInv'
<1> SUFFICES ASSUME TypeOK, TurnInv, [Next]_vars, ~overlap' PROVE TurnInv'
  BY DEF TurnInv
<1>0. ~overlap
  BY DEF Next, Step, RunStage, NextScript, Write, EndScript, Restore, Complete, Quiet, vars
<1>1. ASSUME NEW g \in Stage, RunStage(g) PROVE TurnInv'
  <2>1. \A h \in Stage : ~Active(h)
    BY <1>1 DEF RunStage
  <2>2. \A h \in Stage : h # g => at'[h] = at[h] /\ at[h] \in {"none", "returned"}
    BY <1>1, <2>1 DEF RunStage, GoTo, Active, TypeOK
  <2>3. at'[g] \in {"next", "returned"} /\ env' = env /\ env = Original
    BY <1>0, <1>1, <2>1 DEF RunStage, GoTo, Active, TypeOK, TurnInv
  <2> QED  BY <2>2, <2>3 DEF TurnInv, Active
(* The other steps are those of the only active stage. *)
<1>b. ASSUME NEW g \in Stage, Active(g)
      PROVE  \A h \in Stage : h # g => at[h] \in {"none", "returned"}
  BY <1>0, <1>b DEF TurnInv, Active
<1>2. ASSUME NEW g \in Stage, NextScript(g) PROVE TurnInv'
  <2>1. at[g] = "next" /\ at' = [at EXCEPT ![g] = "run"] /\ env' = env
    BY <1>2 DEF NextScript, GoTo
  <2>2. \A h \in Stage : h # g => at[h] \in {"none", "returned"}
    BY <1>b, <2>1 DEF Active
  <2>3. env = Original
    BY <1>0, <2>1, <2>2 DEF TurnInv
  <2>4. env_original' = [env_original EXCEPT ![g] = env]
    BY <1>2 DEF NextScript
  <2> QED  BY <2>1, <2>2, <2>3, <2>4 DEF TurnInv, Active, TypeOK
<1>3. ASSUME NEW g \in Stage, Write(g) PROVE TurnInv'
  <2>1. at[g] = "run" /\ UNCHANGED <<at, env_original>>
    BY <1>3 DEF Write
  <2>2. \A h \in Stage : h # g => at[h] \in {"none", "returned"}
    BY <1>b, <2>1 DEF Active
  <2> QED  BY <1>0, <2>1, <2>2 DEF TurnInv, Active
<1>4. ASSUME NEW g \in Stage, EndScript(g) PROVE TurnInv'
  <2>1. at[g] = "run" /\ at' = [at EXCEPT ![g] = "restore"] /\ restoring' = [restoring EXCEPT ![g] = Var]
    BY <1>4 DEF EndScript, GoTo
  <2>2. \A h \in Stage : h # g => at[h] \in {"none", "returned"}
    BY <1>b, <2>1 DEF Active
  <2>3. UNCHANGED <<env, env_original>>
    BY <1>4 DEF EndScript
  <2> QED  BY <1>0, <2>1, <2>2, <2>3 DEF TurnInv, Active, TypeOK
<1>5. ASSUME NEW g \in Stage, Restore(g) PROVE TurnInv'
  <2>1. at[g] = "restore" /\ env_original' = env_original
    BY <1>5 DEF Restore
  <2>2. \A h \in Stage : h # g => at[h] \in {"none", "returned"}
    BY <1>b, <2>1 DEF Active
  <2>3. env_original[g] = Original /\ \A v \in Var \ restoring[g] : env[v] = "original"
    BY <1>0, <2>1 DEF TurnInv
  <2>4. ASSUME NEW v \in restoring[g],
               env' = [env EXCEPT ![v] = env_original[g][v]],
               restoring' = [restoring EXCEPT ![g] = @ \ {v}],
               UNCHANGED at
        PROVE  TurnInv'
    <3>1. v \in Var /\ env_original[g][v] = "original"
      BY <2>3 DEF Original, TypeOK
    <3>2. restoring'[g] = restoring[g] \ {v}
      BY <2>4 DEF TypeOK
    <3>3. \A w \in Var \ restoring'[g] : env'[w] = "original"
      BY <2>3, <2>4, <3>1, <3>2 DEF TypeOK
    <3> QED  BY <2>1, <2>2, <2>3, <2>4, <3>3 DEF TurnInv, Active
  <2>5. CASE restoring[g] = {} /\ at' = [at EXCEPT ![g] = "next"] /\ UNCHANGED <<env, restoring>>
    <3>1. env = Original
      BY <2>3, <2>5 DEF Original, TypeOK
    <3> QED  BY <2>1, <2>2, <2>5, <3>1 DEF TurnInv, Active, TypeOK
  <2> QED  BY <1>5, <2>4, <2>5 DEF Restore, GoTo
<1>6. ASSUME NEW g \in Stage, Complete(g) PROVE TurnInv'
  <2>1. at[g] = "next" /\ at' = [at EXCEPT ![g] = "returned"] /\ env' = env
    BY <1>6 DEF Complete, GoTo
  <2>2. \A h \in Stage : h # g => at[h] \in {"none", "returned"}
    BY <1>b, <2>1 DEF Active
  <2>3. env = Original
    BY <1>0, <2>1, <2>2 DEF TurnInv
  <2> QED  BY <2>1, <2>2, <2>3 DEF TurnInv, Active, TypeOK
<1>7. CASE UNCHANGED vars
  BY <1>0, <1>7 DEF vars, TurnInv, Active
<1> QED  BY <1>1, <1>2, <1>3, <1>4, <1>5, <1>6, <1>7 DEF Next, Step, Quiet
-----------------------------------------------------------------------------
LEMMA Invariance == Spec => []IInv
<1>1. IInv /\ [Next]_vars => IInv'
  BY TypeStep, PlaceStep, TurnStep DEF IInv
<1> QED  BY InitIInv, <1>1, PTL DEF Spec

(* Every variable of the module keeps its type (init.py). *)
THEOREM TypeCorrect == Spec => []TypeOK
<1>1. IInv => TypeOK
  BY DEF IInv
<1> QED  BY Invariance, <1>1, PTL

(* Whatever its scripts do, a stage that run_stage() completed has run each *)
(* of them to an end, and it runs them in order (init.py:148-181).         *)
THEOREM StagesRunInOrder == Spec => []CompletedStagesRan
<1>1. IInv => CompletedStagesRan
  <2> SUFFICES ASSUME IInv, NEW s \in Found
               PROVE  /\ stage_completed[s[1]] => state[s] \in Ended
                      /\ state[s] # "UNKNOWN" =>
                           \A i \in 1 .. s[2] - 1 : state[<<s[1], i>>] \in Ended
    BY DEF CompletedStagesRan, Ended
  <2>0. PICK g \in Stage : \E i \in 1 .. Scripts[g] : s = <<g, i>>
    BY FoundScripts
  <2>1. PICK i \in 1 .. Scripts[g] : s = <<g, i>>
    BY <2>0
  <2>2. Scripts[g] \in 0 .. 9 /\ index[g] \in 1 .. 10
    BY ScriptsAssumption DEF IInv, TypeOK
  <2>3. stage_completed[g] => state[<<g, i>>] \in Ended
    BY <2>2 DEF IInv, PlaceInv, Place
  <2>4. ASSUME state[<<g, i>>] # "UNKNOWN", NEW j \in 1 .. i - 1 PROVE state[<<g, j>>] \in Ended
    <3>1. i <= index[g]
      BY <2>2, <2>4 DEF IInv, PlaceInv, Place
    <3>2. j \in 1 .. Scripts[g] /\ j < index[g]
      BY <2>2, <3>1
    <3> QED  BY <3>2 DEF IInv, PlaceInv, Place
  <2> QED  BY <2>1, <2>3, <2>4
<1> QED  BY Invariance, <1>1, PTL

(* While no two stages run at the same time, the environment is the        *)
(* original whenever no script runs (init.py:156-181).                     *)
THEOREM EnvironmentRestored == Spec => []EnvRestoredInTurn
<1>1. IInv => EnvRestoredInTurn
  BY DEF IInv, TurnInv, EnvRestoredInTurn
<1> QED  BY Invariance, <1>1, PTL
=============================================================================
