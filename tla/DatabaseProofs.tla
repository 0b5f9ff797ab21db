---------------------------- MODULE DatabaseProofs -----------------------------
(* Theorems about the database manager, for any callers, entities, shards,  *)
(* executors and number of submits.                                         *)
EXTENDS Database, FiniteSetTheorems, TLAPS

-------------------------------------------------------------------------------
(* One executor for a shard: the inductive invariant, part by part.         *)

(* A caller between GetCollect and Submit has a shard of a collection that  *)
(* has a manager, and at the end the executor the map names for it.         *)
CallersInStep ==
    \A c \in Callers : pc[c] # "idle" =>
        /\ key[c] \in Keys /\ key[c][1] \in managers /\ calls[c] < MaxSubmits
        /\ pc[c] = "submit" => exec[c] \in Executors /\ executors[key[c]] = exec[c]

(* The map is one to one and names what has been started. *)
MapIsOneToOne ==
    \A k \in Keys : executors[k] # NoExec =>
        /\ state[executors[k]] # "unborn" /\ k[1] \in managers
        /\ \A l \in Keys : executors[k] = executors[l] => k = l

(* What has been started is in the map, and only that is ever stopped. *)
BornIsMapped ==
    /\ \A e \in Executors : state[e] # "unborn" => \E k \in Keys : executors[k] = e
    /\ \A e \in stopping : state[e] # "unborn"

(* An entry of the map is never replaced: what was once submitted through   *)
(* it went to what it names now.                                            *)
TakenByMap == \A t \in taken : executors[t[3]] = t[4]

MapInv == TypeOK /\ CallersInStep /\ MapIsOneToOne /\ BornIsMapped /\ TakenByMap

(* The initial state has every part. *)
LEMMA InitMapInv == Init => MapInv
<1> SUFFICES ASSUME Init PROVE MapInv
  OBVIOUS
<1>1. TypeOK
  <2>1. 0 \in 0 .. MaxSubmits
    BY BoundAssumption
  <2>2. calls \in [Callers -> 0 .. MaxSubmits]
    BY <2>1 DEF Init
  <2> QED
    BY <2>2 DEF Init, TypeOK
<1>2. CallersInStep
  BY DEF Init, CallersInStep
<1>3. MapIsOneToOne /\ BornIsMapped /\ TakenByMap
  BY DEF Init, MapIsOneToOne, BornIsMapped, TakenByMap
<1> QED
  BY <1>1, <1>2, <1>3 DEF MapInv

(* A step that leaves the map and the callers alone, loses no manager and   *)
(* starts no executor keeps what the invariant says of them.                *)
LEMMA MapUntouched ==
    ASSUME MapInv, TypeOK', UNCHANGED <<executors, callVars>>,
           managers \subseteq managers',
           \A e \in Executors : state'[e] # "unborn" <=> state[e] # "unborn",
           \A e \in stopping' : state[e] # "unborn"
    PROVE  MapInv'
<1> USE DEF MapInv, callVars
<1>1. CallersInStep'
  BY DEF CallersInStep
<1>2. MapIsOneToOne'
  BY DEF MapIsOneToOne, TypeOK
<1>3. BornIsMapped' /\ TakenByMap'
  BY DEF BornIsMapped, TakenByMap, TypeOK
<1> QED
  BY <1>1, <1>2, <1>3

(* The manager's own steps are of that kind. *)
LEMMA ManagerMapInv ==
    ASSUME MapInv,
           InitManager \/ Start \/ Stop \/ StopNext \/ \E x \in Entities : Register(x)
    PROVE  MapInv'
<1> USE DEF MapInv, lifeVars, mapVars, execVars, stopVars
<1>1. CASE InitManager \/ Start \/ Stop \/ Disconnect
  <2>1. TypeOK' /\ UNCHANGED <<executors, callVars, state, stopping>>
        /\ managers \subseteq managers'
    BY <1>1 DEF TypeOK, InitManager, Start, Stop, Disconnect, callVars
  <2> QED
    BY <2>1, MapUntouched DEF BornIsMapped
<1>2. CASE \E x \in Entities : Register(x)
  <2>1. TypeOK' /\ UNCHANGED <<executors, callVars, state, stopping, managers>>
    BY <1>2 DEF TypeOK, Register, callVars
  <2> QED
    BY <2>1, MapUntouched DEF BornIsMapped
<1>3. ASSUME NEW x \in Entities, ShutdownManager(x)
      PROVE  MapInv'
  <2>1. UNCHANGED <<executors, callVars, state, managers>>
    BY <1>3 DEF ShutdownManager
  <2>2. \A e \in stopping' : e \in Executors /\ state[e] # "unborn"
    BY <1>3 DEF ShutdownManager, MapIsOneToOne, TypeOK, Keys
  <2>3. TypeOK'
    BY <1>3, <2>2 DEF TypeOK, ShutdownManager, callVars
  <2> QED
    BY <2>1, <2>2, <2>3, MapUntouched
<1>4. ASSUME NEW e \in Executors, ShutdownExecutor(e)
      PROVE  MapInv'
  <2>1. UNCHANGED <<executors, callVars, managers>> /\ stopping' \subseteq stopping
    BY <1>4 DEF ShutdownExecutor
  <2>2. \A f \in Executors : state'[f] # "unborn" <=> state[f] # "unborn"
    BY <1>4 DEF ShutdownExecutor, TypeOK, BornIsMapped
  <2>3. TypeOK'
    BY <1>4 DEF TypeOK, ShutdownExecutor, callVars
  <2> QED
    BY <2>1, <2>2, <2>3, MapUntouched DEF BornIsMapped
<1> QED
  BY <1>1, <1>2, <1>3, <1>4 DEF StopNext

(* A caller that only looks, or gets a nil, keeps the invariant. *)
LEMMA LookingMapInv ==
    ASSUME MapInv, NEW c \in Callers,
           LookUp(c) \/ SecondLook(c) \/ \E x \in Entities : GetCollect(c, x)
    PROVE  MapInv'
<1> USE DEF MapInv, lifeVars, mapVars, execVars, stopVars
<1>1. UNCHANGED <<executors, state, managers, stopping, taken>>
  BY DEF LookUp, SecondLook, GetCollect
<1>2. MapIsOneToOne' /\ BornIsMapped' /\ TakenByMap'
  BY <1>1 DEF MapIsOneToOne, BornIsMapped, TakenByMap
<1>3. CASE LookUp(c) \/ SecondLook(c)
  <2>1. /\ key[c] \in Keys /\ executors[key[c]] \in Executors \cup {NoExec}
        /\ UNCHANGED <<key, calls>>
        /\ exec' = [exec EXCEPT ![c] = executors[key[c]]]
    BY <1>3 DEF LookUp, SecondLook, CallersInStep, TypeOK
  <2>2. PICK l \in {"create", "submit"} :
            /\ pc' = [pc EXCEPT ![c] = l]
            /\ l = "submit" => executors[key[c]] # NoExec
    BY <1>3 DEF LookUp, SecondLook, Goto
  <2>3. TypeOK'
    BY <1>3, <2>1, <2>2 DEF TypeOK, LookUp, SecondLook
  <2>4. CallersInStep'
    BY <1>1, <1>3, <2>1, <2>2 DEF CallersInStep, TypeOK, LookUp, SecondLook
  <2> QED
    BY <1>2, <2>3, <2>4
<1>4. ASSUME NEW x \in Entities, GetCollect(c, x)
      PROVE  MapInv'
  <2>1. CASE connected /\ x \in managers
    <3>1. PICK s \in Shards : key' = [key EXCEPT ![c] = <<x, s>>]
      BY <1>4, <2>1 DEF GetCollect
    <3>2. <<x, s>> \in Keys /\ <<x, s>>[1] = x
      BY DEF Keys
    <3>3. TypeOK'
      BY <1>4, <2>1, <3>1, <3>2 DEF TypeOK, GetCollect, Goto
    <3>4. CallersInStep'
      BY <1>4, <2>1, <3>1, <3>2 DEF CallersInStep, TypeOK, GetCollect, Goto
    <3> QED
      BY <1>2, <3>3, <3>4
  <2>2. CASE ~(connected /\ x \in managers)
    <3>1. TypeOK'
      BY <1>4, <2>2 DEF TypeOK, GetCollect
    <3>2. CallersInStep'
      BY <1>4, <2>2 DEF CallersInStep, GetCollect
    <3> QED
      BY <1>2, <3>1, <3>2
  <2> QED
    BY <2>1, <2>2
<1> QED
  BY <1>3, <1>4

(* The double check makes one executor, and only where there is none. *)
LEMMA CreateMapInv ==
    ASSUME MapInv, NEW c \in Callers, NEW e \in Executors, Create(c, e)
    PROVE  MapInv'
<1> USE DEF MapInv, lifeVars, mapVars, stopVars
<1>1. /\ pc[c] = "create" /\ key[c] \in Keys /\ executors[key[c]] = NoExec
      /\ state[e] = "unborn" /\ e # NoExec
  BY NoExecAssumption DEF Create, MakeExecutor, CallersInStep
<1>2. /\ executors' = [executors EXCEPT ![key[c]] = e]
      /\ state' = [state EXCEPT ![e] = "running"]
      /\ exec' = [exec EXCEPT ![c] = e]
      /\ pc' = [pc EXCEPT ![c] = "submit"]
      /\ UNCHANGED <<key, calls, taken, managers, stopping>>
      /\ late' = late \/ late' = late \cup {e}
  BY DEF Create, MakeExecutor, Goto
<1>3. TypeOK'
  BY <1>1, <1>2 DEF TypeOK, Create, MakeExecutor
<1>4. \A k \in Keys : executors[k] # e
  BY <1>1 DEF MapIsOneToOne
<1>5. CallersInStep'
  BY <1>1, <1>2, NoExecAssumption DEF CallersInStep, TypeOK
<1>6. MapIsOneToOne'
  BY <1>1, <1>2, <1>4 DEF MapIsOneToOne, TypeOK, CallersInStep
<1>7. BornIsMapped'
  BY <1>1, <1>2, NoExecAssumption DEF BornIsMapped, TypeOK
<1>8. TakenByMap'
  BY <1>1, <1>2, NoExecAssumption DEF TakenByMap, TypeOK
<1> QED
  BY <1>3, <1>5, <1>6, <1>7, <1>8

(* What is submitted goes to what the map names. *)
LEMMA SubmitMapInv ==
    ASSUME MapInv, NEW c \in Callers, Submit(c)
    PROVE  MapInv'
<1> USE DEF MapInv, lifeVars, mapVars, execVars, stopVars
<1>1. /\ key[c] \in Keys /\ exec[c] \in Executors /\ executors[key[c]] = exec[c]
      /\ calls[c] \in Nat /\ calls[c] < MaxSubmits
  BY DEF Submit, CallersInStep, TypeOK
<1>2. UNCHANGED <<executors, state, managers, stopping>>
  BY DEF Submit
<1>3. \A t \in taken' :
         \/ t \in taken
         \/ t = <<c, calls[c] + 1, key[c], exec[c]>>
  BY DEF Submit
<1>4. TypeOK'
  <2>1. taken' \subseteq Callers \X (1 .. MaxSubmits) \X Keys \X Executors
    BY <1>1, <1>3, BoundAssumption DEF TypeOK
  <2> QED
    BY <1>1, <2>1, BoundAssumption DEF TypeOK, Submit, Goto
<1>5. CallersInStep'
  BY <1>2 DEF CallersInStep, Submit, Goto, TypeOK
<1>6. MapIsOneToOne' /\ BornIsMapped'
  BY <1>2 DEF MapIsOneToOne, BornIsMapped
<1>7. TakenByMap'
  BY <1>1, <1>2, <1>3 DEF TakenByMap
<1> QED
  BY <1>4, <1>5, <1>6, <1>7

(* Every step keeps the invariant. *)
LEMMA NextMapInv == MapInv /\ [Next]_vars => MapInv'
<1> SUFFICES ASSUME MapInv, [Next]_vars PROVE MapInv'
  OBVIOUS
<1>1. CASE UNCHANGED vars
  BY <1>1 DEF MapInv, TypeOK, CallersInStep, MapIsOneToOne, BornIsMapped, TakenByMap,
              vars, lifeVars, mapVars, execVars, callVars, stopVars
<1> QED
  BY <1>1, ManagerMapInv, LookingMapInv, CreateMapInv, SubmitMapInv DEF Next

(* The invariant gives each executor exactly one shard. *)
LEMMA MapInvFinds == MapInv => OneExecutorPerShard
<1> SUFFICES ASSUME MapInv PROVE OneExecutorPerShard
  OBVIOUS
<1> USE DEF MapInv
<1>1. EveryExecutorIsFound
  <2> SUFFICES ASSUME NEW e \in Executors, state[e] # "unborn"
               PROVE  Cardinality({k \in Keys : executors[k] = e}) = 1
    BY DEF EveryExecutorIsFound
  <2>1. PICK k \in Keys : executors[k] = e
    BY DEF BornIsMapped
  <2>2. {l \in Keys : executors[l] = e} = {k}
    BY <2>1, NoExecAssumption DEF MapIsOneToOne
  <2> QED
    BY <2>2, FS_Singleton
<1>2. \A s, t \in taken : s[3] = t[3] => s[4] = t[4]
  BY DEF TakenByMap
<1> QED
  BY <1>1, <1>2 DEF OneExecutorPerShard

(* Two writes to one shard never go through two executors, and no executor  *)
(* is missing from the map, however double checks and shutdowns interleave  *)
(* (shard_manager.go:281-301, 339-351).                                     *)
THEOREM OneExecutorPerShardAlways == Spec => []OneExecutorPerShard
<1>1. Spec => []MapInv
  BY InitMapInv, NextMapInv, PTL DEF Spec
<1> QED
  BY <1>1, MapInvFinds, PTL

-------------------------------------------------------------------------------
(* What outlives the connection.                                            *)

(* The connection: there is none after Stop, and no entity without one. *)
ConnectionInv ==
    /\ connected => isReady
    /\ collects # {} => connected \/ life = "stopped"
    /\ life = "stopped" => ~connected /\ toStop = {}

(* An executor that runs and was not made too late is within the reach of   *)
(* the Stop under way, which ends only when there is none.                  *)
WithinReach(k) ==
    /\ life # "stopped"
    /\ life = "stopping" => k[1] \in toStop \/ executors[k] \in stopping

RunningIsWithinReach ==
    \A k \in Keys : executors[k] # NoExec /\ state[executors[k]] = "running" =>
        executors[k] \in late \/ WithinReach(k)

ReachInv == MapInv /\ ConnectionInv /\ RunningIsWithinReach

(* Nothing is registered, connected or running at first. *)
LEMMA InitReachInv == Init => ReachInv
  BY InitMapInv DEF Init, ReachInv, ConnectionInv, RunningIsWithinReach

(* Only Init and the end of Stop change the connection; only a connected    *)
(* manager registers.                                                       *)
LEMMA NextConnectionInv ==
    ASSUME MapInv, ConnectionInv, [Next]_vars
    PROVE  ConnectionInv'
<1> USE DEF ConnectionInv, lifeVars, mapVars, stopVars
<1>1. CASE InitManager \/ Start \/ Stop \/ Disconnect
  BY <1>1 DEF InitManager, Start, Stop, Disconnect, MapInv, TypeOK
<1>2. CASE \E x \in Entities : ShutdownManager(x) \/ Register(x)
  BY <1>2 DEF ShutdownManager, Register, Unlocked
<1>3. CASE \E e \in Executors : ShutdownExecutor(e)
  BY <1>3 DEF ShutdownExecutor
<1>4. CASE \E c \in Callers :
              \/ LookUp(c) \/ SecondLook(c) \/ Submit(c)
              \/ \E x \in Entities : GetCollect(c, x)
              \/ \E e \in Executors : Create(c, e)
  BY <1>4 DEF LookUp, SecondLook, Submit, GetCollect, Create, MakeExecutor
<1>5. CASE UNCHANGED vars
  BY <1>5 DEF vars
<1> QED
  BY <1>1, <1>2, <1>3, <1>4, <1>5 DEF Next, StopNext

(* A step that leaves executors, life and the shutdown alone changes        *)
(* nobody's reach.                                                          *)
LEMMA ReachUntouched ==
    ASSUME RunningIsWithinReach, UNCHANGED <<executors, state, late, life, toStop, stopping>>
    PROVE  RunningIsWithinReach'
  BY DEF RunningIsWithinReach, WithinReach

(* Stop takes every executor within its reach and lets none go running; an  *)
(* executor made beyond it is late.                                         *)
LEMMA NextReachInv == ReachInv /\ [Next]_vars => ReachInv'
<1> SUFFICES ASSUME MapInv, ConnectionInv, RunningIsWithinReach, [Next]_vars
             PROVE  RunningIsWithinReach'
  BY NextMapInv, NextConnectionInv DEF ReachInv
<1> USE DEF lifeVars, mapVars, execVars, stopVars
<1>1. CASE InitManager \/ Start
  BY <1>1 DEF InitManager, Start, RunningIsWithinReach, WithinReach
<1>2. CASE Stop
  <2>1. CASE isReady
    BY <1>2, <2>1 DEF Stop, MapInv, MapIsOneToOne, RunningIsWithinReach, WithinReach
  <2>2. CASE ~isReady
    <3>1. managers = {}
      BY <1>2, <2>2 DEF Stop, ConnectionInv, MapInv, TypeOK
    <3>2. \A k \in Keys : executors[k] = NoExec
      BY <3>1 DEF MapInv, MapIsOneToOne
    <3> QED
      BY <1>2, <3>2 DEF Stop, RunningIsWithinReach
  <2> QED
    BY <2>1, <2>2
<1>3. ASSUME NEW x \in Entities, ShutdownManager(x)
      PROVE  RunningIsWithinReach'
  <2>1. /\ toStop' = toStop \ {x} /\ stopping = {} /\ life = "stopping"
        /\ stopping' = {executors[k] : k \in {x} \X Shards} \ {NoExec}
        /\ UNCHANGED <<executors, state, late, life>>
    BY <1>3 DEF ShutdownManager
  <2>2. \A k \in Keys : k[1] = x => k \in {x} \X Shards
    BY DEF Keys
  <2>3. \A k \in Keys : k[1] = x /\ executors[k] # NoExec => executors[k] \in stopping'
    BY <2>1, <2>2
  <2> QED
    BY <2>1, <2>3 DEF RunningIsWithinReach, WithinReach
<1>4. ASSUME NEW e \in Executors, ShutdownExecutor(e)
      PROVE  RunningIsWithinReach'
  <2>1. /\ state' = [state EXCEPT ![e] = "stopped"] /\ stopping' = stopping \ {e}
        /\ UNCHANGED <<executors, late, life, toStop>>
    BY <1>4 DEF ShutdownExecutor
  <2>2. \A f \in Executors : state'[f] = "running" => f # e /\ state[f] = "running"
    BY <2>1 DEF MapInv, TypeOK
  <2>3. \A k \in Keys : executors[k] # NoExec => executors[k] \in Executors
    BY DEF MapInv, TypeOK
  <2> QED
    BY <2>1, <2>2, <2>3 DEF RunningIsWithinReach, WithinReach
<1>5. CASE Disconnect
  BY <1>5 DEF Disconnect, RunningIsWithinReach, WithinReach
<1>6. ASSUME NEW x \in Entities, Register(x)
      PROVE  RunningIsWithinReach'
  BY <1>6, ReachUntouched DEF Register
<1>7. ASSUME NEW c \in Callers,
             LookUp(c) \/ SecondLook(c) \/ Submit(c) \/ \E x \in Entities : GetCollect(c, x)
      PROVE  RunningIsWithinReach'
  BY <1>7, ReachUntouched DEF LookUp, SecondLook, Submit, GetCollect
<1>8. ASSUME NEW c \in Callers, NEW e \in Executors, Create(c, e)
      PROVE  RunningIsWithinReach'
  <2>1. /\ key[c] \in Keys /\ executors[key[c]] = NoExec /\ state[e] = "unborn"
        /\ executors' = [executors EXCEPT ![key[c]] = e]
        /\ state' = [state EXCEPT ![e] = "running"]
        /\ late' = IF ManagerIsShut(key[c][1]) THEN late \cup {e} ELSE late
        /\ UNCHANGED <<life, toStop, stopping>>
    BY <1>8 DEF Create, MakeExecutor, MapInv, CallersInStep
  <2>2. ASSUME NEW k \in Keys, k # key[c], executors'[k] # NoExec,
               state'[executors'[k]] = "running"
        PROVE  executors'[k] \in late' \/ WithinReach(k)'
    <3>1. executors'[k] = executors[k] /\ executors[k] # e
      BY <2>1, <2>2 DEF MapInv, TypeOK, MapIsOneToOne
    <3>2. executors[k] \in Executors
      BY <2>2, <3>1 DEF MapInv, TypeOK
    <3>3. state[executors[k]] = "running"
      BY <2>1, <2>2, <3>1, <3>2 DEF MapInv, TypeOK
    <3> QED
      BY <2>1, <2>2, <3>1, <3>3 DEF RunningIsWithinReach, WithinReach
  <2>3. executors'[key[c]] = e
    BY <2>1 DEF MapInv, TypeOK
  <2>4. ASSUME NEW k \in Keys, k = key[c]
        PROVE  e \in late' \/ WithinReach(k)'
    BY <2>1, <2>3, <2>4 DEF ManagerIsShut, WithinReach, ConnectionInv
  <2> QED
    BY <2>2, <2>3, <2>4 DEF RunningIsWithinReach
<1>9. CASE UNCHANGED vars
  BY <1>9, ReachUntouched DEF vars
<1> QED
  BY <1>1, <1>2, <1>3, <1>4, <1>5, <1>6, <1>7, <1>8, <1>9 DEF Next, StopNext

(* An executor that outlives the connection was made after its collection   *)
(* had been shut down (manager.go:86-98, service.go:189-200).               *)
THEOREM SurvivorsAreLateAlways == Spec => []SurvivorsAreLate
<1>1. ReachInv => SurvivorsAreLate
  <2> SUFFICES ASSUME ReachInv, ~connected,
                      NEW e \in Executors, state[e] = "running"
               PROVE  e \in late
    BY DEF SurvivorsAreLate
  <2>1. PICK k \in Keys : executors[k] = e
    BY DEF ReachInv, MapInv, BornIsMapped
  <2>2. e # NoExec /\ k[1] \in managers
    BY <2>1, NoExecAssumption DEF ReachInv, MapInv, MapIsOneToOne
  <2>3. life = "stopped"
    BY <2>2 DEF ReachInv, MapInv, TypeOK, ConnectionInv
  <2> QED
    BY <2>1, <2>2, <2>3 DEF ReachInv, RunningIsWithinReach, WithinReach
<1>2. Spec => []ReachInv
  BY InitReachInv, NextReachInv, PTL DEF Spec
<1> QED
  BY <1>1, <1>2, PTL

-------------------------------------------------------------------------------
(* Who is served.                                                           *)

(* What was registered before Start is in the list Start goes through, and  *)
(* nobody is refused for being unregistered before.                         *)
ServedInv ==
    /\ life \in {"new", "ready"} => refused = {} /\ onTime \subseteq collects
    /\ life = "started" => onTime \subseteq managers
    /\ RegisteredIsServed

LEMMA NextServedInv == ServedInv /\ [Next]_vars => ServedInv'
<1> SUFFICES ASSUME ServedInv, [Next]_vars PROVE ServedInv'
  OBVIOUS
<1> USE DEF ServedInv, RegisteredIsServed, lifeVars, mapVars, execVars, callVars, stopVars
<1>1. CASE InitManager \/ Start \/ Stop \/ StopNext
  BY <1>1 DEF InitManager, Start, Stop, StopNext, ShutdownManager, ShutdownExecutor,
              Disconnect
<1>2. ASSUME NEW x \in Entities, Register(x)
      PROVE  ServedInv'
  BY <1>2 DEF Register
<1>3. ASSUME NEW c \in Callers, NEW x \in Entities, GetCollect(c, x)
      PROVE  ServedInv'
  BY <1>3 DEF GetCollect
<1>4. ASSUME NEW c \in Callers,
             LookUp(c) \/ SecondLook(c) \/ Submit(c) \/ \E e \in Executors : Create(c, e)
      PROVE  ServedInv'
  BY <1>4 DEF LookUp, SecondLook, Submit, Create, MakeExecutor
<1>5. CASE UNCHANGED vars
  BY <1>5 DEF vars
<1> QED
  BY <1>1, <1>2, <1>3, <1>4, <1>5 DEF Next

(* From Start to Stop no entity that was registered in time is refused a    *)
(* manager (shard_manager.go:203, 207-219).                                 *)
THEOREM RegisteredIsServedAlways == Spec => []RegisteredIsServed
<1>1. Init => ServedInv
  BY DEF Init, ServedInv, RegisteredIsServed
<1>2. ServedInv => RegisteredIsServed
  BY DEF ServedInv
<1> QED
  BY <1>1, <1>2, NextServedInv, PTL DEF Spec
===============================================================================
