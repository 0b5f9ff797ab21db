------------------------------- MODULE Database --------------------------------
(***************************************************************************)
(* The database manager, its collections and their shards: Init, Start,    *)
(* Stop, RegisterEntity and GetCollect of database/manager.go over the     *)
(* CollectionManager and ShardManagers of database/shard_manager.go.       *)
(*                                                                         *)
(* Every method of the manager holds its lock throughout, Stop for as long *)
(* as the shutdowns take; but a caller keeps the ShardManager it got from  *)
(* GetCollect and submits to it without that lock, when it likes.  An      *)
(* executor is only running or stopped here; ShardExecutor says what it    *)
(* does with an event.                                                     *)
(*                                                                         *)
(* Definitions that the model does not use and that stand before one it   *)
(* does are mutants: slips a property is shown to notice.                  *)
(***************************************************************************)
EXTENDS Naturals, FiniteSets

CONSTANTS
    Callers,     \* goroutines that submit: GlobalMQ workers, game code
    Entities,    \* each has a collection
    Shards,      \* shard keys
    Executors,   \* executors NewShardExecutor can still make
    NoExec, NoKey,
    MaxSubmits   \* bound: Submit calls of a caller

ASSUME NoExecAssumption == NoExec \notin Executors
ASSUME BoundAssumption  == MaxSubmits \in Nat

Keys == Entities \X Shards

VARIABLES
    life,        \* the service's goroutine: "new", "ready", "started", "stopping", "stopped"
    connected,   \* mongoDB and databaseMgr are not nil
    isReady,
    collects,    \* entities that are registered
    managers,    \* entities that have a ShardManager
    executors,   \* the maps of all managers: key -> executor
    state,       \* each executor: "unborn", "running", "stopped"
    pc,          \* where each caller is
    key,         \* the entity and shard a caller submits to
    exec,        \* the executor a caller has got
    calls,       \* completed Submit calls of each caller
    toStop,      \* managers Stop has still to shut down
    stopping,    \* executors the shutdown under way has still to stop
    taken,       \* history: <<caller, n, key, executor>> of the submits taken
    onTime,      \* history: entities RegisterEntity accepted before Start
    refused,     \* history: entities GetCollect had no manager for after Start
    late         \* history: executors made when their manager was shut down

lifeVars == <<life, connected, isReady>>
mapVars  == <<collects, managers>>
execVars == <<executors, state, late>>
callVars == <<pc, key, exec, calls, taken, refused>>
stopVars == <<toStop, stopping>>
vars     == <<lifeVars, mapVars, execVars, callVars, stopVars, onTime>>

Init ==
    /\ life = "new" /\ connected = FALSE /\ isReady = FALSE
    /\ collects = {} /\ managers = {} /\ onTime = {} /\ refused = {}
    /\ executors = [k \in Keys |-> NoExec] /\ late = {}
    /\ state = [e \in Executors |-> "unborn"]
    /\ pc = [c \in Callers |-> "idle"] /\ key = [c \in Callers |-> NoKey]
    /\ exec = [c \in Callers |-> NoExec] /\ calls = [c \in Callers |-> 0]
    /\ taken = {} /\ toStop = {} /\ stopping = {}

-------------------------------------------------------------------------------
(* The manager's life, one goroutine of the service.                        *)

(* Init: connected, or MongoDB is disabled, or the connection fails; the    *)
(* service drops the error.                                                 *)
InitManager ==
    /\ life = "new" /\ life' = "ready"
    /\ \/ isReady' = TRUE /\ connected' = TRUE
       \/ isReady' = TRUE /\ UNCHANGED connected
       \/ UNCHANGED <<isReady, connected>>
    /\ UNCHANGED <<mapVars, execVars, callVars, stopVars, onTime>>

(* Start: a manager for every entity that is registered by now. *)
Start ==
    /\ life = "ready" /\ isReady
    /\ life' = "started"
    /\ managers' = managers \cup collects
    /\ UNCHANGED <<connected, isReady, collects, execVars, callVars, stopVars, onTime>>

(* Stop, of a started manager or of one whose service failed to start, ...  *)
Stop ==
    /\ life \in {"ready", "started"}
    /\ life' = IF isReady THEN "stopping" ELSE "stopped"
    /\ toStop' = managers
    /\ UNCHANGED <<connected, isReady, mapVars, execVars, callVars, stopping, onTime>>

(* ... shuts one collection down after the other: each copies its executors *)
(* under its lock ...                                                       *)
ShutdownManager(x) ==
    /\ life = "stopping" /\ x \in toStop /\ stopping = {}
    /\ stopping' = {executors[k] : k \in {x} \X Shards} \ {NoExec}
    /\ toStop' = toStop \ {x}
    /\ UNCHANGED <<lifeVars, mapVars, execVars, callVars, onTime>>

(* ... and stops them one after the other without it ...                    *)
ShutdownExecutor(e) ==
    /\ e \in stopping
    /\ state' = [state EXCEPT ![e] = "stopped"]
    /\ stopping' = stopping \ {e}
    /\ UNCHANGED <<lifeVars, mapVars, executors, late, callVars, toStop, onTime>>

DisconnectEarly ==
    /\ life = "stopping" /\ toStop = {}
    /\ life' = "stopped" /\ connected' = FALSE /\ isReady' = FALSE
    /\ UNCHANGED <<mapVars, execVars, callVars, stopVars, onTime>>

(* ... before the client disconnects.                                       *)
Disconnect ==
    /\ life = "stopping" /\ toStop = {} /\ stopping = {}
    /\ life' = "stopped" /\ connected' = FALSE /\ isReady' = FALSE
    /\ UNCHANGED <<mapVars, execVars, callVars, stopVars, onTime>>

-------------------------------------------------------------------------------
(* Callers                                                                  *)

Goto(c, label) == pc' = [pc EXCEPT ![c] = label]

(* Manager.mu is free: Stop holds it throughout, the others in one step. *)
Unlocked == life # "stopping"

RegisterAlone(x) ==
    /\ Unlocked /\ connected /\ x \notin collects
    /\ collects' = {x}
    /\ onTime' = IF life = "ready" THEN onTime \cup {x} ELSE onTime
    /\ UNCHANGED <<lifeVars, managers, execVars, callVars, stopVars>>

(* RegisterEntity; an entity that is registered is refused. *)
Register(x) ==
    /\ Unlocked /\ connected /\ x \notin collects
    /\ collects' = collects \cup {x}
    /\ onTime' = IF life = "ready" THEN onTime \cup {x} ELSE onTime
    /\ UNCHANGED <<lifeVars, managers, execVars, callVars, stopVars>>

(* GetCollect: the entity's manager, or nil ...                             *)
GetCollect(c, x) ==
    /\ pc[c] = "idle" /\ calls[c] < MaxSubmits /\ Unlocked
    /\ IF connected /\ x \in managers
       THEN /\ \E s \in Shards : key' = [key EXCEPT ![c] = <<x, s>>]
            /\ Goto(c, "lookup")
            /\ UNCHANGED refused
       ELSE /\ refused' = IF life = "started" /\ connected THEN refused \cup {x} ELSE refused
            /\ UNCHANGED <<pc, key>>
    /\ UNCHANGED <<lifeVars, mapVars, execVars, exec, calls, taken, stopVars, onTime>>

(* ... whose GetOrCreateExecutor looks under the read lock ...              *)
LookUp(c) ==
    /\ pc[c] = "lookup"
    /\ exec' = [exec EXCEPT ![c] = executors[key[c]]]
    /\ Goto(c, IF executors[key[c]] = NoExec THEN "create" ELSE "submit")
    /\ UNCHANGED <<lifeVars, mapVars, execVars, key, calls, taken, refused, stopVars, onTime>>

(* ... and, under the write lock, looks again ...                           *)
SecondLook(c) ==
    /\ pc[c] = "create" /\ executors[key[c]] # NoExec
    /\ exec' = [exec EXCEPT ![c] = executors[key[c]]]
    /\ Goto(c, "submit")
    /\ UNCHANGED <<lifeVars, mapVars, execVars, key, calls, taken, refused, stopVars, onTime>>

ManagerIsShut(x) == life \in {"stopping", "stopped"} /\ x \notin toStop

MakeExecutor(c, e) ==
    /\ state[e] = "unborn"
    /\ state' = [state EXCEPT ![e] = "running"]
    /\ late' = IF ManagerIsShut(key[c][1]) THEN late \cup {e} ELSE late
    /\ exec' = [exec EXCEPT ![c] = e]
    /\ Goto(c, "submit")
    /\ UNCHANGED <<lifeVars, mapVars, key, calls, taken, refused, stopVars, onTime>>

CreateUnseen(c, e) ==
    /\ pc[c] = "create"
    /\ executors' = [executors EXCEPT ![key[c]] = e]
    /\ MakeExecutor(c, e)

(* ... and makes the executor.                                              *)
Create(c, e) ==
    /\ pc[c] = "create" /\ executors[key[c]] = NoExec
    /\ executors' = [executors EXCEPT ![key[c]] = e]
    /\ MakeExecutor(c, e)

(* ShardExecutor.Submit: into the queue, or refused because it is full. *)
Submit(c) ==
    /\ pc[c] = "submit"
    /\ \/ taken' = taken \cup {<<c, calls[c] + 1, key[c], exec[c]>>}
       \/ UNCHANGED taken
    /\ calls' = [calls EXCEPT ![c] = @ + 1]
    /\ exec' = [exec EXCEPT ![c] = NoExec] /\ key' = [key EXCEPT ![c] = NoKey]
    /\ Goto(c, "idle")
    /\ UNCHANGED <<lifeVars, mapVars, execVars, refused, stopVars, onTime>>

StopNext ==
    \/ \E x \in Entities : ShutdownManager(x)
    \/ \E e \in Executors : ShutdownExecutor(e)
    \/ Disconnect

Next ==
    \/ InitManager \/ Start \/ Stop \/ StopNext
    \/ \E x \in Entities : Register(x)
    \/ \E c \in Callers :
          \/ LookUp(c) \/ SecondLook(c) \/ Submit(c)
          \/ \E x \in Entities : GetCollect(c, x)
          \/ \E e \in Executors : Create(c, e)

Spec == Init /\ [][Next]_vars

-------------------------------------------------------------------------------
(* Every variable has its type.                                             *)
TypeOK ==
    /\ life \in {"new", "ready", "started", "stopping", "stopped"}
    /\ connected \in BOOLEAN /\ isReady \in BOOLEAN
    /\ collects \subseteq Entities /\ managers \subseteq collects
    /\ onTime \subseteq Entities /\ refused \subseteq Entities
    /\ executors \in [Keys -> Executors \cup {NoExec}] /\ late \subseteq Executors
    /\ state \in [Executors -> {"unborn", "running", "stopped"}]
    /\ pc \in [Callers -> {"idle", "lookup", "create", "submit"}]
    /\ key \in [Callers -> Keys \cup {NoKey}] /\ exec \in [Callers -> Executors \cup {NoExec}]
    /\ calls \in [Callers -> 0 .. MaxSubmits]
    /\ taken \subseteq Callers \X (1 .. MaxSubmits) \X Keys \X Executors
    /\ toStop \subseteq managers /\ stopping \subseteq Executors

(* No executor's goroutine is orphaned: whatever has been started is in the *)
(* map, under one shard, where Shutdown can find it.                        *)
EveryExecutorIsFound ==
    \A e \in Executors : state[e] # "unborn" =>
        Cardinality({k \in Keys : executors[k] = e}) = 1

(* Two writes to one shard never go through two executors, however the      *)
(* callers' double checks interleave with each other and with a shutdown,   *)
(* so that a shard's writes stay in order; and no executor is orphaned      *)
(* (shard_manager.go:281-301, 339-351).                                     *)
OneExecutorPerShard ==
    /\ TypeOK /\ EveryExecutorIsFound
    /\ \A s, t \in taken : s[3] = t[3] => s[4] = t[4]

(* The client is connected as long as an executor that Stop knows is        *)
(* running.  Only one that a caller makes when its collection has been shut *)
(* down outlives the connection: Stop does not wait for callers that have a *)
(* ShardManager, and GlobalMQ's workers stop after it (manager.go:86-98,    *)
(* service.go:189-200).                                                     *)
SurvivorsAreLate ==
    ~connected => \A e \in Executors : state[e] = "running" => e \in late

(* GetCollect has a manager for every entity that was registered before     *)
(* Start, from Start to Stop: a nil that nobody checks can only be met for  *)
(* one registered later, or by a message that comes before Start            *)
(* (shard_manager.go:203, 207-219).                                         *)
RegisteredIsServed == refused \cap onTime = {}
===============================================================================
