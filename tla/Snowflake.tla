------------------------------- MODULE Snowflake -------------------------------
(***************************************************************************)
(* The id generators of several processes, utils/snowflake.go.  NextId     *)
(* runs under the generator's mutex; only the wait for the next            *)
(* millisecond, inside the mutex, takes more than one step.  The wall      *)
(* clock of a process may be set back, and a process may restart.          *)
(***************************************************************************)
EXTENDS Integers, Sequences

CONSTANTS
    Nodes,                  \* processes, one generator each
    DatacenterId, WorkerId, \* what each was created with
    DatacenterCount,        \* 2^datacenterIdBits
    WorkerCount,            \* 2^workerIdBits
    SequenceCount,          \* 2^sequenceBits
    Epoch, Birth,           \* epoch, and a time before which no process runs
    MaxClock,               \* bound: the clocks
    MaxBack, MaxRestarts,   \* bounds: clock jumps back, process restarts
    MaxIds                  \* bound: NextId calls

ErrorCode == 3001           \* what NextId returns when the clock went back

ASSUME WidthsAssumption ==
    /\ DatacenterCount \in Nat \ {0} /\ WorkerCount \in Nat \ {0}
    /\ SequenceCount \in Nat \ {0}

(* CreateSnowflakeWorker refuses any other id. *)
ASSUME IdsAssumption ==
    /\ DatacenterId \in [Nodes -> 0 .. DatacenterCount - 1]
    /\ WorkerId \in [Nodes -> 0 .. WorkerCount - 1]

ASSUME TimeAssumption ==
    /\ Epoch \in Nat /\ Birth \in Nat /\ MaxClock \in Nat
    /\ 0 < Birth /\ Epoch <= Birth /\ Birth <= MaxClock
    /\ MaxBack \in Nat /\ MaxRestarts \in Nat /\ MaxIds \in Nat

VARIABLES
    clock,          \* time.Now() of each process, in milliseconds
    lastTimestamp, sequence,
    waiting,        \* a NextId of the process waits for the next millisecond
    life,           \* restarts of each process
    backs,          \* clock jumps back so far
    issued          \* history: every value NextId returned, in order

genVars == <<lastTimestamp, sequence, waiting, issued>>
vars    == <<clock, genVars, life, backs>>

Init ==
    /\ clock = [n \in Nodes |-> Birth]
    /\ lastTimestamp = [n \in Nodes |-> 0] /\ sequence = [n \in Nodes |-> 0]
    /\ waiting = [n \in Nodes |-> FALSE]
    /\ life = [n \in Nodes |-> 0] /\ backs = 0 /\ issued = <<>>

-------------------------------------------------------------------------------
TimeUnit == DatacenterCount * WorkerCount * SequenceCount

NodeBitsShort(n) == DatacenterId[n] * WorkerCount + WorkerId[n] * SequenceCount

(* The shifts and ors of NextId, as arithmetic. *)
NodeBits(n) == (DatacenterId[n] * WorkerCount + WorkerId[n]) * SequenceCount
Id(n, t, s) == (t - Epoch) * TimeUnit + NodeBits(n) + s

Return(n, id) == issued' = Append(issued, [node |-> n, life |-> life[n], id |-> id])

(* The mutex is free, and the bounds leave room for a later millisecond. *)
Calls(n) == ~waiting[n] /\ Len(issued) < MaxIds /\ clock[n] < MaxClock

NextIdBackwards(n) ==
    /\ Calls(n) /\ clock[n] < lastTimestamp[n]
    /\ Return(n, ErrorCode)
    /\ UNCHANGED <<clock, lastTimestamp, sequence, waiting, life, backs>>

NextIdFreshAnyChange(n) ==
    /\ Calls(n) /\ clock[n] # lastTimestamp[n]
    /\ lastTimestamp' = [lastTimestamp EXCEPT ![n] = clock[n]]
    /\ sequence' = [sequence EXCEPT ![n] = 0]
    /\ Return(n, Id(n, clock[n], 0))
    /\ UNCHANGED <<clock, waiting, life, backs>>

(* A new millisecond. *)
NextIdFresh(n) ==
    /\ Calls(n) /\ clock[n] > lastTimestamp[n]
    /\ lastTimestamp' = [lastTimestamp EXCEPT ![n] = clock[n]]
    /\ sequence' = [sequence EXCEPT ![n] = 0]
    /\ Return(n, Id(n, clock[n], 0))
    /\ UNCHANGED <<clock, waiting, life, backs>>

(* The same millisecond, and the sequence has not wrapped. *)
NextIdSame(n) ==
    /\ Calls(n) /\ clock[n] = lastTimestamp[n]
    /\ (sequence[n] + 1) % SequenceCount # 0
    /\ sequence' = [sequence EXCEPT ![n] = @ + 1]
    /\ Return(n, Id(n, clock[n], sequence[n] + 1))
    /\ UNCHANGED <<clock, lastTimestamp, waiting, life, backs>>

(* It has wrapped: spin, with the mutex held. *)
NextIdWrap(n) ==
    /\ Calls(n) /\ clock[n] = lastTimestamp[n]
    /\ (sequence[n] + 1) % SequenceCount = 0
    /\ sequence' = [sequence EXCEPT ![n] = 0]
    /\ waiting' = [waiting EXCEPT ![n] = TRUE]
    /\ UNCHANGED <<clock, lastTimestamp, issued, life, backs>>

NextIdSpunBehind(n) ==
    /\ waiting[n] /\ clock[n] < lastTimestamp[n]
    /\ lastTimestamp' = [lastTimestamp EXCEPT ![n] = clock[n]]
    /\ waiting' = [waiting EXCEPT ![n] = FALSE]
    /\ Return(n, Id(n, clock[n], sequence[n]))
    /\ UNCHANGED <<clock, sequence, life, backs>>

NextIdSpun(n) ==
    /\ waiting[n] /\ clock[n] > lastTimestamp[n]
    /\ lastTimestamp' = [lastTimestamp EXCEPT ![n] = clock[n]]
    /\ waiting' = [waiting EXCEPT ![n] = FALSE]
    /\ Return(n, Id(n, clock[n], sequence[n]))
    /\ UNCHANGED <<clock, sequence, life, backs>>

-------------------------------------------------------------------------------
Tick(n) ==
    /\ clock[n] < MaxClock
    /\ clock' = [clock EXCEPT ![n] = @ + 1]
    /\ UNCHANGED <<genVars, life, backs>>

SetBack(n) ==
    /\ backs < MaxBack
    /\ \E t \in Birth .. clock[n] - 1 : clock' = [clock EXCEPT ![n] = t]
    /\ backs' = backs + 1
    /\ UNCHANGED <<genVars, life>>

Restart(n) ==
    /\ life[n] < MaxRestarts
    /\ lastTimestamp' = [lastTimestamp EXCEPT ![n] = 0]
    /\ sequence' = [sequence EXCEPT ![n] = 0]
    /\ waiting' = [waiting EXCEPT ![n] = FALSE]
    /\ life' = [life EXCEPT ![n] = @ + 1]
    /\ UNCHANGED <<clock, backs, issued>>

NextId(n) ==
    \/ NextIdBackwards(n) \/ NextIdFresh(n) \/ NextIdSame(n)
    \/ NextIdWrap(n) \/ NextIdSpun(n)

Next == \E n \in Nodes : NextId(n) \/ Tick(n) \/ SetBack(n) \/ Restart(n)

Spec == Init /\ [][Next]_vars

(* Time passes, and a spinning goroutine sees it. *)
FairSpec == Spec /\ \A n \in Nodes : WF_vars(Tick(n)) /\ WF_vars(NextIdSpun(n))

-------------------------------------------------------------------------------
Returned == [node : Nodes, life : Nat, id : Int]

(* Every variable has its type; the sequence never leaves its bits.         *)
TypeOK ==
    /\ clock \in [Nodes -> Birth .. MaxClock]
    /\ lastTimestamp \in [Nodes -> {0} \cup (Birth .. MaxClock)]
    /\ sequence \in [Nodes -> 0 .. SequenceCount - 1]
    /\ waiting \in [Nodes -> BOOLEAN] /\ life \in [Nodes -> Nat] /\ backs \in Nat
    /\ issued \in Seq(Returned)

Real(i) == issued[i].id # ErrorCode

SameGenerator(i, j) ==
    issued[i].node = issued[j].node /\ issued[i].life = issued[j].life

(* The ids of one generator strictly increase, through wrapped sequences    *)
(* and a clock that is set back, as long as it runs (snowflake.go:98-120).  *)
IdsIncrease ==
    \A i, j \in 1 .. Len(issued) :
        i < j /\ SameGenerator(i, j) /\ Real(i) /\ Real(j)
            => issued[i].id < issued[j].id

OwnIds(m, n) == <<DatacenterId[m], WorkerId[m]>> # <<DatacenterId[n], WorkerId[n]>>

(* Generators with different ids never return the same value, whatever      *)
(* their clocks say and however often they restart.                         *)
NodesNeverClash ==
    \A i, j \in 1 .. Len(issued) :
        OwnIds(issued[i].node, issued[j].node) /\ Real(i) /\ Real(j)
            => issued[i].id # issued[j].id

(* A NextId that waits for the next millisecond returns once it comes.      *)
WaitEnds == \A n \in Nodes : waiting[n] ~> ~waiting[n]
===============================================================================
