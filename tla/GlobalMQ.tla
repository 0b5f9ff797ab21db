------------------------------- MODULE GlobalMQ -------------------------------
(***************************************************************************)
(* The global message queue, core/global_mq.go: read loops send messages   *)
(* without blocking, workers take them and run the event handler of the    *)
(* packet type and then the logic handler of the message id.  A worker     *)
(* also makes itself a FIXED_RATE message on every tick, with message id 0 *)
(* and no connection.                                                      *)
(*                                                                         *)
(* Definitions that the model does not use and that stand before one it   *)
(* does are mutants: slips a property is shown to notice.                  *)
(***************************************************************************)
EXTENDS Naturals, Sequences, FiniteSets

CONSTANTS
    Producers,    \* goroutines that call SendToGlobalQueue
    Workers,      \* worker goroutines: as many as StartWorker starts
    Tick,         \* the FIXED_RATE message
    Nothing,      \* no message in hand
    HasEvent,     \* messages whose packet type has an event handler
    HasLogic,     \* messages whose id has a logic handler
    Panics,       \* messages a handler may panic on
    Hangs,        \* messages a handler may never return from
    MaxSends,     \* bound: messages of a producer
    QueueSize     \* capacity of globalQueue

Msg == Producers \X (1 .. MaxSends)

ASSUME MsgAssumption ==
    /\ Tick \notin Msg /\ Nothing \notin Msg /\ Nothing # Tick
    /\ HasEvent \subseteq Msg \cup {Tick} /\ HasLogic \subseteq Msg \cup {Tick}
    /\ Panics \subseteq Msg /\ Hangs \subseteq Msg \cup {Tick}

ASSUME BoundsAssumption ==
    MaxSends \in Nat /\ QueueSize \in Nat /\ IsFiniteSet(Workers)

VARIABLES
    queue,        \* globalQueue
    open,         \* globalQueue is not closed
    ctxDone,      \* the queue's context is cancelled
    workerCount,  \* what StartWorker stored
    pc,           \* where each worker is
    hand,         \* the message a worker processes
    tried,        \* SendToGlobalQueue calls of each producer
    dropped,      \* the droppedMsgs counter
    crashed,      \* a panic in a goroutine nobody recovers
    accepted,     \* history: messages SendToGlobalQueue said true for
    started       \* history: messages taken, in order

queueVars  == <<queue, open, ctxDone, accepted>>
workVars   == <<pc, hand, started>>
senderVars == <<tried, dropped>>
vars       == <<queueVars, workVars, senderVars, workerCount, crashed>>

Init ==
    /\ queue = <<>> /\ open = TRUE /\ ctxDone = FALSE /\ workerCount = 0
    /\ pc = [w \in Workers |-> "off"] /\ hand = [w \in Workers |-> Nothing]
    /\ tried = [p \in Producers |-> 0] /\ dropped = 0 /\ crashed = FALSE
    /\ accepted = <<>> /\ started = <<>>

At(w, label)   == pc[w] = label /\ ~crashed
Goto(w, label) == pc' = [pc EXCEPT ![w] = label]
NextMsg(p)     == <<p, tried[p] + 1>>

-------------------------------------------------------------------------------
(* StartWorker does nothing once workerCount is set. *)
StartWorker ==
    /\ ~crashed /\ workerCount = 0
    /\ workerCount' = Cardinality(Workers)
    /\ pc' = [w \in Workers |-> "loop"]
    /\ UNCHANGED <<hand, started, queueVars, senderVars, crashed>>

SendSilentDrop(p) ==
    /\ ~crashed /\ tried[p] < MaxSends /\ open
    /\ tried' = [tried EXCEPT ![p] = @ + 1]
    /\ IF Len(queue) < QueueSize
       THEN /\ queue' = Append(queue, NextMsg(p))
            /\ accepted' = Append(accepted, NextMsg(p))
       ELSE UNCHANGED <<queue, accepted>>
    /\ UNCHANGED <<open, ctxDone, dropped, workVars, workerCount, crashed>>

SendDropOldest(p) ==
    /\ ~crashed /\ tried[p] < MaxSends /\ open
    /\ tried' = [tried EXCEPT ![p] = @ + 1]
    /\ queue' = Append(IF Len(queue) < QueueSize THEN queue ELSE Tail(queue), NextMsg(p))
    /\ accepted' = Append(accepted, NextMsg(p))
    /\ UNCHANGED <<open, ctxDone, dropped, workVars, workerCount, crashed>>

(* SendToGlobalQueue on an open channel: accepted, or dropped when full. *)
Send(p) ==
    /\ ~crashed /\ tried[p] < MaxSends /\ open
    /\ tried' = [tried EXCEPT ![p] = @ + 1]
    /\ IF Len(queue) < QueueSize
       THEN /\ queue' = Append(queue, NextMsg(p))
            /\ accepted' = Append(accepted, NextMsg(p))
            /\ UNCHANGED dropped
       ELSE /\ dropped' = dropped + 1
            /\ UNCHANGED <<queue, accepted>>
    /\ UNCHANGED <<open, ctxDone, workVars, workerCount, crashed>>

(* On a closed one it panics, in the caller's read loop. *)
SendPanic(p) ==
    /\ ~crashed /\ tried[p] < MaxSends /\ ~open
    /\ crashed' = TRUE
    /\ UNCHANGED <<queueVars, workVars, senderVars, workerCount>>

(* Stop, called once: cancel, then close the channel. *)
StopCancel ==
    /\ ~crashed /\ ~ctxDone
    /\ ctxDone' = TRUE
    /\ UNCHANGED <<queue, open, accepted, workVars, senderVars, workerCount, crashed>>

StopClose ==
    /\ ~crashed /\ ctxDone /\ open
    /\ open' = FALSE
    /\ UNCHANGED <<queue, ctxDone, accepted, workVars, senderVars, workerCount, crashed>>

-------------------------------------------------------------------------------
TakeNewest(w) ==
    /\ At(w, "loop") /\ queue # <<>>
    /\ hand' = [hand EXCEPT ![w] = queue[Len(queue)]]
    /\ started' = Append(started, queue[Len(queue)])
    /\ queue' = SubSeq(queue, 1, Len(queue) - 1)
    /\ Goto(w, "event")
    /\ UNCHANGED <<open, ctxDone, accepted, senderVars, workerCount, crashed>>

(* A worker's select takes any case that is ready. *)
Take(w) ==
    /\ At(w, "loop") /\ queue # <<>>
    /\ hand' = [hand EXCEPT ![w] = Head(queue)]
    /\ started' = Append(started, Head(queue))
    /\ queue' = Tail(queue)
    /\ Goto(w, "event")
    /\ UNCHANGED <<open, ctxDone, accepted, senderVars, workerCount, crashed>>

TakeTick(w) ==
    /\ At(w, "loop")
    /\ hand' = [hand EXCEPT ![w] = Tick]
    /\ Goto(w, "event")
    /\ UNCHANGED <<started, queueVars, senderVars, workerCount, crashed>>

ExitWhenStarved(w) ==
    /\ At(w, "loop") /\ ctxDone /\ open /\ queue = <<>>
    /\ Goto(w, "done")
    /\ UNCHANGED <<hand, started, queueVars, senderVars, workerCount, crashed>>

(* The context is done, or the closed channel is empty. *)
Exit(w) ==
    /\ At(w, "loop") /\ (ctxDone \/ (~open /\ queue = <<>>))
    /\ Goto(w, "done")
    /\ UNCHANGED <<hand, started, queueVars, senderVars, workerCount, crashed>>

Finish(w, label) ==
    /\ Goto(w, label)
    /\ hand' = [hand EXCEPT ![w] = Nothing]

(* processMessage, first part: the event handler, if there is one.  Its     *)
(* error ends the message; its success goes on to the second part, as does  *)
(* its absence.                                                             *)
RunEvent(w) ==
    /\ At(w, "event")
    /\ \/ Goto(w, "logic") /\ UNCHANGED hand
       \/ hand[w] \in HasEvent /\ Finish(w, "loop")
    /\ UNCHANGED <<started, queueVars, senderVars, workerCount, crashed>>

RunLogicRetry(w) ==
    /\ At(w, "logic")
    /\ Goto(w, "event")
    /\ UNCHANGED <<hand, started, queueVars, senderVars, workerCount, crashed>>

(* Second part: the logic handler runs, if there is one, the player is in   *)
(* the cache and the data a []byte.  A tick has no connection to ask for    *)
(* the player.                                                              *)
RunLogic(w) ==
    /\ At(w, "logic") /\ (hand[w] = Tick => Tick \notin HasLogic)
    /\ Finish(w, "loop")
    /\ UNCHANGED <<started, queueVars, senderVars, workerCount, crashed>>

DieRequeue(w) ==
    /\ \/ At(w, "event") /\ hand[w] \in Panics \cap HasEvent
       \/ At(w, "logic") /\ hand[w] \in (Panics \cup {Tick}) \cap HasLogic
    /\ Finish(w, "dead")
    /\ queue' = Append(queue, hand[w])
    /\ UNCHANGED <<open, ctxDone, accepted, started, senderVars, workerCount, crashed>>

(* A handler panics, or message id 0 has a logic handler and the tick has   *)
(* no connection to ask: the worker ends and is not replaced.               *)
Die(w) ==
    /\ \/ At(w, "event") /\ hand[w] \in Panics \cap HasEvent
       \/ At(w, "logic") /\ hand[w] \in (Panics \cup {Tick}) \cap HasLogic
    /\ Finish(w, "dead")
    /\ UNCHANGED <<started, queueVars, senderVars, workerCount, crashed>>

(* A handler never returns: the SyncSend of a heartbeat, a clock or a token *)
(* reply fails and locks a Conn.mu twice (service.go:369, 385, 394), or it  *)
(* waits for a mutex that such a one keeps, as the idle check of a tick and *)
(* GetPlayerGuid here may too.                                              *)
Hang(w) ==
    /\ \/ At(w, "event") /\ hand[w] \in Hangs \cap HasEvent
       \/ At(w, "logic") /\ hand[w] \in (Hangs \ {Tick}) \cap HasLogic
    /\ Goto(w, "stuck")
    /\ UNCHANGED <<hand, started, queueVars, senderVars, workerCount, crashed>>

(* What comes of the message in hand: no handler is trusted to return.      *)
Process(w) == RunEvent(w) \/ RunLogic(w) \/ Die(w) \/ Hang(w)

QueueNext ==
    \/ StartWorker \/ StopCancel \/ StopClose
    \/ \E w \in Workers : Take(w) \/ TakeTick(w) \/ Exit(w) \/ Process(w)

Next == QueueNext \/ \E p \in Producers : Send(p) \/ SendPanic(p)

Spec == Init /\ [][Next]_vars

(* Workers run, select does not starve a ready case, the service starts     *)
(* them, a Stop that has begun goes on; nobody has to send or stop.         *)
Fairness ==
    /\ WF_vars(StartWorker) /\ WF_vars(StopClose)
    /\ \A w \in Workers : WF_vars(Process(w)) /\ SF_vars(Take(w)) /\ SF_vars(Exit(w))

FairSpec == Spec /\ Fairness

-------------------------------------------------------------------------------
RangeOf(s) == {s[i] : i \in 1 .. Len(s)}

(* Workers that have neither ended nor hang in a handler. *)
Live == {w \in Workers : pc[w] \in {"loop", "event", "logic"}}

(* Every variable has its type, and the queue never outgrows its capacity.  *)
TypeOK ==
    /\ queue \in Seq(Msg) /\ accepted \in Seq(Msg) /\ started \in Seq(Msg)
    /\ open \in BOOLEAN /\ ctxDone \in BOOLEAN /\ crashed \in BOOLEAN
    /\ workerCount \in Nat /\ dropped \in Nat
    /\ pc \in [Workers -> {"off", "loop", "event", "logic", "stuck", "dead", "done"}]
    /\ hand \in [Workers -> Msg \cup {Tick, Nothing}]
    /\ tried \in [Producers -> 0 .. MaxSends]
    /\ Len(queue) <= QueueSize

(* Every message sent is accounted for: it was taken, is still queued, or   *)
(* is counted as dropped (global_mq.go:104-123).                            *)
NothingGoesMissing ==
    /\ TypeOK
    /\ started \o queue = accepted
    /\ Len(accepted) + dropped =
          Cardinality({m \in Msg : m[2] <= tried[m[1]]})

(* A message that makes its handler panic costs one worker, never a second  *)
(* one: it is not handed out again, and unless message id 0 has a handler a *)
(* tick kills nobody (global_mq.go:143-150).                                *)
PoisonKillsOnce ==
    Tick \notin HasLogic =>
        Cardinality({w \in Workers : pc[w] = "dead"})
            <= Cardinality(Panics \cap RangeOf(started))

Delivery == INSTANCE FifoDelivery WITH Item <- Msg, delivered <- started

(* The queue implements in-order, at-most-once delivery to the workers,     *)
(* panics, a full queue and a Stop included (global_mq.go:104-174).         *)
DeliversInOrder == Delivery!Spec

(* An accepted message is taken, however many workers hang or panic before  *)
(* it, as long as one does neither and the queue does not stop              *)
(* (global_mq.go:141-174).                                                  *)
AcceptedIsTaken ==
    \A m \in Msg : m \in RangeOf(accepted) ~>
        m \in RangeOf(started) \/ ctxDone \/ crashed \/ (workerCount > 0 /\ Live = {})

(* Stop ends every worker, but for those that hang in a handler: nothing    *)
(* ends them, and Stop does not wait (global_mq.go:70-75, 157).             *)
StopEndsWorkers == ctxDone /\ workerCount > 0 ~> crashed \/ Live = {}
===============================================================================
