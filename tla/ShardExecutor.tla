----------------------------- MODULE ShardExecutor -----------------------------
(***************************************************************************)
(* One write-behind executor, database/shard_manager.go: callers submit    *)
(* write events without blocking, the loop collects them into batches,     *)
(* writes a batch with one ordered BulkWrite and calls every event back    *)
(* with its result.  Shutdown cancels the context the writes use and waits *)
(* for the loop.                                                           *)
(*                                                                         *)
(* Definitions that the model does not use and that stand before one it   *)
(* does are mutants: slips a property is shown to notice.                  *)
(***************************************************************************)
EXTENDS Naturals, Sequences

CONSTANTS
    Events,      \* write events; each is submitted once
    BatchSize,
    QueueSize

ASSUME SizesAssumption == BatchSize \in Nat \ {0} /\ QueueSize \in Nat

VARIABLES
    queue,      \* the channel
    events,     \* events collected for the next batch (and buffer, their models)
    loop,       \* where the loop is
    err,        \* result of the last BulkWrite
    ctxDone,    \* Shutdown has cancelled the context
    shutdown,   \* where Shutdown is
    db,         \* writes applied to the collection, in order
    refused,    \* events Submit returned ErrQueueFull for
    accepted,   \* history: events Submit took, in order
    called      \* history: [event, err] of the callbacks, in order

subVars  == <<queue, refused, accepted>>
loopVars == <<events, loop, err, db, called>>
shutVars == <<ctxDone, shutdown>>
vars     == <<subVars, loopVars, shutVars>>

Init ==
    /\ queue = <<>> /\ refused = {} /\ accepted = <<>>
    /\ events = <<>> /\ loop = "select" /\ err = FALSE /\ db = <<>> /\ called = <<>>
    /\ ctxDone = FALSE /\ shutdown = "idle"

RangeOf(s) == {s[i] : i \in 1 .. Len(s)}

SubmitDropOldest(e) ==
    /\ e \notin RangeOf(accepted) \cup refused
    /\ queue' = Append(IF Len(queue) < QueueSize THEN queue ELSE Tail(queue), e)
    /\ accepted' = Append(accepted, e)
    /\ UNCHANGED <<refused, loopVars, shutVars>>

(* Submit never blocks and never looks whether the executor still runs. *)
Submit(e) ==
    /\ e \notin RangeOf(accepted) \cup refused
    /\ IF Len(queue) < QueueSize
       THEN /\ queue' = Append(queue, e)
            /\ accepted' = Append(accepted, e)
            /\ UNCHANGED refused
       ELSE refused' = refused \cup {e} /\ UNCHANGED <<queue, accepted>>
    /\ UNCHANGED <<loopVars, shutVars>>

-------------------------------------------------------------------------------
TickerWhenFull ==
    /\ loop = "select" /\ Len(events) >= BatchSize
    /\ loop' = "flush"
    /\ UNCHANGED <<subVars, events, err, db, called, shutVars>>

(* The loop.  Its select takes any case that is ready; "flush" is a flush   *)
(* that comes back to the select, "last" the one before the loop returns.   *)
Collect ==
    /\ loop = "select" /\ queue # <<>>
    /\ events' = Append(events, Head(queue))
    /\ queue' = Tail(queue)
    /\ loop' = IF Len(events) + 1 >= BatchSize THEN "flush" ELSE "select"
    /\ UNCHANGED <<refused, accepted, err, db, called, shutVars>>

Ticker ==
    /\ loop = "select" /\ events # <<>>
    /\ loop' = "flush"
    /\ UNCHANGED <<subVars, events, err, db, called, shutVars>>

Stop ==
    /\ loop = "select" /\ ctxDone
    /\ loop' = IF events = <<>> THEN "done" ELSE "last"
    /\ UNCHANGED <<subVars, events, err, db, called, shutVars>>

BulkWriteUnchecked ==
    /\ loop \in {"flush", "last"}
    /\ loop' = [flush |-> "callback", last |-> "lastCallback"][loop]
    /\ \E n \in 0 .. Len(events) : db' = db \o SubSeq(events, 1, n)
    /\ err' = FALSE
    /\ UNCHANGED <<subVars, events, called, shutVars>>

(* BulkWrite is ordered: on an error the writes before the failing one are  *)
(* applied, or all of them when only the answer was lost.  Under a          *)
(* cancelled context it does not succeed.                                   *)
BulkWrite ==
    /\ loop \in {"flush", "last"}
    /\ loop' = [flush |-> "callback", last |-> "lastCallback"][loop]
    /\ \/ /\ ~ctxDone
          /\ db' = db \o events /\ err' = FALSE
       \/ /\ \E n \in 0 .. Len(events) : db' = db \o SubSeq(events, 1, n)
          /\ err' = TRUE
    /\ UNCHANGED <<subVars, events, called, shutVars>>

CallbacksRetry ==
    /\ loop \in {"callback", "lastCallback"}
    /\ IF err THEN UNCHANGED <<called, events>>
       ELSE /\ called' = called \o
                  [i \in 1 .. Len(events) |-> [event |-> events[i], err |-> err]]
            /\ events' = <<>>
    /\ loop' = [callback |-> "select", lastCallback |-> "done"][loop]
    /\ UNCHANGED <<subVars, err, db, shutVars>>

(* Every event of the batch is told; a panic in a callback is contained. *)
Callbacks ==
    /\ loop \in {"callback", "lastCallback"}
    /\ called' = called \o [i \in 1 .. Len(events) |-> [event |-> events[i], err |-> err]]
    /\ events' = <<>>
    /\ loop' = [callback |-> "select", lastCallback |-> "done"][loop]
    /\ UNCHANGED <<subVars, err, db, shutVars>>

-------------------------------------------------------------------------------
ShutdownWithoutCancel ==
    /\ shutdown = "idle"
    /\ shutdown' = "wait"
    /\ UNCHANGED <<subVars, loopVars, ctxDone>>

Shutdown ==
    /\ shutdown = "idle"
    /\ ctxDone' = TRUE /\ shutdown' = "wait"
    /\ UNCHANGED <<subVars, loopVars>>

ShutdownReturn ==
    /\ shutdown = "wait" /\ loop = "done"
    /\ shutdown' = "returned"
    /\ UNCHANGED <<subVars, loopVars, ctxDone>>

Loop == Collect \/ Ticker \/ Stop \/ BulkWrite \/ Callbacks

Next == (\E e \in Events : Submit(e)) \/ Loop \/ Shutdown \/ ShutdownReturn

Spec == Init /\ [][Next]_vars

(* The loop runs, BulkWrite returns, select does not starve ctx.Done. *)
FairSpec == Spec /\ WF_vars(Loop) /\ SF_vars(Stop) /\ WF_vars(ShutdownReturn)

-------------------------------------------------------------------------------
Result == [event : Events, err : BOOLEAN]

(* Every variable has its type, and no batch is larger than BatchSize.      *)
TypeOK ==
    /\ queue \in Seq(Events) /\ accepted \in Seq(Events) /\ refused \subseteq Events
    /\ events \in Seq(Events) /\ db \in Seq(Events) /\ called \in Seq(Result)
    /\ err \in BOOLEAN /\ ctxDone \in BOOLEAN
    /\ Len(queue) <= QueueSize /\ Len(events) <= BatchSize
    /\ loop \in {"select", "flush", "last", "callback", "lastCallback", "done"}
    /\ shutdown \in {"idle", "wait", "returned"}

CalledBack == [i \in 1 .. Len(called) |-> called[i].event]

(* Every accepted event is called back, in the batch, or queued, in this    *)
(* order: batches are neither written twice nor mixed up (:61-104).         *)
NothingLost == CalledBack \o events \o queue = accepted

(* A callback without an error means the write is in the database.          *)
SuccessIsDurable ==
    \A i \in 1 .. Len(called) : ~called[i].err => called[i].event \in RangeOf(db)

(* Nothing is lost, a success that was called back is in the database, and  *)
(* the writes of a shard reach it in the order of submission and at most    *)
(* once, failing batches included (shard_manager.go:61-129).                *)
WritesInOrder ==
    /\ TypeOK /\ NothingLost /\ SuccessIsDurable
    /\ LET at(e) == CHOOSE k \in 1 .. Len(accepted) : accepted[k] = e
       IN  \A i, j \in 1 .. Len(db) : i < j => at(db[i]) < at(db[j])

Delivery == INSTANCE FifoDelivery WITH Item <- Events, delivered <- CalledBack

(* The executor implements in-order, at-most-once delivery from Submit to   *)
(* callbacks, failing batches and a shutdown included (:51-129).            *)
CallsBackInOrder == Delivery!Spec

(* Every accepted event is called back, unless the executor is shut down.   *)
AcceptedIsCalledBack ==
    \A e \in Events : e \in RangeOf(accepted) ~> e \in RangeOf(CalledBack) \/ ctxDone

(* Shutdown returns. *)
ShutdownEnds == shutdown = "wait" ~> shutdown = "returned"
===============================================================================
