# A TLA+ verification project for yaice

yaice is a game server framework in Go (`src/`, 28 Go files, 4672 lines; it has
no tests, and its documentation is the comments in its code). This directory
holds TLA+ models of its concurrent and stateful parts, TLC configurations that
check them on small instances, and TLAPS proofs, for every value of the constants,
of the safety of each of them. Source paths below are relative to `src/`; `conn.go` is
`network/tcp_net/conn.go`, `server.go` is `network/tcp_net/server.go`.

    cd tla
    tlc -workers 2 -config ConnBatch.cfg ConnMC.tla      # any run of the table below
    for m in Conn Session TcpServer ReadLoop PlayerData Database Snowflake Service
    do tlapm ${m}Proofs.tla; done                        # all proofs

## 1. Inventory

How the parts hang together: `Service` starts the global message queue's
workers, then the TCP and HTTP servers through the network manager, then the
database manager. The TCP server's accept loop creates a `Conn` per client,
each with a read loop and a batch write loop. A read loop puts every message
into `GlobalMQ`; the queue's workers run the handlers, which answer with
`AsyncSend` or `SyncSend` on the connection, look players up in the LRU cache,
submit database events to the shard manager, and, on every tick, have the
server close its idle connections. Three structures are therefore shared by
goroutines that do not know of each other: the connection's send window, the
server's table and the queue.

| Component | State | Operations | Interacts with |
|---|---|---|---|
| Connection, `conn.go` | `pendingMessages`, `serverAck`, `hasBeenSentNum`, `clientAck`, `sendQueue`, `isClosed`, `ctx`, `conn`, `mu` | `AsyncSend`, `SyncSend`, `Start`, `Close`, `batchWriteLoop`, `readLoop`, `UpdateServerAck`, `CheckServerAck`, `ProcessPendingMessages` | queue (its messages), handlers (answers), server (closing) |
| TCP server, `server.go` | `activeConns`, `connCount`, `wg`, `isRunning`, listener | `Listen`, `acceptLoop`, the goroutine per connection, `AddConn`, `RemoveConn`, `CheckConns`, `Close` | handlers (`AddConn`, `CheckConns`), network manager |
| Message handlers, `service.go:302-401` | none of their own | logic, heartbeat, time sync, token and frame-tick handlers | connection, server, queue |
| Global queue, `core/global_mq.go` | `globalQueue`, `workerCount`, `droppedCount`, `ctx`, handler tables | `StartWorker`, `SendToGlobalQueue`, `Stop`, `processMessages`, `processMessage` | every producer and handler |
| Shard executor, `database/shard_manager.go:15-138` | event queue, batch, `ctx`, `wg` | `Submit`, `loop`, `flush`, `Shutdown` | driver, callbacks |
| Shard manager, `database/shard_manager.go:140-149, 234-352` | map of executors, `mu` | `GetOrCreateExecutor`, `Submit`, `Shutdown` | executors; kept by callers across a Stop |
| Collections, `database/shard_manager.go:151-232` | entities, shard managers | `GetOrCreateShardEntity`, `Start`, `Shutdown`, `GetShardManager` | database manager |
| Database manager, `database/manager.go` | `isReady`, client, `databaseMgr`, `mu` | `Init`, `Start`, `Stop`, `RegisterEntity`, `GetCollect` | service, hooks, every writer |
| Player cache, `cache/cache_mgr.go` | map, recency list, `minSize`, `coreSize`, filter | `Get`, `Put`, `Delete`, `Clear`, `RemoveEligible`, `CleanExpired` | handlers |
| Snowflake ids, `utils/snowflake.go` | `lastTimestamp`, `sequence`, node ids | `NextId` | clock |
| Service, `service.go` | `state`, `ctx`, `wg`, the managers, singletons | `Start`, `Stop`, monitoring | all of the above |
| Network manager, `network/manager.go` | `isReady`, `servers`, `mu` | `Start`, its rollback, `Stop`, `CheckServerConnections` | servers; handlers, under the same lock |
| HTTP server, `network/http_net/` | `isRunning`, `server`, `routes`, `mux`, `activeConns` | `Listen`, `serve`, `Close`, `RegisterRoute` | network manager, clients, the game |
| Guid, `core/guid.go` | two globals | `GetGuid`, remote refresh | gRPC, the accept loop |
| Framing, `network/tcp_net/packates.go`, `conn.go:380-470` | read buffer | length prefix, retry on deadline | packet (the game's), queue |

The rest is configuration, logging, generated gRPC code, checksums, records
with getters and setters, and interfaces. `PROJECT.json` lists all of it, with
what is modelled and why the rest is not.

**What is hard.** Interleavings: two `AsyncSend` calls, a `Close` against both
loops, an accept against an idle check and a token, callers that race to make
an executor or keep one across a Stop, a Close of the HTTP server against its
serve goroutine, a token against the connection it names. Ordering: pending order against wire order, the order of a shard's
writes. Failure: a socket write that fails after a prefix, a handler that
panics, a bulk write whose answer is lost, any part of `Start`. Restarts: ids that
clients keep while the allocator or the process comes and goes. Boundaries: a
full send queue, a full message queue, a sequence that wraps, a cache at its
core size. Liveness: loops that block in the socket, `Close` that waits for
goroutines, a worker that spins for the next millisecond. `PROJECT.json`
"hazards" lists each at its line with the properties that would catch it.

**What makes each part correct**, in a sentence: a connection never forgets a
message its client does not have, writes each sender's messages once and in
order, and goes down completely; the server's counter covers its table and its
`Close` tells the truth; a token brings a player to his own session and no
other; what the queue is given is what the client framed; the queue loses nothing uncounted and one poisonous
message costs one worker; a shard's writes happen once, in order, and a success
that is reported is durable; no executor outlives the connection to its
database unless it was made too late; the cache drops what its policy names and
no more; ids increase and never clash; the service has all its parts or says so.

## 2. Modules

| Module | Models |
|---|---|
| `AckWindow` | the resend window of a connection, as functions from window to window |
| `Conn` | one connection: callers, both loops, the workers that run its handlers, closers; implements `FifoDelivery` with `accepted <- queued`, `delivered <- wire` |
| `TcpServer` | the connection table, accept loop, starters, tokens, idle checks, `Close` |
| `FifoDelivery` | abstract: what is accepted is delivered at most once, in order, without a gap |
| `GlobalMQ` | the global queue; implements `FifoDelivery` with `delivered <- started` |
| `ReadLoop` | a stream cut into frames, and the queue it feeds; extends `GlobalMQ` |
| `Guid` | session ids from a high half of a remote allocator and a low half |
| `Session` | tokens over two connections, their windows, the table and restarts; extends `Guid` and `AckWindow` |
| `ShardExecutor` | the write-behind loop of a shard; implements `FifoDelivery` with `delivered <- CalledBack` |
| `Database` | the database manager, its collections and the executors of their shards |
| `LRUCache` | the player cache, one atomic call at a time |
| `Snowflake` | `NextId` in several processes, with clocks and restarts |
| `HttpServer` | the HTTP server as a record, and what its methods do to it |
| `Service` | `Start` and `Stop` with every error path and the parts they drive; extends `HttpServer` |
| `ConnProofs`, `TcpServerProofs`, `DatabaseProofs`, `SnowflakeProofs`, `ServiceProofs` | theorems about the module of that name |
| `ReadLoopProofs` | theorems about `GlobalMQ` and `ReadLoop` |
| `SessionProofs` | theorems about `Guid` and `Session` |
| `PlayerDataProofs` | theorems about `ShardExecutor` and `LRUCache`, between which a player's data goes |
| `ConnMC`, `SessionMC`, `TcpServerMC`, `ReadLoopMC`, `ShardExecutorMC`, `DatabaseMC`, `LRUCacheMC`, `SnowflakeMC`, `ServiceMC` | instances for TLC |

A definition that stands before another and that no action uses (say
`CutKeepsAck` before `Cut`) is a plausible slip. Putting it in the
place of the definition it stands before must break the property named in
`PROJECT.json` "mutants"; that is how each property is shown to depend on the
code.

### How state and actions correspond to the code

**`Conn`.** One action is one step that no other goroutine can interleave with:
an atomic operation, a critical section of `Conn.mu`, a channel operation, a
socket call. `AsyncSend` is four steps, because it pushes to `pendingMessages`
under `mu` (`conn.go:145`), increments `hasBeenSentNum` outside it (`:146`) and
enqueues last (`:149-154`). `Close` is three: the compare-and-swap, the cancel,
and the socket under `mu`. Both loops read `c.conn` without `mu`, so each has a
step in which the field is nil and the goroutine, which has no recover, takes
the process down (`crashed`). The write loop's `select` is a choice among the
enabled actions `WriterTake`, `WriterTimer` and `WriterStop`; whether a message
fits the batch is a free choice, so every batch size and message length is
covered. A write succeeds whole or fails after any prefix of whole messages.
`SyncSend` holds `mu` across its write (`mu` names the holder); when the write
fails it calls functions that lock `mu` again, and the worker stays at "relock"
for good. The client is honest and external: the ack it sends is the number of
distinct messages of the wire it has counted so far, which never goes back.
Messages are pairs of sender and number. `pushed`, `queued` and `wire` are
histories of what was pushed, what the queue took of what can be packed, and
what was written.

**`TcpServer`.** The table changes under the server's lock and the counter by
an atomic add outside it, so `AddConn` and `RemoveConn` are two steps each; the
goroutine that the accept loop starts is four. Which connections were silent for
the timeout is left open: an idle check may find any of the table to be.
`missed` is a history of removals that found nothing. Two calls may never
return. A `SyncSend` whose write fails keeps `Conn.mu` for good (`SyncFails`,
`kept`), and the first to close that connection afterwards, which waits for the
mutex, is "stuck": `Close` of the server, or the idle check. And `GetGuid` in
the accept loop may wait for its id for ever (`AcceptGuid`, "hung"). `deadline`
says whether the context of `Close` ends: that of `Manager.Stop` does, that of a
rollback does not. The network manager's
lock, shared by `CheckConns` and exclusive in its `Stop`, is the guard that
lets `Close` begin only between idle checks.

**`GlobalMQ`.** `StartWorker` launches the workers; each takes a message, or a
tick, runs the event handler and then the logic handler, and either may return,
panic, so that the deferred recover ends the worker, or never return (`Hang`):
`SyncSend` in three handlers of `service.go` is such a case. `Stop` cancels the context and closes the
channel in two steps, and a sender in between or after may panic. Handlers are
registered before the workers start, so which messages have which handler are
constants. `accepted` and `started` are histories.

**`ReadLoop`.** A stream is a row of units that the client sends, of which a
head takes `HeadLen` and the n-th body `BodyLen[n]`. `io.ReadFull` is one step,
which takes what it was asked for; or the deadline passes after any smaller
number of units, these are lost, and the loop starts with a head again
(`Deadline`). In step, a head holds the length of its body; out of step it may
hold anything, of which lengths that no body has close the connection. What is
read out of step is `Garbled`: `Unpack` may fail, drop it, or make a message of
it. A good body goes to the queue by `Send` or `SendPanic`, the actions of
`GlobalMQ`. `carried` is a history of the frame that is in each message.

**`Session`.** `handleTokenCheck` in its steps: `GetConn` and `CheckServerAck`
on what it found (`TokenLookup`), then one of three ways: `AddConn` of the
current connection (`TokenAdd`), `Close` of the named one (`TokenClose`), or
`UpdateServerAck` of the current one with an ack that counts the other's
messages (`TokenAdopt`, `service.go:349`), `SetServerAck` of the named one
(`TokenAssign`, `:350`) and its resend and the reply (`TokenResend`,
`:351-370`). Between them anything else runs: the accept loop with ids from
`Guid`, starters that take connections out of the table, breaks, idle checks,
sends, writes, other acks and a restart of the process, after which clients
still hold ids of before. `AsyncSend` is four steps of a sender: its test of
`isClosed`, `Push`, `Count` and `Enqueue`, so that two senders may queue in
another order than they pushed; the write loop takes one message, and writes it
or, if `Pack` gives nothing, drops it (`WriteDrops`): `Conn` has its batches.
A sender that a restart cuts short is "lost". `Visit` is a connection that leaves no trace but the
id it used up. Clients are honest: an ack is the number of messages they
received on the connection it is for, and a token names a session that its
player was told in a reply. `lossy` is a history of the connections that one
of five events, named in the property, may have made cut too much.

**`Guid`.** `GetGuid` by cases: no high half yet, the usual increment, the low
half at its limit. A request is answered with a fresh high half, or fails, and
`failed` remembers that. Only the accept loop calls `GetGuid`, so a call is one
step; a second caller would race for the two globals.

**`ShardExecutor`.** `Submit` with its full-queue error, the loop's `select`
among queue, ticker and stop, the batch, `BulkWrite` in which the driver may
write all, a prefix or nothing and may fail even after writing everything, the
callbacks, and the last flush on shutdown, whose context is already cancelled.

**`Database`.** The manager's methods hold its lock throughout, so each is one
step, but for Stop, which holds it across the shutdowns: `Stop`, one
`ShutdownManager` per collection, which copies the executors under the shard
manager's lock, one `ShutdownExecutor` per copy, `Disconnect`; meanwhile no
`RegisterEntity` and no `GetCollect` can begin (`Unlocked`). A caller that has
its `ShardManager` is not held up: a look under the read lock, a second look
and creation under the write lock, and a submit after both are released.
`onTime`, `refused`, `taken` and `late` are histories. `NewShardExecutor` never
fails; which executor it returns is a free choice among those not yet made.

**`LRUCache`.** Every method holds the mutex throughout, so a call is one step:
expiry, filter, eviction, insertion at the front of the recency list. Time
advances between calls.

**`Snowflake`.** `NextId` by cases: clock behind, a later millisecond, the same
one, the wrap that spins with the mutex held, and the end of the spin. Widths
are constants, so shifts are products. A clock may be set back, a process may
restart with an empty generator.

**`HttpServer`.** A record, and one operator per critical section of
`http_net/server.go`: `Listen`, the three steps of `Close`, `serve` as it
begins, ends, fails and takes `isRunning` back, a request, and the two halves
of `RegisterRoute`. `net/http` is external: once `Shutdown` has begun, `Serve`
returns and no new request is read, and `Close` drops all connections, while a
handler that runs is on its own.

**`Service`.** `Start` and `Stop` step by step. `checkAndSetState` is the guard
of the first step. Each server either listens or fails, or the HTTP server
listens nowhere; then the rollback of `network/manager.go` and the service's
cleanup run as they do in the code. The network manager's lock is held at the
labels of `Locking`; the check of idle connections, which a worker runs on
every tick, reads under it (`CheckBegin`, `CheckEnd`), and Go's lock keeps new
readers out once a writer waits. `SetRunning` ends what the state guards; what
`Start` does after it, `startTime` and OnStarted, runs outside the exclusion
(`finishing`, `StartReturns`). `hung` names the calls that never return, by the
TCP server's `gen`: the idle check, `Server.Close`, the accept loop (`Hang`). The
queue's workers together are "live", "lost" when each has panicked or hangs, or
"gone" when they were told to end. Of the TCP server the listener and its
goroutines remain, by the Start they belong to (`gen`), of the others what
Start and Stop read or change. The singletons, made once per process, outlive a
Stop. `panicked` ends the process.

## 3. Runs

Each takes less than three minutes with two workers.

| Run | Instance | Properties | What it shows |
|---|---|---|---|
| `ConnBatch` (2.2 M states) | two senders of two messages, one message unpackable, queue of 3, one worker, one client message | `WindowExact` `HonestAckIsTaken` `WireInSendOrder` `LoopsServeUntilClosed` | batches overflow, writes fail after prefixes, acks race with sends: the counters are exact, an honest ack is taken, each sender's messages are written once and in order, no loop leaves an open connection |
| `ConnStream` (112 k states) | one sender of two messages, room in the queue, acks and tokens, a cancelled context, fairness | `PendingIsNewest` `OnlyReceivedIsTrimmed` `WrittenAsQueued` `CloseFinishes` `QueuedLeaves` | what is pending is the newest of what was sent; the connection refines `FifoDelivery` from its queue to its socket, resends included; the conditions under which the window is right; the liveness of loops and `Close` |
| `ConnTwoSenders` (violation) | two senders of one message | `OnlyReceivedIsTrimmed` | an ack cuts a message that was never written |
| `SessionTokens` (2.4 M states) | two connections, queue of 1, low half of 3, symmetry, in four scenarios (`Scenarios`): two players, two workers, two visits, two tokens, a restart and an allocator that may fail; the same with one worker, no restart and a message to acknowledge; one player, two senders of two messages together, one worker, two tokens, two acks; the same with three messages, one ack and no token | `GuidsDiffer` `PlayersStayApart` `OnlyReceivedIsCut` | ids differ and a token stays with its player unless the allocator failed; but for five named events only what was received is cut |
| `TcpTable` (386 k states) | two connections, a token worker, an idle-check worker, limit 1, `Close`, fairness | `CountCoversTable` `CloseOkMeansQuiet` `CloseReturns` | the counter never underestimates the table but for removals of what was gone, and passes the limit by tokens only; the wait group is exact, and a successful `Close` leaves nothing running; `Close` comes back and what it waits for ends, but for the two calls that hang |
| `TcpServed` (violation) | one connection | `ServedStaysActive` | a connection leaves the table as soon as it is served |
| `MqFlow` (55 k states) | a stream of three frames, two workers, queue of 2, two messages on which a handler may panic, two and the tick on which one may hang, one without an event handler, fairness | `NothingGoesMissing` `PoisonKillsOnce` `FramesInStep` `DeliversInOrder` `AcceptedIsTaken` `StopEndsWorkers` | what the queue is sent is what the client framed unless a deadline tore a frame; the queue refines `FifoDelivery`; a panic costs one worker; Stop ends all that do not hang |
| `ExecBatch` (49 k states) | four events, batch 2, queue 2, fairness | `WritesInOrder` `CallsBackInOrder` `AcceptedIsCalledBack` `ShutdownEnds` | the executor refines `FifoDelivery` from `Submit` to callback, with failing writes and a shutdown at any point; success is durable |
| `DbLife` (51 k states) | two callers of two submits, two entities, two shards, three executors, symmetry | `OneExecutorPerShard` `SurvivorsAreLate` `RegisteredIsServed` | one executor per shard, none orphaned; what outlives the connection was made after its shutdown; who registers in time is served |
| `CacheLru` (46 k states) | three keys, sizes 1 and 1, two values, one protected, six calls | `ListIsByRecency` `HeldStays` `InsertDropsLeastRecent` | every sequence of six calls |
| `SnowIds` (282 k states) | two nodes, sequence of 2, three milliseconds, one set-back, one restart, five ids, fairness | `NodesNeverClash` `IdsIncrease` `WaitEnds` | wraps, set-backs and restarts |
| `SvcLife` (170 k states) | two callers, two Starts, nine configurations, an HTTP client and one route in the first life, fairness | `OneAtATime` `RunningHasItsParts` `StopLeavesNothing` `ChecksOpenServers` `ClosedHttpIsQuiet` `CallsReturn` | every path through Start and Stop, with checks, requests and a route in between; every Start and Stop that is let in comes to its end, but for the three calls that hang |

`TypeOK` of every module but `Snowflake`, which has a theorem of its own for it
(as `Conn` has), is a conjunct of an invariant of its run:
`LoopsServeUntilClosed`, `CountCoversTable`, `NothingGoesMissing`,
`FramesInStep`, `WritesInOrder`, `OneExecutorPerShard`, `ListIsByRecency`,
`OnlyReceivedIsCut`, `OneAtATime`; all of these are theorems too. So are the
invariants that another rests on: `SentCountExact`, `WgCountsGoroutines`,
`LimitHolds`, `NothingLost`, `SuccessIsDurable`, `EveryExecutorIsFound`,
`ListMatchesMap`, `FirstLifeIsWhole`, `HttpIsWhole`, `FailedNetIsRolledBack`,
`OnlyFailedStartsListen`, `OneMonitor`.

**Bounds.** Every bound is a constant with "bound" in its comment: `MaxSends`,
`MaxJobs`, `MaxTokens`, `MaxSubmits`, `MaxOps`, `MaxClock`, `MaxBack`,
`MaxRestarts`, `MaxIds`, `MaxStarts`, `MaxUsed`, `MaxHigh`, `MaxAdding`; in
`Session` they are the fields of a record, `bound`, chosen from `Bounds` once and
for all, so that one run takes several scenarios and the theorems hold for any.
They are chosen so that the interesting
case happens. Two senders and two messages give every reordering of a push and
an enqueue around a batch boundary;
a queue of one is full when the second message comes. In `SessionTokens` a low
half of three wraps at the third id and, with two visits and one restart, gives
every way to an old id; two workers handle two tokens at a time. In its second
scenario an ack of one may be above what was handled, so that a token is refused.
In its third two senders
with a message each have every order of pushing and queueing, two acks come
before and after a token and between its steps, and a token that names the
other connection meets both; in its fourth a third message finds the queue full.
Each of the five events that `OnlyReceivedIsCut` excuses has been shown to be
needed within these bounds: with one left out of `lossy` the property is
violated. In `MqFlow` one stream of three frames fills a
queue of two; every other read loop would meet the same queue one channel
operation at a time. Two connections with a limit of one exercise the refusal, and a
token, an idle check and a starter can all remove or add the same one. Batch
size two with four events gives full and partial batches before and after a
failure. Two starts reach what a second life does differently (`MaxUsed`: its HTTP server
is made anew and would see the same clients and route); there is no third:
every way back to Stopped closes the queue, and closing it a second time ends
the process. Three executors for two shards of two collections let one be made
for each kind of race and one after its shutdown. `ConnBatch` leaves tokens out on purpose: a stale token does move
`serverAck` back (section 6), so `WindowExact` is promised only without one,
and that is how the theorem states it.

**Deadlock** checking is off in every run: a connection that is closed, a
service that is stopped and a generator at its bound legitimately stop. That
nothing stops too early is what the liveness properties say.

**Symmetry** is used only in runs without liveness, over identical keys,
connections, senders, or callers, shards and executors.

**Fairness.**
`Conn`: weak fairness for every goroutine inside a call (the Go scheduler runs
it), strong fairness for the two cases of the write loop's `select` that are
enabled again and again (Go picks a ready case at random), none for calling
`AsyncSend` or `Close`, and none for a `Write` or `SyncSend` to a peer that
does not read, unless the socket is gone. `QueuedLeaves` alone assumes
`PeerReads`, in its own statement. The read loop is fair because its read
deadline brings it back (`conn.go:405-430`).
`TcpServer`: goroutines that can run do; connections are not obliged to come or
go, and `Close` goes on once called, its wait bounded by the caller's context if
that has a deadline. No fairness makes a call return that may hang: `AcceptGuid` and
`CloseNext` have hanging among their outcomes, and no action leads on from
"hung" or "stuck".
`GlobalMQ`: weak for workers that have a message, whose handler may return, panic
or hang; strong for taking one and for
the exit, which share a `select`; weak for a `Stop` that has begun.
`ShardExecutor`: the loop and the driver return; strong for the stop case.
`Snowflake`: time passes, and the spinning goroutine gets to look at it.
`Service`: the caller inside Start or Stop goes on; the monitor, a worker's
check and `serve` run; and the goroutines of a TCP server end once its listener
is closed, which is what `CloseReturns` of `TcpServer` shows. All but the monitor
and `serve` may hang first (`Hang`), after which their fair step is disabled. Nothing is asked of HTTP
clients: a `Close` that waits for them is cut short by its done context.
`Session`, `Database`, `LRUCache`: safety only.

So the liveness properties name what the code lets hang, each case where someone
waits for it. `CloseReturns`: the mutex of a connection it closes is kept;
or the accept loop waits for its id, and with it a `Close` without a deadline. `CallsReturn`: the same two for the Close of a server
and for a rollback, and a Stop that waits for the manager's lock while the idle
check hangs. `AcceptedIsTaken` and `StopEndsWorkers`: a worker that hangs is none
of those that must take or end. Without any one of the cases of the first two,
the run ends in a violation.

## 4. Proofs

| Theorem | States | For |
|---|---|---|
| `ConnProofs!TypeCorrect` | `Spec => []TypeOK` | any senders, workers, closers, job kinds, bounds |
| `ConnProofs!PendingIsNewestAlways` | `Spec => []PendingIsNewest` | the same; tokens, resends and failed writes included |
| `ConnProofs!WindowExactAlways` | `"token" \notin Jobs => (Spec => []WindowExact)` | the same, without token messages |
| `ConnProofs!LoopsServeUntilClosedAlways` | `Spec => []LoopsServeUntilClosed` | the same; every order of closing; type correctness with it |
| `ConnProofs!WireInSendOrderAlways` | `"token" \notin Jobs => (Spec => []WireInSendOrder)` | any senders, batches, queue sizes, failed writes |
| `ConnProofs!HonestAckIsTakenAlways` | `"token" \notin Jobs => (Spec => []HonestAckIsTaken)` | the same |
| `ConnProofs!OnlyReceivedIsTrimmedAlways` | `"token" \notin Jobs /\ OneSender /\ Unpackable = {} => (Spec /\ []QueueHasRoom => []OnlyReceivedIsTrimmed)` | any number of messages, batches, failed writes, acks, closers |
| `ConnProofs!WrittenAsQueuedHolds` | `Spec => WrittenAsQueued` | any senders, tokens and resends, unpackable messages, batches, queue sizes, failed writes, closers: the connection implements `FifoDelivery` |
| `SessionProofs!GuidsDifferAlways` | `GuidSpec => []GuidsDiffer` | any limit of the low half, any number of wraps and restarts |
| `SessionProofs!SessionGuidsDiffer` | `Spec => []GuidsDiffer` | any connections, players, workers and bounds |
| `SessionProofs!PlayersStayApartAlways` | `Spec => []PlayersStayApart` | the same |
| `SessionProofs!OnlyReceivedIsCutAlways` | `Spec => []OnlyReceivedIsCut` | the same, and any senders and queue size; type correctness with it |
| `TcpServerProofs!CountCoversTableAlways` | `Spec => []CountCoversTable` | any finite connections, adders, checkers, any limit; type correctness with it |
| `TcpServerProofs!CloseOkMeansQuietAlways` | `Spec => []CloseOkMeansQuiet` | the same |
| `ReadLoopProofs!NothingGoesMissingAlways` | `ReadSpec => []NothingGoesMissing` | any producers, streams, finite workers, queue size; type correctness with it |
| `ReadLoopProofs!PoisonKillsOnceAlways` | `ReadSpec => []PoisonKillsOnce` | the same |
| `ReadLoopProofs!FramesInStepAlways` | `ReadSpec => []FramesInStep` | the same; any lengths of frames |
| `ReadLoopProofs!DeliversInOrderHolds` | `ReadSpec => DeliversInOrder` | the same: the queue implements `FifoDelivery` |
| `PlayerDataProofs!WritesInOrderAlways` | `Spec => []WritesInOrder` | any events, batch and queue sizes, failing writes; type correctness with it |
| `PlayerDataProofs!CallsBackInOrderHolds` | `Spec => CallsBackInOrder` | the same: the executor implements `FifoDelivery` |
| `PlayerDataProofs!ListIsByRecencyAlways` | `CacheSpec => []ListIsByRecency` | any keys, values, filter, sizes, durations, any number of calls; type correctness with it |
| `PlayerDataProofs!HeldStaysAlways` | `CacheSpec => HeldStays` | the same |
| `PlayerDataProofs!InsertDropsLeastRecentAlways` | `CacheSpec => InsertDropsLeastRecent` | the same |
| `DatabaseProofs!OneExecutorPerShardAlways` | `Spec => []OneExecutorPerShard` | any callers, entities, shards, executors; type correctness with it |
| `DatabaseProofs!SurvivorsAreLateAlways` | `Spec => []SurvivorsAreLate` | the same |
| `DatabaseProofs!RegisteredIsServedAlways` | `Spec => []RegisteredIsServed` | the same |
| `SnowflakeProofs!TypeCorrect` | `Spec => []TypeOK` | any processes, field widths, node ids, clocks |
| `SnowflakeProofs!IdsIncreaseAlways` | `Spec => []IdsIncrease` | the same; the clock may be set back at will |
| `SnowflakeProofs!NodesNeverClashEver` | `Spec => []NodesNeverClash` | the same; restarts included |
| `ServiceProofs!OneAtATimeAlways` | `Spec => []OneAtATime` | any callers, configurations, clients, routes, any number of Starts; type correctness with it |
| `ServiceProofs!RunningHasItsPartsAlways` | `Spec => []RunningHasItsParts` | the same; the database and the servers in every life, the context, the queue and its workers in the first |
| `ServiceProofs!StopLeavesNothingAlways` | `Spec => []StopLeavesNothing` | the same |
| `ServiceProofs!ChecksOpenServersAlways` | `Spec => []ChecksOpenServers` | the same |
| `ServiceProofs!ClosedHttpIsQuietAlways` | `Spec => []ClosedHttpIsQuiet` | the same |

**Assumptions** are those the modules name; TLC evaluates all of them on every
run. They say that model values differ from one another, that bounds are
numbers, and, beyond that:

- `Conn`, `ProcsAssumption`: the kinds of goroutines are disjoint, senders are
  finite. `BoundsAssumption`: jobs are of the three kinds the module has.
- `Guid`, `LowMaxAssumption`: at least two low halves (the code has 2^32).
- `Session`, `BoundsAssumption`: there are finitely many connections.
- `TcpServer`, `SetsAssumption`: a worker adds or checks, not both; connections
  and workers are finite, since the counter counts them.
- `GlobalMQ`, `BoundsAssumption`: finitely many workers.
- `ReadLoop`, `FrameAssumption`: a head has units and so has the body of every
  frame that a client sends (`conn.go:415` closes a connection over an empty
  one), and a body that is no frame is no frame's number.
- `ShardExecutor`, `SizesAssumption`: a batch has room for one event.
- `LRUCache`, `ParametersAssumption`: the clock has at least one reading; the
  sizes need not be in order, which `NewLRUCache` does not check either.
- `Snowflake`, `IdsAssumption`: ids fit their fields, which
  `CreateSnowflakeWorker` makes sure of; `TimeAssumption`: no clock stands
  before the epoch.
- `Service`, `ParametersAssumption`: configurations are of the kind it has.

**A connection.** `TypeOK` is not inductive: nothing in it keeps a sender from
taking a message beyond its bound between its check and its push. `TypeInv`
adds `SendsBounded`. Then `WindowMoves` shows that any of the module's steps
does one of three things to the pair of `win` and `pushed`: it cuts nothing, it
pushes one message to both, or it takes an ack. `NewestPush` and `NewestCut`,
pure facts about sequences, and `UpdateServerAckCuts`, what the code's three
tests and the cut amount to, do the rest: `PendingIsNewest` is inductive on top
of `TypeInv`. `WindowExact` is not: `handleTokenCheck` assigns `serverAck`
(`service.go:350`) without cutting anything. Its invariant adds
`NoTokenHandlers`, no worker is ever inside the token handler, which holds when
clients send no tokens. With tokens the statement is false, which is a fact
about the code, not about the proof; `PendingIsNewest` survives.

`LoopsServe` needs `ClosersHaveClosed`: a goroutine inside `Close`
has won the flag, and only it takes the socket away, which is why a loop that
finds no socket may return. `WireInSendOrder` is about the end of a row:
`LineInOrder` says that what is written, the batch, the message in hand and the
queue, read in that order, hold each sender's messages in the order of their
numbers. It is said only while the write loop goes on (`Writing`), for a
write that fails loses the rest; and `OnWay \subseteq Sent` keeps the message a
sender is about to enqueue out of the row. For `HonestAckIsTaken` three counts
meet: `SentCountExact`, what the client counted is on the wire (`CountedExact`),
and what it acknowledges it has counted (`AcksAreCounted`).

`OnlyReceivedIsTrimmed` is the property that `ConnTwoSenders` refutes, so its
theorem has the hypotheses whose failure section 6 describes: no token, one
sender, every message packable, and room in the queue, the last not as a
constant but as `[]QueueHasRoom`, which a queue as long as the stream satisfies.
`StreamInPlace` then places wire, batch, hand and queue in `pushed`, end to end
(`InLine`), `LastIsUnderway` says that the message on its way to the queue is
the last one pushed, and `AcksAreWritten` bounds every ack under way by the
length of the wire. An ack cuts a prefix of what was pushed; the wire is one.

The refinement, `WrittenAsQueued`, needs none of these hypotheses, because it
starts at the queue and not at the call: with two senders or a resend the order
of the queue is not the order of the pushes, but the write loop keeps it.
`QueuedInPlace` places wire, batch, hand and queue in `queued`, end to end, as
`StreamInPlace` does in `pushed`. The queue also holds messages that `Pack` will
drop, which must not count; so the row ends not in `sendQueue` but in some `r`
that is its `PackablePart`, which is said by where the messages of `r` lie in
the queue (`Places`), and `PartOfLonger` and `PartOfTail` say what becomes of it
at either end. `HandFree` (no message in hand when the loop takes the next, no
batch when it writes the one in hand) is what the order of `AfterOverflow` and
`AfterFlush` is for. Then an enqueued packable message is an `Accept`, and a
write that lengthens the wire a `Deliver`, whole or after a failure part way.

**Session ids.** That no id has been given twice does not imply that the next
one is new. `HighIsOld` adds that the high half in use is below what the
allocator hands out next, and `GivenIsPast` that every id given has a high half
the allocator is past, which until a request fails is not the 0 of a process
that has none yet, and that an id of the high half in use has a low half not
above the current one. `NewIdIsNew` then gives the step.

**Sessions.** That a handler works on its player's connections only is a fact
about four places an id can be at once: the accept loop, the table, the
client's memory, a worker. `SessionInv` names them: every id that a connection
has was given (`IdsAreGiven`), two connections never share one (`IdsAreOwn`,
where `GuidsDiffer` comes in), a table entry is filed under the id of its
connection (`TableIsById`, which `TokenAdd` keeps because it goes by the id of
the connection and not by the one in the token), what a client was told is a
connection that exists (`ToldAreMet`), a token that is under way names a
session of its sender's player (`TokensNameTheirOwn`), and the conclusion for
handlers between their steps (`HandlersKeepToPlayer`), which survives that the
table changes between them.

**What a token may cut.** `OnlyReceivedIsCut` relates, for each connection, the
window, the queue, what was sent and what its client got. `Held` is the part no
event disturbs: what is pending is the newest of what was sent. `Gapless` says
that the client has a row of messages from the first, that the queue, which
after a resend may repeat what was sent before, goes on where it ends, and that
only a message on its way from a sender's push to the queue (`Flying`) is in
neither; `CutIsHad` that the window has cut no more than `serverAck` and the client
has those. Both are claimed of connections outside `lossy`. `SendersHold` says
that what a sender has in flight was pushed on its connection; one that queues
the smallest in flight leaves no gap, for all below it are with the client or
in the queue. The step is in
`CountedAreFirst`: k messages counted without a gap are the first k, so an ack,
which is a number, is a promise about which messages (`AcksCountReceived` for
the acks inside tokens). All of it rests on `SessionInv`, which says whose
connection a handler has.

**The TCP server.** The counter and the wait group are numbers; the invariants
say of which sets they are the sizes. `WgInv`: `wg` is the number of goroutines
between their `Add` and their `Done`, plus one for the accept loop; with
`AdmitInv` and `MetInv` (who refers to a connection refers to one that has come,
and every one that has come has its goroutine or is in the accept loop's hands)
a `Close` that waited for 0 leaves no one. `Covered` adds to the counter the
additions that have reached the table and not the counter, and to the table the
removals that have left it and not yet counted down; `Limited` is the same count against `MaxConn`. That each step changes each of
those sets by at most the worker that takes it is `OneMoves`.

**The queue.** `InPlace`: `accepted` is `started` followed by `queue`.
`SendsCounted` is the same equation in numbers with drops, `AcceptedOnce` says
that no message is there twice, and a step keeps all three because it moves one
message over one boundary. `PoisonKillsOnce` counts workers: dead ones and those
holding a message that may still kill them are together no more than the
poisonous messages taken (`OnePerPoison`), an inequality that `Take` and a panic
both keep. (A tick has no number, so the property is void where the game's tick
handler may panic: any number of ticks may then kill a worker each.) The refinement needs no more: `DeliveryStep` maps `Take` to
`Deliver`, an accepted `Send` to `Accept`, all else to a stutter; a tick is
never accepted, so it stutters.

**Framing.** `FrameInv` says of each reader in step that it stands at the n-th
head or at the n-th body, where n is one more than the messages it sent. It
rests on `HeadAt` being a function that grows; the library's induction has an
operator for a parameter, so both are proved by the least counterexample, which
`NatLessThanWellFounded` provides.

**The executor.** `ExecInv`: what was called back, the batch and the queue are
`accepted`, in place and once (`InPlace`, `AcceptedOnce`); the database holds
accepted writes in order (`DbInOrder`); between a successful `BulkWrite` and the
callbacks the batch is in it (`BatchIsDurable`), from which
`SuccessIsDurable` follows. The next `BulkWrite` keeps the order because what the
database holds lies no further than the end of the batch before (`Written`).

**The cache.** `CacheInv` is `ListIsByRecency`, the shape of a cache as a record
of a map and a list, and one thing more: every use so far was before the call that comes
(`Before`), without which the key that a call puts in front need not have been
used last. `Sound` is the part that speaks of a map and a list alone, so that it
can be said of what stands between two halves of a call: `RemoveItemsSound`,
`MoveToFrontSound`, `EvictOldestSound` and `AddItemSound` take it from one to
the next. That the list without some keys is what it should be (`Without`
goes through it by recursion) is an induction along the list, made by the least
place at which it would fail, which `NatLessThanWellFounded` provides:
`WithoutIsRest` says that the rest has the kept keys, each once, in their old
order. Both action properties are read off `StepRight`, which each call is shown
to satisfy from the invariant before it (`CacheStepRight`): the list is in order
of use, so the last that may go is the least recently used that may.

**Databases.** `MapInv`: a caller between its steps has what its label says
(`CallersInStep`), two keys never share an executor and every executor born is
in the map (`MapIsOneToOne`, `BornIsMapped`), and no entry is ever replaced, so
what was submitted once went where it would go now (`TakenByMap`). `ReachInv`
adds that a running executor that is not `late` is still within the reach of
the Stop under way (`RunningIsWithinReach`): its collection is not shut down yet
or it is among the copies; when Stop disconnects, both sets are empty.
`ServedInv` follows the list of the registered from `Init` to `Start`.

**The service.** With one caller inside at a time (`Turns`), its label is the
stage of the whole (`Stage`), and the rest of `SvcInv` says what the parts are
at each stage: `MonitorInv`, `LifeInv` (context, queue and its workers, database), `ServersInv`
(what the network manager has), `TcpInv` and `HttpInv` (what these are), and
`LeftInv`: a set of components that is not in charge listens nowhere unless its
Start failed at the database. What hangs and what runs after the state is set
have their types alone (`HangInv`): no safety property depends on a call that
returns. The five properties are read off it. Of the workers `LifeInv` says that
they were started on the way to Running, unless the queue is made for none, and
that they are told to end only by a done context or a closed queue; that of the
first life neither is so gives `FirstLifeIsWhole`.

**Ids.** `HighFieldDecides` and `FieldsReadBack` are the arithmetic of an id
packed from fields within their widths. `IdsIncrease` needs `BelowHighest`:
everything a generator has issued in this run is at most what its fields now
say (`Highest`), and while it spins, the whole millisecond counts as issued.
`NextIdRaises` shows that what `NextId` returns exceeds `Highest` and becomes
it. `NodesNeverClash` needs only `IdsAreOwn`: every value is an id of the
process that returned it.

**Only model-checked.** Liveness under fairness and `ENABLED` are out of the
prover's reach: `CloseFinishes`, `QueuedLeaves`, `CloseReturns`,
`AcceptedIsTaken`, `StopEndsWorkers`, `AcceptedIsCalledBack`, `ShutdownEnds`,
`WaitEnds`, `CallsReturn`. With tokens, `OnlyReceivedIsTrimmed` is checked on
`ConnStream` alone, whose one client message is an ack or a token. No module here
declares or reaches a `RECURSIVE` operator.

## 5. Not modelled

- `lastActivity`, timeouts and tick periods are choices, not clocks.
- `IPacket` is the game's: `Pack` returns bytes or nil, `Unpack` fails or hands
  over a message. The default packet of the repository is a stub.
- Clients count distinct messages and never count backwards; others are not
  considered.
- Which handler hangs at which connection: in `GlobalMQ` one may hang or not, in
  `TcpServer` a connection's mutex may be kept or not, in `Service` three calls
  may hang or not; the lock that brings it about is in `Conn`.
- A token that names another connection, in the single steps of `SyncSend` and
  the write loop: `Conn` has those steps with a token that names the connection
  itself, `Session` two connections with those of `AsyncSend` alone.
- Hooks that do not return: those that `Start` and `Stop` call before they set
  the state are taken to.
- Tokens that clients forge or confuse: in `Session` a client names a session
  it was told.
- Two callers of `GetGuid` at a time: the accept loop is the only one.
- The clients of an HTTP server that a failed Start has left listening; its
  middleware; what handlers answer.
- A read that arrives in several pieces within the deadline: `io.ReadFull`
  waits for the rest.
- A `Listen` after `Close`, which no caller performs; log lines; the 41
  bits of a snowflake time, which last until 2084.
- The readers of files in `utils/tool.go`, which nothing calls: a read that
  fails returns with the package's lock held (`tool.go:121-137`), so that the
  next one waits for ever.
- Configuration beyond what `Service` tells apart, checksums, generated code:
  see `PROJECT.json` "components".

## 6. Where the code departs from what it says

Two departures are runs that end in a violation, with the line of the
repository they contradict (`PROJECT.json` "findings"):

- `ConnTwoSenders`: `AsyncSend` pushes under `mu` and enqueues after it, so two
  callers push in one order and send in the other; an ack of one message cuts
  the other (`conn.go:145-150`, against `:39`, "for reliable delivery", and
  `:256`).
- `TcpServed`: `Conn.Start` only launches the read loop, so the deferred
  `RemoveConn` runs at once and a served connection is not in `activeConns`
  (`server.go:243-247`, "after the handling of the connection has ended").
  `Close`, which closes what is in the table, and the idle check never see it.

The others came up while modelling. The models contain the behaviour; the
properties are stated so that they say what does hold.

*Connection.* The queue is full: `AsyncSend` fails, and the message stays in
`pendingMessages` and in the count (`conn.go:145-153`); likewise a message that
`Pack` drops (`:334`). The client's next ack then cuts a message it never had.
A token handled after a later ack sets `serverAck` back (`service.go:350`), and
the ack after it cuts too much. So `OnlyReceivedIsTrimmed` holds for one
sender, a queue with room, packable messages and no ack after a token: the
instance of `ConnStream`, whose one client message is an ack or a token; in
`SessionTokens` they meet, and what does it is in `lossy`. `Close` sets `c.conn` to nil under `mu` while both
loops use it without (`:195` against `:311`, `:343`, `:370`, `:409`): a nil
dereference that no one recovers. `CheckServerAck` compares the ack, a count of
server messages, with `clientAck`, a count of client messages (`:233`), and
closes a connection whose client received more than it sent (`service.go:353`).
`SyncSend`'s error path locks `mu`, which it holds, in `GetRemoteAddr` and again
in `Close`, one line under the comment that warns of it (`:168-171`). The worker
that ran the handler (`service.go:369`, `:385`, `:394`) never returns, counts as
started all the same, and is not ended by `Stop`. `mu` stays locked, so the first
to close the connection afterwards never returns either (`:192`): `Server.Close`,
before it looks at its context (`server.go:98`), with the network manager's lock
held; or the idle check (`:137`), with the same lock held, for which `Stop` then
waits. `CloseReturns`, `AcceptedIsTaken`, `StopEndsWorkers` and `CallsReturn` name
these cases.

*TCP server.* `RemoveConn` counts down whether or not it removed anything
(`server.go:167`, "keeps the counter from becoming negative"): `missed` in
`CountCoversTable`.

*Tokens.* The reply, and what is pending, go to the connection the token names,
which is usually the broken one, not to the one that asks (`service.go:343-370`).
Its ack counts messages of the named connection and cuts the pending messages
of the current one (`:349`), while the count it was checked against stays with
the other, one of the five events of `lossy` in `OnlyReceivedIsCut`. A connection leaves the table when its
read loop starts (above), so that a token finds a session only if an earlier
token has put it back.

*Session ids.* While the allocator does not answer, the high half stays 0 and
every call resets the low half: all sessions have the id 1 (`guid.go:43-47`),
and a table entry or a token of one player is then another's. A refresh that
fails later is dropped too, and the ids of the old high half are handed out
again (`:85-87`). The context with the timeout is made and then replaced by one
without it (`:79`), so a request may block the accept loop for ever, and with it
a rollback of the servers, whose context has no deadline
(`network/manager.go:96`).

*Framing.* A deadline that passes in the middle of a frame is retried from a
head (`conn.go:401-432`), and the rest of the frame is read as one: `torn` in
`FramesInStep`. EOF is retried without a pause (`:455`); the idle check, which
might end it, walks the table, where the connection no longer is. All bodies
are read into one buffer (`:421`), and the default packet, a stub that drops its
message, makes it a slice of that buffer (`packates.go:60`): a message still in
the queue may change under the worker if the game's `Unpack` does the same.

*Queue.* After a successful event handler the logic handler runs too
(`global_mq.go:195`). `Stop` ends workers while accepted messages are queued,
and closes a channel that senders still use (`:69-76`, "graceful"; `SendPanic`).
A worker that dies by a panic leaves `workerCount` as it was, so `StartWorker`
never replaces it (`:90`, `:148`): hence the last disjunct of `AcceptedIsTaken`.

*Executor and shards.* On shutdown the loop flushes its batch, with a cancelled
context, but not the queue (`shard_manager.go:98-102`, "handle the remaining
events"). An executor made after `Shutdown` has copied the map runs on
(`:339-350`). `ErrExecutorClosed` (`:15`) is never returned: `Submit` after
`Shutdown` succeeds and the event stays in the queue (`:51-59`).

*Database.* `Service.Stop` shuts the collections down before it stops the
queue's workers (`service.go:195-203`), which still hold shard managers: a
write then makes an executor that nobody stops, or goes to one that is stopped,
and both without an error (`late` in `SurvivorsAreLate`). `GetShardManager`
returns nil and no error for an entity registered after Start
(`shard_manager.go:200`), although OnStarting, where a game would register, runs
after it; and a second `GetOrCreateShardEntity`, "get or create", is an error
(`:172-185`). Stop holds the manager's lock during the last flushes, so a
callback that calls `GetCollect` waits for Stop and Stop for it
(`manager.go:76-87`, `shard_manager.go:115`).

*HTTP server.* Its `Close` is only ever called under a cancelled context
(`network/manager.go:163`, `service.go:185`), so the graceful shutdown of 30
seconds (`http_net/server.go:162`) ends at once and requests are cut. When `Serve` gives
up by itself the service stays Running, and `Close` does nothing
(`:148-153`, `:204-212`). `StartPort` above `EndPort` passes validation
(`config.go:224`); over that empty range no listen fails, `serve` runs with a
nil listener and panics, and again in the deferred function that recovered the
first panic (`:121-141`, `:208`): `HttpCrashes`. A path registered twice while
the server runs panics in the mux (`:196`). The range of ports includes its end
for HTTP (`:124`) and excludes it for TCP (`tcp_net/server.go:56`).

*Cache.* `minSize`, "below it no element is evicted" (`cache_mgr.go:29`), does
not keep `Get` from removing what has expired (`:110`).

*Ids.* Every process is worker 1 of datacenter 1 (`snowflake.go:62` against
`:23`), which breaks the hypothesis of `NodesNeverClash`. While the clock is
behind, `NextId` returns the error code 3001 as an id (`:103`). A restart
forgets the last timestamp (`:82`): `IdsIncrease` speaks of one run.

*Service.* When the database does not start, `cleanupComponents` leaves the
network listening although the state says Stopped (`service.go:270`; the
exception in `StopLeavesNothing`). `Stop` passes the context it has just
cancelled to the network manager, whose wait therefore ends at once
(`:188-190`). The context and the queue are made once: a second Start runs with
both dead and reports success (`:97`, `global_mq.go:38`), and a second Stop or
rollback closes the channel twice (`global_mq.go:73`): hence `FirstLifeIsWhole`
speaks of the first, and a running service of a later life may have a closed queue
without a worker. `startTime` and OnStarted come after the state is Running
(`service.go:160-166`), so that a `Stop` and another `Start` may overtake them. A
configuration that enables the queue for no workers (`max_workers` of 0 or less,
which nothing validates) makes a queue that starts none (`global_mq.go:84`). With the queue disabled, a default queue is made and its
workers started (`service.go:249`, `:283`).

## 7. Plan

Done: the resend window and the connection, server, queue, executor, cache,
ids, service; then sessions with their ids, the database manager over its
collections and shards, the HTTP server within the service, frames. Left:

1. `ShardedWrites`: `Database` with a `ShardExecutor` per shard (`INSTANCE`),
   so that the order of one shard's writes is checked end to end and a late
   executor shows in what is written.
2. The read buffer of `conn.go:421` shared with a queued message, once a real
   packet is in the repository to say what it copies.

Abstract specifications worth adding: a map, which the cache implements up to
drops.

Theorems: every safety property that a passing run checks is proved, the
refinements of `FifoDelivery` by the queue, the executor and the connection
included. What is left is liveness, which the prover does not reach.
