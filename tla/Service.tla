-------------------------------- MODULE Service --------------------------------
(***************************************************************************)
(* The life of the service, service.go with network/manager.go and         *)
(* database/manager.go: Start builds the components, starts the queue's    *)
(* workers, then the servers, then the database, and undoes some of it     *)
(* when a part fails; Stop takes everything down.  Any goroutine may call  *)
(* either; the state, compared and set under stateMutex, lets one in.      *)
(*                                                                         *)
(* Of the TCP server only its listener, its goroutines and what may keep   *)
(* them from returning remain (TcpServer has the rest), of the queue what  *)
(* StartWorker and Stop read and what becomes of the workers (GlobalMQ has *)
(* the rest), of the database that it is ready (Database has the rest);    *)
(* the HTTP server is HttpServer's record.  initComponents and             *)
(* registerEventHandlers return no error: the first drops that of          *)
(* dbMgr.Init, the second tests an accessor that never returns nil.  The   *)
(* hooks are the application's: those that run before the state is set are *)
(* taken to return.  Calls refused by the state change nothing.            *)
(*                                                                         *)
(* Definitions that the model does not use and that stand before one it    *)
(* does are mutants: slips a property is shown to notice.                  *)
(***************************************************************************)
EXTENDS Naturals, FiniteSets, HttpServer

CONSTANTS
    Callers,       \* goroutines that call Start and Stop
    Configs,       \* configurations the service may be made with
    MaxStarts,     \* bound: calls of Start let in
    MaxUsed        \* bound: of those, the first so many see clients and routes

Types == {"tcp", "http"}

(* The servers that are enabled, whether MongoDB is, the queue's section of  *)
(* the file, "nil" when it has none and "idle" when it enables the queue for *)
(* no workers, and whether HTTP's start port is past its end port: nothing   *)
(* validates max_workers, and validateNetworkConfig lets the ports through.  *)
Config == [enabled : SUBSET Types, mongo : BOOLEAN,
           mq : {"on", "idle", "off", "nil"}, noPorts : BOOLEAN]

ASSUME ParametersAssumption ==
    Configs \subseteq Config /\ MaxStarts \in Nat /\ MaxUsed \in Nat

VARIABLES
    config,      \* Service.config
    state,       \* Service.state
    pc,          \* where each caller is
    ctxDone,     \* Service.ctx is cancelled
    gen,         \* how many sets of components were made; the last is in use
    net,         \* its network manager: [ready, servers]
    db,          \* its database manager: [ready]
    closing,     \* the server a Close is waiting for
    listening,   \* TCP servers, by gen, whose listener is open
    serving,     \* TCP servers, by gen, with goroutines left
    http,        \* the HTTP server of each gen
    checking,    \* the gen a worker is inside CheckServerConnections of, or 0
    hung,        \* what never returns, of the TCP server of which gen
    mq,          \* the GlobalMQ singleton
    wg,          \* Service.wg
    monitors,    \* monitoring goroutines
    panicked,    \* what a panic nothing recovers said
    finishing,   \* callers whose Start has set its state, but not returned
    failed       \* history: sets of components whose Start failed

tcpVars     == <<listening, serving>>
netVars     == <<net, closing, tcpVars, http, checking, hung>>
monitorVars == <<wg, monitors>>
svcVars     == <<config, state, ctxDone, gen, db, mq, monitorVars,
                 panicked, failed, finishing>>
vars        == <<svcVars, pc, netVars>>

(* Of the workers: none was started; some can take messages; each that was   *)
(* started has panicked or hangs; or they were told to end.                  *)
WorkersAre == {"none", "live", "lost", "gone"}

NoMq == [made |-> FALSE, root |-> "none", closed |-> FALSE, workers |-> "none"]
NewMq(root) == [NoMq EXCEPT !.made = TRUE, !.root = root]

Init ==
    /\ config \in Configs
    /\ state = "Stopped" /\ pc = [c \in Callers |-> "idle"]
    /\ ctxDone = FALSE /\ gen = 0
    /\ net = [ready |-> FALSE, servers |-> {}] /\ db = [ready |-> FALSE]
    /\ closing = "none" /\ listening = {} /\ serving = {} /\ checking = 0 /\ hung = {}
    /\ http = [g \in 1 .. MaxStarts |-> NewHTTPServer]
    /\ mq = NoMq /\ wg = 0 /\ monitors = 0 /\ panicked = "no" /\ failed = {}
    /\ finishing = {}

At(c, label)   == pc[c] = label /\ panicked = "no"
Goto(c, label) == pc' = [pc EXCEPT ![c] = label]

(* The queue's context is done: its own cancel, or that of its parent. *)
MqDone == mq.closed \/ (mq.root = "service" /\ ctxDone)

-------------------------------------------------------------------------------
(* Start                                                                     *)

StartCheckBlind(c) ==
    /\ At(c, "idle") /\ c \notin finishing
    /\ state \in {"Stopped", "Starting"} /\ gen < MaxStarts
    /\ state' = "Starting" /\ Goto(c, "init")
    /\ UNCHANGED <<config, ctxDone, gen, netVars, db, mq, monitorVars,
                   panicked, failed, finishing>>

StartCheck(c) ==
    /\ At(c, "idle") /\ c \notin finishing /\ state = "Stopped" /\ gen < MaxStarts
    /\ state' = "Starting" /\ Goto(c, "init")
    /\ UNCHANGED <<config, ctxDone, gen, netVars, db, mq, monitorVars,
                   panicked, failed, finishing>>

(* MongoDB is pinged under the service's context. *)
InitOutcomes ==
    IF ~config.mongo THEN {TRUE} ELSE IF ctxDone THEN {FALSE} ELSE BOOLEAN

InitComponents(c) ==
    /\ At(c, "init") /\ Goto(c, "workers")
    /\ gen' = gen + 1
    /\ mq' = IF config.mq = "on" /\ ~mq.made THEN NewMq("service") ELSE mq
    /\ \E ok \in InitOutcomes : db' = [ready |-> ok]
    /\ net' = [ready |-> FALSE, servers |-> {}]
    /\ UNCHANGED <<config, state, ctxDone, closing, tcpVars, http, checking, hung,
                   monitorVars, panicked, failed, finishing>>

(* GetGlobalMQ, which makes a default queue when there is none, then         *)
(* StartWorker, unless there is no configuration to read MaxWorkers from.    *)
(* It starts no more workers than the queue was made for, and none twice.    *)
StartWorkers(c) ==
    /\ At(c, "workers")
    /\ LET q == IF mq.made THEN mq ELSE NewMq("background")
       IN  IF config.mq = "nil"
           THEN mq' = q /\ panicked' = "nil dereference" /\ UNCHANGED pc
           ELSE /\ mq' = IF q.workers # "none" \/ config.mq = "idle" THEN q
                         ELSE [q EXCEPT !.workers = "live"]
                /\ Goto(c, "netLock") /\ UNCHANGED panicked
    /\ UNCHANGED <<config, state, ctxDone, gen, netVars, db, monitorVars,
                   failed, finishing>>

(* The network manager's lock: Start and Stop hold it, or wait for it and    *)
(* keep new readers out, between these labels; workers read under it.        *)
Locking == {"netLock", "tcp", "http", "rollback", "rollbackWait",
            "stopLock", "stopNet", "stopTcp", "stopHttp", "httpWait"}

NetLock(c) ==
    /\ At(c, "netLock") /\ checking # gen /\ Goto(c, "tcp")
    /\ UNCHANGED <<svcVars, netVars>>

AfterServer(t) == IF t = "tcp" THEN "http" ELSE "db"

(* The network manager is ready once the last server has been dealt with. *)
Started(n, t) == [n EXCEPT !.ready = (t = "http")]

SkipServer(c, t) ==
    /\ At(c, t) /\ t \notin config.enabled
    /\ net' = Started(net, t) /\ Goto(c, AfterServer(t))
    /\ UNCHANGED <<svcVars, closing, tcpVars, http, checking, hung>>

ListenOk(c, t) ==
    /\ At(c, t) /\ t \in config.enabled
    /\ net' = Started([net EXCEPT !.servers = @ \cup {t}], t)
    /\ IF t = "tcp"
       THEN /\ listening' = listening \cup {gen} /\ serving' = serving \cup {gen}
            /\ UNCHANGED http
       ELSE /\ ~config.noPorts /\ http' = [http EXCEPT ![gen] = ListenOn(TRUE)]
            /\ UNCHANGED tcpVars
    /\ Goto(c, AfterServer(t))
    /\ UNCHANGED <<svcVars, closing, checking, hung>>

(* HTTP's Listen over no ports at all: the port it returns is 0. *)
ListenNowhere(c) ==
    /\ At(c, "http") /\ "http" \in config.enabled /\ config.noPorts
    /\ http' = [http EXCEPT ![gen] = ListenOn(FALSE)]
    /\ Goto(c, "rollback")
    /\ UNCHANGED <<svcVars, net, closing, tcpVars, checking, hung>>

(* Every port of the range is taken. *)
ListenFails(c, t) ==
    /\ At(c, t) /\ t \in config.enabled /\ (t = "http" => ~config.noPorts)
    /\ Goto(c, "rollback")
    /\ UNCHANGED <<svcVars, netVars>>

StartDbBlind(c) ==
    /\ At(c, "db") /\ Goto(c, "monitor")
    /\ UNCHANGED <<svcVars, netVars>>

StartDb(c) ==
    /\ At(c, "db")
    /\ Goto(c, IF db.ready THEN "monitor" ELSE "cleanup")
    /\ UNCHANGED <<svcVars, netVars>>

StartMonitoring(c) ==
    /\ At(c, "monitor") /\ Goto(c, "started")
    /\ wg' = wg + 1 /\ monitors' = monitors + 1
    /\ UNCHANGED <<config, state, ctxDone, gen, netVars, db, mq,
                   panicked, failed, finishing>>

SetRunning(c) ==
    /\ At(c, "started") /\ state' = "Running" /\ Goto(c, "idle")
    /\ finishing' = finishing \cup {c}
    /\ UNCHANGED <<config, ctxDone, gen, netVars, db, mq, monitorVars,
                   panicked, failed>>

(* startTime and OnStarted come after that, when a Stop and the next Start   *)
(* may already run; then Start returns.                                      *)
StartReturns(c) ==
    /\ panicked = "no" /\ c \in finishing /\ finishing' = finishing \ {c}
    /\ UNCHANGED <<config, state, pc, ctxDone, gen, netVars, db, mq, monitorVars, panicked,
                   failed>>

-------------------------------------------------------------------------------
(* Closing the TCP server: its listener at once, then its connections, then  *)
(* a wait for its goroutines that a done context ends.                       *)

CloseTcp(c, from, to) ==
    /\ At(c, from) /\ "tcp" \in net.servers
    /\ closing' = "tcp" /\ listening' = listening \ {gen}
    /\ Goto(c, to)
    /\ UNCHANGED <<svcVars, net, serving, http, checking, hung>>

(* Manager.Stop empties its map when all are closed; nobody can look before. *)
TcpClosed(c, from, to, done) ==
    /\ At(c, from) /\ <<"close", gen>> \notin hung /\ (gen \notin serving \/ done)
    /\ closing' = "none" /\ net' = [net EXCEPT !.servers = @ \ {"tcp"}]
    /\ Goto(c, to)
    /\ UNCHANGED <<svcVars, tcpVars, http, checking, hung>>

(* A failed network start closes what it had started, under a context that   *)
(* is never done.  HTTP comes last, so that is the TCP server.               *)
Rollback(c) ==
    \/ CloseTcp(c, "rollback", "rollbackWait")
    \/ TcpClosed(c, "rollbackWait", "rollback", FALSE)
    \/ /\ At(c, "rollback") /\ net.servers = {} /\ Goto(c, "cleanup")
       /\ UNCHANGED <<svcVars, netVars>>

(* GlobalMQ.Stop: closing the queue a second time panics. *)
StopMq ==
    /\ mq' = [mq EXCEPT !.closed = TRUE]
    /\ panicked' = IF mq.closed THEN "close of closed channel" ELSE panicked

(* cleanupComponents stops the database and the queue, not the network. *)
Cleanup(c) ==
    /\ At(c, "cleanup") /\ StopMq
    /\ db' = [ready |-> FALSE] /\ failed' = failed \cup {gen}
    /\ IF mq.closed THEN UNCHANGED <<state, pc>>
                    ELSE state' = "Stopped" /\ Goto(c, "idle")
    /\ UNCHANGED <<config, ctxDone, gen, netVars, monitorVars, finishing>>

-------------------------------------------------------------------------------
(* Stop                                                                      *)

StopCheck(c) ==
    /\ At(c, "idle") /\ c \notin finishing /\ state = "Running"
    /\ state' = "Stopping" /\ Goto(c, "cancel")
    /\ UNCHANGED <<config, ctxDone, gen, netVars, db, mq, monitorVars,
                   panicked, failed, finishing>>

StopCancelNot(c) ==
    /\ At(c, "cancel") /\ Goto(c, "stopLock")
    /\ UNCHANGED <<svcVars, netVars>>

StopCancel(c) ==
    /\ At(c, "cancel") /\ ctxDone' = TRUE /\ Goto(c, "stopLock")
    /\ UNCHANGED <<config, state, gen, netVars, db, mq, monitorVars,
                   panicked, failed, finishing>>

StopLockNot(c) ==
    /\ At(c, "stopLock")
    /\ Goto(c, IF net.ready THEN "stopNet" ELSE "stopDb")
    /\ UNCHANGED <<svcVars, netVars>>

StopLock(c) ==
    /\ At(c, "stopLock") /\ checking # gen
    /\ Goto(c, IF net.ready THEN "stopNet" ELSE "stopDb")
    /\ UNCHANGED <<svcVars, netVars>>

(* Closing the HTTP server; one that gave up is left alone. *)
HttpStep(c, from, to, h) ==
    /\ At(c, from) /\ Goto(c, to) /\ http' = [http EXCEPT ![gen] = h]
    /\ UNCHANGED <<svcVars, tcpVars, checking, hung>>

HttpClosed(c, from, h) ==
    /\ HttpStep(c, from, "stopNet", CloseReturned(h))
    /\ closing' = "none" /\ net' = [net EXCEPT !.servers = @ \ {"http"}]

CloseHttp(c) ==
    LET h == http[gen] IN
    \/ /\ At(c, "stopNet") /\ "http" \in net.servers
       /\ IF h.isRunning
          THEN /\ HttpStep(c, "stopNet", "stopHttp", CloseFlag(h))
               /\ closing' = "http" /\ UNCHANGED net
          ELSE HttpClosed(c, "stopNet", h)
    \/ /\ HttpStep(c, "stopHttp", "httpWait", CloseShutdown(h))
       /\ UNCHANGED <<net, closing>>
    \/ /\ At(c, "httpWait") /\ h.serve # "serving"
       /\ HttpClosed(c, "httpWait", DropAll(h))

NetStopped(c) ==
    /\ At(c, "stopNet") /\ net.servers = {} /\ Goto(c, "stopDb")
    /\ net' = [net EXCEPT !.ready = FALSE]
    /\ UNCHANGED <<svcVars, closing, tcpVars, http, checking, hung>>

StopNetFirst(c) ==
    \/ CloseTcp(c, "stopNet", "stopTcp") \/ TcpClosed(c, "stopTcp", "stopDb", ctxDone)
    \/ CloseHttp(c) \/ NetStopped(c)

StopNet(c) ==
    \/ CloseTcp(c, "stopNet", "stopTcp") \/ TcpClosed(c, "stopTcp", "stopNet", ctxDone)
    \/ CloseHttp(c) \/ NetStopped(c)

StopDb(c) ==
    /\ At(c, "stopDb") /\ db' = [ready |-> FALSE] /\ Goto(c, "stopMq")
    /\ UNCHANGED <<config, state, ctxDone, gen, netVars, mq, monitorVars,
                   panicked, failed, finishing>>

StopQueue(c) ==
    /\ At(c, "stopMq") /\ StopMq
    /\ IF mq.closed THEN UNCHANGED pc ELSE Goto(c, "wait")
    /\ UNCHANGED <<config, state, ctxDone, gen, netVars, db, monitorVars,
                   failed, finishing>>

StopWait(c) ==
    /\ At(c, "wait") /\ wg = 0
    /\ state' = "Stopped" /\ Goto(c, "idle")
    /\ UNCHANGED <<config, ctxDone, gen, netVars, db, mq, monitorVars,
                   panicked, failed, finishing>>

-------------------------------------------------------------------------------
(* What runs in the background                                               *)

MonitorExit ==
    /\ panicked = "no" /\ monitors > 0 /\ ctxDone
    /\ monitors' = monitors - 1 /\ wg' = wg - 1
    /\ UNCHANGED <<config, state, pc, ctxDone, gen, netVars, db, mq,
                   panicked, failed, finishing>>

(* The queue's workers: they are told to end, or all are lost. *)
WorkersExit ==
    /\ panicked = "no" /\ mq.workers = "live"
    /\ \/ MqDone /\ mq' = [mq EXCEPT !.workers = "gone"]
       \/ mq' = [mq EXCEPT !.workers = "lost"]
    /\ UNCHANGED <<config, state, pc, ctxDone, gen, netVars, db, monitorVars, panicked,
                   failed, finishing>>

(* A worker's FIXED_RATE message: CheckServerConnections on the TCP server. *)
CheckBegin ==
    /\ panicked = "no" /\ mq.workers = "live" /\ checking = 0
    /\ "tcp" \in net.servers /\ \A c \in Callers : pc[c] \notin Locking
    /\ checking' = gen
    /\ UNCHANGED <<svcVars, pc, net, closing, tcpVars, http, hung>>

CheckEnd ==
    /\ panicked = "no" /\ checking # 0 /\ <<"check", checking>> \notin hung
    /\ checking' = 0
    /\ UNCHANGED <<svcVars, pc, net, closing, tcpVars, http, hung>>

(* The last goroutine of a TCP server whose listener is closed returns. *)
TcpEnds ==
    /\ panicked = "no"
    /\ \E g \in serving \ listening :
          <<"accept", g>> \notin hung /\ serving' = serving \ {g}
    /\ UNCHANGED <<svcVars, pc, net, closing, listening, http, checking, hung>>

(* What may never return: a Conn.Close in the idle check or in Server.Close, *)
(* when a SyncSend that failed to write keeps the Conn.mu of the connection; *)
(* and an accept loop that asks for an id without a deadline.  That it hangs *)
(* is told here once somebody may wait for it; TcpServer has how it comes.   *)
Hang ==
    /\ panicked = "no"
    /\ \/ checking # 0 /\ hung' = hung \cup {<<"check", checking>>}
       \/ closing = "tcp" /\ hung' = hung \cup {<<"close", gen>>}
       \/ \E g \in serving \ listening : hung' = hung \cup {<<"accept", g>>}
    /\ UNCHANGED <<svcVars, pc, net, closing, tcpVars, http, checking>>

HttpBecomes(g, h) ==
    /\ panicked = "no" /\ http' = [http EXCEPT ![g] = h]
    /\ UNCHANGED <<config, state, pc, ctxDone, gen, net, closing, tcpVars, checking, hung, db,
                   mq, monitorVars, failed, finishing>>

(* What runs of an HTTP server besides its Close. *)
HttpServe(g) ==
    \/ CanServe(http[g]) /\ HttpBecomes(g, ServeBegins(http[g])) /\ UNCHANGED panicked
    \/ CanEnd(http[g]) /\ HttpBecomes(g, ServeEnds(http[g])) /\ UNCHANGED panicked
    \/ http[g].serve = "ended" /\ HttpBecomes(g, ServeReturns(http[g])) /\ UNCHANGED panicked

HttpFails(g) ==
    CanFail(http[g]) /\ HttpBecomes(g, ServeFails(http[g])) /\ UNCHANGED panicked

(* serve without a listener panics, and its deferred function once more. *)
HttpCrashes(g) ==
    /\ http[g].serve = "born" /\ ~http[g].listener
    /\ HttpBecomes(g, ServeReturns(http[g])) /\ panicked' = "nil listener"

(* The clients of the server in use, from the end of Start on; those of a    *)
(* server that a failed Start leaves behind are left out.                    *)
HttpClient == \E h \in Client(http[gen]) : HttpBecomes(gen, h) /\ UNCHANGED panicked

(* Whoever has the server in use from GetNetworkServer calls RegisterRoute.  *)
Route ==
    \/ /\ "http" \in net.servers /\ CanAdd(http[gen])
       /\ \A c \in Callers : pc[c] \notin Locking
       /\ HttpBecomes(gen, RouteFirst(http[gen])) /\ UNCHANGED panicked
    \/ /\ http[gen].adding > 0 /\ HttpBecomes(gen, RouteSecond(http[gen]))
       /\ panicked' = IF Repeats(http[gen]) THEN "route again" ELSE panicked

StartStep(c) ==
    \/ InitComponents(c) \/ StartWorkers(c) \/ NetLock(c) \/ ListenNowhere(c)
    \/ \E t \in Types : SkipServer(c, t) \/ ListenOk(c, t) \/ ListenFails(c, t)
    \/ StartDb(c) \/ StartMonitoring(c) \/ SetRunning(c)
    \/ Rollback(c) \/ Cleanup(c)

StopStep(c) ==
    \/ StopCancel(c) \/ StopLock(c) \/ StopNet(c) \/ StopDb(c)
    \/ StopQueue(c) \/ StopWait(c)

Call(c) == StartCheck(c) \/ StopCheck(c) \/ StartStep(c) \/ StopStep(c)

Background ==
    \/ MonitorExit \/ WorkersExit \/ CheckBegin \/ CheckEnd \/ TcpEnds \/ Hang
    \/ \E c \in Callers : StartReturns(c)
    \/ \E g \in 1 .. gen : HttpServe(g) \/ HttpFails(g) \/ HttpCrashes(g)
    \/ state \in {"Running", "Stopping"} /\ gen <= MaxUsed /\ (HttpClient \/ Route)

Next == Background \/ \E c \in Callers : Call(c)

Spec == Init /\ [][Next]_vars

(* The caller inside Start or Stop, of whom there is one, goes on, and the   *)
(* goroutines it waits for get to run: the monitoring, a worker's check,     *)
(* serve, and TcpServer's.  None of this is fairness of what hangs: a step   *)
(* that may hang is enabled only until it does.                              *)
Fairness ==
    /\ WF_vars(MonitorExit) /\ WF_vars(CheckEnd) /\ WF_vars(TcpEnds)
    /\ WF_vars(\E g \in 1 .. gen : HttpServe(g))
    /\ WF_vars(\E c \in Callers : StartStep(c) \/ StopStep(c))
FairSpec == Spec /\ Fairness

-------------------------------------------------------------------------------
Labels == Locking \cup {"idle", "init", "workers", "db", "monitor", "started",
                         "cleanup", "cancel", "stopDb", "stopMq", "wait"}
Gens   == 1 .. MaxStarts

(* Every variable keeps its type: at most one monitoring goroutine for each  *)
(* Start, and never a negative wait group.                                   *)
TypeOK ==
    /\ config \in Configs
    /\ state \in {"Stopped", "Starting", "Running", "Stopping"}
    /\ pc \in [Callers -> Labels]
    /\ ctxDone \in BOOLEAN /\ gen \in 0 .. MaxStarts
    /\ net \in [ready : BOOLEAN, servers : SUBSET Types] /\ db \in [ready : BOOLEAN]
    /\ closing \in Types \cup {"none"}
    /\ listening \subseteq Gens /\ serving \subseteq Gens /\ checking \in 0 .. MaxStarts
    /\ \A g \in Gens : http[g] \in HTTPServer
    /\ hung \subseteq {"check", "close", "accept"} \X (0 .. MaxStarts)
    /\ mq \in [made : BOOLEAN, root : {"none", "service", "background"},
               closed : BOOLEAN, workers : WorkersAre]
    /\ monitors \in 0 .. MaxStarts /\ wg \in 0 .. MaxStarts
    /\ panicked \in {"no", "nil dereference", "close of closed channel",
                     "nil listener", "route again"}
    /\ failed \subseteq Gens /\ finishing \subseteq Callers

(* However many goroutines call Start and Stop, at most one is between the   *)
(* check of the state and the assignment that ends it, and exactly while the *)
(* state says so: checkAndSetState is the only lock the components' fields   *)
(* have (service.go:114-160, 178-208, 444-452).  startTime and OnStarted,    *)
(* which come after, are not in it.                                          *)
OneAtATime ==
    LET inside == {c \in Callers : pc[c] # "idle"}
    IN  /\ TypeOK
        /\ Cardinality(inside) <= 1
        /\ (inside # {}) <=> state \in {"Starting", "Stopping"}

(* What is made once for the process, the context and the queue, serves the  *)
(* first Start: while it runs the context is not done, the queue is open,    *)
(* and its workers, unless it is made for none, were started and not told to *)
(* end, so that those it lacks have panicked or hang; and its Stop or its    *)
(* cleanup, never both, closes the queue.  A later Start has no such promise *)
(* (service.go:95, global_mq.go:38, 73, 79-99).                              *)
FirstLifeIsWhole ==
    gen <= 1 =>
        /\ state = "Running" =>
              /\ ~ctxDone /\ ~mq.closed
              /\ config.mq # "idle" => mq.workers \in {"live", "lost"}
        /\ panicked # "close of closed channel"

(* The HTTP server listens and its health is true, and its mux has the route *)
(* that is in its routes, unless its Serve returned by itself, which nobody  *)
(* is told: of such a server nothing is said.                                *)
HttpIsWhole(h) ==
    h.gaveUp \/ (Listens(h) /\ h.isRunning /\ (h.routed /\ h.adding = 0 => h.muxed))

(* A running service has these parts, whatever failed on the way: in every   *)
(* life the database, although the error of Init is dropped, and the servers *)
(* that are enabled, each with a listener unless the HTTP server gave up; in *)
(* the first also the queue and its workers (service.go:112-175).            *)
RunningHasItsParts ==
    /\ FirstLifeIsWhole
    /\ state = "Running" =>
          /\ db.ready /\ net.ready /\ net.servers = config.enabled
          /\ "tcp" \in config.enabled => gen \in listening
          /\ "http" \in config.enabled => HttpIsWhole(http[gen])

(* When the network manager's Start fails, the servers it had started are    *)
(* gone, listener and goroutines, before the service cleans up.              *)
FailedNetIsRolledBack ==
    \A c \in Callers : pc[c] = "cleanup" /\ ~net.ready =>
        gen \notin listening \cup serving /\ ~Listens(http[gen])

(* Whatever listens belongs to the components in use, or to a Start that     *)
(* failed; or Stop was faster than the goroutine of Listen, which has still  *)
(* to run and will find that the server is shut down.                        *)
OnlyFailedStartsListen ==
    \A g \in Gens :
        g \in listening \/ Listens(http[g]) =>
            \/ g \in failed \/ (g = gen /\ state # "Stopped")
            \/ g \notin listening /\ http[g].serve = "born" /\ http[g].inShutdown

(* A stopped service has no monitoring goroutine, so the next Start never    *)
(* adds a second one.                                                        *)
OneMonitor ==
    /\ monitors <= 1 /\ wg = monitors
    /\ state = "Stopped" => monitors = 0

(* Neither a rollback nor a Stop leaves anything of its own running: no      *)
(* listener that a failed Start has not left, no monitoring goroutine        *)
(* (network/manager.go:91-102, 154-197, service.go:177-212).                 *)
StopLeavesNothing == FailedNetIsRolledBack /\ OnlyFailedStartsListen /\ OneMonitor

(* The idle check never works on a TCP server that a Stop is closing or has  *)
(* closed, though it runs in the queue's workers, which Stop leaves for the  *)
(* last: the manager's lock keeps the two apart (network/manager.go:154-232).*)
ChecksOpenServers == checking # 0 => checking \in listening

(* Once Close of the HTTP server has returned no connection is left to carry *)
(* a new request: what was idle or answering is closed, although the context *)
(* that Shutdown waits under is already done; a handler that runs is on its  *)
(* own.  Not so when Serve had returned by itself, for then Close does       *)
(* nothing (http_net/server.go:148-176, 203-228).                            *)
ClosedHttpIsQuiet ==
    \A g \in Gens : http[g].closed /\ ~http[g].gaveUp =>
        /\ http[g].serve # "serving"
        /\ \A k \in Clients : http[g].conns[k] \in {"none", "cut"}

(* A Start or a Stop that is let in comes to its next state, though the      *)
(* rollback waits under no timeout and Stop for contexts it has cancelled    *)
(* itself, unless one of three hangs: Server.Close at a connection whose     *)
(* Conn.mu is kept; Stop at the manager's lock, for a check that hangs at    *)
(* such a connection; a rollback, for an accept loop that waits for its id   *)
(* (network/manager.go:96, 154, 222, tcp_net/server.go:98, 106, 137, 233).   *)
CallsReturn ==
    state \in {"Starting", "Stopping"} ~>
        \/ state \in {"Stopped", "Running"} \/ panicked # "no"
        \/ <<"close", gen>> \in hung
        \/ <<"check", gen>> \in hung /\ \E c \in Callers : pc[c] = "stopLock"
        \/ <<"accept", gen>> \in hung /\ \E c \in Callers : pc[c] = "rollbackWait"
===============================================================================
