----------------------------- MODULE ServiceProofs -----------------------------
(***************************************************************************)
(* Theorems about the life of the service, for any callers of Start and    *)
(* Stop, configurations, HTTP connections and number of starts.            *)
(***************************************************************************)
EXTENDS Service, FiniteSetTheorems, TLAPS

(* Where the caller is that is inside Start or Stop. *)
Stage ==
    IF \E c \in Callers : pc[c] # "idle"
    THEN pc[CHOOSE c \in Callers : pc[c] # "idle"]
    ELSE "idle"

-------------------------------------------------------------------------------
(* The inductive invariant, part by part.                                   *)

FreshStages == {"workers", "netLock", "tcp", "http"}
NetStages   == FreshStages \cup {"rollback", "rollbackWait"}
StartStages == NetStages \cup {"init", "db", "monitor", "started", "cleanup"}
CloseStages == {"stopNet", "stopTcp", "stopHttp", "httpWait"}
HttpWaits   == {"stopHttp", "httpWait"}
DownStages  == {"stopDb", "stopMq", "wait"}
StopStages  == CloseStages \cup DownStages \cup {"cancel", "stopLock"}

(* The caller has the network manager's lock. *)
HeldStages  == Locking \ {"netLock", "stopLock"}

(* The network manager's Start has not come to its end, or has failed.      *)
Rolling == Stage \in NetStages \/ (Stage = "cleanup" /\ ~net.ready)

(* The stages at which a Start that has come so far will be running, and    *)
(* the running service.                                                     *)
Since(S) == Stage \in S \/ state = "Running"

(* One caller is inside, and the state says of which call.                  *)
Turns ==
    /\ pc \in [Callers -> Labels]
    /\ state \in {"Stopped", "Starting", "Running", "Stopping"}
    /\ \A c, d \in Callers : pc[c] # "idle" /\ pc[d] # "idle" => c = d
    /\ (state = "Starting") <=> Stage \in StartStages
    /\ (state = "Stopping") <=> Stage \in StopStages

(* How many sets of components there are. *)
Counted ==
    /\ gen \in 0 .. MaxStarts
    /\ Stage = "init" => gen < MaxStarts
    /\ gen = 0 => Stage \in {"idle", "init"} /\ state # "Running"

MonitorInv ==
    /\ monitors \in {0, 1} /\ wg = monitors
    /\ Stage \in StartStages \ {"started"} \/ state = "Stopped" => monitors = 0

(* What the context, the queue and the database are during a life.          *)
LifeInv ==
    /\ ctxDone \in BOOLEAN /\ db \in [ready : BOOLEAN]
    /\ mq \in [made : BOOLEAN, root : {"none", "service", "background"},
               closed : BOOLEAN, workers : WorkersAre]
    /\ panicked \in {"no", "nil dereference", "close of closed channel",
                     "nil listener", "route again"}
    /\ gen = 0 => ~ctxDone /\ ~mq.closed
    /\ gen <= 1 =>
          /\ Since(StartStages \ {"init"}) => ~ctxDone /\ ~mq.closed
          /\ Stage \in StopStages \ {"wait"} => ~mq.closed
          /\ panicked # "close of closed channel"
    /\ Since({"netLock", "tcp", "http", "db", "monitor", "started"}) /\ config.mq # "idle" =>
          mq.workers # "none"
    /\ mq.workers = "gone" => ctxDone \/ mq.closed
    /\ Since({"monitor", "started"}) => db.ready

(* The servers that the network manager has, by stage. *)
ServersInv ==
    /\ config \in Configs
    /\ net \in [ready : BOOLEAN, servers : SUBSET Types]
    /\ closing \in Types \cup {"none"}
    /\ gen = 0 => net.servers = {}
    /\ Stage \in {"workers", "netLock", "tcp"} => net.servers = {}
    /\ Stage = "http" => net.servers = config.enabled \ {"http"}
    /\ Since({"db", "monitor", "started", "cancel", "stopLock"}) =>
          net.ready /\ net.servers = config.enabled
    /\ Stage \in NetStages => ~net.ready /\ "http" \notin net.servers
    /\ Stage \in DownStages \/ (Stage = "cleanup" /\ ~net.ready) => net.servers = {}

(* The listener of a TCP server that the manager has is open, unless it is   *)
(* being closed, and nobody checks it then.                                  *)
TcpInv ==
    /\ listening \subseteq 1 .. gen /\ serving \subseteq 1 .. gen
    /\ "tcp" \in net.servers => gen \in listening \/ Stage \in {"rollbackWait", "stopTcp"}
    /\ Stage \in {"rollbackWait", "stopTcp"} => gen \notin listening
    /\ gen \in listening => "tcp" \in net.servers
    /\ Rolling => (gen \in serving => "tcp" \in net.servers)
    /\ checking \in 0 .. MaxStarts
    /\ checking # 0 => checking \in listening
    /\ Stage \in HeldStages => checking # gen

(* An HTTP server that the manager has and that no Stop has reached yet.     *)
HttpUp(h) ==
    /\ h.listener /\ ~h.inShutdown /\ h.serve # "none"
    /\ h.serve \in {"ended", "gone"} <=> h.gaveUp
    /\ HttpIsWhole(h)

(* One that no longer listens, or that will find itself shut down.           *)
HttpDown(h) == Listens(h) => h.serve = "born" /\ h.inShutdown

(* One that Close has closed. *)
HttpQuiet(h) ==
    h.closed /\ ~h.gaveUp =>
        /\ h.inShutdown /\ h.serve # "serving"
        /\ \A k \in Clients : h.conns[k] \in {"none", "cut"}

HttpInv ==
    /\ http \in [Gens -> HTTPServer]
    /\ \A g \in Gens : HttpQuiet(http[g])
    /\ \A g \in Gens : g > gen => http[g] = NewHTTPServer
    /\ Stage \in FreshStages => http[gen] = NewHTTPServer
    /\ Rolling => ~http[gen].listener
    /\ "http" \in net.servers /\ Stage \notin HttpWaits => HttpUp(http[gen])
    /\ Stage = "httpWait" => http[gen].inShutdown
    /\ gen > 0 /\ "http" \notin net.servers => HttpDown(http[gen])

(* What an earlier set of components has left listening.                     *)
LeftInv ==
    /\ failed \subseteq Gens
    /\ \A g \in Gens :
          \/ g \in failed
          \/ g \notin listening /\ HttpDown(http[g])
          \/ g = gen /\ state # "Stopped" /\ Stage # "init"

(* Types of what no other part speaks of. *)
HangInv ==
    /\ hung \subseteq {"check", "close", "accept"} \X (0 .. MaxStarts)
    /\ finishing \subseteq Callers

SvcInv ==
    /\ Turns /\ Counted /\ MonitorInv /\ LifeInv /\ ServersInv /\ TcpInv
    /\ HttpInv /\ LeftInv /\ HangInv

-------------------------------------------------------------------------------
(* Steps and stages. *)
LEMMA StageIsOfCaller ==
    ASSUME NEW c \in Callers, pc[c] # "idle",
           \A d, e \in Callers : pc[d] # "idle" /\ pc[e] # "idle" => d = e
    PROVE  Stage = pc[c]
<1> DEFINE in == CHOOSE d \in Callers : pc[d] # "idle"
<1>1. in \in Callers /\ pc[in] # "idle"
  OBVIOUS
<1>2. in = c
  BY <1>1
<1>3. Stage = pc[in]
  BY DEF Stage
<1> QED
  BY <1>2, <1>3

LEMMA StageIsIdle ==
    Stage = "idle" <=> \A c \in Callers : pc[c] = "idle"
<1>1. ASSUME NEW c \in Callers, pc[c] # "idle"
      PROVE  Stage # "idle"
  <2> DEFINE in == CHOOSE d \in Callers : pc[d] # "idle"
  <2>1. pc[in] # "idle"
    BY <1>1
  <2>2. Stage = pc[in]
    BY <1>1 DEF Stage
  <2> QED
    BY <2>1, <2>2
<1> QED
  BY <1>1 DEF Stage

(* A step of a call is one of the caller that is inside, or of the first.    *)
LEMMA StageMoves ==
    ASSUME Turns, NEW c \in Callers, Call(c)
    PROVE  /\ \A l : At(c, l) => Stage = l /\ panicked = "no"
           /\ \A l \in Labels : Goto(c, l) =>
                 /\ Stage' = l /\ pc' \in [Callers -> Labels]
                 /\ \A d, e \in Callers : pc'[d] # "idle" /\ pc'[e] # "idle" => d = e
           /\ UNCHANGED pc => Stage' = Stage
<1>0. /\ pc \in [Callers -> Labels]
      /\ \A d, e \in Callers : pc[d] # "idle" /\ pc[e] # "idle" => d = e
  BY DEF Turns
<1>1. pc[c] # "idle" \/ Stage = "idle"
  <2>1. CASE StartCheck(c) \/ StopCheck(c)
    <3>1. state \in {"Stopped", "Running"}
      BY <2>1 DEF StartCheck, StopCheck
    <3>2. Stage \notin StartStages /\ Stage \notin StopStages
      BY <3>1 DEF Turns
    <3>3. Stage \in Labels
      BY <1>0 DEF Stage, Labels
    <3> QED
      BY <3>2, <3>3 DEF Labels, Locking, StartStages, NetStages, FreshStages, StopStages, CloseStages, DownStages
  <2>2. CASE StartStep(c)
    BY <2>2 DEF StartStep, InitComponents, StartWorkers, NetLock, ListenNowhere, SkipServer,
                ListenOk, ListenFails, StartDb, StartMonitoring, SetRunning, Rollback,
                CloseTcp, TcpClosed, Cleanup, At, Types
  <2>3. CASE StopStep(c)
    BY <2>3 DEF StopStep, StopCancel, StopLock, StopNet, StopDb, StopQueue, StopWait,
                CloseTcp, TcpClosed, CloseHttp, HttpStep, HttpClosed, NetStopped, At
  <2> QED
    BY <2>1, <2>2, <2>3 DEF Call
<1>2. Stage = pc[c]
  BY <1>0, <1>1, StageIsOfCaller, StageIsIdle
<1>3. ASSUME NEW l \in Labels, Goto(c, l)
      PROVE  /\ Stage' = l /\ pc' \in [Callers -> Labels]
             /\ \A d, e \in Callers : pc'[d] # "idle" /\ pc'[e] # "idle" => d = e
  <2>1. pc' \in [Callers -> Labels] /\ pc'[c] = l /\ \A d \in Callers : d # c => pc'[d] = pc[d]
    BY <1>0, <1>3 DEF Goto
  <2>2. \A d \in Callers : d # c => pc'[d] = "idle"
    BY <1>0, <1>1, <2>1, StageIsIdle
  <2>3. \A d, e \in Callers : pc'[d] # "idle" /\ pc'[e] # "idle" => d = e
    BY <2>2
  <2>4. CASE l = "idle"
    <3>1. \A d \in Callers : pc'[d] = "idle"
      BY <2>1, <2>2, <2>4
    <3> QED
      BY <2>1, <2>3, <2>4, <3>1 DEF Stage
  <2>5. CASE l # "idle"
    <3> DEFINE in == CHOOSE d \in Callers : pc'[d] # "idle"
    <3>1. in = c
      BY <2>1, <2>3, <2>5
    <3>2. Stage' = pc'[in]
      BY <2>1, <2>5 DEF Stage
    <3> QED
      BY <2>1, <2>3, <3>1, <3>2
  <2> QED
    BY <2>4, <2>5
<1> QED
  BY <1>2, <1>3 DEF At, Stage

(* What runs in the background leaves the callers where they are.            *)
LEMMA BackgroundStage ==
    ASSUME Background \/ UNCHANGED vars
    PROVE  UNCHANGED <<config, state, pc, ctxDone, gen, net, closing, db, failed>> /\ Stage' = Stage
<1>1. CASE UNCHANGED vars
  BY <1>1 DEF vars, svcVars, netVars, Stage
<1>2. CASE \/ MonitorExit \/ WorkersExit \/ CheckBegin \/ CheckEnd \/ TcpEnds \/ Hang
           \/ \E c \in Callers : StartReturns(c)
  BY <1>2 DEF MonitorExit, WorkersExit, CheckBegin, CheckEnd, TcpEnds, Hang, StartReturns,
              svcVars, netVars,
              tcpVars, monitorVars, Stage
<1>3. ASSUME NEW g, NEW h, HttpBecomes(g, h)
      PROVE  UNCHANGED <<config, state, pc, ctxDone, gen, net, closing, db, failed>> /\ Stage' = Stage
  BY <1>3 DEF HttpBecomes, Stage
<1>4. CASE \/ \E g \in 1 .. gen : HttpServe(g) \/ HttpFails(g) \/ HttpCrashes(g)
           \/ HttpClient \/ Route
  BY <1>3, <1>4 DEF HttpServe, HttpFails, HttpCrashes, HttpClient, Route
<1> QED
  BY <1>1, <1>2, <1>4 DEF Background

-------------------------------------------------------------------------------
(* One caller at a time. *)
LEMMA CallTurns ==
    ASSUME Turns, Counted, NEW c \in Callers, Call(c)
    PROVE  Turns' /\ Counted'
<1> USE DEF Labels, Locking, StartStages, NetStages, FreshStages, StopStages, CloseStages, DownStages
<1>0. /\ \A l : At(c, l) => Stage = l /\ panicked = "no"
      /\ \A l \in Labels : Goto(c, l) => Stage' = l
      /\ UNCHANGED pc => Stage' = Stage
      /\ \A l \in Labels : Goto(c, l) =>
            /\ pc' \in [Callers -> Labels]
            /\ \A d, e \in Callers : pc'[d] # "idle" /\ pc'[e] # "idle" => d = e
  BY StageMoves
<1>1. /\ pc' \in [Callers -> Labels]
      /\ \A d, e \in Callers : pc'[d] # "idle" /\ pc'[e] # "idle" => d = e
  <2>1. UNCHANGED pc \/ \E l \in Labels : Goto(c, l)
    <3> USE DEF Types
    <3>1. CASE StartCheck(c) \/ StopCheck(c)
      BY <3>1 DEF StartCheck, StopCheck
    <3>2. CASE \/ InitComponents(c) \/ StartWorkers(c) \/ NetLock(c) \/ ListenNowhere(c)
               \/ StartDb(c) \/ StartMonitoring(c) \/ SetRunning(c) \/ Cleanup(c)
      BY <3>2 DEF InitComponents, StartWorkers, NetLock, ListenNowhere, StartDb,
                  StartMonitoring, SetRunning, Cleanup
    <3>3. ASSUME NEW t \in Types, SkipServer(c, t) \/ ListenOk(c, t) \/ ListenFails(c, t)
          PROVE  \E l \in Labels : Goto(c, l)
      BY <3>3 DEF SkipServer, ListenOk, ListenFails, AfterServer
    <3>4. CASE Rollback(c)
      BY <3>4 DEF Rollback, CloseTcp, TcpClosed
    <3>5. CASE StopStep(c)
      BY <3>5 DEF StopStep, StopCancel, StopLock, StopNet, StopDb, StopQueue, StopWait,
                  CloseTcp, TcpClosed, CloseHttp, HttpStep, HttpClosed, NetStopped
    <3> QED
      BY <3>1, <3>2, <3>3, <3>4, <3>5 DEF Call, StartStep
  <2> QED
    BY <1>0, <2>1 DEF Turns
<1>2. /\ state' \in {"Stopped", "Starting", "Running", "Stopping"}
      /\ (state' = "Starting") <=> Stage' \in StartStages
      /\ (state' = "Stopping") <=> Stage' \in StopStages
      /\ gen' \in 0 .. MaxStarts
      /\ Stage' = "init" => gen' < MaxStarts
      /\ gen' = 0 => Stage' \in {"idle", "init"} /\ state' # "Running"
  <2>0. gen \in Nat /\ MaxStarts \in Nat
    BY ParametersAssumption DEF Counted
  <2> USE <1>0, <2>0 DEF Turns, Counted, svcVars
  <2>1. CASE StartCheck(c) \/ StopCheck(c)
    BY <2>1 DEF StartCheck, StopCheck
  <2>2. CASE InitComponents(c)
    BY <2>2 DEF InitComponents
  <2>3. CASE StartWorkers(c) \/ NetLock(c)
    <3>1. /\ UNCHANGED <<state, gen>>
          /\ Stage \in {"workers", "netLock"} /\ Stage' \in {"workers", "netLock", "tcp"}
      <4>1. CASE StartWorkers(c)
        <5>1. At(c, "workers") /\ UNCHANGED <<state, gen>> /\ (UNCHANGED pc \/ Goto(c, "netLock"))
          BY ONLY <4>1 DEF StartWorkers
        <5> QED
          BY <5>1
      <4>2. CASE NetLock(c)
        BY <4>2 DEF NetLock
      <4> QED
        BY <2>3, <4>1, <4>2
    <3> QED
      BY <3>1
  <2>4. CASE ListenNowhere(c) \/ StartDb(c) \/ StartMonitoring(c)
    <3>1. /\ UNCHANGED <<state, gen>>
          /\ Stage \in {"http", "db", "monitor"}
          /\ Stage' \in {"rollback", "monitor", "cleanup", "started"}
      BY <2>4 DEF ListenNowhere, StartDb, StartMonitoring
    <3> QED
      BY <3>1
  <2>5. CASE SetRunning(c)
    BY <2>5 DEF SetRunning
  <2>6. CASE Cleanup(c)
    BY <2>6 DEF Cleanup
  <2>7. ASSUME NEW t \in Types, SkipServer(c, t) \/ ListenOk(c, t) \/ ListenFails(c, t)
        PROVE  Stage \in {"tcp", "http"} /\ Stage' \in {"http", "db", "rollback"} /\ UNCHANGED <<state, gen>>
    BY <2>7 DEF SkipServer, ListenOk, ListenFails, AfterServer, Types
  <2>8. CASE \E t \in Types : SkipServer(c, t) \/ ListenOk(c, t) \/ ListenFails(c, t)
    BY <2>7, <2>8
  <2>9. CASE Rollback(c)
    BY <2>9 DEF Rollback, CloseTcp, TcpClosed
  <2>10. CASE StopCancel(c) \/ StopLock(c) \/ StopDb(c) \/ StopQueue(c)
    BY <2>10 DEF StopCancel, StopLock, StopDb, StopQueue
  <2>11. CASE StopNet(c)
    BY <2>11 DEF StopNet, CloseTcp, TcpClosed, CloseHttp, HttpStep, HttpClosed, NetStopped
  <2>12. CASE StopWait(c)
    BY <2>12 DEF StopWait
  <2> QED
    BY <2>1, <2>2, <2>3, <2>4, <2>5, <2>6, <2>8, <2>9, <2>10, <2>11, <2>12
       DEF Call, StartStep, StopStep
<1> QED
  BY <1>1, <1>2 DEF Turns, Counted

LEMMA NextTurns ==
    ASSUME Turns, Counted, [Next]_vars
    PROVE  Turns' /\ Counted'
<1>1. CASE Background \/ UNCHANGED vars
  BY <1>1, BackgroundStage DEF Turns, Counted
<1> QED
  BY <1>1, CallTurns DEF Next

-------------------------------------------------------------------------------
(* The monitoring goroutine. *)
LEMMA CallMonitor ==
    ASSUME Turns, MonitorInv, NEW c \in Callers, Call(c)
    PROVE  MonitorInv'
<1> USE DEF Labels, Locking, StartStages, NetStages, FreshStages
<1>0. /\ \A l : At(c, l) => Stage = l
      /\ \A l \in Labels : Goto(c, l) => Stage' = l
      /\ UNCHANGED pc => Stage' = Stage
  BY StageMoves
<1> USE <1>0 DEF MonitorInv, svcVars, monitorVars
<1>1. CASE StartCheck(c) \/ StopCheck(c)
  BY <1>1 DEF StartCheck, StopCheck
<1>2. CASE InitComponents(c) \/ StartWorkers(c) \/ NetLock(c) \/ ListenNowhere(c) \/ StartDb(c)
  BY <1>2 DEF InitComponents, StartWorkers, NetLock, ListenNowhere, StartDb
<1>3. CASE StartMonitoring(c)
  BY <1>3 DEF StartMonitoring, Turns
<1>4. CASE SetRunning(c) \/ Cleanup(c)
  BY <1>4 DEF SetRunning, Cleanup, Turns
<1>5. ASSUME NEW t \in Types, SkipServer(c, t) \/ ListenOk(c, t) \/ ListenFails(c, t)
      PROVE  MonitorInv'
  BY <1>5 DEF SkipServer, ListenOk, ListenFails, AfterServer, Types
<1>6. CASE Rollback(c)
  BY <1>6 DEF Rollback, CloseTcp, TcpClosed
<1>7. CASE StopCancel(c) \/ StopLock(c) \/ StopDb(c) \/ StopQueue(c) \/ StopWait(c)
  BY <1>7 DEF StopCancel, StopLock, StopDb, StopQueue, StopWait
<1>8. CASE StopNet(c)
  BY <1>8 DEF StopNet, CloseTcp, TcpClosed, CloseHttp, HttpStep, HttpClosed, NetStopped
<1> QED
  BY <1>1, <1>2, <1>3, <1>4, <1>5, <1>6, <1>7, <1>8 DEF Call, StartStep, StopStep

LEMMA NextMonitor ==
    ASSUME Turns, MonitorInv, [Next]_vars
    PROVE  MonitorInv'
<1>1. CASE Background \/ UNCHANGED vars
  <2>1. UNCHANGED <<state, pc>> /\ Stage' = Stage
    BY <1>1, BackgroundStage
  <2>2. UNCHANGED monitorVars \/ MonitorExit
    BY <1>1 DEF Background, WorkersExit, CheckBegin, CheckEnd, TcpEnds, Hang,
                StartReturns, HttpServe, HttpFails,
                HttpCrashes, HttpClient, Route, HttpBecomes, vars, svcVars
  <2> QED
    BY <2>1, <2>2 DEF MonitorInv, MonitorExit, monitorVars
<1> QED
  BY <1>1, CallMonitor DEF Next

-------------------------------------------------------------------------------
(* The context, the queue and the database. *)
LifeVars == <<config, ctxDone, gen, db, mq, panicked>>

(* Stages at which none of them changes hands.                              *)
LEMMA LifeRests ==
    ASSUME LifeInv, UNCHANGED LifeVars,
           Since(StartStages \ {"init"})' /\ gen <= 1 => Since(StartStages \ {"init"}),
           Stage' \in StopStages \ {"wait"} /\ gen <= 1 =>
               Stage \in StopStages \ {"wait"} \/ state = "Running",
           Since({"netLock", "tcp", "http", "db", "monitor", "started"})'
               => Since({"netLock", "tcp", "http", "db", "monitor", "started"}),
           Since({"monitor", "started"})' => Since({"monitor", "started"}) \/ db.ready
    PROVE  LifeInv'
BY ZenonT(30) DEF LifeInv, LifeVars, Since

LEMMA CallLife ==
    ASSUME Turns, Counted, LifeInv, NEW c \in Callers, Call(c)
    PROVE  LifeInv'
<1> USE DEF Labels, Locking, StartStages, NetStages, FreshStages, StopStages, CloseStages, DownStages
<1>0. /\ \A l : At(c, l) => Stage = l /\ panicked = "no"
      /\ \A l \in Labels : Goto(c, l) => Stage' = l
      /\ UNCHANGED pc => Stage' = Stage
      /\ gen \in Nat
  BY StageMoves, ParametersAssumption DEF Counted
<1>1. CASE StartCheck(c)
  <2>1. /\ UNCHANGED LifeVars /\ Stage = "idle" /\ Stage' = "init"
        /\ state' = "Starting"
    BY <1>0, <1>1 DEF StartCheck, LifeVars
  <2> QED
    BY <2>1, LifeRests DEF Since
<1>2. CASE StopCheck(c)
  <2>1. /\ UNCHANGED LifeVars /\ state = "Running" /\ Stage' = "cancel"
        /\ state' = "Stopping"
    BY <1>0, <1>2 DEF StopCheck, LifeVars
  <2> QED
    BY <2>1, LifeRests DEF Since
<1>3. CASE InitComponents(c)
  <2>1. /\ gen' = gen + 1 /\ UNCHANGED <<state, config, ctxDone, panicked>>
        /\ At(c, "init") /\ Goto(c, "workers")
    BY <1>3 DEF InitComponents
  <2>2. mq' = NewMq("service") \/ mq' = mq
    BY <1>3 DEF InitComponents
  <2>3. db' \in [ready : BOOLEAN]
    <3>1. InitOutcomes \subseteq BOOLEAN
      BY DEF InitOutcomes
    <3> QED
      BY <1>3, <3>1 DEF InitComponents
  <2>4. Stage = "init" /\ Stage' = "workers" /\ panicked = "no" /\ state = "Starting"
    BY <1>0, <2>1 DEF Turns
  <2>5. /\ mq'.closed => mq.closed
        /\ mq'.workers = "gone" => ctxDone \/ mq'.closed
        /\ mq' \in [made : BOOLEAN, root : {"none", "service", "background"},
                    closed : BOOLEAN, workers : WorkersAre]
    BY <2>2 DEF LifeInv, NewMq, NoMq, WorkersAre
  <2>6. gen' # 0 /\ (gen' <= 1 => ~ctxDone' /\ ~mq'.closed)
    <3>1. gen' # 0 /\ (gen' <= 1 => gen = 0)
      BY <1>0, <2>1
    <3>2. gen = 0 => ~ctxDone /\ ~mq.closed
      BY DEF LifeInv
    <3> QED
      BY <2>1, <2>5, <3>1, <3>2
  <2>7. ~Since({"netLock", "tcp", "http", "db", "monitor", "started"})'
        /\ ~Since({"monitor", "started"})'
    BY <2>1, <2>4 DEF Since
  <2> QED
    BY <2>1, <2>3, <2>4, <2>5, <2>6, <2>7 DEF LifeInv
<1>4. CASE StartWorkers(c)
  <2> DEFINE q == IF mq.made THEN mq ELSE NewMq("background")
  <2>1. /\ q \in [made : BOOLEAN, root : {"none", "service", "background"},
                  closed : BOOLEAN, workers : WorkersAre]
        /\ (q.closed => mq.closed) /\ (q.workers = "gone" => ctxDone \/ q.closed)
    BY DEF LifeInv, NewMq, NoMq, WorkersAre
  <2> DEFINE r == IF q.workers # "none" \/ config.mq = "idle" THEN q
                  ELSE [q EXCEPT !.workers = "live"]
  <2>2. /\ Stage = "workers" /\ UNCHANGED <<state, config, gen, ctxDone, db>>
        /\ \/ /\ mq' = q /\ panicked' = "nil dereference" /\ Stage' = "workers"
           \/ /\ mq' = r /\ Stage' = "netLock" /\ panicked' = panicked
    <3>1. At(c, "workers") /\ UNCHANGED <<state, config, gen, ctxDone, db>>
      BY <1>4 DEF StartWorkers
    <3>2. \/ mq' = q /\ panicked' = "nil dereference" /\ UNCHANGED pc
          \/ /\ mq' = r /\ Goto(c, "netLock") /\ panicked' = panicked
      BY <1>4 DEF StartWorkers
    <3> HIDE DEF q, r
    <3> QED
      BY <1>0, <3>1, <3>2
  <2> HIDE DEF q
  <2>3. /\ mq' \in [made : BOOLEAN, root : {"none", "service", "background"},
                    closed : BOOLEAN, workers : WorkersAre]
        /\ mq'.closed => mq.closed
        /\ mq'.workers = "gone" => ctxDone' \/ mq'.closed
        /\ Stage' = "netLock" /\ config'.mq # "idle" => mq'.workers # "none"
    BY <2>1, <2>2 DEF WorkersAre
  <2>4. state = "Starting" /\ gen # 0
    BY <2>2 DEF Turns, Counted
  <2>5. gen <= 1 => ~ctxDone /\ ~mq.closed /\ panicked # "close of closed channel"
    BY <2>2 DEF LifeInv, Since
  <2>6. panicked' \in {"no", "nil dereference", "close of closed channel",
                       "nil listener", "route again"}
    BY <2>2 DEF LifeInv
  <2> QED
    BY <2>2, <2>3, <2>4, <2>5, <2>6 DEF LifeInv, Since
<1>5. CASE NetLock(c) \/ ListenNowhere(c) \/ StartMonitoring(c)
           \/ \E t \in Types : SkipServer(c, t) \/ ListenOk(c, t) \/ ListenFails(c, t)
  <2>1. /\ UNCHANGED LifeVars /\ UNCHANGED state
    BY <1>5 DEF NetLock, ListenNowhere, StartMonitoring, SkipServer, ListenOk, ListenFails,
                LifeVars, svcVars
  <2>2. /\ Stage \in {"netLock", "tcp", "http", "monitor"}
        /\ Stage' \in {"tcp", "http", "db", "rollback", "started"}
        /\ Stage' = "started" => Stage = "monitor"
    BY <1>0, <1>5 DEF NetLock, ListenNowhere, StartMonitoring, SkipServer, ListenOk, ListenFails,
                      Types, AfterServer
  <2> QED
    BY <2>1, <2>2, LifeRests DEF Since
<1>6. CASE StartDb(c)
  <2>1. /\ UNCHANGED LifeVars /\ UNCHANGED state /\ Stage = "db"
        /\ Stage' = IF db.ready THEN "monitor" ELSE "cleanup"
    BY <1>0, <1>6 DEF StartDb, LifeVars, svcVars
  <2> QED
    BY <2>1, LifeRests DEF Since
<1>7. CASE SetRunning(c)
  <2>1. /\ UNCHANGED LifeVars /\ state' = "Running" /\ Stage = "started" /\ Stage' = "idle"
    BY <1>0, <1>7 DEF SetRunning, LifeVars
  <2> QED
    BY <2>1, LifeRests DEF Since
<1>8. CASE Rollback(c)
  <2>1. /\ UNCHANGED LifeVars /\ UNCHANGED state
        /\ Stage \in {"rollback", "rollbackWait"} /\ Stage' \in {"rollback", "rollbackWait", "cleanup"}
    BY <1>0, <1>8 DEF Rollback, CloseTcp, TcpClosed, LifeVars, svcVars
  <2> QED
    BY <2>1, LifeRests DEF Since
<1>9. CASE Cleanup(c)
  <2>1. /\ Stage = "cleanup" /\ UNCHANGED <<config, gen, ctxDone>>
        /\ mq' = [mq EXCEPT !.closed = TRUE] /\ db' = [ready |-> FALSE]
        /\ panicked' = IF mq.closed THEN "close of closed channel" ELSE panicked
        /\ mq.closed => UNCHANGED state /\ Stage' = Stage
        /\ ~mq.closed => state' = "Stopped" /\ Stage' = "idle"
    BY <1>0, <1>9 DEF Cleanup, StopMq
  <2>2. state = "Starting" /\ gen # 0 /\ (gen <= 1 => ~mq.closed)
    BY <2>1 DEF Turns, Counted, LifeInv, Since
  <2> QED
    BY <2>1, <2>2 DEF LifeInv, Since
<1>10. CASE StopCancel(c)
  <2>1. /\ Stage = "cancel" /\ Stage' = "stopLock" /\ ctxDone' = TRUE
        /\ UNCHANGED <<config, gen, db, mq, panicked, state>>
    BY <1>0, <1>10 DEF StopCancel
  <2>2. state = "Stopping" /\ gen # 0
    BY <2>1 DEF Turns, Counted
  <2> QED
    BY <2>1, <2>2 DEF LifeInv, Since
<1>11. CASE StopLock(c) \/ StopNet(c)
  <2>1. /\ UNCHANGED LifeVars /\ UNCHANGED state
        /\ Stage \in StopStages \ {"wait"} /\ Stage' \in StopStages \ {"wait"}
    BY <1>0, <1>11 DEF StopLock, StopNet, CloseTcp, TcpClosed, CloseHttp, HttpStep, HttpClosed,
                       NetStopped, LifeVars, svcVars
  <2> QED
    BY <2>1, LifeRests DEF Since
<1>12. CASE StopDb(c)
  <2>1. /\ Stage = "stopDb" /\ Stage' = "stopMq" /\ db' = [ready |-> FALSE]
        /\ UNCHANGED <<config, gen, ctxDone, mq, panicked, state>>
    BY <1>0, <1>12 DEF StopDb
  <2>2. state = "Stopping"
    BY <2>1 DEF Turns
  <2> QED
    BY <2>1, <2>2 DEF LifeInv, Since
<1>13. CASE StopQueue(c)
  <2>1. /\ Stage = "stopMq" /\ UNCHANGED <<config, gen, ctxDone, db, state>>
        /\ mq' = [mq EXCEPT !.closed = TRUE]
        /\ panicked' = IF mq.closed THEN "close of closed channel" ELSE panicked
        /\ Stage' \in {"stopMq", "wait"} /\ (~mq.closed => Stage' = "wait")
    <3>1. /\ At(c, "stopMq") /\ UNCHANGED <<config, gen, ctxDone, db, state>>
          /\ mq' = [mq EXCEPT !.closed = TRUE]
          /\ panicked' = IF mq.closed THEN "close of closed channel" ELSE panicked
      BY <1>13 DEF StopQueue, StopMq
    <3>2. CASE mq.closed
      <4>1. UNCHANGED pc
        BY <1>13, <3>2 DEF StopQueue
      <4> QED
        BY <1>0, <3>1, <3>2, <4>1
    <3>3. CASE ~mq.closed
      <4>1. Goto(c, "wait")
        BY <1>13, <3>3 DEF StopQueue
      <4> QED
        BY <1>0, <3>1, <3>3, <4>1
    <3> QED
      BY <3>2, <3>3
  <2>2. state = "Stopping" /\ gen # 0 /\ (gen <= 1 => ~mq.closed)
    BY <2>1 DEF Turns, Counted, LifeInv
  <2> QED
    BY <2>1, <2>2 DEF LifeInv, Since
<1>14. CASE StopWait(c)
  <2>1. /\ UNCHANGED LifeVars /\ state' = "Stopped" /\ Stage' = "idle"
    BY <1>0, <1>14 DEF StopWait, LifeVars
  <2> QED
    BY <2>1, LifeRests DEF Since
<1> QED
  BY <1>1, <1>2, <1>3, <1>4, <1>5, <1>6, <1>7, <1>8, <1>9, <1>10, <1>11, <1>12, <1>13, <1>14
     DEF Call, StartStep, StopStep

LEMMA NextLife ==
    ASSUME Turns, Counted, LifeInv, [Next]_vars
    PROVE  LifeInv'
<1>1. CASE Background \/ UNCHANGED vars
  <2>1. UNCHANGED <<state, config, ctxDone, gen, db>> /\ Stage' = Stage
    BY <1>1, BackgroundStage
  <2>2. \/ UNCHANGED mq \/ mq' = [mq EXCEPT !.workers = "lost"]
        \/ mq' = [mq EXCEPT !.workers = "gone"] /\ (ctxDone \/ mq.closed)
    BY <1>1 DEF MqDone, Background, MonitorExit, WorkersExit, CheckBegin, CheckEnd, TcpEnds, Hang,
                StartReturns, HttpServe,
                HttpFails, HttpCrashes, HttpClient, Route, HttpBecomes, vars, svcVars
  <2>3. UNCHANGED panicked \/ panicked' \in {"nil listener", "route again"}
    BY <1>1 DEF Background, MonitorExit, WorkersExit, CheckBegin, CheckEnd, TcpEnds, Hang,
                StartReturns, HttpServe,
                HttpFails, HttpCrashes, HttpClient, Route, vars, svcVars
  <2> QED
    <3>1. \A S : Since(S)' <=> Since(S)
      BY <2>1 DEF Since
    <3>2. /\ mq' \in [made : BOOLEAN, root : {"none", "service", "background"},
                      closed : BOOLEAN, workers : WorkersAre]
          /\ mq'.closed = mq.closed /\ (mq'.workers = "none" => mq.workers = "none")
          /\ mq'.workers = "gone" => ctxDone \/ mq.closed
      BY <2>2 DEF LifeInv, WorkersAre
    <3>3. panicked' \in {"no", "nil dereference", "close of closed channel",
                         "nil listener", "route again"}
          /\ (panicked' = "close of closed channel" => panicked' = panicked)
      BY <2>3 DEF LifeInv
    <3> QED
      BY <2>1, <3>1, <3>2, <3>3 DEF LifeInv
<1> QED
  BY <1>1, CallLife DEF Next

-------------------------------------------------------------------------------
(* The servers of the network manager. *)
LEMMA WithServers ==
    ASSUME ServersInv, NEW S \in SUBSET Types
    PROVE  /\ [net EXCEPT !.servers = S] \in [ready : BOOLEAN, servers : SUBSET Types]
           /\ [net EXCEPT !.servers = S].servers = S
           /\ [net EXCEPT !.servers = S].ready = net.ready
BY DEF ServersInv

LEMMA NetStartsServer ==
    ASSUME ServersInv, NEW t \in Types, NEW S \in SUBSET Types
    PROVE  /\ Started(net, t) \in [ready : BOOLEAN, servers : SUBSET Types]
           /\ Started(net, t).servers = net.servers /\ Started(net, t).ready = (t = "http")
           /\ Started([net EXCEPT !.servers = S], t) \in [ready : BOOLEAN, servers : SUBSET Types]
           /\ Started([net EXCEPT !.servers = S], t).servers = S
           /\ Started([net EXCEPT !.servers = S], t).ready = (t = "http")
BY DEF ServersInv, Started

LEMMA CallServers ==
    ASSUME Turns, Counted, ServersInv, NEW c \in Callers, Call(c)
    PROVE  ServersInv'
<1> USE DEF Labels, Locking, StartStages, NetStages, FreshStages, StopStages, CloseStages, DownStages
<1>0. /\ \A l : At(c, l) => Stage = l
      /\ \A l \in Labels : Goto(c, l) => Stage' = l
      /\ UNCHANGED pc => Stage' = Stage
      /\ gen \in Nat /\ (Stage \notin {"idle", "init"} => gen # 0)
  BY StageMoves, ParametersAssumption DEF Counted
<1>1. CASE StartCheck(c) \/ StopCheck(c)
  <2>1. UNCHANGED <<config, gen, net, closing>>
    BY <1>1 DEF StartCheck, StopCheck, netVars
  <2>2. \/ Stage' = "init" /\ state' = "Starting"
        \/ Stage' = "cancel" /\ state = "Running" /\ state' = "Stopping"
    BY <1>0, <1>1 DEF StartCheck, StopCheck
  <2> QED
    BY <2>1, <2>2 DEF ServersInv, Since
<1>2. CASE InitComponents(c)
  <2>1. /\ net' = [ready |-> FALSE, servers |-> {}] /\ gen' = gen + 1
        /\ UNCHANGED <<config, closing, state>> /\ At(c, "init") /\ Goto(c, "workers")
    BY <1>2 DEF InitComponents
  <2>2. Stage' = "workers" /\ state' = "Starting"
    BY <1>0, <2>1 DEF Turns
  <2> QED
    BY <1>0, <2>1, <2>2 DEF ServersInv, Since
<1>3. CASE StartWorkers(c) \/ NetLock(c)
  <2>1. UNCHANGED <<config, gen, net, closing, state>>
    BY <1>3 DEF StartWorkers, NetLock, netVars, svcVars
  <2>2. Stage \in {"workers", "netLock"} /\ Stage' \in {"workers", "netLock", "tcp"}
    <3>1. CASE StartWorkers(c)
      <4>1. At(c, "workers") /\ (UNCHANGED pc \/ Goto(c, "netLock"))
        BY <3>1 DEF StartWorkers
      <4> QED
        BY <1>0, <4>1
    <3>2. CASE NetLock(c)
      BY <1>0, <3>2 DEF NetLock
    <3> QED
      BY <1>3, <3>1, <3>2
  <2>3. state' = "Starting"
    BY <2>1, <2>2 DEF Turns
  <2> QED
    BY <2>1, <2>2, <2>3 DEF ServersInv, Since
<1>4. ASSUME NEW t \in Types, SkipServer(c, t) \/ ListenOk(c, t)
      PROVE  ServersInv'
  <2>1. UNCHANGED <<config, gen, closing, state>> /\ Stage = t /\ Stage' = AfterServer(t)
    BY <1>0, <1>4 DEF SkipServer, ListenOk, svcVars, AfterServer, Types
  <2>2. \/ t \notin config.enabled /\ net' = Started(net, t)
        \/ /\ t \in config.enabled
           /\ net' = Started([net EXCEPT !.servers = net.servers \cup {t}], t)
    BY <1>4 DEF SkipServer, ListenOk
  <2>3. net.servers \in SUBSET Types /\ net.servers \cup {t} \in SUBSET Types
        /\ config.enabled \in SUBSET Types
    BY ParametersAssumption DEF ServersInv, Config
  <2>4. /\ net' \in [ready : BOOLEAN, servers : SUBSET Types] /\ net'.ready = (t = "http")
        /\ net'.servers = IF t \in config.enabled THEN net.servers \cup {t} ELSE net.servers
    <3>1. CASE t \in config.enabled
      <4> DEFINE S == net.servers \cup {t}
      <4>1. S \in SUBSET Types /\ net' = Started([net EXCEPT !.servers = S], t)
        BY <2>2, <2>3, <3>1
      <4> HIDE DEF S
      <4>2. /\ net' \in [ready : BOOLEAN, servers : SUBSET Types]
            /\ net'.servers = S /\ net'.ready = (t = "http")
        BY <4>1, NetStartsServer
      <4> QED
        BY <3>1, <4>2 DEF S
    <3>2. CASE t \notin config.enabled
      BY <2>2, <2>3, <3>2, NetStartsServer
    <3> QED
      BY <3>1, <3>2
  <2>5. state' = "Starting"
    BY <2>1 DEF Turns, Types
  <2>6. CASE t = "tcp"
    <3>1. Stage' = "http" /\ Stage = "tcp" /\ net.servers = {}
      BY <2>1, <2>6 DEF AfterServer, ServersInv
    <3>2. net'.servers = config.enabled \ {"http"} /\ ~net'.ready
      BY <2>3, <2>4, <2>6, <3>1 DEF Types
    <3> QED
      BY <1>0, <2>1, <2>4, <2>5, <3>1, <3>2 DEF ServersInv, Since
  <2>7. CASE t = "http"
    <3>1. Stage' = "db" /\ Stage = "http" /\ net.servers = config.enabled \ {"http"}
      BY <2>1, <2>7 DEF AfterServer, ServersInv
    <3>2. net'.servers = config.enabled /\ net'.ready
      BY <2>3, <2>4, <2>7, <3>1 DEF Types
    <3> QED
      BY <1>0, <2>1, <2>4, <2>5, <3>1, <3>2 DEF ServersInv, Since
  <2> QED
    BY <2>6, <2>7 DEF Types
<1>5. CASE ListenNowhere(c) \/ \E t \in Types : ListenFails(c, t)
  <2>1. UNCHANGED <<config, gen, net, closing, state>>
    BY <1>5 DEF ListenNowhere, ListenFails, netVars, svcVars
  <2>2. Stage \in {"tcp", "http"} /\ Stage' = "rollback"
    BY <1>0, <1>5 DEF ListenNowhere, ListenFails, Types
  <2>3. state' = "Starting"
    BY <2>1, <2>2 DEF Turns
  <2> QED
    BY <2>1, <2>2, <2>3 DEF ServersInv, Since
<1>6. CASE StartDb(c) \/ StartMonitoring(c) \/ SetRunning(c)
  <2>1. UNCHANGED <<config, gen, net, closing>>
    BY <1>6 DEF StartDb, StartMonitoring, SetRunning, netVars, svcVars
  <2>2. /\ Stage \in {"db", "monitor", "started"}
        /\ Stage' \in {"monitor", "cleanup", "started", "idle"}
    BY <1>0, <1>6 DEF StartDb, StartMonitoring, SetRunning
  <2>3. Stage' \in {"monitor", "cleanup", "started"} => state' = "Starting"
    BY <1>0, <1>6, <2>2 DEF StartDb, StartMonitoring, SetRunning, Turns, svcVars
  <2> QED
    BY <2>1, <2>2, <2>3 DEF ServersInv, Since
<1>7. ASSUME NEW from \in {"rollback", "stopNet"}, NEW to \in {"rollbackWait", "stopTcp"},
             CloseTcp(c, from, to), from = "rollback" <=> to = "rollbackWait"
      PROVE  ServersInv'
  <2>1. UNCHANGED <<config, gen, net, state>> /\ closing' = "tcp" /\ Stage = from /\ Stage' = to
    BY <1>0, <1>7 DEF CloseTcp, svcVars
  <2>2. state' # "Running"
    BY <2>1 DEF Turns
  <2> QED
    BY <1>7, <2>1, <2>2 DEF ServersInv, Since, Types
<1>8. ASSUME NEW from \in {"rollbackWait", "stopTcp"}, NEW to \in {"rollback", "stopNet"},
             NEW done, TcpClosed(c, from, to, done),
             from = "rollbackWait" <=> to = "rollback"
      PROVE  ServersInv'
  <2>1. /\ UNCHANGED <<config, gen, state>> /\ closing' = "none" /\ Stage = from /\ Stage' = to
        /\ net' = [net EXCEPT !.servers = net.servers \ {"tcp"}]
    BY <1>0, <1>8 DEF TcpClosed, svcVars
  <2>2. state' # "Running"
    BY <2>1 DEF Turns
  <2>3. net.servers \ {"tcp"} \in SUBSET Types
    BY DEF ServersInv
  <2>4. /\ net' \in [ready : BOOLEAN, servers : SUBSET Types]
        /\ net'.servers = net.servers \ {"tcp"} /\ net'.ready = net.ready
    BY <2>1, <2>3, WithServers
  <2> QED
    BY <1>0, <1>8, <2>1, <2>2, <2>4 DEF ServersInv, Since, Types
<1>9. CASE Rollback(c)
  <2>1. CASE At(c, "rollback") /\ net.servers = {} /\ Goto(c, "cleanup") /\ UNCHANGED <<svcVars, netVars>>
    <3>1. /\ UNCHANGED <<config, gen, net, closing, state>> /\ Stage = "rollback"
          /\ Stage' = "cleanup" /\ net.servers = {}
      BY <1>0, <2>1 DEF netVars, svcVars
    <3>2. state' = "Starting"
      BY <3>1 DEF Turns
    <3> QED
      BY <3>1, <3>2 DEF ServersInv, Since
  <2> QED
    BY <1>7, <1>8, <1>9, <2>1 DEF Rollback
<1>10. CASE Cleanup(c)
  <2>1. UNCHANGED <<config, gen, net, closing>> /\ Stage = "cleanup" /\ Stage' \in {"cleanup", "idle"}
    <3>1. UNCHANGED <<config, gen, net, closing>> /\ At(c, "cleanup")
      BY <1>10 DEF Cleanup, netVars
    <3>2. UNCHANGED pc \/ Goto(c, "idle")
      BY <1>10 DEF Cleanup
    <3> QED
      BY <1>0, <3>1, <3>2
  <2>2. state' # "Running"
    BY <1>10, <2>1 DEF Cleanup, Turns
  <2> QED
    BY <2>1, <2>2 DEF ServersInv, Since
<1>11. CASE StopCancel(c) \/ StopLock(c) \/ StopDb(c) \/ StopQueue(c) \/ StopWait(c)
  <2>1. UNCHANGED <<config, gen, net, closing>>
    BY <1>11 DEF StopCancel, StopLock, StopDb, StopQueue, StopWait, netVars, svcVars
  <2>2. /\ Stage \in {"cancel", "stopLock", "stopDb", "stopMq", "wait"}
        /\ \/ Stage = "cancel" /\ Stage' = "stopLock"
           \/ Stage = "stopLock" /\ Stage' = "stopNet"
           \/ Stage = "stopLock" /\ Stage' = "stopDb" /\ ~net.ready
           \/ Stage \in DownStages /\ Stage' \in {"stopMq", "wait", "idle"}
    <3>1. CASE StopCancel(c) \/ StopLock(c) \/ StopDb(c) \/ StopWait(c)
      BY <1>0, <3>1 DEF StopCancel, StopLock, StopDb, StopWait
    <3>2. CASE StopQueue(c)
      <4>1. At(c, "stopMq") /\ (UNCHANGED pc \/ Goto(c, "wait"))
        BY <3>2 DEF StopQueue
      <4> QED
        BY <1>0, <4>1
    <3> QED
      BY <1>11, <3>1, <3>2
  <2>3. state' # "Running"
    BY <1>11, <2>2 DEF StopCancel, StopLock, StopDb, StopQueue, StopWait, Turns, svcVars
  <2> QED
    BY <2>1, <2>2, <2>3 DEF ServersInv, Since
<1>12. CASE CloseHttp(c) \/ NetStopped(c)
  <2>1. /\ UNCHANGED <<config, gen, state>>
        /\ closing' \in Types \cup {"none"}
        /\ Stage \in CloseStages /\ Stage' \in CloseStages \cup {"stopDb"}
        /\ Stage' = "stopDb" => NetStopped(c)
    <3>1. CASE NetStopped(c)
      BY <1>0, <3>1 DEF NetStopped, svcVars, ServersInv
    <3>2. CASE CloseHttp(c)
      BY <1>0, <3>2 DEF CloseHttp, HttpStep, HttpClosed, svcVars, ServersInv, Types
    <3> QED
      BY <1>12, <3>1, <3>2
  <2>2. state' # "Running"
    BY <2>1 DEF Turns
  <2>3. net' \in [ready : BOOLEAN, servers : SUBSET Types] /\ net'.servers \subseteq net.servers
    <3>1. \/ net' = net \/ net' = [net EXCEPT !.servers = net.servers \ {"http"}]
          \/ net' = [net EXCEPT !.ready = FALSE]
      BY <1>12 DEF CloseHttp, HttpClosed, NetStopped
    <3>2. net.servers \ {"http"} \in SUBSET Types /\ net \in [ready : BOOLEAN, servers : SUBSET Types]
      BY DEF ServersInv
    <3>3. CASE net' = [net EXCEPT !.servers = net.servers \ {"http"}]
      BY <3>2, <3>3, WithServers
    <3>4. CASE net' = net \/ net' = [net EXCEPT !.ready = FALSE]
      BY <3>2, <3>4
    <3> QED
      BY <3>1, <3>3, <3>4
  <2>4. Stage' = "stopDb" => net'.servers = {}
    BY <2>1, <2>3 DEF NetStopped
  <2> QED
    BY <1>0, <2>1, <2>2, <2>3, <2>4 DEF ServersInv, Since
<1>13. CASE StopNet(c)
  BY <1>7, <1>8, <1>12, <1>13 DEF StopNet
<1> QED
  BY <1>1, <1>2, <1>3, <1>4, <1>5, <1>6, <1>9, <1>10, <1>11, <1>13 DEF Call, StartStep, StopStep

LEMMA NextServers ==
    ASSUME Turns, Counted, ServersInv, [Next]_vars
    PROVE  ServersInv'
<1>1. CASE Background \/ UNCHANGED vars
  BY <1>1, BackgroundStage DEF ServersInv, Since
<1> QED
  BY <1>1, CallServers DEF Next

-------------------------------------------------------------------------------
(* The TCP servers. *)
(* Steps that neither open nor close one. *)
LEMMA TcpRests ==
    ASSUME TcpInv, UNCHANGED <<gen, listening, serving, checking>>,
           "tcp" \in net'.servers <=> "tcp" \in net.servers,
           Stage \notin {"rollbackWait", "stopTcp"}, Stage' \notin {"rollbackWait", "stopTcp"},
           Rolling' => Rolling,
           Stage' \in HeldStages => Stage \in HeldStages \/ checking # gen
    PROVE  TcpInv'
BY DEF TcpInv, Rolling, HeldStages

LEMMA CallTcp ==
    ASSUME Turns, Counted, Counted', ServersInv, ServersInv', TcpInv, NEW c \in Callers, Call(c)
    PROVE  TcpInv'
<1> USE DEF Labels, Locking, StartStages, NetStages, FreshStages, StopStages, CloseStages, DownStages
<1>0. /\ \A l : At(c, l) => Stage = l
      /\ \A l \in Labels : Goto(c, l) => Stage' = l
      /\ UNCHANGED pc => Stage' = Stage
      /\ gen \in Nat /\ (Stage \notin {"idle", "init"} => gen # 0)
  BY StageMoves, ParametersAssumption DEF Counted
<1>1. CASE StartCheck(c) \/ StopCheck(c)
  <2>1. UNCHANGED <<gen, net, listening, serving, checking>>
    BY <1>1 DEF StartCheck, StopCheck, netVars, tcpVars
  <2>2. Stage = "idle" /\ Stage' \in {"init", "cancel"}
    BY <1>0, <1>1 DEF StartCheck, StopCheck
  <2> QED
    BY <2>1, <2>2, TcpRests DEF Rolling, HeldStages
<1>2. CASE InitComponents(c)
  <2>1. /\ net' = [ready |-> FALSE, servers |-> {}] /\ gen' = gen + 1
        /\ UNCHANGED <<listening, serving, checking>> /\ Stage' = "workers"
    BY <1>0, <1>2 DEF InitComponents, tcpVars
  <2>2. /\ gen' \notin listening /\ gen' \notin serving
        /\ listening \subseteq 1 .. gen' /\ serving \subseteq 1 .. gen'
    BY <1>0, <2>1 DEF TcpInv
  <2> QED
    BY <2>1, <2>2 DEF TcpInv, Rolling, HeldStages
<1>3. CASE StartWorkers(c) \/ NetLock(c)
  <2>1. UNCHANGED <<gen, net, listening, serving, checking>>
    BY <1>3 DEF StartWorkers, NetLock, netVars, tcpVars, svcVars
  <2>2. /\ Stage \in {"workers", "netLock"}
        /\ Stage' \in {"workers", "netLock"} \/ (Stage' = "tcp" /\ checking # gen)
    <3>1. CASE StartWorkers(c)
      <4>1. At(c, "workers") /\ (UNCHANGED pc \/ Goto(c, "netLock"))
        BY <3>1 DEF StartWorkers
      <4> QED
        BY <1>0, <4>1
    <3>2. CASE NetLock(c)
      BY <1>0, <3>2 DEF NetLock
    <3> QED
      BY <1>3, <3>1, <3>2
  <2> QED
    BY <2>1, <2>2, TcpRests DEF Rolling, HeldStages
<1>4. ASSUME NEW t \in Types, SkipServer(c, t) \/ ListenOk(c, t)
      PROVE  TcpInv'
  <2>1. UNCHANGED <<gen, checking>> /\ Stage = t /\ Stage' = AfterServer(t)
    BY <1>0, <1>4 DEF SkipServer, ListenOk, svcVars, AfterServer, Types
  <2>2. CASE t = "tcp" /\ ListenOk(c, t)
    <3>1. /\ listening' = listening \cup {gen} /\ serving' = serving \cup {gen}
          /\ net' = Started([net EXCEPT !.servers = net.servers \cup {t}], t)
          /\ Stage = "tcp" /\ Stage' = "http"
      BY <2>1, <2>2 DEF ListenOk, AfterServer
    <3>2. "tcp" \in net'.servers
      BY <2>2, <3>1 DEF ServersInv, Started
    <3> QED
      BY <1>0, <2>1, <3>1, <3>2 DEF TcpInv, Rolling, HeldStages
  <2>3. CASE ~(t = "tcp" /\ ListenOk(c, t))
    <3>1. UNCHANGED <<listening, serving>>
      BY <1>4, <2>3 DEF SkipServer, ListenOk, tcpVars, Types
    <3>2. net'.servers = net.servers \/ net'.servers = net.servers \cup {"http"}
      <4> DEFINE S == net.servers \cup {"http"}
      <4>1. S \in SUBSET Types
        BY DEF ServersInv, Types
      <4>2. net' = Started(net, t) \/ (t = "http" /\ net' = Started([net EXCEPT !.servers = S], t))
        BY <1>4, <2>3 DEF SkipServer, ListenOk, Types
      <4> HIDE DEF S
      <4>3. net'.servers = net.servers \/ net'.servers = S
        BY <4>1, <4>2, NetStartsServer
      <4> QED
        BY <4>3 DEF S
    <3> QED
      BY <2>1, <3>1, <3>2, TcpRests DEF Rolling, HeldStages, AfterServer, Types
  <2> QED
    BY <2>2, <2>3
<1>5. CASE ListenNowhere(c) \/ \E t \in Types : ListenFails(c, t)
  <2>1. UNCHANGED <<gen, net, listening, serving, checking>>
    BY <1>5 DEF ListenNowhere, ListenFails, netVars, tcpVars, svcVars
  <2>2. Stage \in {"tcp", "http"} /\ Stage' = "rollback"
    BY <1>0, <1>5 DEF ListenNowhere, ListenFails, Types
  <2> QED
    BY <2>1, <2>2, TcpRests DEF Rolling, HeldStages
<1>6. CASE StartDb(c) \/ StartMonitoring(c) \/ SetRunning(c)
  <2>1. UNCHANGED <<gen, net, listening, serving, checking>>
    BY <1>6 DEF StartDb, StartMonitoring, SetRunning, netVars, tcpVars, svcVars
  <2>2. /\ Stage \in {"db", "monitor", "started"}
        /\ Stage' \in {"monitor", "started", "idle"} \/ (Stage = "db" /\ Stage' = "cleanup")
    BY <1>0, <1>6 DEF StartDb, StartMonitoring, SetRunning
  <2>3. ~Rolling'
    BY <2>1, <2>2 DEF Rolling, ServersInv, Since
  <2> QED
    BY <2>1, <2>2, <2>3, TcpRests DEF HeldStages
<1>7. ASSUME NEW from \in {"rollback", "stopNet"}, NEW to \in {"rollbackWait", "stopTcp"},
             CloseTcp(c, from, to)
      PROVE  TcpInv'
  <2>1. /\ UNCHANGED <<gen, net, serving, checking>> /\ Stage = from /\ Stage' = to
        /\ listening' = listening \ {gen} /\ "tcp" \in net.servers
    BY <1>0, <1>7 DEF CloseTcp, svcVars
  <2>2. checking # gen
    BY <1>7, <2>1 DEF TcpInv, Rolling, HeldStages
  <2> QED
    BY <1>7, <2>1, <2>2 DEF TcpInv
<1>8. ASSUME NEW from \in {"rollbackWait", "stopTcp"}, NEW to \in {"rollback", "stopNet"},
             NEW done, TcpClosed(c, from, to, done), to = "rollback" => ~done
      PROVE  TcpInv'
  <2>1. /\ UNCHANGED <<gen, listening, serving, checking>> /\ Stage = from /\ Stage' = to
        /\ net' = [net EXCEPT !.servers = net.servers \ {"tcp"}]
        /\ gen \notin serving \/ done
    BY <1>0, <1>8 DEF TcpClosed, svcVars, tcpVars
  <2>2. "tcp" \notin net'.servers
    BY <2>1 DEF ServersInv
  <2> QED
    BY <1>8, <2>1, <2>2 DEF TcpInv, Rolling, HeldStages
<1>9. CASE Rollback(c)
  <2>1. CASE At(c, "rollback") /\ net.servers = {} /\ Goto(c, "cleanup") /\ UNCHANGED <<svcVars, netVars>>
    <3>1. /\ UNCHANGED <<gen, net, listening, serving, checking>> /\ Stage = "rollback"
          /\ Stage' = "cleanup"
      BY <1>0, <2>1 DEF netVars, tcpVars, svcVars
    <3> QED
      BY <3>1, TcpRests DEF Rolling, HeldStages
  <2> QED
    BY <1>7, <1>8, <1>9, <2>1 DEF Rollback
<1>10. CASE Cleanup(c)
  <2>1. UNCHANGED <<gen, net, listening, serving, checking>> /\ Stage = "cleanup" /\ Stage' \in {"cleanup", "idle"}
    <3>1. UNCHANGED <<gen, net, listening, serving, checking>> /\ At(c, "cleanup")
      BY <1>10 DEF Cleanup, netVars, tcpVars
    <3>2. UNCHANGED pc \/ Goto(c, "idle")
      BY <1>10 DEF Cleanup
    <3> QED
      BY <1>0, <3>1, <3>2
  <2> QED
    BY <2>1, TcpRests DEF Rolling, HeldStages
<1>11. CASE StopCancel(c) \/ StopLock(c) \/ StopDb(c) \/ StopQueue(c) \/ StopWait(c)
  <2>1. UNCHANGED <<gen, net, listening, serving, checking>>
    BY <1>11 DEF StopCancel, StopLock, StopDb, StopQueue, StopWait, netVars, tcpVars, svcVars
  <2>2. /\ Stage \in {"cancel", "stopLock", "stopDb", "stopMq", "wait"}
        /\ \/ Stage' \in {"stopLock", "stopMq", "wait", "idle"}
           \/ Stage' \in {"stopNet", "stopDb"} /\ checking # gen
    <3>1. CASE StopCancel(c) \/ StopLock(c) \/ StopDb(c) \/ StopWait(c)
      BY <1>0, <3>1 DEF StopCancel, StopLock, StopDb, StopWait
    <3>2. CASE StopQueue(c)
      <4>1. At(c, "stopMq") /\ (UNCHANGED pc \/ Goto(c, "wait"))
        BY <3>2 DEF StopQueue
      <4> QED
        BY <1>0, <4>1
    <3> QED
      BY <1>11, <3>1, <3>2
  <2> QED
    BY <2>1, <2>2, TcpRests DEF Rolling, HeldStages
<1>12. CASE CloseHttp(c) \/ NetStopped(c)
  <2>1. /\ UNCHANGED <<gen, listening, serving, checking>>
        /\ Stage \in CloseStages \ {"stopTcp"} /\ Stage' \in (CloseStages \ {"stopTcp"}) \cup {"stopDb"}
    <3>1. CASE NetStopped(c)
      BY <1>0, <3>1 DEF NetStopped, svcVars, tcpVars
    <3>2. CASE CloseHttp(c)
      BY <1>0, <3>2 DEF CloseHttp, HttpStep, HttpClosed, svcVars, tcpVars
    <3> QED
      BY <1>12, <3>1, <3>2
  <2>2. "tcp" \in net'.servers <=> "tcp" \in net.servers
    <3>1. \/ net' = net \/ net' = [net EXCEPT !.servers = net.servers \ {"http"}]
          \/ net' = [net EXCEPT !.ready = FALSE]
      BY <1>12 DEF CloseHttp, HttpClosed, NetStopped
    <3> QED
      BY <3>1 DEF ServersInv
  <2> QED
    BY <2>1, <2>2, TcpRests DEF Rolling, HeldStages
<1>13. CASE StopNet(c)
  BY <1>7, <1>8, <1>12, <1>13 DEF StopNet
<1> QED
  BY <1>1, <1>2, <1>3, <1>4, <1>5, <1>6, <1>9, <1>10, <1>11, <1>13 DEF Call, StartStep, StopStep

(* A worker checks only while nobody has, or waits for, the manager's lock.  *)
LEMMA StageOfLock ==
    ASSUME Turns, \A c \in Callers : pc[c] \notin Locking
    PROVE  Stage \notin Locking
BY DEF Stage, Locking

LEMMA NextTcp ==
    ASSUME Turns, Counted, Counted', ServersInv, ServersInv', TcpInv, [Next]_vars
    PROVE  TcpInv'
<1>1. CASE Background \/ UNCHANGED vars
  <2>0. UNCHANGED <<gen, net>> /\ Stage' = Stage
    BY <1>1, BackgroundStage
  <2>1. CASE UNCHANGED <<tcpVars, checking>>
    BY <2>0, <2>1 DEF TcpInv, Rolling, HeldStages, tcpVars
  <2>2. CASE CheckBegin
    <3>1. Stage \notin Locking
      BY <2>2, StageOfLock DEF CheckBegin
    <3>2. /\ "tcp" \in net.servers /\ checking' = gen /\ UNCHANGED <<listening, serving>>
      BY <2>2 DEF CheckBegin, tcpVars
    <3>3. gen \in listening /\ gen \in 0 .. MaxStarts
      BY <3>1, <3>2 DEF TcpInv, Locking, Counted
    <3> QED
      BY <2>0, <3>1, <3>2, <3>3 DEF TcpInv, Rolling, HeldStages
  <2>3. CASE CheckEnd
    <3>1. UNCHANGED <<listening, serving>> /\ checking' = 0
      BY <2>3 DEF CheckEnd, tcpVars
    <3>2. Stage \in HeldStages => gen # 0
      BY DEF Counted, HeldStages, Locking
    <3>3. 0 \in 0 .. MaxStarts
      BY ParametersAssumption
    <3> QED
      BY <2>0, <3>1, <3>2, <3>3 DEF TcpInv, Rolling, HeldStages
  <2>4. CASE TcpEnds
    <3>1. UNCHANGED <<listening, checking>> /\ serving' \subseteq serving
      BY <2>4 DEF TcpEnds
    <3> QED
      BY <2>0, <3>1 DEF TcpInv, Rolling, HeldStages
  <2>5. CASE ~(CheckBegin \/ CheckEnd \/ TcpEnds)
    <3>1. UNCHANGED <<tcpVars, checking>>
      BY <1>1, <2>5 DEF Background, MonitorExit, WorkersExit, Hang, StartReturns,
                        HttpServe, HttpFails, HttpCrashes,
                        HttpClient, Route, HttpBecomes, vars, netVars
    <3> QED
      BY <2>1, <3>1
  <2> QED
    BY <2>2, <2>3, <2>4, <2>5
<1> QED
  BY <1>1, CallTcp DEF Next

-------------------------------------------------------------------------------
(* What may happen to an HTTP server besides a Close: in its serve           *)
(* goroutine, ...                                                            *)
ServeStep(h, i) ==
    \/ CanServe(h) /\ i = ServeBegins(h)
    \/ CanEnd(h) /\ i = ServeEnds(h)
    \/ CanFail(h) /\ i = ServeFails(h)
    \/ (h.serve = "ended" \/ (h.serve = "born" /\ ~h.listener)) /\ i = ServeReturns(h)

(* ... and through its clients and RegisterRoute. *)
UseStep(h, i) ==
    \/ i \in Client(h)
    \/ CanAdd(h) /\ i = RouteFirst(h)
    \/ h.adding > 0 /\ i = RouteSecond(h)

(* None of them opens it again, or takes what it is to keep.                 *)
KeepsHttp(h, i) ==
    /\ i \in HTTPServer
    /\ i.listener = h.listener /\ i.inShutdown = h.inShutdown
    /\ HttpQuiet(h) => HttpQuiet(i)
    /\ HttpDown(h) => HttpDown(i)
    /\ HttpUp(h) => HttpUp(i)

LEMMA ServeKeeps ==
    ASSUME NEW h \in HTTPServer, NEW i, ServeStep(h, i)
    PROVE  KeepsHttp(h, i) /\ h.serve # "none"
<1> USE DEF KeepsHttp, HttpQuiet, HttpDown, HttpUp, HttpIsWhole, Listens, HTTPServer
<1>1. CASE CanServe(h) /\ i = ServeBegins(h)
  BY <1>1 DEF CanServe, ServeBegins
<1>2. CASE CanEnd(h) /\ i = ServeEnds(h)
  BY <1>2 DEF CanEnd, ServeEnds
<1>3. CASE CanFail(h) /\ i = ServeFails(h)
  BY <1>3 DEF CanFail, ServeFails
<1>4. CASE /\ h.serve = "ended" \/ (h.serve = "born" /\ ~h.listener)
           /\ i = ServeReturns(h)
  BY <1>4 DEF ServeReturns
<1> QED
  BY <1>1, <1>2, <1>3, <1>4 DEF ServeStep

LEMMA ConnKeeps ==
    ASSUME NEW h \in HTTPServer, NEW k \in Clients, NEW v \in {"none", "idle", "busy", "cut"},
           HttpQuiet(h) /\ h.closed /\ ~h.gaveUp => v \in {"none", "cut"}
    PROVE  KeepsHttp(h, [h EXCEPT !.conns[k] = v])
<1> DEFINE i == [h EXCEPT !.conns[k] = v]
<1>1. /\ i.conns = [h.conns EXCEPT ![k] = v] /\ h.conns \in [Clients -> {"none", "idle", "busy", "cut"}]
      /\ i.serve = h.serve /\ i.listener = h.listener /\ i.inShutdown = h.inShutdown
      /\ i.gaveUp = h.gaveUp /\ i.closed = h.closed /\ i.isRunning = h.isRunning
      /\ i.routed = h.routed /\ i.muxed = h.muxed /\ i.adding = h.adding
  BY DEF HTTPServer
<1>2. i.conns \in [Clients -> {"none", "idle", "busy", "cut"}]
  <2> HIDE DEF i
  <2> QED
    BY <1>1
<1>3. i \in HTTPServer
  <2>1. i = [h EXCEPT !.conns = i.conns]
    BY <1>1 DEF HTTPServer
  <2> DEFINE f == i.conns
  <2>2. f \in [Clients -> {"none", "idle", "busy", "cut"}]
    BY <1>2
  <2> HIDE DEF f
  <2>3. [h EXCEPT !.conns = f] \in HTTPServer
    BY <2>2 DEF HTTPServer
  <2> QED
    BY <2>1, <2>3 DEF f
<1>4. HttpQuiet(h) => HttpQuiet(i)
  <2> HIDE DEF i
  <2> QED
    BY <1>1 DEF HttpQuiet
<1> HIDE DEF i
<1>5. KeepsHttp(h, i)
  BY <1>1, <1>3, <1>4 DEF KeepsHttp, HttpDown, HttpUp, HttpIsWhole, Listens
<1> QED
  BY <1>5 DEF i

LEMMA UseKeeps ==
    ASSUME NEW h \in HTTPServer, NEW i, UseStep(h, i)
    PROVE  KeepsHttp(h, i)
<1>0. MaxAdding \in Nat /\ h.adding \in 0 .. MaxAdding
  BY MaxAddingAssumption DEF HTTPServer
<1>1. CASE CanAdd(h) /\ i = RouteFirst(h)
  <2>1. h.adding + 1 \in 0 .. MaxAdding /\ h.adding + 1 # 0
    BY <1>0, <1>1 DEF CanAdd
  <2>2. i \in HTTPServer
    BY <1>1, <2>1 DEF HTTPServer, RouteFirst
  <2> QED
    BY <1>1, <2>1, <2>2 DEF KeepsHttp, HttpQuiet, HttpDown, HttpUp, HttpIsWhole, Listens,
                            HTTPServer, RouteFirst
<1>2. CASE h.adding > 0 /\ i = RouteSecond(h)
  <2>1. h.adding - 1 \in 0 .. MaxAdding /\ (h.muxed \/ h.isRunning) \in BOOLEAN
    BY <1>0, <1>2
  <2>2. i \in HTTPServer
    BY <1>2, <2>1 DEF HTTPServer, RouteSecond
  <2> QED
    BY <1>2, <2>2 DEF KeepsHttp, HttpQuiet, HttpDown, HttpUp, HttpIsWhole, Listens,
                      HTTPServer, RouteSecond
<1>3. CASE i \in Client(h)
  <2>1. CASE \E k \in Clients : /\ h.serve = "serving" /\ ~h.inShutdown /\ h.conns[k] = "none"
                                /\ i = [h EXCEPT !.conns[k] = "idle"]
    BY <2>1, ConnKeeps DEF HttpQuiet
  <2>2. CASE \E k \in Clients : h.conns[k] = "idle" /\ i = [h EXCEPT !.conns[k] = "busy"]
    BY <2>2, ConnKeeps DEF HttpQuiet
  <2>3. ASSUME NEW k \in activeConns(h),
               i = [h EXCEPT !.conns[k] =
                       IF h.inShutdown \/ h.conns[k] = "cut" THEN "none" ELSE "idle"]
        PROVE  KeepsHttp(h, i)
    <3> DEFINE v == IF h.inShutdown \/ h.conns[k] = "cut" THEN "none" ELSE "idle"
    <3>1. /\ k \in Clients /\ v \in {"none", "idle", "busy", "cut"}
          /\ HttpQuiet(h) /\ h.closed /\ ~h.gaveUp => v = "none"
      BY DEF activeConns, HttpQuiet
    <3>2. i = [h EXCEPT !.conns[k] = v]
      BY <2>3
    <3> HIDE DEF v
    <3> QED
      BY <3>1, <3>2, ConnKeeps
  <2> QED
    BY <1>3, <2>1, <2>2, <2>3 DEF Client
<1> QED
  BY <1>1, <1>2, <1>3 DEF UseStep

(* What Close does to one. *)
LEMMA CloseKeeps ==
    ASSUME NEW h \in HTTPServer
    PROVE  /\ CloseFlag(h) \in HTTPServer /\ (HttpQuiet(h) => HttpQuiet(CloseFlag(h)))
           /\ CloseShutdown(h) \in HTTPServer /\ (HttpQuiet(h) => HttpQuiet(CloseShutdown(h)))
           /\ CloseShutdown(h).inShutdown
           /\ CloseReturned(h) \in HTTPServer
           /\ HttpUp(h) /\ ~h.isRunning =>
                 HttpQuiet(CloseReturned(h)) /\ HttpDown(CloseReturned(h))
<1> USE DEF HTTPServer
<1>1. CloseFlag(h) \in HTTPServer /\ (HttpQuiet(h) => HttpQuiet(CloseFlag(h)))
  BY DEF CloseFlag, HttpQuiet
<1>2. /\ CloseShutdown(h) \in HTTPServer /\ CloseShutdown(h).inShutdown
      /\ HttpQuiet(h) => HttpQuiet(CloseShutdown(h))
  BY DEF CloseShutdown, HttpQuiet
<1>3. CloseReturned(h) \in HTTPServer
  <2>1. 0 \in 0 .. MaxAdding
    BY MaxAddingAssumption
  <2> QED
    BY <2>1 DEF CloseReturned
<1>4. HttpUp(h) /\ ~h.isRunning =>
          HttpQuiet(CloseReturned(h)) /\ HttpDown(CloseReturned(h))
  BY DEF HttpUp, HttpIsWhole, HttpQuiet, HttpDown, Listens, CloseReturned
<1> QED
  BY <1>1, <1>2, <1>3, <1>4

LEMMA DropKeeps ==
    ASSUME NEW h \in HTTPServer, h.inShutdown, h.serve # "serving"
    PROVE  /\ DropAll(h) \in HTTPServer
           /\ HttpQuiet(CloseReturned(DropAll(h))) /\ HttpDown(CloseReturned(DropAll(h)))
<1> DEFINE f == [k \in Clients |-> CASE h.conns[k] = "idle" -> "none"
                                     [] h.conns[k] = "busy" -> "cut"
                                     [] OTHER -> h.conns[k]]
<1>1. \A k \in Clients : h.conns[k] \in {"none", "idle", "busy", "cut"}
  BY DEF HTTPServer
<1>2. \A k \in Clients : f[k] \in {"none", "cut"}
  BY <1>1
<1>3. DropAll(h) = [h EXCEPT !.conns = f]
  BY DEF DropAll
<1>4. f \in [Clients -> {"none", "idle", "busy", "cut"}]
  <2>1. f = [k \in Clients |-> f[k]]
    OBVIOUS
  <2> HIDE DEF f
  <2> QED
    BY <1>2, <2>1
<1> HIDE DEF f
<1>5. /\ DropAll(h) \in HTTPServer /\ DropAll(h).conns = f
      /\ DropAll(h).inShutdown /\ DropAll(h).serve # "serving"
  BY <1>3, <1>4 DEF HTTPServer
<1> DEFINE i == CloseReturned(DropAll(h))
<1>6. /\ i \in HTTPServer /\ i.conns = f /\ i.inShutdown /\ i.serve # "serving"
  BY <1>5, CloseKeeps, ZenonT(30) DEF CloseReturned, HTTPServer
<1> HIDE DEF i
<1>7. HttpQuiet(i) /\ HttpDown(i)
  BY <1>2, <1>6 DEF HttpQuiet, HttpDown, Listens
<1> QED
  BY <1>5, <1>7 DEF i

-------------------------------------------------------------------------------
(* The HTTP servers. *)
(* Steps of a call that do not reach them. *)
LEMMA HttpRests ==
    ASSUME HttpInv, UNCHANGED <<gen, http>>,
           "http" \in net'.servers <=> "http" \in net.servers,
           Stage' \in FreshStages => Stage \in FreshStages,
           Rolling' => Rolling,
           Stage \notin HttpWaits, Stage' \notin HttpWaits
    PROVE  HttpInv'
BY DEF HttpInv, Rolling, FreshStages, HttpWaits

(* Steps that make one of the server in use. *)
LEMMA HttpChanges ==
    ASSUME HttpInv, UNCHANGED gen, gen \in Gens, NEW h \in HTTPServer,
           http' = [http EXCEPT ![gen] = h], HttpQuiet(h),
           Stage' \notin FreshStages,
           Rolling' => ~h.listener,
           "http" \in net'.servers /\ Stage' \notin HttpWaits => HttpUp(h),
           Stage' = "httpWait" => h.inShutdown,
           "http" \notin net'.servers => HttpDown(h)
    PROVE  HttpInv'
<1>1. /\ http \in [Gens -> HTTPServer] /\ gen \in Nat
      /\ http' \in [Gens -> HTTPServer] /\ http'[gen] = h
      /\ \A g \in Gens : g # gen => http'[g] = http[g]
  BY ParametersAssumption DEF HttpInv, Gens
<1>2. \A g \in Gens : HttpQuiet(http'[g])
  BY <1>1 DEF HttpInv
<1>3. \A g \in Gens : g > gen => http'[g] = NewHTTPServer
  BY <1>1 DEF HttpInv, Gens
<1> QED
  BY <1>1, <1>2, <1>3 DEF HttpInv, FreshStages, HttpWaits, Rolling

LEMMA NewIsHttp ==
    /\ NewHTTPServer \in HTTPServer /\ HttpQuiet(NewHTTPServer) /\ HttpDown(NewHTTPServer)
    /\ ~NewHTTPServer.listener
    /\ \A found \in BOOLEAN :
          /\ ListenOn(found) \in HTTPServer /\ HttpQuiet(ListenOn(found))
          /\ ListenOn(found).listener = found
    /\ HttpUp(ListenOn(TRUE)) /\ HttpDown(ListenOn(FALSE))
<1>1. 0 \in 0 .. MaxAdding
  BY MaxAddingAssumption
<1>2. [k \in Clients |-> "none"] \in [Clients -> {"none", "idle", "busy", "cut"}]
  OBVIOUS
<1>3. NewHTTPServer \in HTTPServer
  BY <1>1, <1>2 DEF NewHTTPServer, HTTPServer
<1>4. /\ ~NewHTTPServer.listener /\ ~NewHTTPServer.closed /\ ~NewHTTPServer.inShutdown
      /\ ~NewHTTPServer.gaveUp /\ ~NewHTTPServer.routed
  BY DEF NewHTTPServer
<1> DEFINE new == NewHTTPServer
<1> HIDE DEF new
<1>5. ASSUME NEW found \in BOOLEAN
      PROVE  /\ ListenOn(found) \in HTTPServer /\ ListenOn(found).listener = found
             /\ ListenOn(found).closed = NewHTTPServer.closed
             /\ ListenOn(found).inShutdown = NewHTTPServer.inShutdown
             /\ ListenOn(found).gaveUp = NewHTTPServer.gaveUp
             /\ ListenOn(found).routed = NewHTTPServer.routed
             /\ ListenOn(found).isRunning /\ ListenOn(found).serve = "born"
  BY <1>3 DEF ListenOn, HTTPServer
<1> QED
  BY <1>3, <1>4, <1>5 DEF HttpQuiet, HttpUp, HttpDown, HttpIsWhole, Listens

LEMMA CallHttp ==
    ASSUME Turns, Counted, Counted', ServersInv, ServersInv', HttpInv, NEW c \in Callers, Call(c)
    PROVE  HttpInv'
<1> USE DEF Labels, Locking, StartStages, NetStages, FreshStages, StopStages, CloseStages, DownStages, HttpWaits
<1>0. /\ \A l : At(c, l) => Stage = l
      /\ \A l \in Labels : Goto(c, l) => Stage' = l
      /\ UNCHANGED pc => Stage' = Stage
  BY StageMoves
<1>g. gen \in Nat /\ (Stage \notin {"idle", "init"} => gen \in Gens)
  BY ParametersAssumption DEF Counted, Gens
<1>h. ASSUME gen \in Gens
      PROVE  http[gen] \in HTTPServer /\ HttpQuiet(http[gen])
  BY <1>h DEF HttpInv
<1>1. CASE StartCheck(c) \/ StopCheck(c)
  <2>1. UNCHANGED <<gen, net, http>>
    BY <1>1 DEF StartCheck, StopCheck, netVars
  <2>2. Stage = "idle" /\ Stage' \in {"init", "cancel"}
    BY <1>0, <1>1 DEF StartCheck, StopCheck
  <2> QED
    BY <2>1, <2>2, HttpRests DEF Rolling
<1>2. CASE InitComponents(c)
  <2>1. /\ net' = [ready |-> FALSE, servers |-> {}] /\ gen' = gen + 1
        /\ http' = http /\ Stage' = "workers"
    BY <1>0, <1>2 DEF InitComponents
  <2>2. gen' \in Gens /\ gen' > gen
    BY <1>g, <2>1, ParametersAssumption DEF Counted, Gens
  <2>3. http[gen'] = NewHTTPServer /\ \A g \in Gens : g > gen' => http[g] = NewHTTPServer
    BY <1>g, <2>1, <2>2 DEF HttpInv, Gens
  <2> QED
    BY <2>1, <2>3, NewIsHttp DEF HttpInv
<1>3. CASE StartWorkers(c) \/ NetLock(c)
  <2>1. UNCHANGED <<gen, net, http>>
    BY <1>3 DEF StartWorkers, NetLock, netVars, svcVars
  <2>2. Stage \in {"workers", "netLock"} /\ Stage' \in {"workers", "netLock", "tcp"}
    <3>1. CASE StartWorkers(c)
      <4>1. At(c, "workers") /\ (UNCHANGED pc \/ Goto(c, "netLock"))
        BY <3>1 DEF StartWorkers
      <4> QED
        BY <1>0, <4>1
    <3>2. CASE NetLock(c)
      BY <1>0, <3>2 DEF NetLock
    <3> QED
      BY <1>3, <3>1, <3>2
  <2> QED
    BY <2>1, <2>2, HttpRests DEF Rolling
<1>4. ASSUME NEW t \in Types, SkipServer(c, t) \/ ListenOk(c, t)
      PROVE  HttpInv'
  <2>1. UNCHANGED gen /\ Stage = t /\ Stage' = AfterServer(t)
    BY <1>0, <1>4 DEF SkipServer, ListenOk, svcVars, AfterServer, Types
  <2>2. CASE t = "http" /\ ListenOk(c, t)
    <3>1. http' = [http EXCEPT ![gen] = ListenOn(TRUE)] /\ Stage = "http" /\ Stage' = "db"
      BY <2>1, <2>2 DEF ListenOk, AfterServer
    <3>2. "http" \in net'.servers
      <4> DEFINE S == net.servers \cup {"http"}
      <4>1. S \in SUBSET Types /\ net' = Started([net EXCEPT !.servers = S], t)
        BY <2>2 DEF ListenOk, ServersInv, Types
      <4> HIDE DEF S
      <4>2. net'.servers = S
        BY <4>1, NetStartsServer
      <4> QED
        BY <4>2 DEF S
    <3> QED
      BY <1>g, <2>1, <3>1, <3>2, NewIsHttp, HttpChanges DEF Rolling
  <2>3. CASE ~(t = "http" /\ ListenOk(c, t))
    <3>1. UNCHANGED http
      BY <1>4, <2>3 DEF SkipServer, ListenOk, Types
    <3>2. net'.servers = net.servers \/ net'.servers = net.servers \cup {"tcp"}
      <4> DEFINE S == net.servers \cup {"tcp"}
      <4>1. S \in SUBSET Types
        BY DEF ServersInv, Types
      <4>2. net' = Started(net, t) \/ (t = "tcp" /\ net' = Started([net EXCEPT !.servers = S], t))
        BY <1>4, <2>3 DEF SkipServer, ListenOk, Types
      <4> HIDE DEF S
      <4>3. net'.servers = net.servers \/ net'.servers = S
        <5>1. CASE net' = Started(net, t)
          BY <4>1, <5>1, NetStartsServer
        <5>2. CASE net' = Started([net EXCEPT !.servers = S], t)
          BY <4>1, <5>2, NetStartsServer
        <5> QED
          BY <4>2, <5>1, <5>2
      <4> QED
        BY <4>3 DEF S
    <3> QED
      BY <2>1, <3>1, <3>2, HttpRests DEF Rolling, AfterServer, Types
  <2> QED
    BY <2>2, <2>3
<1>5. CASE ListenNowhere(c)
  <2>1. /\ UNCHANGED <<gen, net>> /\ Stage = "http" /\ Stage' = "rollback"
        /\ http' = [http EXCEPT ![gen] = ListenOn(FALSE)]
    BY <1>0, <1>5 DEF ListenNowhere, svcVars
  <2>2. "http" \notin net'.servers
    BY <2>1 DEF ServersInv
  <2> QED
    BY <1>g, <2>1, <2>2, NewIsHttp, HttpChanges
<1>6. CASE \E t \in Types : ListenFails(c, t)
  <2>1. UNCHANGED <<gen, net, http>>
    BY <1>6 DEF ListenFails, netVars, svcVars
  <2>2. Stage \in {"tcp", "http"} /\ Stage' = "rollback"
    BY <1>0, <1>6 DEF ListenFails, Types
  <2> QED
    BY <2>1, <2>2, HttpRests DEF Rolling
<1>7. CASE StartDb(c) \/ StartMonitoring(c) \/ SetRunning(c)
  <2>1. UNCHANGED <<gen, net, http>>
    BY <1>7 DEF StartDb, StartMonitoring, SetRunning, netVars, svcVars
  <2>2. /\ Stage \in {"db", "monitor", "started"}
        /\ Stage' \in {"monitor", "started", "idle"} \/ (Stage = "db" /\ Stage' = "cleanup")
    BY <1>0, <1>7 DEF StartDb, StartMonitoring, SetRunning
  <2>3. ~Rolling'
    BY <2>1, <2>2 DEF Rolling, ServersInv, Since
  <2> QED
    BY <2>1, <2>2, <2>3, HttpRests
<1>8. ASSUME NEW from \in {"rollback", "stopNet"}, NEW to \in {"rollbackWait", "stopTcp"},
             CloseTcp(c, from, to), from = "rollback" <=> to = "rollbackWait"
      PROVE  HttpInv'
  <2>1. UNCHANGED <<gen, net, http>> /\ Stage = from /\ Stage' = to
    BY <1>0, <1>8 DEF CloseTcp, svcVars
  <2> QED
    BY <1>8, <2>1, HttpRests DEF Rolling
<1>9. ASSUME NEW from \in {"rollbackWait", "stopTcp"}, NEW to \in {"rollback", "stopNet"},
             NEW done, TcpClosed(c, from, to, done), from = "rollbackWait" <=> to = "rollback"
      PROVE  HttpInv'
  <2>1. /\ UNCHANGED <<gen, http>> /\ Stage = from /\ Stage' = to
        /\ net' = [net EXCEPT !.servers = net.servers \ {"tcp"}]
    BY <1>0, <1>9 DEF TcpClosed, svcVars
  <2>2. "http" \in net'.servers <=> "http" \in net.servers
    BY <2>1 DEF ServersInv
  <2> QED
    BY <1>9, <2>1, <2>2, HttpRests DEF Rolling
<1>10. CASE Rollback(c)
  <2>1. CASE At(c, "rollback") /\ net.servers = {} /\ Goto(c, "cleanup") /\ UNCHANGED <<svcVars, netVars>>
    <3>1. UNCHANGED <<gen, net, http>> /\ Stage = "rollback" /\ Stage' = "cleanup"
      BY <1>0, <2>1 DEF netVars, svcVars
    <3> QED
      BY <3>1, HttpRests DEF Rolling
  <2> QED
    BY <1>8, <1>9, <1>10, <2>1 DEF Rollback
<1>11. CASE Cleanup(c)
  <2>1. UNCHANGED <<gen, net, http>> /\ Stage = "cleanup" /\ Stage' \in {"cleanup", "idle"}
    <3>1. UNCHANGED <<gen, net, http>> /\ At(c, "cleanup")
      BY <1>11 DEF Cleanup, netVars
    <3>2. UNCHANGED pc \/ Goto(c, "idle")
      BY <1>11 DEF Cleanup
    <3> QED
      BY <1>0, <3>1, <3>2
  <2> QED
    BY <2>1, HttpRests DEF Rolling
<1>12. CASE StopCancel(c) \/ StopLock(c) \/ StopDb(c) \/ StopQueue(c) \/ StopWait(c)
  <2>1. UNCHANGED <<gen, net, http>>
    BY <1>12 DEF StopCancel, StopLock, StopDb, StopQueue, StopWait, netVars, svcVars
  <2>2. /\ Stage \in {"cancel", "stopLock", "stopDb", "stopMq", "wait"}
        /\ Stage' \in {"stopLock", "stopMq", "wait", "idle", "stopNet", "stopDb"}
    <3>1. CASE StopCancel(c) \/ StopLock(c) \/ StopDb(c) \/ StopWait(c)
      BY <1>0, <3>1 DEF StopCancel, StopLock, StopDb, StopWait
    <3>2. CASE StopQueue(c)
      <4>1. At(c, "stopMq") /\ (UNCHANGED pc \/ Goto(c, "wait"))
        BY <3>2 DEF StopQueue
      <4> QED
        BY <1>0, <4>1
    <3> QED
      BY <1>12, <3>1, <3>2
  <2> QED
    BY <2>1, <2>2, HttpRests DEF Rolling
<1>13. CASE NetStopped(c)
  <2>1. /\ UNCHANGED <<gen, http>> /\ Stage = "stopNet" /\ Stage' = "stopDb"
        /\ net' = [net EXCEPT !.ready = FALSE]
    BY <1>0, <1>13 DEF NetStopped, svcVars
  <2>2. "http" \in net'.servers <=> "http" \in net.servers
    BY <2>1 DEF ServersInv
  <2> QED
    BY <2>1, <2>2, HttpRests DEF Rolling
<1>14. ASSUME NEW from \in {"stopNet", "httpWait"}, NEW h \in HTTPServer,
              HttpClosed(c, from, h), HttpQuiet(CloseReturned(h)), HttpDown(CloseReturned(h))
       PROVE  HttpInv'
  <2>1. /\ UNCHANGED gen /\ Stage = from /\ Stage' = "stopNet"
        /\ http' = [http EXCEPT ![gen] = CloseReturned(h)]
        /\ net' = [net EXCEPT !.servers = net.servers \ {"http"}]
    BY <1>0, <1>14 DEF HttpClosed, HttpStep, svcVars
  <2>2. "http" \notin net'.servers /\ gen \in Gens
    BY <1>g, <2>1 DEF ServersInv
  <2>3. CloseReturned(h) \in HTTPServer
    BY CloseKeeps
  <2> QED
    BY <1>14, <2>1, <2>2, <2>3, HttpChanges DEF Rolling
<1>15. CASE CloseHttp(c)
  <2> DEFINE h == http[gen]
  <2>1. CASE /\ At(c, "stopNet") /\ "http" \in net.servers /\ h.isRunning
             /\ HttpStep(c, "stopNet", "stopHttp", CloseFlag(h)) /\ UNCHANGED net
    <3>1. /\ UNCHANGED gen /\ Stage = "stopNet" /\ Stage' = "stopHttp"
          /\ http' = [http EXCEPT ![gen] = CloseFlag(h)] /\ "http" \in net'.servers
      BY <1>0, <2>1 DEF HttpStep, svcVars
    <3>2. CloseFlag(h) \in HTTPServer /\ HttpQuiet(CloseFlag(h)) /\ gen \in Gens
      BY <1>g, <1>h, <3>1, CloseKeeps
    <3> QED
      BY <3>1, <3>2, HttpChanges DEF Rolling
  <2>2. CASE /\ At(c, "stopNet") /\ "http" \in net.servers /\ ~h.isRunning
             /\ HttpClosed(c, "stopNet", h)
    <3>1. Stage = "stopNet"
      BY <1>0, <2>2
    <3>2. HttpUp(h)
      BY <2>2, <3>1 DEF HttpInv
    <3> QED
      BY <1>g, <1>h, <1>14, <2>2, <3>1, <3>2, CloseKeeps
  <2>3. CASE HttpStep(c, "stopHttp", "httpWait", CloseShutdown(h)) /\ UNCHANGED net
    <3>1. /\ UNCHANGED gen /\ Stage = "stopHttp" /\ Stage' = "httpWait"
          /\ http' = [http EXCEPT ![gen] = CloseShutdown(h)]
      BY <1>0, <2>3 DEF HttpStep, svcVars
    <3>2. /\ CloseShutdown(h) \in HTTPServer /\ HttpQuiet(CloseShutdown(h)) /\ gen \in Gens
          /\ CloseShutdown(h).inShutdown
      BY <1>g, <1>h, <3>1, CloseKeeps
    <3>3. "http" \notin net'.servers => HttpDown(CloseShutdown(h))
      <4>1. ASSUME HttpDown(h)
            PROVE  HttpDown(CloseShutdown(h))
        BY <1>g, <1>h, <3>1, <4>1 DEF HttpDown, Listens, CloseShutdown, HTTPServer
      <4>2. gen > 0
        BY <3>2 DEF Gens
      <4> QED
        BY <2>3, <4>1, <4>2 DEF HttpInv
    <3> QED
      BY <3>1, <3>2, <3>3, HttpChanges DEF Rolling
  <2>4. CASE At(c, "httpWait") /\ h.serve # "serving" /\ HttpClosed(c, "httpWait", DropAll(h))
    <3>1. Stage = "httpWait"
      BY <1>0, <2>4
    <3>2. h.inShutdown /\ h \in HTTPServer
      BY <1>g, <1>h, <3>1 DEF HttpInv
    <3>3. DropAll(h) \in HTTPServer
      BY <2>4, <3>2, DropKeeps
    <3>4. HttpQuiet(CloseReturned(DropAll(h))) /\ HttpDown(CloseReturned(DropAll(h)))
      BY <2>4, <3>2, DropKeeps
    <3> QED
      BY <1>14, <2>4, <3>3, <3>4
  <2> QED
    BY <1>15, <2>1, <2>2, <2>3, <2>4 DEF CloseHttp
<1>16. CASE StopNet(c)
  BY <1>8, <1>9, <1>13, <1>15, <1>16 DEF StopNet
<1> QED
  BY <1>1, <1>2, <1>3, <1>4, <1>5, <1>6, <1>7, <1>10, <1>11, <1>12, <1>16 DEF Call, StartStep, StopStep

(* What runs in the background moves at most one HTTP server.               *)
LEMMA BackgroundHttp ==
    ASSUME Background \/ UNCHANGED vars, Turns, Counted, HttpInv
    PROVE  /\ listening' = listening
           /\ \/ http' = http
              \/ \E g \in Gens, i \in HTTPServer :
                    /\ http' = [http EXCEPT ![g] = i] /\ g <= gen /\ KeepsHttp(http[g], i)
                    /\ http[g].serve # "none" \/ (g = gen /\ state \in {"Running", "Stopping"})
<1>0. /\ gen \in 0 .. MaxStarts /\ MaxStarts \in Nat /\ \A g \in 1 .. gen : g \in Gens /\ g <= gen
      /\ \A g \in Gens : http[g] \in HTTPServer
  BY ParametersAssumption DEF Counted, Gens, HttpInv
<1>1. listening' = listening
  BY DEF Background, MonitorExit, WorkersExit, CheckBegin, CheckEnd, TcpEnds, Hang,
                StartReturns, HttpServe,
         HttpFails, HttpCrashes, HttpClient, Route, HttpBecomes, vars, netVars, tcpVars
<1>2. ASSUME NEW g \in 1 .. gen, HttpServe(g) \/ HttpFails(g) \/ HttpCrashes(g)
      PROVE  \E i : ServeStep(http[g], i) /\ http' = [http EXCEPT ![g] = i]
  BY <1>2 DEF HttpServe, HttpFails, HttpCrashes, HttpBecomes, ServeStep
<1>3. ASSUME HttpClient \/ Route
      PROVE  \E i : UseStep(http[gen], i) /\ http' = [http EXCEPT ![gen] = i]
  BY <1>3 DEF HttpClient, Route, HttpBecomes, UseStep
<1>4. CASE \E g \in 1 .. gen : HttpServe(g) \/ HttpFails(g) \/ HttpCrashes(g)
  <2>0. PICK g \in 1 .. gen : HttpServe(g) \/ HttpFails(g) \/ HttpCrashes(g)
    BY <1>4
  <2>1. PICK i : ServeStep(http[g], i) /\ http' = [http EXCEPT ![g] = i]
    BY <1>2, <2>0
  <2>2. KeepsHttp(http[g], i) /\ http[g].serve # "none" /\ i \in HTTPServer
    BY <1>0, <2>1, ServeKeeps DEF KeepsHttp
  <2> QED
    BY <1>0, <1>1, <2>1, <2>2
<1>5. CASE state \in {"Running", "Stopping"} /\ (HttpClient \/ Route)
  <2>0. gen # 0
    BY <1>5 DEF Counted, Turns, StopStages, CloseStages, DownStages
  <2>1. gen \in Gens /\ gen <= gen
    BY <1>0, <2>0 DEF Gens
  <2>2. PICK i : UseStep(http[gen], i) /\ http' = [http EXCEPT ![gen] = i]
    BY <1>3, <1>5
  <2>3. KeepsHttp(http[gen], i) /\ i \in HTTPServer
    BY <1>0, <2>1, <2>2, UseKeeps DEF KeepsHttp
  <2> QED
    BY <1>1, <1>5, <2>1, <2>2, <2>3
<1>6. CASE \/ MonitorExit \/ WorkersExit \/ CheckBegin \/ CheckEnd \/ TcpEnds \/ Hang
           \/ UNCHANGED vars \/ \E c \in Callers : StartReturns(c)
  BY <1>1, <1>6 DEF MonitorExit, WorkersExit, CheckBegin, CheckEnd, TcpEnds, Hang,
              StartReturns, vars, netVars
<1> QED
  BY <1>4, <1>5, <1>6 DEF Background

LEMMA NextHttp ==
    ASSUME Turns, Counted, Counted', ServersInv, ServersInv', HttpInv, [Next]_vars
    PROVE  HttpInv'
<1>1. CASE Background \/ UNCHANGED vars
  <2>0. UNCHANGED <<gen, net, state>> /\ Stage' = Stage
    BY <1>1, BackgroundStage
  <2>1. CASE http' = http
    BY <2>0, <2>1 DEF HttpInv, Rolling
  <2>2. ASSUME NEW g \in Gens, NEW i \in HTTPServer,
               http' = [http EXCEPT ![g] = i], g <= gen, KeepsHttp(http[g], i),
               http[g].serve # "none" \/ (g = gen /\ state \in {"Running", "Stopping"})
        PROVE  HttpInv'
    <3>1. /\ http \in [Gens -> HTTPServer] /\ http' \in [Gens -> HTTPServer] /\ http'[g] = i
          /\ \A f \in Gens : f # g => http'[f] = http[f]
      BY <2>2 DEF HttpInv
    <3>2. /\ HttpQuiet(http[g]) => HttpQuiet(i)
          /\ HttpUp(http[g]) => HttpUp(i)
          /\ HttpDown(http[g]) => HttpDown(i)
          /\ i.listener = http[g].listener /\ i.inShutdown = http[g].inShutdown
      BY <2>2 DEF KeepsHttp
    <3>3. gen \in Nat /\ (gen # 0 => gen \in Gens)
      BY ParametersAssumption DEF Counted, Gens
    <3>4. \A f \in Gens : HttpQuiet(http'[f])
      BY <3>1, <3>2 DEF HttpInv
    <3>5. \A f \in Gens : f > gen => http'[f] = NewHTTPServer
      BY <2>2, <3>1, <3>3 DEF HttpInv, Gens
    <3>6. Stage \in FreshStages => g # gen
      <4>1. NewHTTPServer.serve = "none"
        BY DEF NewHTTPServer
      <4>2. Stage \in FreshStages => state = "Starting" /\ http[gen] = NewHTTPServer
        BY DEF Turns, StartStages, NetStages, HttpInv
      <4> QED
        BY <2>2, <4>1, <4>2
    <3>7. Stage \notin {"idle", "init"} \/ "http" \in net.servers => gen \in Gens
      BY <3>3 DEF Counted, ServersInv
    <3>8. Stage \in FreshStages => http'[gen] = NewHTTPServer
      BY <3>1, <3>6, <3>7 DEF HttpInv, FreshStages
    <3>9. Rolling => ~http'[gen].listener
      BY <3>1, <3>2, <3>7 DEF HttpInv, Rolling, NetStages, FreshStages
    <3>10. /\ "http" \in net.servers /\ Stage \notin HttpWaits => HttpUp(http'[gen])
           /\ Stage = "httpWait" => http'[gen].inShutdown
           /\ gen > 0 /\ "http" \notin net.servers => HttpDown(http'[gen])
      <4>1. /\ "http" \in net.servers /\ Stage \notin HttpWaits => gen \in Gens /\ HttpUp(http[gen])
            /\ Stage = "httpWait" => gen \in Gens /\ http[gen].inShutdown
            /\ gen > 0 /\ "http" \notin net.servers => gen \in Gens /\ HttpDown(http[gen])
        BY <3>3, <3>7 DEF HttpInv
      <4>2. CASE g = gen
        <5>1. http'[gen] = i
          BY <3>1, <4>2
        <5>2. /\ HttpUp(http[gen]) => HttpUp(i)
              /\ HttpDown(http[gen]) => HttpDown(i)
              /\ i.inShutdown = http[gen].inShutdown
          BY <3>2, <4>2
        <5>3. "http" \in net.servers /\ Stage \notin HttpWaits => HttpUp(http'[gen])
          BY <4>1, <5>1, <5>2
        <5>4. Stage = "httpWait" => http'[gen].inShutdown
          BY <4>1, <5>1, <5>2
        <5>5. gen > 0 /\ "http" \notin net.servers => HttpDown(http'[gen])
          BY <4>1, <5>1, <5>2
        <5> QED
          BY <5>3, <5>4, <5>5
      <4>3. CASE g # gen
        <5>1. gen \in Gens => http'[gen] = http[gen]
          BY <3>1, <4>3
        <5> QED
          BY <4>1, <5>1
      <4> QED
        BY <4>2, <4>3
    <3> QED
      BY <2>0, <3>1, <3>4, <3>5, <3>8, <3>9, <3>10 DEF HttpInv, Rolling
  <2> QED
    BY <1>1, <2>1, <2>2, BackgroundHttp
<1> QED
  BY <1>1, CallHttp DEF Next

-------------------------------------------------------------------------------
(* What is left listening. *)
LEMMA CallLeft ==
    ASSUME Turns, Counted, ServersInv, TcpInv, HttpInv, LeftInv, NEW c \in Callers, Call(c)
    PROVE  LeftInv'
<1> USE DEF Labels, Locking, StartStages, NetStages, FreshStages, StopStages, CloseStages, DownStages
<1>0. /\ \A l : At(c, l) => Stage = l
      /\ \A l \in Labels : Goto(c, l) => Stage' = l
      /\ UNCHANGED pc => Stage' = Stage
  BY StageMoves
<1>g. gen \in Nat /\ (Stage \notin {"idle", "init"} => gen \in Gens)
  BY ParametersAssumption DEF Counted, Gens
<1>1. CASE StartCheck(c) \/ StopCheck(c)
  <2>1. UNCHANGED <<gen, failed, listening, http>>
    BY <1>1 DEF StartCheck, StopCheck, netVars, tcpVars
  <2>2. state = "Stopped" \/ (state' = "Stopping" /\ Stage' = "cancel")
    BY <1>0, <1>1 DEF StartCheck, StopCheck
  <2> QED
    BY <2>1, <2>2 DEF LeftInv
<1>2. CASE InitComponents(c)
  <2>1. /\ UNCHANGED <<failed, listening, http, state>> /\ Stage = "init" /\ Stage' = "workers"
        /\ gen' = gen + 1
    BY <1>0, <1>2 DEF InitComponents, tcpVars
  <2> QED
    BY <1>g, <2>1 DEF LeftInv
<1>3. CASE Cleanup(c)
  <2>1. /\ UNCHANGED <<gen, listening, http>> /\ failed' = failed \cup {gen} /\ Stage = "cleanup"
    BY <1>0, <1>3 DEF Cleanup, netVars, tcpVars
  <2>2. state' # "Stopped" => Stage' # "init"
    BY <1>0, <1>3, <2>1 DEF Cleanup
  <2> QED
    BY <1>g, <2>1, <2>2 DEF LeftInv
<1>4. CASE StopWait(c)
  <2>1. UNCHANGED <<gen, failed, listening, http>> /\ Stage = "wait"
    BY <1>0, <1>4 DEF StopWait, netVars, tcpVars
  <2>2. gen \notin listening /\ HttpDown(http[gen])
    <3>1. net.servers = {} /\ gen > 0
      BY <1>g, <2>1 DEF ServersInv, Gens
    <3> QED
      BY <3>1 DEF TcpInv, HttpInv
  <2> QED
    BY <2>1, <2>2 DEF LeftInv
<1>5. ASSUME UNCHANGED <<gen, failed>>, Stage' # "init", state' # "Stopped", gen \in Gens,
             listening' \subseteq listening \cup {gen},
             \A g \in Gens : g # gen => http'[g] = http[g]
      PROVE  LeftInv'
  BY <1>5 DEF LeftInv
<1>6. CASE \/ StartWorkers(c) \/ NetLock(c) \/ ListenNowhere(c)
           \/ \E t \in Types : SkipServer(c, t) \/ ListenOk(c, t) \/ ListenFails(c, t)
           \/ StartDb(c) \/ StartMonitoring(c) \/ SetRunning(c) \/ Rollback(c)
  <2>1. /\ UNCHANGED <<gen, failed>> /\ listening' \subseteq listening \cup {gen}
        /\ \A g \in Gens : g # gen => http'[g] = http[g]
    <3>1. UNCHANGED <<gen, failed>>
      BY <1>6 DEF StartWorkers, NetLock, ListenNowhere, SkipServer, ListenOk, ListenFails,
                  StartDb, StartMonitoring, SetRunning, Rollback, CloseTcp, TcpClosed, svcVars
    <3>2. listening' \in {listening, listening \cup {gen}, listening \ {gen}}
      BY <1>6 DEF StartWorkers, NetLock, ListenNowhere, SkipServer, ListenOk, ListenFails,
                  StartDb, StartMonitoring, SetRunning, Rollback, CloseTcp, TcpClosed,
                  netVars, tcpVars
    <3>3. http' = http \/ \E h : http' = [http EXCEPT ![gen] = h]
      BY <1>6 DEF StartWorkers, NetLock, ListenNowhere, SkipServer, ListenOk, ListenFails,
                  StartDb, StartMonitoring, SetRunning, Rollback, CloseTcp, TcpClosed, netVars
    <3>4. http \in [Gens -> HTTPServer]
      BY DEF HttpInv
    <3> QED
      BY <3>1, <3>2, <3>3, <3>4
  <2>2. Stage \notin {"idle", "init"} /\ Stage' # "init" /\ state' # "Stopped"
    <3>1. CASE StartWorkers(c)
      <4>1. At(c, "workers") /\ (UNCHANGED pc \/ Goto(c, "netLock")) /\ UNCHANGED state
        BY <3>1 DEF StartWorkers
      <4> QED
        BY <1>0, <4>1 DEF Turns
    <3>2. CASE NetLock(c) \/ ListenNowhere(c) \/ StartDb(c) \/ StartMonitoring(c) \/ SetRunning(c)
      BY <1>0, <3>2 DEF NetLock, ListenNowhere, StartDb, StartMonitoring, SetRunning, svcVars, Turns
    <3>3. CASE \E t \in Types : SkipServer(c, t) \/ ListenOk(c, t) \/ ListenFails(c, t)
      BY <1>0, <3>3 DEF SkipServer, ListenOk, ListenFails, AfterServer, Types, svcVars, Turns
    <3>4. CASE Rollback(c)
      BY <1>0, <3>4 DEF Rollback, CloseTcp, TcpClosed, svcVars, Turns
    <3> QED
      BY <1>6, <3>1, <3>2, <3>3, <3>4
  <2> QED
    BY <1>g, <1>5, <2>1, <2>2
<1>7. CASE StopCancel(c) \/ StopLock(c) \/ StopNet(c) \/ StopDb(c) \/ StopQueue(c)
  <2>1. /\ UNCHANGED <<gen, failed>> /\ listening' \subseteq listening
        /\ \A g \in Gens : g # gen => http'[g] = http[g]
    <3>1. UNCHANGED <<gen, failed>> /\ listening' \in {listening, listening \ {gen}}
      BY <1>7 DEF StopCancel, StopLock, StopNet, StopDb, StopQueue, CloseTcp, TcpClosed, CloseHttp,
                  HttpStep, HttpClosed, NetStopped, netVars, tcpVars, svcVars
    <3>2. http' = http \/ \E h : http' = [http EXCEPT ![gen] = h]
      BY <1>7 DEF StopCancel, StopLock, StopNet, StopDb, StopQueue, CloseTcp, TcpClosed, CloseHttp,
                  HttpStep, HttpClosed, NetStopped, netVars
    <3>3. http \in [Gens -> HTTPServer]
      BY DEF HttpInv
    <3> QED
      BY <3>1, <3>2, <3>3
  <2>2. Stage \notin {"idle", "init"} /\ Stage' # "init" /\ state' # "Stopped"
    <3>1. CASE StopCancel(c) \/ StopLock(c) \/ StopDb(c)
      BY <1>0, <3>1 DEF StopCancel, StopLock, StopDb, svcVars, Turns
    <3>2. CASE StopQueue(c)
      <4>1. At(c, "stopMq") /\ (UNCHANGED pc \/ Goto(c, "wait")) /\ UNCHANGED state
        BY <3>2 DEF StopQueue
      <4> QED
        BY <1>0, <4>1 DEF Turns
    <3>3. CASE StopNet(c)
      BY <1>0, <3>3 DEF StopNet, CloseTcp, TcpClosed, CloseHttp, HttpStep, HttpClosed, NetStopped,
                        svcVars, Turns
    <3> QED
      BY <1>7, <3>1, <3>2, <3>3
  <2> QED
    BY <1>g, <1>5, <2>1, <2>2
<1> QED
  BY <1>1, <1>2, <1>3, <1>4, <1>6, <1>7 DEF Call, StartStep, StopStep

LEMMA NextLeft ==
    ASSUME Turns, Counted, ServersInv, TcpInv, HttpInv, LeftInv, [Next]_vars
    PROVE  LeftInv'
<1>1. CASE Background \/ UNCHANGED vars
  <2>1. UNCHANGED <<gen, state, failed>> /\ Stage' = Stage
    BY <1>1, BackgroundStage
  <2>2. /\ listening' = listening
        /\ \A g \in Gens : HttpDown(http[g]) => HttpDown(http'[g])
    BY <1>1, BackgroundHttp DEF HttpInv, KeepsHttp
  <2> QED
    BY <2>1, <2>2 DEF LeftInv
<1> QED
  BY <1>1, CallLeft DEF Next

-------------------------------------------------------------------------------
(* What hangs, and whose Start has not returned. *)
LEMMA NextHang ==
    ASSUME Counted, TcpInv, HangInv, [Next]_vars
    PROVE  HangInv'
<1> USE DEF HangInv
<1>1. gen \in 0 .. MaxStarts /\ checking \in 0 .. MaxStarts /\ serving \subseteq 0 .. MaxStarts
  BY ParametersAssumption DEF Counted, TcpInv
<1>2. ASSUME NEW c \in Callers, Call(c)
      PROVE  HangInv'
  <2>1. hung' = hung
    BY <1>2 DEF Call, StartCheck, StopCheck, StartStep, StopStep, InitComponents, StartWorkers,
                NetLock, ListenNowhere, SkipServer, ListenOk, ListenFails, StartDb,
                StartMonitoring, SetRunning, Rollback, Cleanup, StopCancel, StopLock, StopNet,
                StopDb, StopQueue, StopWait, CloseTcp, TcpClosed, CloseHttp, HttpStep,
                HttpClosed, NetStopped, netVars
  <2>2. finishing' = finishing \/ finishing' = finishing \cup {c}
    BY <1>2 DEF Call, StartCheck, StopCheck, StartStep, StopStep, InitComponents, StartWorkers,
                NetLock, ListenNowhere, SkipServer, ListenOk, ListenFails, StartDb,
                StartMonitoring, SetRunning, Rollback, Cleanup, StopCancel, StopLock, StopNet,
                StopDb, StopQueue, StopWait, CloseTcp, TcpClosed, CloseHttp, HttpStep,
                HttpClosed, NetStopped, svcVars
  <2> QED
    BY <2>1, <2>2
<1>3. CASE Hang
  <2>1. finishing' = finishing
    BY <1>3 DEF Hang, svcVars
  <2>2. \E x \in {"check", "close", "accept"} \X (0 .. MaxStarts) : hung' = hung \cup {x}
    BY <1>1, <1>3 DEF Hang
  <2> QED
    BY <2>1, <2>2
<1>4. CASE \E c \in Callers : StartReturns(c)
  BY <1>4 DEF StartReturns, netVars
<1>5. CASE \/ MonitorExit \/ WorkersExit \/ CheckBegin \/ CheckEnd \/ TcpEnds \/ HttpClient
           \/ Route \/ UNCHANGED vars
           \/ \E g \in 1 .. gen : HttpServe(g) \/ HttpFails(g) \/ HttpCrashes(g)
  BY <1>5 DEF MonitorExit, WorkersExit, CheckBegin, CheckEnd, TcpEnds, HttpClient, Route,
              HttpServe, HttpFails, HttpCrashes, HttpBecomes, vars, svcVars, netVars
<1> QED
  BY <1>2, <1>3, <1>4, <1>5 DEF Next, Background

-------------------------------------------------------------------------------
LEMMA InitSvcInv ==
    ASSUME Init
    PROVE  SvcInv
<1>1. Stage = "idle" /\ gen = 0 /\ state = "Stopped" /\ net.servers = {}
  BY DEF Init, Stage
<1>2. Turns
  BY <1>1 DEF Init, Turns, Labels, Locking, StartStages, NetStages, FreshStages, StopStages,
              CloseStages, DownStages
<1>3. Counted /\ MonitorInv
  BY <1>1, ParametersAssumption DEF Init, Counted, MonitorInv
<1>4. LifeInv
  BY <1>1 DEF Init, LifeInv, NoMq, WorkersAre, Since, StartStages, NetStages, FreshStages, StopStages,
              CloseStages, DownStages
<1>5. ServersInv
  BY <1>1 DEF Init, ServersInv, Since, NetStages, FreshStages, DownStages
<1>6. TcpInv
  BY <1>1, ParametersAssumption DEF Init, TcpInv, Rolling, NetStages, FreshStages, HeldStages,
                                    Locking
<1>7. HttpQuiet(NewHTTPServer) /\ HttpDown(NewHTTPServer) /\ NewHTTPServer \in HTTPServer
      /\ ~NewHTTPServer.listener
  BY NewIsHttp DEF HttpQuiet, HttpDown, Listens, NewHTTPServer
<1>8. \A g \in Gens : http[g] = NewHTTPServer
  BY DEF Init, Gens
<1>9. HttpInv
  <2>1. http \in [Gens -> HTTPServer]
    BY <1>7 DEF Init, Gens
  <2> QED
    BY <1>1, <1>7, <1>8, <2>1 DEF HttpInv, Rolling, NetStages, FreshStages
<1>10. LeftInv
  BY <1>1, <1>7, <1>8 DEF Init, LeftInv
<1>11. HangInv
  BY DEF Init, HangInv
<1> QED
  BY <1>2, <1>3, <1>4, <1>5, <1>6, <1>9, <1>10, <1>11 DEF SvcInv

LEMMA NextSvcInv ==
    ASSUME SvcInv, [Next]_vars
    PROVE  SvcInv'
<1>1. Turns' /\ Counted'
  BY NextTurns DEF SvcInv
<1>2. MonitorInv' /\ LifeInv'
  BY <1>1, NextMonitor, NextLife DEF SvcInv
<1>3. ServersInv'
  BY <1>1, NextServers DEF SvcInv
<1>4. TcpInv'
  BY <1>1, <1>3, NextTcp DEF SvcInv
<1>5. HttpInv'
  BY <1>1, <1>3, NextHttp DEF SvcInv
<1>6. LeftInv'
  BY NextLeft DEF SvcInv
<1>7. HangInv'
  BY NextHang DEF SvcInv
<1> QED
  BY <1>1, <1>2, <1>3, <1>4, <1>5, <1>6, <1>7 DEF SvcInv

(* The inductive invariant holds throughout. *)
THEOREM SvcInvAlways == Spec => []SvcInv
<1>1. Init => SvcInv
  BY InitSvcInv
<1>2. SvcInv /\ [Next]_vars => SvcInv'
  BY NextSvcInv
<1> QED
  BY <1>1, <1>2, PTL DEF Spec

-------------------------------------------------------------------------------
(* What follows from it. *)

(* The stages of a state in which nobody is inside. *)
LEMMA RestStage ==
    ASSUME Turns
    PROVE  /\ Stage \in StartStages \cup StopStages \cup {"idle"}
           /\ Stage = "idle" <=> state \notin {"Starting", "Stopping"}
<1> USE DEF StartStages, NetStages, FreshStages, StopStages, CloseStages, DownStages
<1>1. Stage \in Labels
  BY DEF Turns, Stage, Labels
<1>2. Stage \in StartStages \cup StopStages \cup {"idle"}
  BY <1>1 DEF Labels, Locking
<1> QED
  BY <1>2 DEF Turns

LEMMA SvcTypes ==
    ASSUME SvcInv
    PROVE  TypeOK
<1>1. gen \in 0 .. MaxStarts /\ MaxStarts \in Nat /\ 1 .. gen \subseteq Gens
  BY ParametersAssumption DEF SvcInv, Counted, Gens
<1>2. monitors \in 0 .. MaxStarts /\ wg \in 0 .. MaxStarts
  <2>1. gen = 0 => monitors = 0
    BY RestStage DEF SvcInv, Counted, MonitorInv, Turns, StartStages, NetStages
  <2> QED
    BY <1>1, <2>1 DEF SvcInv, MonitorInv
<1>3. listening \subseteq Gens /\ serving \subseteq Gens /\ checking \in 0 .. MaxStarts
  BY <1>1 DEF SvcInv, TcpInv
<1>4. \A g \in Gens : http[g] \in HTTPServer
  BY DEF SvcInv, HttpInv
<1>5. /\ config \in Configs /\ net \in [ready : BOOLEAN, servers : SUBSET Types]
      /\ closing \in Types \cup {"none"}
  BY DEF SvcInv, ServersInv
<1> QED
  BY <1>1, <1>2, <1>3, <1>4, <1>5 DEF TypeOK, SvcInv, Turns, LifeInv, LeftInv, HangInv

(* However many goroutines call Start and Stop, at most one is between the   *)
(* check of the state and the assignment that ends it, and exactly while the *)
(* state says so (service.go:114-160, 178-208, 444-452).                     *)
THEOREM OneAtATimeAlways == Spec => []OneAtATime
<1>1. SvcInv => OneAtATime
  <2> SUFFICES ASSUME SvcInv PROVE OneAtATime
    OBVIOUS
  <2> DEFINE inside == {c \in Callers : pc[c] # "idle"}
  <2>1. \A c, d \in inside : c = d
    BY DEF SvcInv, Turns
  <2>2. (inside # {}) <=> state \in {"Starting", "Stopping"}
    BY RestStage, StageIsIdle DEF SvcInv
  <2>3. Cardinality(inside) <= 1
    <3>1. CASE inside = {}
      BY <3>1, FS_EmptySet
    <3>2. CASE inside # {}
      <4>1. PICK c : inside = {c}
        BY <2>1, <3>2
      <4> QED
        <5>1. Cardinality({c}) = 1
          BY FS_Singleton
        <5> HIDE DEF inside
        <5> QED
          BY <4>1, <5>1
    <3> QED
      BY <3>1, <3>2
  <2> QED
    BY <2>2, <2>3, SvcTypes DEF OneAtATime
<1> QED
  BY <1>1, SvcInvAlways, PTL

(* A running service has its database and the servers that are enabled, in   *)
(* every life, each with a listener unless the HTTP server's Serve returned  *)
(* by itself; in its first life it has its context and an open queue too,    *)
(* whose workers, unless it is made for none, were started and not told to   *)
(* end (service.go:112-175, global_mq.go:79-99).                             *)
THEOREM RunningHasItsPartsAlways == Spec => []RunningHasItsParts
<1>1. SvcInv => RunningHasItsParts
  <2> SUFFICES ASSUME SvcInv PROVE RunningHasItsParts
    OBVIOUS
  <2>1. FirstLifeIsWhole
    <3> SUFFICES ASSUME gen <= 1
                 PROVE  /\ state = "Running" =>
                              /\ ~ctxDone /\ ~mq.closed
                              /\ config.mq # "idle" => mq.workers \in {"live", "lost"}
                        /\ panicked # "close of closed channel"
      BY DEF FirstLifeIsWhole
    <3>1. panicked # "close of closed channel"
      BY DEF SvcInv, LifeInv
    <3>2. ASSUME state = "Running"
          PROVE  ~ctxDone /\ ~mq.closed /\ mq.workers # "gone"
      BY <3>2 DEF SvcInv, LifeInv, Since
    <3>3. ASSUME state = "Running", config.mq # "idle"
          PROVE  mq.workers # "none"
      BY <3>3 DEF SvcInv, LifeInv, Since
    <3>4. mq.workers \in WorkersAre
      BY DEF SvcInv, LifeInv
    <3> QED
      BY <3>1, <3>2, <3>3, <3>4 DEF WorkersAre
  <2>2. ASSUME state = "Running"
        PROVE  db.ready /\ net.ready /\ net.servers = config.enabled /\ Stage = "idle"
    BY <2>2, RestStage DEF SvcInv, LifeInv, ServersInv, Since
  <2>3. ASSUME state = "Running", "tcp" \in config.enabled
        PROVE  gen \in listening
    BY <2>2, <2>3 DEF SvcInv, TcpInv
  <2>4. ASSUME state = "Running", "http" \in config.enabled
        PROVE  HttpIsWhole(http[gen])
    <3>1. HttpUp(http[gen])
      BY <2>2, <2>4 DEF SvcInv, HttpInv, HttpWaits
    <3> QED
      BY <3>1 DEF HttpUp
  <2> QED
    BY <2>1, <2>2, <2>3, <2>4 DEF RunningHasItsParts
<1> QED
  BY <1>1, SvcInvAlways, PTL

(* Neither a rollback nor a Stop leaves anything of its own running: no      *)
(* listener that a failed Start has not left, no monitoring goroutine        *)
(* (network/manager.go:91-102, 154-197, service.go:177-212).                 *)
THEOREM StopLeavesNothingAlways == Spec => []StopLeavesNothing
<1>1. SvcInv => StopLeavesNothing
  <2> SUFFICES ASSUME SvcInv PROVE StopLeavesNothing
    OBVIOUS
  <2>1. OneMonitor
    BY DEF SvcInv, MonitorInv, OneMonitor
  <2>2. FailedNetIsRolledBack
    <3> SUFFICES ASSUME NEW c \in Callers, pc[c] = "cleanup", ~net.ready
                 PROVE  gen \notin listening \cup serving /\ ~Listens(http[gen])
      BY DEF FailedNetIsRolledBack
    <3>1. Stage = "cleanup"
      BY StageIsOfCaller DEF SvcInv, Turns
    <3>2. Rolling /\ net.servers = {}
      BY <3>1 DEF SvcInv, Rolling, ServersInv
    <3> QED
      BY <3>2 DEF SvcInv, TcpInv, HttpInv, Listens
  <2>3. OnlyFailedStartsListen
    BY DEF SvcInv, LeftInv, HttpDown, OnlyFailedStartsListen
  <2> QED
    BY <2>1, <2>2, <2>3 DEF StopLeavesNothing
<1> QED
  BY <1>1, SvcInvAlways, PTL

(* The idle check never works on a TCP server that a Stop is closing or has  *)
(* closed (network/manager.go:154-232).                                      *)
THEOREM ChecksOpenServersAlways == Spec => []ChecksOpenServers
<1>1. SvcInv => ChecksOpenServers
  BY DEF SvcInv, TcpInv, ChecksOpenServers
<1> QED
  BY <1>1, SvcInvAlways, PTL

(* Once Close of the HTTP server has returned no connection is left to carry *)
(* a new request (http_net/server.go:148-176, 203-228).                      *)
THEOREM ClosedHttpIsQuietAlways == Spec => []ClosedHttpIsQuiet
<1>1. SvcInv => ClosedHttpIsQuiet
  BY DEF SvcInv, HttpInv, HttpQuiet, ClosedHttpIsQuiet
<1> QED
  BY <1>1, SvcInvAlways, PTL
===============================================================================
