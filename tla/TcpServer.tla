------------------------------- MODULE TcpServer -------------------------------
(***************************************************************************)
(* The TCP server's connection table, network/tcp_net/server.go: Listen,   *)
(* the accept loop, the goroutine it starts for each connection, AddConn   *)
(* and RemoveConn, the idle check, and Close.                              *)
(*                                                                         *)
(* Definitions that the model does not use and that stand before one it   *)
(* does are mutants: slips a property is shown to notice.                  *)
(*                                                                         *)
(* activeConns is changed under the server's RWMutex and connCount by an   *)
(* atomic add after it, so AddConn and RemoveConn are two steps each.      *)
(* GlobalMQ workers call in from handleTokenCheck (AddConn, service.go:358)*)
(* and, on every frame tick, from handleFixedRate (CheckConns).  The       *)
(* network manager holds its lock shared over CheckConns and exclusively   *)
(* over Close, and forgets the server afterwards (network/manager.go).     *)
(*                                                                         *)
(* Two calls may never return: Close of a connection whose mutex a worker  *)
(* keeps, and GetGuid in the accept loop.                                  *)
(***************************************************************************)
EXTENDS Integers, FiniteSets

CONSTANTS
    Conns,      \* connections, by session id
    Adders,     \* workers that run handleTokenCheck
    Checkers,   \* workers that run handleFixedRate
    NoConn,     \* no connection in hand
    MaxConn,    \* maxConnCount (10000 in NewServer)
    MaxTokens   \* bound: token messages

ASSUME SetsAssumption ==
    /\ Adders \cap Checkers = {} /\ NoConn \notin Conns
    /\ IsFiniteSet(Conns) /\ IsFiniteSet(Adders) /\ IsFiniteSet(Checkers)

ASSUME BoundsAssumption == MaxConn \in Nat /\ MaxTokens \in Nat

Workers == Adders \cup Checkers

VARIABLES
    isRunning,    \* the atomic flag of Listen and Close
    listening,    \* the listener is open
    accept,       \* where acceptLoop is
    admitting,    \* the connection acceptLoop has just created
    conn,         \* each connection: "none", "open", "closed" (isClosed is set)
    kept,         \* connections whose mutex a worker keeps for good
    starter,      \* the goroutine acceptLoop starts for each connection
    activeConns,  \* the table
    connCount,    \* its counter
    missed,       \* history: RemoveConn calls that found nothing to remove
    wg,           \* the WaitGroup
    work,         \* where each worker is
    target,       \* the connection a worker is adding or removing
    todo,         \* expiredGuids a CheckConns call has still to remove
    tokens,       \* token messages handled
    close,        \* where Close is
    deadline,     \* the context it was called with ends
    closing       \* connections Close has still to close

tableVars  == <<activeConns, connCount, missed>>
workerVars == <<work, target, todo, tokens>>
acceptVars == <<accept, admitting>>
closeVars  == <<isRunning, listening, close, deadline, closing>>
connVars   == <<conn, kept>>
vars == <<tableVars, workerVars, acceptVars, closeVars, connVars, starter, wg>>

Init ==
    /\ isRunning = FALSE /\ listening = FALSE /\ close = "idle" /\ closing = {}
    /\ deadline = FALSE
    /\ accept = "off" /\ admitting = NoConn
    /\ conn = [c \in Conns |-> "none"] /\ kept = {}
    /\ starter = [c \in Conns |-> "none"]
    /\ activeConns = {} /\ connCount = 0 /\ missed = 0 /\ wg = 0
    /\ work = [w \in Workers |-> "idle"] /\ target = [w \in Workers |-> NoConn]
    /\ todo = [w \in Workers |-> {}] /\ tokens = 0

(* The two halves of AddConn and of RemoveConn. *)
Insert(c) == activeConns' = activeConns \cup {c} /\ UNCHANGED <<connCount, missed>>
Plus      == connCount' = connCount + 1 /\ UNCHANGED <<activeConns, missed>>
Delete(c) == /\ activeConns' = activeConns \ {c}
             /\ missed' = IF c \in activeConns THEN missed ELSE missed + 1
             /\ UNCHANGED connCount
Minus     == connCount' = connCount - 1 /\ UNCHANGED <<activeConns, missed>>

(* Conn.Close sets isClosed, and the first to set it waits for the mutex.   *)
CloseConn(c)   == conn' = [conn EXCEPT ![c] = "closed"] /\ UNCHANGED kept
CloseHangs(c)  == conn[c] = "open" /\ c \in kept

-------------------------------------------------------------------------------
(* Listen binds a port of the configured range and starts acceptLoop.  A    *)
(* Listen that finds none takes isRunning back and changes nothing.         *)
Listen ==
    /\ ~isRunning /\ accept = "off"
    /\ isRunning' = TRUE /\ listening' = TRUE
    /\ wg' = wg + 1
    /\ accept' = "accept"
    /\ UNCHANGED <<admitting, close, deadline, closing, tableVars, workerVars,
                   connVars, starter>>

AcceptConnOneMore(c) ==
    /\ accept = "accept" /\ listening /\ conn[c] = "none"
    /\ connCount <= MaxConn
    /\ admitting' = c
    /\ accept' = "guid"
    /\ UNCHANGED <<closeVars, tableVars, workerVars, connVars, starter, wg>>

(* A new connection within the limit; one over it, or refused by            *)
(* isAllowConnFunc, is closed without a trace.                              *)
AcceptConn(c) ==
    /\ accept = "accept" /\ listening /\ conn[c] = "none"
    /\ connCount < MaxConn
    /\ admitting' = c
    /\ accept' = "guid"
    /\ UNCHANGED <<closeVars, tableVars, workerVars, connVars, starter, wg>>

(* NewConn asks GetGuid for a session id, and that may have to ask the      *)
(* allocator, whose answer it awaits without a deadline (guid.go:69, 79).   *)
AcceptGuid ==
    /\ accept = "guid"
    /\ \/ /\ accept' = "insert"
          /\ conn' = [conn EXCEPT ![admitting] = "open"] /\ UNCHANGED kept
       \/ accept' = "hung" /\ UNCHANGED connVars
    /\ UNCHANGED <<admitting, closeVars, tableVars, workerVars, starter, wg>>

AcceptInsert ==
    /\ accept = "insert"
    /\ Insert(admitting)
    /\ accept' = "plus"
    /\ UNCHANGED <<admitting, closeVars, workerVars, connVars, starter, wg>>

AcceptPlus ==
    /\ accept = "plus"
    /\ Plus
    /\ accept' = "spawn"
    /\ UNCHANGED <<admitting, closeVars, workerVars, connVars, starter, wg>>

AcceptSpawnUncounted ==
    /\ accept = "spawn"
    /\ starter' = [starter EXCEPT ![admitting] = "start"]
    /\ admitting' = NoConn
    /\ accept' = "accept"
    /\ UNCHANGED <<closeVars, tableVars, workerVars, connVars, wg>>

AcceptSpawn ==
    /\ accept = "spawn"
    /\ wg' = wg + 1
    /\ starter' = [starter EXCEPT ![admitting] = "start"]
    /\ admitting' = NoConn
    /\ accept' = "accept"
    /\ UNCHANGED <<closeVars, tableVars, workerVars, connVars>>

(* Accept fails once the listener is closed, whether or not isRunning is    *)
(* already cleared.                                                         *)
AcceptExit ==
    /\ accept = "accept" /\ ~listening
    /\ accept' = "done"
    /\ wg' = wg - 1
    /\ UNCHANGED <<admitting, closeVars, tableVars, workerVars, connVars,
                   starter>>

(* The per-connection goroutine: Start only launches readLoop and returns   *)
(* nil, so the deferred RemoveConn and wg.Done follow at once.              *)
StarterStart(c) ==
    /\ starter[c] = "start"
    /\ starter' = [starter EXCEPT ![c] = "delete"]
    /\ UNCHANGED <<acceptVars, closeVars, tableVars, workerVars, connVars, wg>>

StarterDelete(c) ==
    /\ starter[c] = "delete"
    /\ Delete(c)
    /\ starter' = [starter EXCEPT ![c] = "minus"]
    /\ UNCHANGED <<acceptVars, closeVars, workerVars, connVars, wg>>

StarterMinus(c) ==
    /\ starter[c] = "minus"
    /\ Minus
    /\ starter' = [starter EXCEPT ![c] = "wgdone"]
    /\ UNCHANGED <<acceptVars, closeVars, workerVars, connVars, wg>>

StarterDone(c) ==
    /\ starter[c] = "wgdone"
    /\ wg' = wg - 1
    /\ starter' = [starter EXCEPT ![c] = "done"]
    /\ UNCHANGED <<acceptVars, closeVars, tableVars, workerVars, connVars>>

-------------------------------------------------------------------------------
Reading(c) == starter[c] \in {"delete", "minus", "wgdone", "done"}

(* A worker's SyncSend to c fails: it keeps the mutex it holds, for it      *)
(* locks it again to log the address, and never returns (conn.go:157-171).  *)
(* That worker is none of those below, or one that does nothing any more.   *)
SyncFails(c) ==
    /\ conn[c] = "open" /\ (Reading(c) \/ c \in activeConns)
    /\ kept' = kept \cup {c}
    /\ UNCHANGED <<acceptVars, closeVars, tableVars, workerVars, conn, starter,
                   wg>>

(* handleTokenCheck for a message of c that names session g.  When g is in  *)
(* the table its acks are compared, under its mutex (see Conn), and a       *)
(* mismatch closes it; when not, c itself is added.                         *)
TokenFound(w, g) ==
    /\ work[w] = "idle" /\ tokens < MaxTokens
    /\ \E c \in Conns : Reading(c)
    /\ g \in activeConns
    /\ \/ g \notin kept /\ CloseConn(g) /\ UNCHANGED work
       \/ g \in kept /\ work' = [work EXCEPT ![w] = "stuck"] /\ UNCHANGED connVars
    /\ tokens' = tokens + 1
    /\ UNCHANGED <<target, todo, acceptVars, closeVars, tableVars, starter,
                   wg>>

TokenNew(w, c) ==
    /\ work[w] = "idle" /\ tokens < MaxTokens
    /\ Reading(c)
    /\ work' = [work EXCEPT ![w] = "insert"]
    /\ target' = [target EXCEPT ![w] = c]
    /\ tokens' = tokens + 1
    /\ UNCHANGED <<todo, acceptVars, closeVars, tableVars, connVars, starter,
                   wg>>

TokenInsertOnly(w) ==
    /\ work[w] = "insert"
    /\ Insert(target[w])
    /\ work' = [work EXCEPT ![w] = "idle"]
    /\ UNCHANGED <<target, todo, tokens, acceptVars, closeVars, connVars,
                   starter, wg>>

TokenInsert(w) ==
    /\ work[w] = "insert"
    /\ Insert(target[w])
    /\ work' = [work EXCEPT ![w] = "plus"]
    /\ UNCHANGED <<target, todo, tokens, acceptVars, closeVars, connVars,
                   starter, wg>>

TokenPlus(w) ==
    /\ work[w] = "plus"
    /\ Plus
    /\ work' = [work EXCEPT ![w] = "idle"]
    /\ target' = [target EXCEPT ![w] = NoConn]
    /\ UNCHANGED <<todo, tokens, acceptVars, closeVars, connVars, starter, wg>>

-------------------------------------------------------------------------------
(* CheckConns, of the connections that were silent for PingTimeOut: any may  *)
(* have been.  It starts only while the manager still lists the server.      *)
CheckSnapshot(w) ==
    /\ work[w] = "idle" /\ close = "idle" /\ isRunning
    /\ \E expired \in SUBSET activeConns \ {{}} :
          todo' = [todo EXCEPT ![w] = expired]
    /\ work' = [work EXCEPT ![w] = "check"]
    /\ UNCHANGED <<target, tokens, acceptVars, closeVars, tableVars, connVars,
                   starter, wg>>

(* GetConn, and Close of what it returns; RemoveConn follows either way. *)
CheckClose(w, g) ==
    /\ work[w] = "check" /\ g \in todo[w]
    /\ IF g \in activeConns THEN CloseConn(g) ELSE UNCHANGED connVars
    /\ todo' = [todo EXCEPT ![w] = @ \ {g}]
    /\ target' = [target EXCEPT ![w] = g]
    /\ work' = [work EXCEPT ![w] =
           IF g \in activeConns /\ CloseHangs(g) THEN "stuck" ELSE "delete"]
    /\ UNCHANGED <<tokens, acceptVars, closeVars, tableVars, starter, wg>>

CheckDelete(w) ==
    /\ work[w] = "delete"
    /\ Delete(target[w])
    /\ work' = [work EXCEPT ![w] = "minus"]
    /\ UNCHANGED <<target, todo, tokens, acceptVars, closeVars, connVars,
                   starter, wg>>

CheckMinus(w) ==
    /\ work[w] = "minus"
    /\ Minus
    /\ work' = [work EXCEPT ![w] = IF todo[w] = {} THEN "idle" ELSE "check"]
    /\ target' = [target EXCEPT ![w] = NoConn]
    /\ UNCHANGED <<todo, tokens, acceptVars, closeVars, connVars, starter, wg>>

-------------------------------------------------------------------------------
CloseListenerFlagOnly ==
    /\ close = "idle" /\ isRunning
    /\ \A w \in Checkers : work[w] = "idle"
    /\ isRunning' = FALSE
    /\ close' = "snapshot" /\ deadline' \in BOOLEAN
    /\ UNCHANGED <<listening, closing, acceptVars, tableVars, workerVars,
                   connVars, starter, wg>>

(* Close, called with the manager's lock held: by Manager.Stop, whose       *)
(* context ends, or to roll a failed start back, whose context never does.  *)
CloseListener ==
    /\ close = "idle" /\ isRunning
    /\ \A w \in Checkers : work[w] = "idle"
    /\ isRunning' = FALSE /\ listening' = FALSE
    /\ close' = "snapshot" /\ deadline' \in BOOLEAN
    /\ UNCHANGED <<closing, acceptVars, tableVars, workerVars, connVars,
                   starter, wg>>

CloseSnapshot ==
    /\ close = "snapshot"
    /\ closing' = activeConns
    /\ close' = "close"
    /\ UNCHANGED <<isRunning, listening, deadline, acceptVars, tableVars,
                   workerVars, connVars, starter, wg>>

(* Each in turn, before any wait for the context.                           *)
CloseNext(c) ==
    /\ close = "close" /\ c \in closing
    /\ CloseConn(c)
    /\ IF CloseHangs(c) THEN close' = "stuck" /\ UNCHANGED closing
                        ELSE closing' = closing \ {c} /\ UNCHANGED close
    /\ UNCHANGED <<isRunning, listening, deadline, acceptVars, tableVars,
                   workerVars, starter, wg>>

CloseWait ==
    /\ close = "close" /\ closing = {}
    /\ close' = "wait"
    /\ UNCHANGED <<isRunning, listening, deadline, closing, acceptVars,
                   tableVars, workerVars, connVars, starter, wg>>

(* wg.Wait returns, or the caller's context ends first. *)
CloseReturn ==
    /\ close = "wait"
    /\ \/ wg = 0 /\ close' = "ok"
       \/ deadline /\ close' = "timeout"
    /\ UNCHANGED <<isRunning, listening, deadline, closing, acceptVars,
                   tableVars, workerVars, connVars, starter, wg>>

-------------------------------------------------------------------------------
(* A connection ends by itself. *)
ConnEnds(c) ==
    /\ conn[c] = "open" /\ CloseConn(c)
    /\ UNCHANGED <<acceptVars, closeVars, tableVars, workerVars, starter, wg>>

AcceptLoop ==
    AcceptGuid \/ AcceptInsert \/ AcceptPlus \/ AcceptSpawn \/ AcceptExit
        \/ \E c \in Conns : AcceptConn(c)

Starter(c) == StarterStart(c) \/ StarterDelete(c) \/ StarterMinus(c) \/ StarterDone(c)

Close == CloseListener \/ CloseSnapshot \/ CloseWait \/ CloseReturn
            \/ \E c \in Conns : CloseNext(c)

Next ==
    \/ Listen \/ AcceptLoop \/ Close
    \/ \E c \in Conns : Starter(c) \/ ConnEnds(c) \/ SyncFails(c)
    \/ \E w \in Adders :
          \/ TokenInsert(w) \/ TokenPlus(w)
          \/ \E c \in Conns : TokenFound(w, c) \/ TokenNew(w, c)
    \/ \E w \in Checkers :
          \/ CheckSnapshot(w) \/ CheckDelete(w) \/ CheckMinus(w)
          \/ \E c \in Conns : CheckClose(w, c)

Spec == Init /\ [][Next]_vars

(* Goroutines that can run do run; nobody has to connect or call Close, and *)
(* a call that hangs is one of its steps' outcomes.                         *)
Fairness ==
    /\ WF_vars(AcceptGuid \/ AcceptInsert \/ AcceptPlus \/ AcceptSpawn \/ AcceptExit)
    /\ \A c \in Conns : WF_vars(Starter(c))
    /\ WF_vars(Close /\ close # "idle")

FairSpec == Spec /\ Fairness

-------------------------------------------------------------------------------
(* Every variable has its type; only connCount may be any integer. *)
TypeOK ==
    /\ isRunning \in BOOLEAN /\ listening \in BOOLEAN
    /\ accept \in {"off", "accept", "guid", "hung", "insert", "plus", "spawn", "done"}
    /\ admitting \in Conns \cup {NoConn}
    /\ conn \in [Conns -> {"none", "open", "closed"}]
    /\ kept \subseteq Conns
    /\ starter \in [Conns -> {"none", "start", "delete", "minus", "wgdone", "done"}]
    /\ activeConns \subseteq Conns /\ connCount \in Int /\ missed \in Nat /\ wg \in Nat
    /\ work \in [Workers -> {"idle", "insert", "plus", "check", "delete", "minus", "stuck"}]
    /\ target \in [Workers -> Conns \cup {NoConn}]
    /\ todo \in [Workers -> SUBSET Conns] /\ tokens \in Nat
    /\ close \in {"idle", "snapshot", "close", "wait", "ok", "timeout", "stuck"}
    /\ deadline \in BOOLEAN
    /\ closing \subseteq Conns

Adding == Cardinality({w \in Adders : work[w] = "plus"})
            + (IF accept = "plus" THEN 1 ELSE 0)
Removing == Cardinality({w \in Checkers : work[w] = "minus"})
            + Cardinality({c \in Conns : starter[c] = "minus"})

(* The counter passes the limit by no more than the tokens that added a     *)
(* connection: nothing else adds between the check of acceptLoop and its    *)
(* AddConn (server.go:218-236).                                             *)
LimitHolds == connCount <= MaxConn + tokens

(* The counter the limit is checked against falls below the table by no     *)
(* more than RemoveConn calls for connections somebody else had removed     *)
(* before: additions that overlap, of one connection by a token and the     *)
(* accept loop too, leave it too high at worst (server.go:143-169).         *)
CountCoversTable ==
    /\ TypeOK
    /\ LimitHolds
    /\ Cardinality(activeConns) + Removing <= connCount + Adding + missed

(* The WaitGroup counts exactly the goroutines that will still call Done.   *)
WgCountsGoroutines ==
    wg = Cardinality({c \in Conns : starter[c] \notin {"none", "done"}})
           + (IF accept \in {"off", "done"} THEN 0 ELSE 1)

(* The WaitGroup is exact, and so when Close reports success nothing of the  *)
(* server runs any more: acceptLoop is gone and so is every goroutine it     *)
(* started, including those it was starting while Close waited               *)
(* (server.go:102-115).                                                      *)
CloseOkMeansQuiet ==
    /\ WgCountsGoroutines
    /\ close = "ok" => /\ accept = "done"
                       /\ \A c \in Conns : starter[c] \in {"none", "done"}
                       /\ \A c \in Conns : conn[c] # "none" => starter[c] = "done"

(* Once the listener is closed every goroutine that the WaitGroup counts     *)
(* ends, but for an accept loop that waits for an id without a deadline      *)
(* (guid.go:79).  Close returns, and there are two ways it never does: the   *)
(* mutex of a connection that it is the first to close is kept, which comes  *)
(* before it looks at its context (server.go:98, conn.go:171, 192), or it    *)
(* rolls a start back and the accept loop waits (network/manager.go:96).     *)
CloseReturns ==
    close = "snapshot" ~>
        /\ wg = (IF accept = "done" THEN 0 ELSE 1) /\ accept \in {"done", "hung"}
        /\ \/ close \in {"ok", "timeout"}
           \/ close = "stuck" /\ closing \cap kept # {}
           \/ close = "wait" /\ ~deadline /\ accept = "hung"

(* A connection stays in the table until its processing has ended           *)
(* (server.go:243).                                                         *)
ServedStaysActive ==
    \A c \in Conns : starter[c] = "done" /\ conn[c] = "open" => c \in activeConns
===============================================================================
