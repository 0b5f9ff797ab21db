-------------------------------- MODULE Session --------------------------------
(***************************************************************************)
(* How a player comes back: handleTokenCheck (service.go:327-371) over the *)
(* TCP server's connection table, the resend windows of the connections it *)
(* names, and the session ids that GetGuid gives them.                     *)
(*                                                                         *)
(* A connection that breaks stays in activeConns, if a token has put it    *)
(* there, until the idle check; its player connects anew and sends a token *)
(* with the old session id.  The write loop's batches and AddConn are one  *)
(* step each here; Conn and TcpServer have theirs.                         *)
(*                                                                         *)
(* Definitions that the model does not use and that stand before one it   *)
(* does are mutants: slips a property is shown to notice.                  *)
(***************************************************************************)
EXTENDS Guid, AckWindow, FiniteSets

CONSTANTS
    Conns,       \* connections, over restarts too
    Players,     \* who may be at the other end of one
    Workers,     \* GlobalMQ workers; a message in its queue waits in one here
    Senders,     \* goroutines that call AsyncSend, over restarts too
    NoConn, NoPlayer, NoGuid,
    QueueCap,    \* capacity of a sendQueue (5000 in NewConn)
    Bounds       \* what bounds a behaviour; a run may take several, see Bound

ASSUME NoneAssumption == NoConn \notin Conns /\ NoGuid \notin Nat \X Nat

(* Who takes part, whether requests to the allocator fail, and how many     *)
(* connections leave no trace but an id, calls of AsyncSend, messages and   *)
(* tokens from clients, and restarts there are.                             *)
Bound == [players : SUBSET Players, workers : SUBSET Workers, failing : BOOLEAN,
          visits : Nat, sends : Nat, logics : Nat, tokens : Nat, restarts : Nat]

ASSUME BoundsAssumption == QueueCap \in Nat /\ IsFiniteSet(Conns) /\ Bounds \subseteq Bound

VARIABLES
    sessionId,    \* of each connection
    owner,        \* its player
    life,         \* "none", "open" or "closed"
    removing,     \* connections whose starter has not yet called RemoveConn
    activeConns,  \* the table: id -> connection
    win,          \* the window of each connection, see AckWindow
    sendQueue,    \* of each connection
    sent,         \* messages pushed on each; the n-th is the message n
    received,     \* messages each connection has carried to the client
    calls,        \* of AsyncSend
    at, on, msg,  \* where in AsyncSend each sender is, with which message
    told,         \* connections whose id a reply has told the client
    logics, tokens,   \* messages clients have sent
    pc, req, conn,\* where each worker is, with which message, on which connection
    restarts, bound,
    lossy         \* history: connections an ack may have cut too much from

connVars == <<sessionId, owner, life, removing, activeConns>>
sendVars == <<calls, at, on, msg>>
dataVars == <<win, sendQueue, sent, received, lossy, sendVars>>
jobVars  == <<told, logics, tokens, pc, req, conn>>
runVars  == <<restarts, bound>>
vars     == <<guidVars, connVars, dataVars, jobVars, runVars>>

(* A message: its ack counts what the client received on the connection of. *)
NoJob == [conn |-> NoConn, guid |-> NoGuid, ack |-> 0, of |-> NoConn]

Init ==
    /\ GuidInit
    /\ sessionId = [c \in Conns |-> NoGuid] /\ owner = [c \in Conns |-> NoPlayer]
    /\ life = [c \in Conns |-> "none"]
    /\ removing = {} /\ activeConns = <<>>
    /\ win = [c \in Conns |-> NewWindow] /\ sendQueue = [c \in Conns |-> <<>>]
    /\ sent = [c \in Conns |-> 0] /\ received = [c \in Conns |-> {}] /\ lossy = {}
    /\ calls = 0 /\ at = [s \in Senders |-> "idle"]
    /\ on = [s \in Senders |-> NoConn] /\ msg = [s \in Senders |-> 0]
    /\ told = {} /\ logics = 0 /\ tokens = 0
    /\ pc = [w \in Workers |-> "idle"] /\ req = [w \in Workers |-> NoJob]
    /\ conn = [w \in Workers |-> NoConn]
    /\ restarts = 0 /\ bound \in Bounds

Goto(w, label) == pc' = [pc EXCEPT ![w] = label]

(* The handler returns. *)
Return(w) ==
    /\ Goto(w, "idle")
    /\ req' = [req EXCEPT ![w] = NoJob] /\ conn' = [conn EXCEPT ![w] = NoConn]

CloseConn(c)   == life' = [life EXCEPT ![c] = "closed"]

FirstOf(s, n) == SubSeq(s, 1, IF n < Len(s) THEN n ELSE Len(s))

(* AddConn and RemoveConn go by the id alone. *)
With(g, c)  == [h \in DOMAIN activeConns \cup {g} |->
                   IF h = g THEN c ELSE activeConns[h]]
Without(g)  == [h \in DOMAIN activeConns \ {g} |-> activeConns[h]]

-------------------------------------------------------------------------------
(* Connections                                                              *)

(* acceptLoop: NewConn, which takes the id, AddConn, and the starter.       *)
Accept(c) ==
    /\ life[c] = "none"
    /\ GetGuid /\ (failed' => bound.failing)
    /\ LET g == given'[Len(given')] IN
       /\ sessionId' = [sessionId EXCEPT ![c] = g]
       /\ activeConns' = With(g, c)
    /\ \E p \in bound.players : owner' = [owner EXCEPT ![c] = p]
    /\ life' = [life EXCEPT ![c] = "open"]
    /\ removing' = removing \cup {c}
    /\ UNCHANGED <<dataVars, jobVars, runVars>>

(* A connection that comes and goes before any the model follows. *)
Visit ==
    /\ \A c \in Conns : life[c] = "none"
    /\ Len(given) < bound.visits
    /\ GetGuid /\ (failed' => bound.failing)
    /\ UNCHANGED <<connVars, dataVars, jobVars, runVars>>

(* The starter's deferred RemoveConn, as soon as the read loop is launched. *)
StarterRemoves(c) ==
    /\ c \in removing
    /\ removing' = removing \ {c}
    /\ activeConns' = Without(sessionId[c])
    /\ UNCHANGED <<sessionId, owner, life, guidVars, dataVars, jobVars, runVars>>

Break(c) ==
    /\ life[c] = "open" /\ CloseConn(c)
    /\ UNCHANGED <<sessionId, owner, removing, activeConns, guidVars, dataVars, jobVars, runVars>>

(* CheckConns *)
Expire(g) ==
    /\ g \in DOMAIN activeConns
    /\ CloseConn(activeConns[g])
    /\ activeConns' = Without(g)
    /\ UNCHANGED <<sessionId, owner, removing, guidVars, dataVars, jobVars, runVars>>

(* A message that AsyncSend has pushed and not yet queued, and never will   *)
(* if the process has died since.                                           *)
InFlight  == {"count", "enqueue", "lost"}
Flying(c) == {msg[s] : s \in {x \in Senders : on[x] = c /\ at[x] \in InFlight}}

(* The process dies and starts again; what it gave its clients lives on. *)
Restart ==
    /\ restarts < bound.restarts
    /\ restarts' = restarts + 1
    /\ GuidRestart
    /\ life' = [c \in Conns |-> IF life[c] = "none" THEN "none" ELSE "closed"]
    /\ removing' = {} /\ activeConns' = <<>>
    /\ pc' = [w \in Workers |-> "idle"] /\ req' = [w \in Workers |-> NoJob]
    /\ conn' = [w \in Workers |-> NoConn]
    /\ at' = [s \in Senders |-> IF at[s] \in InFlight THEN "lost" ELSE "idle"]
    /\ UNCHANGED <<sessionId, owner, win, sendQueue, sent, received, lossy, calls, on, msg,
                   told, logics, tokens, bound>>

-------------------------------------------------------------------------------
(* What the server sends                                                    *)

(* AsyncSend looks whether the connection is closed ...                     *)
AsyncSend(s, c) ==
    /\ at[s] = "idle" /\ life[c] = "open" /\ calls < bound.sends
    /\ calls' = calls + 1
    /\ at' = [at EXCEPT ![s] = "push"] /\ on' = [on EXCEPT ![s] = c]
    /\ UNCHANGED <<win, sendQueue, sent, received, lossy, msg, guidVars, connVars,
                   jobVars, runVars>>

(* ... pushes the message under Conn.mu ...                                 *)
Push(s) ==
    LET c == on[s]
        m == sent[c] + 1
    IN  /\ at[s] = "push"
        /\ win' = [win EXCEPT ![c] = PushToPendingMessages(@, m)]
        /\ sent' = [sent EXCEPT ![c] = m]
        /\ msg' = [msg EXCEPT ![s] = m] /\ at' = [at EXCEPT ![s] = "count"]
        /\ UNCHANGED <<sendQueue, received, lossy, calls, on, guidVars, connVars,
                       jobVars, runVars>>

(* ... counts it ...                                                        *)
Count(s) ==
    /\ at[s] = "count"
    /\ win' = [win EXCEPT ![on[s]] = IncHasBeenSendCount(@)]
    /\ at' = [at EXCEPT ![s] = "enqueue"]
    /\ UNCHANGED <<sendQueue, sent, received, lossy, calls, on, msg, guidVars, connVars,
                   jobVars, runVars>>

(* ... and queues it if there is room, before or after another sender has   *)
(* queued what it pushed later.                                             *)
Enqueue(s) ==
    LET c == on[s]
        room == Len(sendQueue[c]) < QueueCap
        overtakes == \E m \in Flying(c) : m < msg[s]
    IN  /\ at[s] = "enqueue"
        /\ sendQueue' = [sendQueue EXCEPT ![c] = IF room THEN Append(@, msg[s]) ELSE @]
        /\ lossy' = IF room /\ ~overtakes THEN lossy ELSE lossy \cup {c}
        /\ at' = [at EXCEPT ![s] = "idle"] /\ on' = [on EXCEPT ![s] = NoConn]
        /\ msg' = [msg EXCEPT ![s] = 0]
        /\ UNCHANGED <<win, sent, received, calls, guidVars, connVars, jobVars, runVars>>

Sender(s) == (\E c \in Conns : AsyncSend(s, c)) \/ Push(s) \/ Count(s) \/ Enqueue(s)

(* The write loop, and the client at the other end. *)
Write(c) ==
    /\ life[c] = "open" /\ sendQueue[c] # <<>>
    /\ received' = [received EXCEPT ![c] = @ \cup {Head(sendQueue[c])}]
    /\ sendQueue' = [sendQueue EXCEPT ![c] = Tail(@)]
    /\ UNCHANGED <<win, sent, lossy, sendVars, guidVars, connVars, jobVars, runVars>>

(* It takes a message that Pack cannot pack, and goes on without it; the    *)
(* application's Pack may be unable to pack any message.                    *)
WriteDrops(c) ==
    /\ life[c] = "open" /\ sendQueue[c] # <<>>
    /\ sendQueue' = [sendQueue EXCEPT ![c] = Tail(@)]
    /\ lossy' = lossy \cup {c}
    /\ UNCHANGED <<win, sent, received, sendVars, guidVars, connVars, jobVars, runVars>>

-------------------------------------------------------------------------------
(* What an honest client sends: an ack counts what it has received on the   *)
(* connection it acknowledges, and a token names a session that its player  *)
(* was told, or none if it was told none.                                   *)

Has(c) == Cardinality(received[c])

ClientSends(c, job) ==
    /\ life[c] = "open" /\ tokens < bound.tokens
    /\ tokens' = tokens + 1
    /\ \E w \in bound.workers :
          /\ pc[w] = "idle"
          /\ req' = [req EXCEPT ![w] = job]
          /\ Goto(w, "token")
    /\ UNCHANGED <<told, logics, conn, guidVars, connVars, dataVars, runVars>>

(* A message and handleLogicMessage, in one step: Conn has those between.   *)
Logic(c) ==
    /\ life[c] = "open" /\ logics < bound.logics
    /\ logics' = logics + 1
    /\ win' = [win EXCEPT ![c] = UpdateServerAck(IncClientAck(@), Has(c))]
    /\ UNCHANGED <<sendQueue, sent, received, lossy, sendVars, told, tokens, pc, req, conn,
                   guidVars, connVars, runVars>>

ClientToken(c) ==
    \/ /\ \A d \in told : owner[d] # owner[c]
       /\ ClientSends(c, [conn |-> c, guid |-> NoGuid, ack |-> 0, of |-> c])
    \/ \E d \in told :
          /\ owner[d] = owner[c]
          /\ ClientSends(c, [conn |-> c, guid |-> sessionId[d], ack |-> Has(d), of |-> d])

-------------------------------------------------------------------------------
(* The workers                                                              *)

(* A step that only changes the window of c. *)
WindowStep(w, c, newWin, label) ==
    /\ win' = [win EXCEPT ![c] = newWin]
    /\ Goto(w, label)
    /\ UNCHANGED <<sendQueue, sent, received, sendVars, told, logics, tokens, req, conn,
                   guidVars, connVars, runVars>>

(* The reply, with the id of the current connection, goes to conn. *)
Reply(w) ==
    /\ told' = IF life[conn[w]] = "open" THEN told \cup {req[w].conn} ELSE told
    /\ Return(w)

(* handleTokenCheck: GetConn, and CheckServerAck on what it finds ...       *)
TokenLookup(w) ==
    LET known == req[w].guid \in DOMAIN activeConns
        named == activeConns[req[w].guid]
    IN  /\ pc[w] = "token"
        /\ conn' = [conn EXCEPT ![w] = IF known THEN named ELSE req[w].conn]
        /\ Goto(w, IF ~known THEN "add"
                   ELSE IF CheckServerAck(win[named], req[w].ack) THEN "adopt"
                   ELSE "close")
        /\ UNCHANGED <<told, logics, tokens, req, guidVars, connVars, dataVars, runVars>>

TokenAddsItsName(w) ==
    /\ pc[w] = "add"
    /\ activeConns' = With(req[w].guid, conn[w])
    /\ Reply(w)
    /\ UNCHANGED <<sessionId, owner, life, removing, logics, tokens, guidVars,
                   dataVars, runVars>>

(* ... a session the table does not know is a new one ...                   *)
TokenAdd(w) ==
    /\ pc[w] = "add"
    /\ activeConns' = With(sessionId[conn[w]], conn[w])
    /\ Reply(w)
    /\ UNCHANGED <<sessionId, owner, life, removing, logics, tokens, guidVars,
                   dataVars, runVars>>

(* ... one whose window the ack does not fit is closed ...                  *)
TokenClose(w) ==
    /\ pc[w] = "close"
    /\ CloseConn(conn[w])
    /\ Return(w)
    /\ UNCHANGED <<sessionId, owner, removing, activeConns, told, logics, tokens,
                   guidVars, dataVars, runVars>>

(* ... or else the CURRENT connection cuts by the ack, which counts the     *)
(* messages of the other one ...                                            *)
TokenAdopt(w) ==
    LET c == req[w].conn
        ack == req[w].ack
    IN  /\ pc[w] = "adopt"
        /\ WindowStep(w, c, UpdateServerAck(win[c], ack), "assign")
        /\ lossy' = IF c # req[w].of /\ IsNewAck(win[c], ack) THEN lossy \cup {c} ELSE lossy

(* ... and the NAMED one takes the ack as it is, cutting nothing, lower     *)
(* though it may be than the one it has ...                                 *)
TokenAssign(w) ==
    LET c == conn[w] IN
    /\ pc[w] = "assign"
    /\ WindowStep(w, c, SetServerAck(win[c], req[w].ack), "resend")
    /\ lossy' = IF req[w].ack < win[c].serverAck THEN lossy \cup {c} ELSE lossy

TokenPushesAgain(w) ==
    LET c == conn[w] IN
    /\ pc[w] = "resend"
    /\ win' = [win EXCEPT ![c].pendingMessages = @ \o @]
    /\ Reply(w)
    /\ UNCHANGED <<sendQueue, sent, received, lossy, sendVars, logics, tokens, guidVars,
                   connVars, runVars>>

(* ... queues again what it has pending, and gets the reply.                *)
TokenResend(w) ==
    LET c == conn[w]
        room == QueueCap - Len(sendQueue[c])
    IN  /\ pc[w] = "resend"
        /\ sendQueue' = [sendQueue EXCEPT
               ![c] = @ \o FirstOf(win[c].pendingMessages, room)]
        /\ Reply(w)
        /\ UNCHANGED <<win, sent, received, lossy, sendVars, logics, tokens, guidVars,
                       connVars, runVars>>

Handler(w) ==
    \/ TokenLookup(w) \/ TokenAdd(w) \/ TokenClose(w)
    \/ TokenAdopt(w) \/ TokenAssign(w) \/ TokenResend(w)

Next ==
    \/ \E c \in Conns :
          \/ Accept(c) \/ StarterRemoves(c) \/ Break(c)
          \/ Write(c) \/ WriteDrops(c) \/ Logic(c) \/ ClientToken(c)
    \/ \E s \in Senders : Sender(s)
    \/ \E g \in DOMAIN activeConns : Expire(g)
    \/ \E w \in Workers : Handler(w)
    \/ Visit \/ Restart

Spec == Init /\ [][Next]_vars

-------------------------------------------------------------------------------
(* Where a worker has looked up the connection that a token names. *)
Handling == {"add", "close", "adopt", "assign", "resend"}

Id  == Nat \X Nat
Job == [conn : Conns, guid : Id \cup {NoGuid},
        ack : Nat, of : Conns]

(* Every variable has its type. *)
TypeOK ==
    /\ GuidTypeOK
    /\ sessionId \in [Conns -> Id \cup {NoGuid}]
    /\ owner \in [Conns -> Players \cup {NoPlayer}]
    /\ life \in [Conns -> {"none", "open", "closed"}] /\ removing \subseteq Conns
    /\ DOMAIN activeConns \subseteq Id
    /\ \A g \in DOMAIN activeConns : activeConns[g] \in Conns
    /\ win \in [Conns -> WindowOver(Nat)] /\ sendQueue \in [Conns -> Seq(Nat)]
    /\ sent \in [Conns -> Nat] /\ received \in [Conns -> SUBSET Nat]
    /\ calls \in 0 .. bound.sends /\ at \in [Senders -> {"idle", "push"} \cup InFlight]
    /\ on \in [Senders -> Conns \cup {NoConn}] /\ msg \in [Senders -> Nat]
    /\ lossy \subseteq Conns /\ told \subseteq Conns
    /\ bound \in Bounds /\ restarts \in 0 .. bound.restarts
    /\ logics \in 0 .. bound.logics /\ tokens \in 0 .. bound.tokens
    /\ req \in [Workers -> Job \cup {NoJob}] /\ conn \in [Workers -> Conns \cup {NoConn}]
    /\ pc \in [Workers -> {"idle", "token"} \cup Handling]

(* A token touches the connections of its own player only, although the id  *)
(* in it may be from before a restart, the entry it names may have been     *)
(* removed and added again, and RemoveConn asks nobody whose entry it is:   *)
(* it takes a failed refresh to hand a player another one's session         *)
(* (service.go:343-369, conn.go:72).                                        *)
PlayersStayApart ==
    ~failed => \A w \in Workers :
        pc[w] \in Handling => owner[conn[w]] = owner[req[w].conn]

Cutoff(c) == sent[c] - Len(win[c].pendingMessages)

(* What a connection has pending is the newest part of what was sent on it, *)
(* and what it has cut its client has received, however senders, tokens,    *)
(* acks, dead connections and resends meet, until one of five events has    *)
(* come to the connection: an ack of another one that is new to it, a token *)
(* that lowers its serverAck (service.go:348-351), a full send queue        *)
(* (conn.go:148-154), a message that Pack cannot pack (conn.go:334), or a   *)
(* sender that queues its message before one pushed earlier (:145-151).     *)
OnlyReceivedIsCut ==
    /\ TypeOK
    /\ \A c \in Conns :
          /\ win[c].pendingMessages = [i \in 1 .. sent[c] - Cutoff(c) |-> Cutoff(c) + i]
          /\ c \in lossy \/ 1 .. Cutoff(c) \subseteq received[c]
===============================================================================
