--------------------------------- MODULE Conn ---------------------------------
(***************************************************************************)
(* One TCP connection of the server (network/tcp_net/conn.go) and the      *)
(* goroutines that touch it: callers of AsyncSend, the batch write loop,   *)
(* the read loop, the GlobalMQ workers that run the service's handlers on  *)
(* its messages (service.go), and callers of Close.                        *)
(*                                                                         *)
(* Definitions that the model does not use and that stand before one it   *)
(* does are mutants: slips a property is shown to notice.                  *)
(*                                                                         *)
(* One action is one step no other goroutine can interleave with: an       *)
(* atomic operation, a critical section of Conn.mu, a channel operation or *)
(* a socket call.  c.conn is read without Conn.mu by both loops.           *)
(***************************************************************************)
EXTENDS AckWindow, FiniteSets

CONSTANTS
    Senders,     \* goroutines that call AsyncSend
    Workers,     \* GlobalMQ workers, which run the handlers
    Closers,     \* goroutines that may call Close (idle check, shutdown, game code)
    Writer,      \* batchWriteLoop
    Reader,      \* readLoop
    Free,        \* nobody holds Conn.mu
    Jobs,        \* kinds of client message: subset of {"logic", "token", "sync"}
    Unpackable,  \* messages IPacket.Pack returns nil for
    MaxSends,    \* bound: AsyncSend calls of a sender
    MaxJobs,     \* bound: client messages that arrive
    QueueCap     \* capacity of sendQueue (5000 in NewConn)

Procs == Senders \cup Workers \cup Closers \cup {Writer, Reader}
Msg   == Senders \X (1 .. MaxSends)   \* <<s, n>>: the n-th message of s
Job   == [kind : Jobs, ack : Nat]

ASSUME ProcsAssumption ==
    /\ Senders \cap Workers = {} /\ Senders \cap Closers = {}
    /\ Workers \cap Closers = {} /\ IsFiniteSet(Senders)
    /\ Writer # Reader
    /\ {Writer, Reader} \cap (Senders \cup Workers \cup Closers) = {}
    /\ Free \notin Procs

ASSUME BoundsAssumption ==
    /\ MaxSends \in Nat /\ MaxJobs \in Nat /\ QueueCap \in Nat
    /\ Jobs \subseteq {"logic", "token", "sync"} /\ Unpackable \subseteq Msg

VARIABLES
    win,        \* pendingMessages and the ack counters, see AckWindow
    sendQueue,  \* the channel between senders and the write loop
    isClosed,   \* the atomic flag
    ctxDone,    \* c.ctx is cancelled
    sock,       \* c.conn: "open", or "nil" after Close
    mu,         \* holder of Conn.mu across steps
    pc,         \* where each goroutine is
    sent,       \* completed AsyncSend calls of each sender
    batch,      \* the write loop's buffer
    spill,      \* the message in the write loop's hand that did not fit
    inbox,      \* client messages read and queued in GlobalMQ
    arrived,    \* client messages read so far
    clientHas,  \* ack of the last client message: server messages it counted
    req,        \* the client message each worker handles
    resend,     \* what is left of a worker's copy of pendingMessages
    wire,       \* messages written to the socket, in order
    pushed,     \* history: every message ever pushed to pendingMessages
    queued,     \* history: what sendQueue ever took of what can be packed
    crashed     \* nil dereference in a goroutine without recover

sendVars == <<win, sendQueue, sent, pushed, queued>>
loopVars == <<batch, spill, wire>>
jobVars  == <<inbox, arrived, clientHas, req, resend>>
shutVars == <<isClosed, ctxDone, sock, mu>>
vars     == <<sendVars, loopVars, jobVars, shutVars, pc, crashed>>

RangeOf(s) == {s[i] : i \in 1 .. Len(s)}

NoJob == [kind |-> "none", ack |-> 0]

Init ==
    /\ win = NewWindow /\ sendQueue = <<>> /\ pushed = <<>> /\ queued = <<>>
    /\ isClosed = FALSE /\ ctxDone = FALSE /\ sock = "open" /\ mu = Free
    /\ pc = [p \in Procs |-> CASE p = Writer  -> "loop"
                               [] p = Reader  -> "check"
                               [] p \in Closers -> "close"
                               [] OTHER       -> "idle"]
    /\ sent = [s \in Senders |-> 0]
    /\ batch = <<>> /\ spill = <<>> /\ wire = <<>>
    /\ inbox = <<>> /\ arrived = 0 /\ clientHas = 0
    /\ req = [w \in Workers |-> NoJob] /\ resend = [w \in Workers |-> <<>>]
    /\ crashed = FALSE

At(p, label)   == pc[p] = label /\ ~crashed
Goto(p, label) == pc' = [pc EXCEPT ![p] = label]
Return(p)      == Goto(p, IF p \in Workers THEN "idle" ELSE "done")
Unlocked       == mu = Free

(* The process dies: the panic is in a goroutine nobody recovers. *)
Panic ==
    /\ sock = "nil" /\ crashed' = TRUE
    /\ UNCHANGED <<sendVars, loopVars, jobVars, shutVars, pc>>

HasRoom    == Len(sendQueue) < QueueCap
NextMsg(s) == <<s, sent[s] + 1>>

Enqueue(m) ==
    /\ sendQueue' = Append(sendQueue, m)
    /\ queued' = IF m \in Unpackable THEN queued ELSE Append(queued, m)

-------------------------------------------------------------------------------
(* AsyncSend.  Called on a closed connection it returns an error at once.   *)

AsyncSendCheck(s) ==
    /\ At(s, "idle") /\ sent[s] < MaxSends /\ ~isClosed
    /\ Goto(s, "push")
    /\ UNCHANGED <<sendVars, loopVars, jobVars, shutVars, crashed>>

AsyncSendPush(s) ==
    /\ At(s, "push") /\ Unlocked
    /\ win' = PushToPendingMessages(win, NextMsg(s))
    /\ pushed' = Append(pushed, NextMsg(s))
    /\ Goto(s, "count")
    /\ UNCHANGED <<sendQueue, sent, queued, loopVars, jobVars, shutVars, crashed>>

AsyncSendCount(s) ==
    /\ At(s, "count")
    /\ win' = IncHasBeenSendCount(win)
    /\ Goto(s, "enqueue")
    /\ UNCHANGED <<sendQueue, sent, pushed, queued, loopVars, jobVars, shutVars, crashed>>

(* A full queue is reported to the caller; the message stays pending. *)
AsyncSendEnqueue(s) ==
    /\ At(s, "enqueue")
    /\ IF HasRoom THEN Enqueue(NextMsg(s)) ELSE UNCHANGED <<sendQueue, queued>>
    /\ sent' = [sent EXCEPT ![s] = @ + 1]
    /\ Goto(s, "idle")
    /\ UNCHANGED <<win, pushed, loopVars, jobVars, shutVars, crashed>>

-------------------------------------------------------------------------------
(* Close, from any goroutine whose pc is "close".                           *)

CloseCas(p) ==
    /\ At(p, "close")
    /\ IF isClosed THEN Return(p) ELSE Goto(p, "cancel")
    /\ isClosed' = TRUE
    /\ UNCHANGED <<ctxDone, sock, mu, sendVars, loopVars, jobVars, crashed>>

CloseCancelKeepsContext(p) ==
    /\ At(p, "cancel")
    /\ Goto(p, "shut")
    /\ UNCHANGED <<isClosed, ctxDone, sock, mu, sendVars, loopVars, jobVars, crashed>>

CloseCancel(p) ==
    /\ At(p, "cancel")
    /\ ctxDone' = TRUE
    /\ Goto(p, "shut")
    /\ UNCHANGED <<isClosed, sock, mu, sendVars, loopVars, jobVars, crashed>>

CloseShut(p) ==
    /\ At(p, "shut") /\ Unlocked
    /\ sock' = "nil"
    /\ Return(p)
    /\ UNCHANGED <<isClosed, ctxDone, mu, sendVars, loopVars, jobVars, crashed>>

Close(p) == CloseCas(p) \/ CloseCancel(p) \/ CloseShut(p)

(* The context NewConn was given is cancelled: the service is stopping. *)
ParentCancel ==
    /\ ~ctxDone /\ ~crashed
    /\ ctxDone' = TRUE
    /\ UNCHANGED <<isClosed, sock, mu, pc, sendVars, loopVars, jobVars, crashed>>

-------------------------------------------------------------------------------
(* batchWriteLoop.  Its select may pick any case that is ready.             *)

AfterOverflowJump == "direct"

(* A message that does not fit waits for the batch to be written.           *)
AfterOverflow == IF batch = <<>> THEN "direct" ELSE "flush"

AfterFlushForget == "loop"

AfterFlush == IF spill = <<>> THEN "loop" ELSE "direct"

WriterTake ==
    /\ At(Writer, "loop") /\ sendQueue # <<>>
    /\ LET m == Head(sendQueue) IN
       \/ /\ m \in Unpackable
          /\ UNCHANGED <<batch, spill, pc>>
       \/ /\ m \notin Unpackable            \* the batch has room for it
          /\ batch' = Append(batch, m)
          /\ UNCHANGED <<spill, pc>>
       \/ /\ m \notin Unpackable            \* it would reach batchSize
          /\ spill' = <<m>>
          /\ Goto(Writer, AfterOverflow)
          /\ UNCHANGED batch
    /\ sendQueue' = Tail(sendQueue)
    /\ UNCHANGED <<win, sent, pushed, queued, wire, jobVars, shutVars, crashed>>

WriterTimer ==
    /\ At(Writer, "loop") /\ batch # <<>>
    /\ Goto(Writer, "flush")
    /\ UNCHANGED <<sendVars, loopVars, jobVars, shutVars, crashed>>

(* c.conn.Write(data): all of it is written, or an error and some prefix of *)
(* it, or c.conn has become nil.                                            *)
WriteOk(data)  == sock = "open" /\ wire' = wire \o data
WriteErr(data) == \E n \in 0 .. Len(data) :
                     /\ n = 0 \/ sock = "open"
                     /\ wire' = wire \o SubSeq(data, 1, n)

WriterFlush ==
    /\ At(Writer, "flush")
    /\ \/ /\ WriteOk(batch)
          /\ batch' = <<>>
          /\ Goto(Writer, AfterFlush)
          /\ UNCHANGED <<spill, crashed>>
       \/ /\ WriteErr(batch)
          /\ Goto(Writer, "close")
          /\ UNCHANGED <<batch, spill, crashed>>
    /\ UNCHANGED <<sendVars, jobVars, shutVars>>

WriterDirectGivesUp ==
    /\ At(Writer, "direct")
    /\ \/ WriteOk(spill) /\ spill' = <<>> /\ Goto(Writer, "loop")
       \/ WriteErr(spill) /\ Goto(Writer, "done") /\ UNCHANGED spill
    /\ UNCHANGED <<batch, crashed, sendVars, jobVars, shutVars>>

WriterDirect ==
    /\ At(Writer, "direct")
    /\ \/ WriteOk(spill) /\ spill' = <<>> /\ Goto(Writer, "loop")
       \/ WriteErr(spill) /\ Goto(Writer, "close") /\ UNCHANGED spill
    /\ UNCHANGED <<batch, crashed, sendVars, jobVars, shutVars>>

(* ctx.Done: what is batched is written, the error ignored; what is still   *)
(* in sendQueue is not.                                                     *)
WriterStop ==
    /\ At(Writer, "loop") /\ ctxDone
    /\ WriteOk(batch) \/ WriteErr(batch)
    /\ Goto(Writer, "done")
    /\ UNCHANGED <<batch, spill, crashed, sendVars, jobVars, shutVars>>

WriterPanic ==
    /\ \/ At(Writer, "flush") \/ At(Writer, "direct")
       \/ At(Writer, "loop") /\ ctxDone /\ batch # <<>>
    /\ Panic

WriterWrite == WriterFlush \/ WriterDirect \/ WriterPanic
-------------------------------------------------------------------------------
(* readLoop.                                                                *)

ReaderCheck ==
    /\ At(Reader, "check")
    /\ Goto(Reader, IF ctxDone \/ isClosed \/ sock = "nil" THEN "done" ELSE "deadline")
    /\ UNCHANGED <<sendVars, loopVars, jobVars, shutVars, crashed>>

(* SetReadDeadline fails, or panics, only once the socket is gone. *)
ReaderDeadline ==
    /\ At(Reader, "deadline")
    /\ Goto(Reader, IF sock = "open" THEN "read" ELSE "done")
    /\ UNCHANGED <<sendVars, loopVars, jobVars, shutVars, crashed>>

(* Head and body are read and the message is handed to GlobalMQ.  The ack   *)
(* of an honest client counts the different messages it has received, and   *)
(* never decreases.                                                         *)
ReaderDeliver ==
    /\ At(Reader, "read") /\ sock = "open" /\ arrived < MaxJobs
    /\ \E kind \in Jobs, ack \in clientHas .. Len(wire) :
          /\ ack <= Cardinality(RangeOf(wire))
          /\ inbox' = Append(inbox, [kind |-> kind, ack |-> ack])
          /\ clientHas' = ack
    /\ arrived' = arrived + 1
    /\ Goto(Reader, "check")
    /\ UNCHANGED <<req, resend, sendVars, loopVars, shutVars, crashed>>

(* EOF and the five-minute timeout both just go round the loop again. *)
ReaderRetry ==
    /\ At(Reader, "read") /\ sock = "open"
    /\ Goto(Reader, "check")
    /\ UNCHANGED <<sendVars, loopVars, jobVars, shutVars, crashed>>

(* A read error, a bad length or a failed Unpack. *)
ReaderFail ==
    /\ At(Reader, "read")
    /\ Goto(Reader, "close")
    /\ UNCHANGED <<sendVars, loopVars, jobVars, shutVars, crashed>>

ReaderPanic == (At(Reader, "deadline") \/ At(Reader, "read")) /\ Panic

-------------------------------------------------------------------------------
(* The handlers of service.go, run by GlobalMQ workers.                     *)

WorkerTake(w) ==
    /\ At(w, "idle") /\ inbox # <<>>
    /\ req' = [req EXCEPT ![w] = Head(inbox)]
    /\ inbox' = Tail(inbox)
    /\ Goto(w, CASE Head(inbox).kind = "logic" -> "inc"
                 [] Head(inbox).kind = "token" -> "verify"
                 [] OTHER -> "sync")
    /\ UNCHANGED <<arrived, clientHas, resend, sendVars, loopVars, shutVars, crashed>>

(* A critical section of Conn.mu, or an atomic step, that only changes the  *)
(* window.                                                                  *)
WindowStep(w, from, newWin, to) ==
    /\ At(w, from)
    /\ win' = newWin
    /\ Goto(w, to)
    /\ UNCHANGED <<sendQueue, sent, pushed, queued, loopVars, jobVars, shutVars, crashed>>

(* handleLogicMessage *)
LogicInc(w)    == WindowStep(w, "inc", IncClientAck(win), "update")
LogicUpdate(w) ==
    Unlocked /\ WindowStep(w, "update", UpdateServerAck(win, req[w].ack), "idle")

(* handleTokenCheck when the token names this very connection, which an     *)
(* earlier token has put into Server.activeConns.                           *)
TokenVerify(w) ==
    /\ Unlocked
    /\ WindowStep(w, "verify", win,
                  IF CheckServerAck(win, req[w].ack) THEN "adopt" ELSE "close")

TokenAdopt(w) ==
    Unlocked /\ WindowStep(w, "adopt", UpdateServerAck(win, req[w].ack), "assign")

TokenAssign(w) ==
    Unlocked /\ WindowStep(w, "assign", SetServerAck(win, req[w].ack), "snapshot")

(* ProcessPendingMessages: copy under the lock, then enqueue without it. *)
ResendSnapshot(w) ==
    /\ At(w, "snapshot") /\ Unlocked
    /\ resend' = [resend EXCEPT ![w] = win.pendingMessages]
    /\ Goto(w, "resend")
    /\ UNCHANGED <<inbox, arrived, clientHas, req, sendVars, loopVars, shutVars, crashed>>

ResendOne(w) ==
    /\ At(w, "resend") /\ resend[w] # <<>> /\ HasRoom
    /\ Enqueue(Head(resend[w]))
    /\ resend' = [resend EXCEPT ![w] = Tail(@)]
    /\ UNCHANGED <<pc, win, sent, pushed, inbox, arrived, clientHas, req,
                   loopVars, shutVars, crashed>>

ResendEnd(w) ==
    /\ At(w, "resend") /\ (resend[w] = <<>> \/ ~HasRoom)
    /\ resend' = [resend EXCEPT ![w] = <<>>]
    /\ Goto(w, "sync")
    /\ UNCHANGED <<inbox, arrived, clientHas, req, sendVars, loopVars, shutVars, crashed>>

(* SyncSend: the reply to a token, heartbeat or time request is written     *)
(* with Conn.mu held.  A failed write logs GetRemoteAddr(), which locks     *)
(* Conn.mu again: the worker stays at "relock".                             *)
SyncLock(w) ==
    /\ At(w, "sync") /\ Unlocked
    /\ IF sock = "nil" THEN Goto(w, "idle") /\ UNCHANGED mu
                       ELSE Goto(w, "write") /\ mu' = w
    /\ UNCHANGED <<isClosed, ctxDone, sock, sendVars, loopVars, jobVars, crashed>>

SyncWrite(w) ==
    /\ At(w, "write")
    /\ \/ Goto(w, "idle") /\ mu' = Free
       \/ Goto(w, "relock") /\ UNCHANGED mu
    /\ UNCHANGED <<isClosed, ctxDone, sock, sendVars, loopVars, jobVars, crashed>>

-------------------------------------------------------------------------------
SenderNext(s) ==
    AsyncSendCheck(s) \/ AsyncSendPush(s) \/ AsyncSendCount(s) \/ AsyncSendEnqueue(s)

WriterNext == WriterTake \/ WriterTimer \/ WriterWrite \/ WriterStop

ReaderNext ==
    ReaderCheck \/ ReaderDeadline \/ ReaderDeliver \/ ReaderRetry \/ ReaderFail
        \/ ReaderPanic

Handler(w) ==
    \/ WorkerTake(w) \/ LogicInc(w) \/ LogicUpdate(w)
    \/ TokenVerify(w) \/ TokenAdopt(w) \/ TokenAssign(w)
    \/ ResendSnapshot(w) \/ ResendOne(w) \/ ResendEnd(w)
    \/ SyncLock(w)

Next ==
    \/ \E s \in Senders : SenderNext(s)
    \/ \E p \in Procs \ Senders : Close(p)
    \/ \E w \in Workers : Handler(w) \/ SyncWrite(w)
    \/ WriterNext \/ ReaderNext \/ ParentCancel

Spec == Init /\ [][Next]_vars

(* What the Go runtime and the read deadline guarantee.  Nobody has to call *)
(* AsyncSend or Close; a Write returns once the socket is gone, but not     *)
(* before if the peer never reads; select does not starve a ready case.     *)
Fairness ==
    /\ \A s \in Senders : WF_vars(SenderNext(s) /\ ~At(s, "idle"))
    /\ \A p \in Procs \ Senders : WF_vars(Close(p) /\ ~(p \in Closers /\ At(p, "close")))
    /\ \A w \in Workers : WF_vars(Handler(w))
    /\ WF_vars(ReaderNext)
    /\ WF_vars(WriterTimer) /\ SF_vars(WriterTake) /\ SF_vars(WriterStop)
    /\ WF_vars(WriterWrite /\ sock = "nil")

FairSpec == Spec /\ Fairness

(* The peer reads, so every Write returns. *)
PeerReads == WF_vars(WriterWrite) /\ \A w \in Workers : WF_vars(SyncWrite(w))

-------------------------------------------------------------------------------
(***************************************************************************)
(* Properties.                                                             *)
(***************************************************************************)

Labels == {"idle", "push", "count", "enqueue",
           "close", "cancel", "shut", "done",
           "loop", "flush", "direct", "check", "deadline", "read",
           "inc", "update", "verify", "adopt", "assign", "snapshot", "resend",
           "sync", "write", "relock"}

SendTypeOK ==
    /\ win \in WindowOver(Msg)
    /\ sendQueue \in Seq(Msg) /\ pushed \in Seq(Msg) /\ queued \in Seq(Msg)
    /\ sent \in [Senders -> 0 .. MaxSends]

LoopTypeOK == batch \in Seq(Msg) /\ spill \in Seq(Msg) /\ wire \in Seq(Msg)

JobTypeOK ==
    /\ inbox \in Seq(Job) /\ arrived \in Nat /\ clientHas \in Nat
    /\ req \in [Workers -> Job \cup {NoJob}]
    /\ resend \in [Workers -> Seq(Msg)]

ShutTypeOK ==
    /\ isClosed \in BOOLEAN /\ ctxDone \in BOOLEAN
    /\ sock \in {"open", "nil"} /\ mu \in Workers \cup {Free}

(* Every variable has its type: counters are naturals, queues hold messages *)
(* and Conn.mu has at most one holder, a worker inside SyncSend.            *)
TypeOK ==
    /\ SendTypeOK /\ LoopTypeOK /\ JobTypeOK /\ ShutTypeOK
    /\ pc \in [Procs -> Labels]
    /\ crashed \in BOOLEAN

Counting == {s \in Senders : pc[s] = "count"}
Cutoff   == Len(pushed) - Len(win.pendingMessages)
Trimmed  == SubSeq(pushed, 1, Cutoff)

(* Pending messages are the newest ones, whole and in the order AsyncSend   *)
(* pushed them, whatever acks, stale tokens and resends did meanwhile       *)
(* (conn.go:248-268).                                                       *)
PendingIsNewest ==
    /\ Cutoff >= 0
    /\ \A i \in 1 .. Len(win.pendingMessages) :
          win.pendingMessages[i] = pushed[Cutoff + i]

(* serverAck is exactly the number of messages cut, so that the next ack,   *)
(* a count from the start of the connection, cuts the right number.         *)
WindowExact == PendingIsNewest /\ win.serverAck = Cutoff

(* hasBeenSentNum, incremented outside Conn.mu, trails the pushes by        *)
(* exactly the senders that are between the two.                            *)
SentCountExact ==
    win.hasBeenSentNum + Cardinality(Counting) = Len(pushed)

(* The count of what was sent is exact but for pushes under way, and so an  *)
(* ack that is new is never refused: whatever the client counts was pushed  *)
(* and counted before it reached the socket, and UpdateServerAck's two      *)
(* bounds never turn an honest ack away (conn.go:145-146, 252-255).         *)
HonestAckIsTaken ==
    /\ SentCountExact
    /\ \A w \in Workers :
          pc[w] = "update" /\ req[w].ack > win.serverAck => IsNewAck(win, req[w].ack)

(* Only messages that reached the socket are forgotten: what an ack cuts    *)
(* need not be sent again.                                                  *)
OnlyReceivedIsTrimmed == RangeOf(Trimmed) \subseteq RangeOf(wire)

(* The messages of one sender are written in the order it sent them and     *)
(* never twice, across batches, overflowing messages and failed writes.     *)
WireInSendOrder ==
    \A i, j \in 1 .. Len(wire) :
        i < j /\ wire[i][1] = wire[j][1] => wire[i][2] < wire[j][2]

Stream == INSTANCE FifoDelivery WITH
              Item <- Msg \ Unpackable, accepted <- queued, delivered <- wire

(* What is written is what the queue took, resends too, in that order: a    *)
(* message that overflows a batch does not overtake it, none is left out,   *)
(* and after a failed write nothing follows (conn.go:301-379).              *)
WrittenAsQueued == Stream!Spec

(* A loop never leaves a connection that nobody has closed or cancelled:    *)
(* no path out of either loop forgets to close.                             *)
LoopsServe ==
    pc[Writer] = "done" \/ pc[Reader] = "done" => isClosed \/ ctxDone

(* Every variable has its type, and no loop has left an open connection: a  *)
(* failed write ends the connection and not only the loop (conn.go:301-460). *)
LoopsServeUntilClosed == TypeOK /\ LoopsServe

(* SyncSend waits for a peer that does not read, or for itself (SyncWrite). *)
LockKept == [](mu # Free)


(* A Close that wins the flag shuts the socket and ends both loops, however *)
(* it meets them, other closers and handlers: only SyncSend, which may keep *)
(* the lock that Close needs, can keep it from it (conn.go:158, 180-197).   *)
CloseFinishes ==
    isClosed ~>
        \/ sock = "nil" /\ pc[Writer] = "done" /\ pc[Reader] = "done"
        \/ crashed \/ LockKept

(* If the peer reads, a queued message is written, dropped as unpackable,  *)
(* or overtaken by the end of the connection: none is left in the batch or  *)
(* in the write loop's hand (conn.go:315-379).                              *)
QueuedLeaves ==
    PeerReads =>
        \A m \in Msg :
            m \in RangeOf(sendQueue) ~>
                \/ m \in RangeOf(wire) \cup Unpackable
                \/ ctxDone \/ isClosed \/ crashed \/ pc[Writer] = "close"
===============================================================================
