------------------------------ MODULE ConnProofs ------------------------------
(* Theorems about one TCP connection, for any number of goroutines and      *)
(* messages and any queue capacity.                                         *)
EXTENDS Conn, SequenceTheorems, FiniteSetTheorems, TLAPS

-------------------------------------------------------------------------------
(* The window operations keep the window a window.                          *)

(* Appending and counting keep the window well formed. *)
LEMMA PushCountTypes ==
    ASSUME NEW M, NEW w \in WindowOver(M), NEW m \in M
    PROVE  /\ PushToPendingMessages(w, m) \in WindowOver(M)
           /\ IncHasBeenSendCount(w) \in WindowOver(M)
           /\ IncClientAck(w) \in WindowOver(M)
<1>1. PushToPendingMessages(w, m) \in WindowOver(M)
  BY DEF WindowOver, PushToPendingMessages
<1>2. IncHasBeenSendCount(w) \in WindowOver(M)
  BY DEF WindowOver, IncHasBeenSendCount
<1>3. IncClientAck(w) \in WindowOver(M)
  BY DEF WindowOver, IncClientAck
<1> QED
  BY <1>1, <1>2, <1>3

(* What UpdateServerAck (conn.go:248) does to a window: the messages left   *)
(* are a suffix, and serverAck grows by exactly what was cut.               *)
LEMMA UpdateServerAckCuts ==
    ASSUME NEW M, NEW w \in WindowOver(M), NEW ack \in Nat
    PROVE  LET v == UpdateServerAck(w, ack) IN
           /\ v \in WindowOver(M)
           /\ v.hasBeenSentNum = w.hasBeenSentNum
           /\ v.serverAck >= w.serverAck
           /\ v.serverAck + Len(v.pendingMessages)
                = w.serverAck + Len(w.pendingMessages)
           /\ \A i \in 1 .. Len(v.pendingMessages) :
                 v.pendingMessages[i]
                   = w.pendingMessages[(v.serverAck - w.serverAck) + i]
<1> DEFINE k == ack - w.serverAck
           p == w.pendingMessages
           q == SubSeq(p, k + 1, Len(p))
<1>1. p \in Seq(M) /\ w.serverAck \in Nat /\ w.hasBeenSentNum \in Nat
        /\ w.clientAck \in Nat
  BY DEF WindowOver
<1>2. CASE IsNewAck(w, ack)
  <2>1. k \in Nat /\ k <= Len(p) /\ Len(p) \in Nat
    BY <1>1, <1>2 DEF IsNewAck
  <2>2. \A i \in k + 1 .. Len(p) : p[i] \in M
    BY <1>1, <2>1
  <2>3. /\ q \in Seq(M)
        /\ Len(q) = Len(p) - k
        /\ \A i \in 1 .. Len(p) - k : q[i] = p[k + i]
    <3> HIDE DEF k, p
    <3>1. k + 1 \in Int /\ Len(p) \in Int
      BY <2>1
    <3>2. /\ SubSeq(p, k + 1, Len(p)) \in Seq(M)
          /\ Len(SubSeq(p, k + 1, Len(p)))
               = IF k + 1 <= Len(p) THEN Len(p) - (k + 1) + 1 ELSE 0
          /\ \A i \in 1 .. Len(p) - (k + 1) + 1 :
                SubSeq(p, k + 1, Len(p))[i] = p[(k + 1) + i - 1]
      BY <3>1, <2>2, SubSeqProperties
    <3>3. \A i \in 1 .. Len(p) - k : (k + 1) + i - 1 = k + i
      BY <2>1
    <3> QED
      BY <3>2, <3>3, <2>1
  <2>4. UpdateServerAck(w, ack) = [w EXCEPT !.pendingMessages = q, !.serverAck = ack]
    BY <1>2 DEF UpdateServerAck, Cut
  <2> DEFINE v == [w EXCEPT !.pendingMessages = q, !.serverAck = ack]
  <2>5. v \in WindowOver(M)
    <3> HIDE DEF q
    <3> QED
      BY <1>1, <2>3 DEF WindowOver
  <2>6. /\ v.hasBeenSentNum = w.hasBeenSentNum
        /\ v.serverAck = ack
        /\ v.pendingMessages = q
    BY DEF WindowOver
  <2>7. \A i \in 1 .. Len(q) : q[i] = p[(ack - w.serverAck) + i]
    BY <2>1, <2>3
  <2> HIDE DEF q, v
  <2> QED
    BY <1>1, <2>1, <2>3, <2>4, <2>5, <2>6, <2>7, SMTT(20) DEF v
<1>3. CASE ~IsNewAck(w, ack)
  BY <1>1, <1>3 DEF UpdateServerAck
<1> QED
  BY <1>2, <1>3

-------------------------------------------------------------------------------
(* Type correctness.                                                        *)

(* What a step leaves alone keeps its type. *)
LEMMA UnchangedTypes ==
    /\ SendTypeOK /\ UNCHANGED sendVars => SendTypeOK'
    /\ LoopTypeOK /\ UNCHANGED loopVars => LoopTypeOK'
    /\ JobTypeOK  /\ UNCHANGED jobVars  => JobTypeOK'
    /\ ShutTypeOK /\ UNCHANGED shutVars => ShutTypeOK'
<1>1. SendTypeOK /\ UNCHANGED sendVars => SendTypeOK'
  BY DEF SendTypeOK, sendVars
<1>2. LoopTypeOK /\ UNCHANGED loopVars => LoopTypeOK'
  BY DEF LoopTypeOK, loopVars
<1>3. JobTypeOK /\ UNCHANGED jobVars => JobTypeOK'
  BY DEF JobTypeOK, jobVars
<1>4. ShutTypeOK /\ UNCHANGED shutVars => ShutTypeOK'
  BY DEF ShutTypeOK, shutVars
<1> QED
  BY <1>1, <1>2, <1>3, <1>4

(* A goroutine moves to a label. *)
LEMMA GotoTypes ==
    ASSUME pc \in [Procs -> Labels], NEW p \in Procs, NEW l \in Labels, Goto(p, l)
    PROVE  pc' \in [Procs -> Labels]
  BY DEF Goto

(* The initial state has the right types. *)
LEMMA InitTypeOK == Init => TypeOK
<1> SUFFICES ASSUME Init PROVE TypeOK
  OBVIOUS
<1> USE BoundsAssumption DEF Init
<1>1. pc \in [Procs -> Labels]
  BY DEF Labels
<1>2. SendTypeOK
  <2>1. win \in WindowOver(Msg)
    BY DEF NewWindow, WindowOver
  <2> QED
    BY <2>1 DEF SendTypeOK
<1>3. LoopTypeOK
  BY DEF LoopTypeOK
<1>4. JobTypeOK
  BY DEF JobTypeOK
<1>5. ShutTypeOK
  BY DEF ShutTypeOK
<1> QED
  BY <1>1, <1>2, <1>3, <1>4, <1>5 DEF TypeOK

(* A sender that is inside AsyncSend has a message left to send: the        *)
(* strengthening that makes the type invariant inductive.                   *)
SendsBounded ==
    \A s \in Senders :
        pc[s] \in {"push", "count", "enqueue"} => sent[s] < MaxSends

TypeInv == TypeOK /\ SendsBounded

(* A goroutine that is not a sender leaves the senders where they are. *)
LEMMA OthersKeepSendsBounded ==
    ASSUME TypeInv, NEW p \in Procs \ Senders, NEW l, Goto(p, l), UNCHANGED sent
    PROVE  SendsBounded'
  BY DEF TypeInv, TypeOK, SendsBounded, Goto

LEMMA EnqueueTypes ==
    ASSUME NEW m \in Msg, sendQueue \in Seq(Msg), queued \in Seq(Msg), Enqueue(m)
    PROVE  sendQueue' \in Seq(Msg) /\ queued' \in Seq(Msg)
<1>1. Append(sendQueue, m) \in Seq(Msg) /\ Append(queued, m) \in Seq(Msg)
  BY AppendProperties
<1> QED
  BY <1>1 DEF Enqueue

(* Sending keeps the types. *)
LEMMA SenderTypeInv ==
    ASSUME TypeInv, NEW s \in Senders, SenderNext(s)
    PROVE  TypeInv'
<1> USE BoundsAssumption, UnchangedTypes DEF TypeInv, TypeOK
<1>0. s \in Procs /\ {"idle", "push", "count", "enqueue"} \subseteq Labels
  BY DEF Procs, Labels
<1>n. /\ sent[s] \in 0 .. MaxSends
      /\ sent[s] < MaxSends => NextMsg(s) \in Msg
  BY DEF SendTypeOK, NextMsg, Msg
<1>1. CASE AsyncSendCheck(s)
  <2>1. SendsBounded'
    BY <1>0, <1>1, <1>n DEF AsyncSendCheck, SendsBounded, Goto, sendVars
  <2> QED
    BY <1>0, <1>1, <2>1, GotoTypes DEF AsyncSendCheck
<1>2. CASE AsyncSendPush(s)
  <2>1. pc' \in [Procs -> Labels]
    BY <1>0, <1>2, GotoTypes DEF AsyncSendPush
  <2>2. NextMsg(s) \in Msg
    BY <1>2, <1>n DEF AsyncSendPush, At, SendsBounded
  <2>w. win' \in WindowOver(Msg)
    <3>1. PushToPendingMessages(win, NextMsg(s)) \in WindowOver(Msg)
      BY <2>2, PushCountTypes DEF SendTypeOK
    <3> QED
      BY <1>2, <3>1 DEF AsyncSendPush
  <2>3. SendTypeOK'
    BY <1>2, <2>2, <2>w DEF AsyncSendPush, SendTypeOK
  <2>4. SendsBounded'
    BY <1>0, <1>2 DEF AsyncSendPush, At, SendsBounded, Goto
  <2> QED
    BY <1>2, <2>1, <2>3, <2>4 DEF AsyncSendPush
<1>3. CASE AsyncSendCount(s)
  <2>1. pc' \in [Procs -> Labels]
    BY <1>0, <1>3, GotoTypes DEF AsyncSendCount
  <2>2. win' \in WindowOver(Msg)
    <3>1. \A m \in Msg : IncHasBeenSendCount(win) \in WindowOver(Msg)
      BY PushCountTypes DEF SendTypeOK
    <3>2. NextMsg(s) \in Msg
      BY <1>3, <1>n DEF AsyncSendCount, At, SendsBounded
    <3> QED
      BY <1>3, <3>1, <3>2 DEF AsyncSendCount
  <2>3. SendTypeOK'
    BY <1>3, <2>2 DEF AsyncSendCount, SendTypeOK
  <2>4. SendsBounded'
    BY <1>0, <1>3 DEF AsyncSendCount, At, SendsBounded, Goto
  <2> QED
    BY <1>3, <2>1, <2>3, <2>4 DEF AsyncSendCount
<1>4. CASE AsyncSendEnqueue(s)
  <2>1. pc' \in [Procs -> Labels]
    BY <1>0, <1>4, GotoTypes DEF AsyncSendEnqueue
  <2>2. sent[s] < MaxSends /\ NextMsg(s) \in Msg
    BY <1>4, <1>n DEF AsyncSendEnqueue, At, SendsBounded
  <2>3. SendTypeOK'
    BY <1>4, <2>2, EnqueueTypes DEF AsyncSendEnqueue, SendTypeOK
  <2>4. SendsBounded'
    BY <1>0, <1>4 DEF AsyncSendEnqueue, SendsBounded, SendTypeOK, Goto
  <2> QED
    BY <1>4, <2>1, <2>3, <2>4 DEF AsyncSendEnqueue
<1> QED
  BY <1>1, <1>2, <1>3, <1>4 DEF SenderNext

(* Closing keeps the types. *)
LEMMA CloseTypeInv ==
    ASSUME TypeInv, NEW p \in Procs \ Senders, Close(p)
    PROVE  TypeInv'
<1> USE UnchangedTypes DEF TypeInv, TypeOK
<1>0. {"idle", "done", "cancel", "shut"} \subseteq Labels
  BY DEF Labels
<1>1. CASE CloseCas(p)
  <2>1. PICK l \in Labels : Goto(p, l)
    BY <1>0, <1>1 DEF CloseCas, Return
  <2>2. pc' \in [Procs -> Labels] /\ SendsBounded'
    BY <1>1, <2>1, GotoTypes, OthersKeepSendsBounded DEF CloseCas, sendVars
  <2> QED
    BY <1>1, <2>2 DEF CloseCas, ShutTypeOK
<1>2. CASE CloseCancel(p)
  <2>1. pc' \in [Procs -> Labels] /\ SendsBounded'
    BY <1>0, <1>2, GotoTypes, OthersKeepSendsBounded DEF CloseCancel, sendVars
  <2> QED
    BY <1>2, <2>1 DEF CloseCancel, ShutTypeOK
<1>3. CASE CloseShut(p)
  <2>1. PICK l \in Labels : Goto(p, l)
    BY <1>0, <1>3 DEF CloseShut, Return
  <2>2. pc' \in [Procs -> Labels] /\ SendsBounded'
    BY <1>3, <2>1, GotoTypes, OthersKeepSendsBounded DEF CloseShut, sendVars
  <2> QED
    BY <1>3, <2>2 DEF CloseShut, ShutTypeOK
<1> QED
  BY <1>1, <1>2, <1>3 DEF Close

(* A panic changes nothing but crashed. *)
LEMMA PanicTypeInv ==
    ASSUME TypeInv, Panic
    PROVE  TypeInv'
  BY UnchangedTypes DEF TypeInv, TypeOK, Panic, SendsBounded, sendVars

(* The sequences the write loop assigns are sequences of messages. *)
LEMMA AppendSeq ==
    ASSUME NEW S, NEW s \in Seq(S), NEW x \in S
    PROVE  Append(s, x) \in Seq(S) /\ <<x>> \in Seq(S)
  OBVIOUS

(* A variable that takes the value of one of two sequences is a sequence.   *)
LEMMA EitherSeq ==
    /\ \A S : <<>> \in Seq(S)
    /\ \A S, s, t, u : s \in Seq(S) /\ t \in Seq(S) /\ (u = s \/ u = t) => u \in Seq(S)
  OBVIOUS

(* The batch write loop keeps the types. *)
LEMMA WriterTypeInv ==
    ASSUME TypeInv, WriterNext
    PROVE  TypeInv'
<1> USE UnchangedTypes DEF TypeInv, TypeOK
<1>0. /\ {"loop", "flush", "direct", "close", "done"} \subseteq Labels
      /\ Writer \in Procs \ Senders
  BY ProcsAssumption DEF Labels, Procs
<1>c. \A n \in Nat : n <= Len(batch) => SubSeq(batch, 1, n) \in Seq(Msg)
  BY DEF LoopTypeOK
<1>d. \A n \in Nat : n <= Len(spill) => SubSeq(spill, 1, n) \in Seq(Msg)
  BY DEF LoopTypeOK
<1>w. /\ WriteOk(batch) \/ WriteErr(batch) => wire' \in Seq(Msg)
      /\ WriteOk(spill) \/ WriteErr(spill) => wire' \in Seq(Msg)
  <2>1. ASSUME NEW d \in Seq(Msg),
               \A n \in Nat : n <= Len(d) => SubSeq(d, 1, n) \in Seq(Msg),
               WriteOk(d) \/ WriteErr(d)
        PROVE  wire' \in Seq(Msg)
    <3>1. CASE WriteOk(d)
      BY <3>1 DEF WriteOk, LoopTypeOK
    <3>2. CASE WriteErr(d)
      <4>1. PICK n \in 0 .. Len(d) : wire' = wire \o SubSeq(d, 1, n)
        BY <3>2 DEF WriteErr
      <4>2. SubSeq(d, 1, n) \in Seq(Msg)
        BY <2>1, <4>1
      <4> QED
        BY <4>1, <4>2 DEF LoopTypeOK
    <3> QED
      BY <2>1, <3>1, <3>2
  <2> QED
    BY <2>1, <1>c, <1>d DEF LoopTypeOK
<1>1. CASE WriterTake
  <2>1. Head(sendQueue) \in Msg /\ Tail(sendQueue) \in Seq(Msg)
    BY <1>1 DEF WriterTake, AfterOverflow, SendTypeOK
  <2>2. SendTypeOK'
    BY <1>1, <2>1 DEF WriterTake, AfterOverflow, SendTypeOK
  <2>3. LoopTypeOK'
    <3>1. batch' = batch \/ batch' = Append(batch, Head(sendQueue))
      BY <1>1 DEF WriterTake, AfterOverflow
    <3>2. spill' = spill \/ spill' = <<Head(sendQueue)>>
      BY <1>1 DEF WriterTake, AfterOverflow
    <3>3. wire' = wire
      BY <1>1 DEF WriterTake, AfterOverflow
    <3>4. batch' \in Seq(Msg)
      BY <2>1, <3>1, EitherSeq, AppendSeq DEF LoopTypeOK
    <3>5. spill' \in Seq(Msg)
      BY <2>1, <3>2, EitherSeq, AppendSeq DEF LoopTypeOK
    <3> QED
      BY <3>3, <3>4, <3>5 DEF LoopTypeOK
  <2>4. UNCHANGED pc \/ \E l \in Labels : Goto(Writer, l)
    BY <1>0, <1>1 DEF WriterTake, AfterOverflow
  <2>5. pc' \in [Procs -> Labels] /\ SendsBounded'
    <3>1. CASE UNCHANGED pc
      BY <1>1, <3>1 DEF WriterTake, AfterOverflow, SendsBounded
    <3>2. CASE \E l \in Labels : Goto(Writer, l)
      BY <1>0, <1>1, <3>2, GotoTypes, OthersKeepSendsBounded DEF WriterTake, AfterOverflow
    <3> QED
      BY <2>4, <3>1, <3>2
  <2> QED
    BY <1>1, <2>2, <2>3, <2>5 DEF WriterTake, AfterOverflow
<1>2. CASE WriterTimer
  BY <1>0, <1>2, GotoTypes, OthersKeepSendsBounded DEF WriterTimer, sendVars
<1>3. CASE WriterFlush
  <2>1. PICK l \in Labels : Goto(Writer, l)
    BY <1>0, <1>3 DEF WriterFlush, AfterFlush
  <2>2. pc' \in [Procs -> Labels] /\ SendsBounded'
    BY <1>0, <1>3, <2>1, GotoTypes, OthersKeepSendsBounded DEF WriterFlush, AfterFlush, sendVars
  <2>3. LoopTypeOK'
    <3>1. wire' \in Seq(Msg)
      BY <1>3, <1>w DEF WriterFlush, AfterFlush
    <3>2. (batch' = batch \/ batch' = <<>>) /\ (spill' = spill \/ spill' = <<>>)
      BY <1>3 DEF WriterFlush, AfterFlush
    <3>3. batch' \in Seq(Msg) /\ spill' \in Seq(Msg)
      BY <3>2, EitherSeq DEF LoopTypeOK
    <3> QED
      BY <3>1, <3>3 DEF LoopTypeOK
  <2> QED
    BY <1>3, <2>2, <2>3 DEF WriterFlush, AfterFlush
<1>4. CASE WriterDirect
  <2>1. PICK l \in Labels : Goto(Writer, l)
    BY <1>0, <1>4 DEF WriterDirect
  <2>2. pc' \in [Procs -> Labels] /\ SendsBounded'
    BY <1>0, <1>4, <2>1, GotoTypes, OthersKeepSendsBounded DEF WriterDirect, sendVars
  <2>3. LoopTypeOK'
    <3>1. wire' \in Seq(Msg)
      BY <1>4, <1>w DEF WriterDirect
    <3>2. (batch' = batch \/ batch' = <<>>) /\ (spill' = spill \/ spill' = <<>>)
      BY <1>4 DEF WriterDirect
    <3>3. batch' \in Seq(Msg) /\ spill' \in Seq(Msg)
      BY <3>2, EitherSeq DEF LoopTypeOK
    <3> QED
      BY <3>1, <3>3 DEF LoopTypeOK
  <2> QED
    BY <1>4, <2>2, <2>3 DEF WriterDirect
<1>5. CASE WriterStop
  <2>1. pc' \in [Procs -> Labels] /\ SendsBounded'
    BY <1>0, <1>5, GotoTypes, OthersKeepSendsBounded DEF WriterStop, sendVars
  <2>2. LoopTypeOK'
    BY <1>5, <1>w DEF WriterStop, LoopTypeOK
  <2> QED
    BY <1>5, <2>1, <2>2 DEF WriterStop
<1>6. CASE WriterPanic
  BY <1>6, PanicTypeInv DEF WriterPanic
<1> QED
  BY <1>1, <1>2, <1>3, <1>4, <1>5, <1>6 DEF WriterNext, WriterWrite

(* The read loop keeps the types. *)
LEMMA ReaderTypeInv ==
    ASSUME TypeInv, ReaderNext
    PROVE  TypeInv'
<1> USE UnchangedTypes DEF TypeInv, TypeOK
<1>0. /\ {"check", "deadline", "read", "close", "done"} \subseteq Labels
      /\ Reader \in Procs \ Senders
  BY ProcsAssumption DEF Labels, Procs
<1>1. CASE ReaderCheck \/ ReaderDeadline \/ ReaderRetry \/ ReaderFail
  <2>1. PICK l \in Labels : Goto(Reader, l)
    BY <1>0, <1>1 DEF ReaderCheck, ReaderDeadline, ReaderRetry, ReaderFail
  <2>2. UNCHANGED <<sendVars, loopVars, jobVars, shutVars, crashed>>
    BY <1>1 DEF ReaderCheck, ReaderDeadline, ReaderRetry, ReaderFail
  <2>3. pc' \in [Procs -> Labels] /\ SendsBounded'
    BY <1>0, <2>1, <2>2, GotoTypes, OthersKeepSendsBounded DEF sendVars
  <2> QED
    BY <2>2, <2>3
<1>2. CASE ReaderDeliver
  <2>1. pc' \in [Procs -> Labels] /\ SendsBounded'
    BY <1>0, <1>2, GotoTypes, OthersKeepSendsBounded DEF ReaderDeliver, sendVars
  <2>2. PICK kind \in Jobs, ack \in clientHas .. Len(wire) :
          inbox' = Append(inbox, [kind |-> kind, ack |-> ack]) /\ clientHas' = ack
    BY <1>2 DEF ReaderDeliver
  <2>3. ack \in Nat
    BY <2>2 DEF JobTypeOK, LoopTypeOK
  <2>4. inbox' \in Seq(Job) /\ clientHas' \in Nat
    BY <2>2, <2>3 DEF JobTypeOK, Job
  <2>5. JobTypeOK'
    BY <1>2, <2>4 DEF ReaderDeliver, JobTypeOK
  <2> QED
    BY <1>2, <2>1, <2>5 DEF ReaderDeliver
<1>3. CASE ReaderPanic
  BY <1>3, PanicTypeInv DEF ReaderPanic
<1> QED
  BY <1>1, <1>2, <1>3 DEF ReaderNext

(* The handlers keep the types. *)
LEMMA HandlerTypeInv ==
    ASSUME TypeInv, NEW w \in Workers, Handler(w) \/ SyncWrite(w)
    PROVE  TypeInv'
<1> USE UnchangedTypes DEF TypeInv, TypeOK
<1>0. /\ {"idle", "inc", "update", "verify", "adopt", "assign", "snapshot", "resend",
          "sync", "write", "relock", "close"} \subseteq Labels
      /\ w \in Procs \ Senders /\ w \in Workers
  BY ProcsAssumption DEF Labels, Procs
<1>r. req[w].ack \in Nat
  BY DEF JobTypeOK, Job, NoJob
<1>v. win \in WindowOver(Msg)
  BY DEF SendTypeOK
<1>s. ASSUME NEW from, NEW v \in WindowOver(Msg), NEW to \in Labels,
             WindowStep(w, from, v, to)
      PROVE  TypeInv'
  <2>1. pc' \in [Procs -> Labels] /\ SendsBounded'
    BY <1>0, <1>s, GotoTypes, OthersKeepSendsBounded DEF WindowStep
  <2>2. SendTypeOK'
    BY <1>s DEF WindowStep, SendTypeOK
  <2> QED
    BY <1>s, <2>1, <2>2 DEF WindowStep
<1>u. UpdateServerAck(win, req[w].ack) \in WindowOver(Msg)
  BY <1>r, <1>v, UpdateServerAckCuts
<1>1. CASE LogicInc(w)
  <2>1. IncClientAck(win) \in WindowOver(Msg)
    BY <1>v DEF IncClientAck, WindowOver
  <2> QED
    BY <1>0, <1>1, <1>s, <2>1 DEF LogicInc
<1>2. CASE LogicUpdate(w)
  BY <1>0, <1>2, <1>s, <1>u DEF LogicUpdate
<1>3. CASE TokenVerify(w)
  BY <1>0, <1>3, <1>s, <1>v DEF TokenVerify
<1>4. CASE TokenAdopt(w)
  BY <1>0, <1>4, <1>s, <1>u DEF TokenAdopt
<1>5. CASE TokenAssign(w)
  <2>1. SetServerAck(win, req[w].ack) \in WindowOver(Msg)
    BY <1>r, <1>v DEF SetServerAck, WindowOver
  <2> QED
    BY <1>0, <1>5, <1>s, <2>1 DEF TokenAssign
<1>6. CASE WorkerTake(w)
  <2>1. Head(inbox) \in Job /\ Tail(inbox) \in Seq(Job)
    BY <1>6 DEF WorkerTake, JobTypeOK
  <2>2. PICK l \in Labels : Goto(w, l)
    BY <1>0, <1>6 DEF WorkerTake
  <2>3. pc' \in [Procs -> Labels] /\ SendsBounded'
    BY <1>0, <1>6, <2>2, GotoTypes, OthersKeepSendsBounded DEF WorkerTake, sendVars
  <2>4. JobTypeOK'
    BY <1>6, <2>1 DEF WorkerTake, JobTypeOK
  <2> QED
    BY <1>6, <2>3, <2>4 DEF WorkerTake
<1>7. CASE ResendSnapshot(w)
  <2>1. pc' \in [Procs -> Labels] /\ SendsBounded'
    BY <1>0, <1>7, GotoTypes, OthersKeepSendsBounded DEF ResendSnapshot, sendVars
  <2>2. win.pendingMessages \in Seq(Msg)
    BY <1>v DEF WindowOver
  <2>3. JobTypeOK'
    BY <1>7, <2>2 DEF ResendSnapshot, JobTypeOK
  <2> QED
    BY <1>7, <2>1, <2>3 DEF ResendSnapshot
<1>8. CASE ResendOne(w)
  <2>1. Head(resend[w]) \in Msg /\ Tail(resend[w]) \in Seq(Msg)
    BY <1>8 DEF ResendOne, JobTypeOK
  <2>2. SendTypeOK'
    BY <1>8, <2>1, EnqueueTypes DEF ResendOne, SendTypeOK
  <2>3. JobTypeOK'
    BY <1>8, <2>1 DEF ResendOne, JobTypeOK
  <2>4. pc' \in [Procs -> Labels] /\ SendsBounded'
    BY <1>8 DEF ResendOne, SendsBounded
  <2> QED
    BY <1>8, <2>2, <2>3, <2>4 DEF ResendOne
<1>9. CASE ResendEnd(w)
  <2>1. pc' \in [Procs -> Labels] /\ SendsBounded'
    BY <1>0, <1>9, GotoTypes, OthersKeepSendsBounded DEF ResendEnd, sendVars
  <2>2. JobTypeOK'
    BY <1>9 DEF ResendEnd, JobTypeOK
  <2> QED
    BY <1>9, <2>1, <2>2 DEF ResendEnd
<1>10. CASE SyncLock(w) \/ SyncWrite(w)
  <2>1. PICK l \in Labels : Goto(w, l)
    BY <1>0, <1>10 DEF SyncLock, SyncWrite
  <2>2. UNCHANGED <<isClosed, ctxDone, sock, sendVars, loopVars, jobVars, crashed>>
    BY <1>10 DEF SyncLock, SyncWrite
  <2>3. pc' \in [Procs -> Labels] /\ SendsBounded'
    BY <1>0, <2>1, <2>2, GotoTypes, OthersKeepSendsBounded DEF sendVars
  <2>4. mu' \in Workers \cup {Free}
    BY <1>10 DEF SyncLock, SyncWrite, ShutTypeOK
  <2>5. ShutTypeOK'
    BY <2>2, <2>4 DEF ShutTypeOK
  <2> QED
    BY <2>2, <2>3, <2>5
<1> QED
  BY <1>1, <1>2, <1>3, <1>4, <1>5, <1>6, <1>7, <1>8, <1>9, <1>10 DEF Handler

(* Cancelling the parent context keeps the types. *)
LEMMA CancelTypeInv ==
    ASSUME TypeInv, ParentCancel
    PROVE  TypeInv'
<1> USE UnchangedTypes DEF TypeInv, TypeOK, ParentCancel
<1>1. ShutTypeOK'
  BY DEF ShutTypeOK
<1>2. SendsBounded'
  BY DEF SendsBounded, sendVars
<1> QED
  BY <1>1, <1>2

(* Every step keeps the types. *)
LEMMA NextTypeInv == TypeInv /\ [Next]_vars => TypeInv'
<1> SUFFICES ASSUME TypeInv, [Next]_vars PROVE TypeInv'
  OBVIOUS
<1>1. CASE UNCHANGED vars
  BY <1>1, UnchangedTypes DEF vars, TypeInv, TypeOK, SendsBounded, sendVars
<1>2. CASE Next
  BY <1>2, SenderTypeInv, CloseTypeInv, HandlerTypeInv, WriterTypeInv, ReaderTypeInv,
     CancelTypeInv DEF Next
<1> QED
  BY <1>1, <1>2

(* In every reachable state every variable of a connection has its type:    *)
(* conn.go:20-48 and the goroutines' own variables.                         *)
THEOREM TypeCorrect == Spec => []TypeOK
<1>1. Init => TypeInv
  <2>1. Init => SendsBounded
    BY ProcsAssumption DEF Init, SendsBounded, Procs
  <2> QED
    BY <2>1, InitTypeOK DEF TypeInv
<1>2. TypeInv => TypeOK
  BY DEF TypeInv
<1> QED
  BY <1>1, <1>2, NextTypeInv, PTL DEF Spec

-------------------------------------------------------------------------------
(* The pending queue and the acks.                                          *)

(* The only three things a step can do to the pending messages. *)
NothingCut ==
    /\ win'.pendingMessages = win.pendingMessages /\ pushed' = pushed
    /\ win'.serverAck = win.serverAck \/ \E w \in Workers : pc[w] = "assign"

MessagePushed ==
    \E m \in Msg : /\ win' = PushToPendingMessages(win, m)
                   /\ pushed' = Append(pushed, m)

AckTaken ==
    \E ack \in Nat : win' = UpdateServerAck(win, ack) /\ pushed' = pushed

(* Every step does one of the three. *)
LEMMA WindowMoves ==
    ASSUME TypeInv, [Next]_vars
    PROVE  NothingCut \/ MessagePushed \/ AckTaken
<1> USE DEF TypeInv, TypeOK
<1>v. win \in WindowOver(Msg)
  BY DEF SendTypeOK
<1>1. CASE win' = win /\ pushed' = pushed
  BY <1>1 DEF NothingCut
<1>2. ASSUME NEW s \in Senders, SenderNext(s)
      PROVE  NothingCut \/ MessagePushed \/ AckTaken
  <2>1. CASE AsyncSendPush(s)
    <3>1. sent[s] \in 0 .. MaxSends /\ sent[s] < MaxSends
      BY <2>1 DEF AsyncSendPush, At, SendsBounded, SendTypeOK
    <3>2. NextMsg(s) \in Msg
      BY <3>1, BoundsAssumption DEF NextMsg, Msg
    <3> QED
      BY <2>1, <3>2 DEF AsyncSendPush, MessagePushed
  <2>2. CASE AsyncSendCount(s)
    BY <2>2, <1>v DEF AsyncSendCount, IncHasBeenSendCount, WindowOver, NothingCut
  <2>3. CASE AsyncSendCheck(s) \/ AsyncSendEnqueue(s)
    BY <2>3, <1>1 DEF AsyncSendCheck, AsyncSendEnqueue, sendVars
  <2> QED
    BY <1>2, <2>1, <2>2, <2>3 DEF SenderNext
<1>3. ASSUME NEW w \in Workers, Handler(w) \/ SyncWrite(w)
      PROVE  NothingCut \/ MessagePushed \/ AckTaken
  <2>r. req[w].ack \in Nat
    BY DEF JobTypeOK, Job, NoJob
  <2>1. CASE LogicInc(w)
    BY <2>1, <1>v DEF LogicInc, WindowStep, IncClientAck, WindowOver, NothingCut
  <2>2. CASE LogicUpdate(w) \/ TokenAdopt(w)
    BY <2>2, <2>r DEF LogicUpdate, TokenAdopt, WindowStep, AckTaken
  <2>3. CASE TokenAssign(w)
    <3>1. /\ win' = SetServerAck(win, req[w].ack) /\ pushed' = pushed
          /\ pc[w] = "assign"
      BY <2>3 DEF TokenAssign, WindowStep, At
    <3> QED
      BY <3>1, <1>v DEF SetServerAck, WindowOver, NothingCut
  <2>4. CASE \/ TokenVerify(w) \/ WorkerTake(w) \/ ResendSnapshot(w) \/ ResendOne(w)
             \/ ResendEnd(w) \/ SyncLock(w) \/ SyncWrite(w)
    BY <2>4, <1>1 DEF TokenVerify, WindowStep, WorkerTake, ResendSnapshot, ResendOne,
       ResendEnd, SyncLock, SyncWrite, sendVars
  <2> QED
    BY <1>3, <2>1, <2>2, <2>3, <2>4 DEF Handler
<1>4. ASSUME NEW p \in Procs \ Senders, Close(p)
      PROVE  win' = win /\ pushed' = pushed
  BY <1>4 DEF Close, CloseCas, CloseCancel, CloseShut, sendVars
<1>5. ASSUME WriterNext \/ ReaderNext
      PROVE  win' = win /\ pushed' = pushed
  <2>1. CASE WriterNext
    BY <2>1 DEF WriterNext, WriterTake, WriterTimer, WriterWrite, WriterFlush,
       WriterDirect, WriterPanic, WriterStop, Panic, sendVars
  <2>2. CASE ReaderNext
    BY <2>2 DEF ReaderNext, ReaderCheck, ReaderDeadline, ReaderDeliver, ReaderRetry,
       ReaderFail, ReaderPanic, Panic, sendVars
  <2> QED
    BY <1>5, <2>1, <2>2
<1>6. CASE ParentCancel
  BY <1>1, <1>6 DEF ParentCancel, sendVars
<1>7. CASE UNCHANGED vars
  BY <1>1, <1>7 DEF vars, sendVars
<1> QED
  BY <1>1, <1>2, <1>3, <1>4, <1>5, <1>6, <1>7 DEF Next

(* p is the newest part of the history h. *)
Newest(p, h) ==
    /\ Len(h) - Len(p) >= 0
    /\ \A i \in 1 .. Len(p) : p[i] = h[(Len(h) - Len(p)) + i]

(* A push appends the same message to both. *)
LEMMA NewestPush ==
    ASSUME NEW M, NEW p \in Seq(M), NEW h \in Seq(M), NEW m \in M, Newest(p, h)
    PROVE  Newest(Append(p, m), Append(h, m))
<1> DEFINE P == Append(p, m)
           H == Append(h, m)
<1>1. /\ Len(p) \in Nat /\ Len(h) \in Nat
      /\ Len(P) = Len(p) + 1 /\ Len(H) = Len(h) + 1
      /\ \A i \in 1 .. Len(p) : P[i] = p[i]
      /\ \A i \in 1 .. Len(h) : H[i] = h[i]
      /\ P[Len(p) + 1] = m /\ H[Len(h) + 1] = m
  OBVIOUS
<1> HIDE DEF P, H
<1>2. Len(H) - Len(P) = Len(h) - Len(p) /\ Len(h) - Len(p) >= 0
  BY <1>1 DEF Newest
<1>3. ASSUME NEW i \in 1 .. Len(P)
      PROVE  P[i] = H[(Len(h) - Len(p)) + i]
  <2>1. CASE i <= Len(p)
    <3>1. (Len(h) - Len(p)) + i \in 1 .. Len(h) /\ i \in 1 .. Len(p)
      BY <1>1, <1>2, <2>1
    <3> QED
      BY <1>1, <3>1 DEF Newest
  <2>2. CASE i = Len(p) + 1
    <3>1. (Len(h) - Len(p)) + i = Len(h) + 1
      BY <1>1, <2>2
    <3> QED
      BY <1>1, <2>2, <3>1
  <2> QED
    BY <1>1, <2>1, <2>2
<1>4. Newest(P, H)
  BY <1>2, <1>3 DEF Newest
<1> QED
  BY <1>4 DEF P, H

(* Cutting k messages off the head leaves a newest part. *)
LEMMA NewestCut ==
    ASSUME NEW M, NEW p \in Seq(M), NEW q \in Seq(M), NEW h \in Seq(M), NEW k \in Nat,
           Newest(p, h), Len(q) + k = Len(p),
           \A i \in 1 .. Len(q) : q[i] = p[k + i]
    PROVE  Newest(q, h)
<1>0. Len(p) \in Nat /\ Len(q) \in Nat /\ Len(h) \in Nat
  OBVIOUS
<1> DEFINE lp == Len(p)
           lq == Len(q)
           lh == Len(h)
<1>1. lh - lp >= 0 /\ lh - lq = (lh - lp) + k /\ lh - lq >= 0
  <2>1. lh - lp >= 0 /\ lq + k = lp
    BY DEF Newest
  <2>2. lp \in Nat /\ lq \in Nat /\ lh \in Nat
    BY <1>0
  <2> HIDE DEF lp, lq, lh
  <2> QED
    BY <2>1, <2>2
<1>2. ASSUME NEW i \in 1 .. Len(q)
      PROVE  q[i] = h[(Len(h) - Len(q)) + i]
  <2>1. k + i \in 1 .. Len(p)
    BY <1>0
  <2>2. p[k + i] = h[(Len(h) - Len(p)) + (k + i)]
    BY <2>1 DEF Newest
  <2>3. (lh - lp) + (k + i) = (lh - lq) + i
    <3>1. i \in Nat
      BY <1>0
    <3>2. lp \in Nat /\ lq \in Nat /\ lh \in Nat
      BY <1>0
    <3> HIDE DEF lp, lq, lh
    <3> QED
      BY <1>1, <3>1, <3>2
  <2> QED
    BY <2>2, <2>3
<1> QED
  BY <1>1, <1>2 DEF Newest

(* A push adds the newest message to both, an ack cuts the oldest. *)
LEMMA PendingIsNewestStep ==
    ASSUME TypeInv, PendingIsNewest, [Next]_vars
    PROVE  PendingIsNewest'
<1>t. /\ win \in WindowOver(Msg) /\ win.pendingMessages \in Seq(Msg)
      /\ pushed \in Seq(Msg) /\ win.serverAck \in Nat
  BY DEF TypeInv, TypeOK, SendTypeOK, WindowOver
<1>d. /\ PendingIsNewest  <=> Newest(win.pendingMessages, pushed)
      /\ PendingIsNewest' <=> Newest(win'.pendingMessages, pushed')
  BY DEF PendingIsNewest, Cutoff, Newest
<1>1. CASE NothingCut
  BY <1>1, <1>d DEF NothingCut
<1>2. CASE MessagePushed
  <2>1. PICK m \in Msg : /\ win' = PushToPendingMessages(win, m)
                         /\ pushed' = Append(pushed, m)
    BY <1>2 DEF MessagePushed
  <2>2. win'.pendingMessages = Append(win.pendingMessages, m)
    BY <1>t, <2>1 DEF PushToPendingMessages, WindowOver
  <2>3. Newest(Append(win.pendingMessages, m), Append(pushed, m))
    BY <1>t, <1>d, NewestPush
  <2> QED
    BY <1>d, <2>1, <2>2, <2>3
<1>3. CASE AckTaken
  <2>1. PICK ack \in Nat : win' = UpdateServerAck(win, ack) /\ pushed' = pushed
    BY <1>3 DEF AckTaken
  <2>2. /\ win' \in WindowOver(Msg)
        /\ win'.serverAck >= win.serverAck
        /\ win'.serverAck + Len(win'.pendingMessages)
             = win.serverAck + Len(win.pendingMessages)
        /\ \A i \in 1 .. Len(win'.pendingMessages) :
              win'.pendingMessages[i]
                = win.pendingMessages[(win'.serverAck - win.serverAck) + i]
    BY <1>t, <2>1, UpdateServerAckCuts
  <2> DEFINE k == win'.serverAck - win.serverAck
             p == win.pendingMessages
             q == win'.pendingMessages
  <2>3. win'.serverAck \in Nat /\ q \in Seq(Msg) /\ Len(q) \in Nat /\ Len(p) \in Nat
    BY <1>t, <2>2 DEF WindowOver
  <2>4. k \in Nat /\ Len(q) + k = Len(p)
    <3> HIDE DEF p, q
    <3>1. /\ win'.serverAck >= win.serverAck
          /\ win'.serverAck + Len(q) = win.serverAck + Len(p)
      BY <2>2 DEF p, q
    <3> QED
      BY <1>t, <2>3, <3>1, SMTT(20)
  <2>5. \A i \in 1 .. Len(q) : q[i] = p[k + i]
    BY <2>2
  <2>6. Newest(q, pushed)
    <3> HIDE DEF k, p, q
    <3>1. p \in Seq(Msg) /\ Newest(p, pushed)
      BY <1>t, <1>d DEF p
    <3> QED
      BY <1>t, <2>3, <2>4, <2>5, <3>1, NewestCut
  <2> QED
    BY <1>d, <2>1, <2>6
<1> QED
  BY <1>1, <1>2, <1>3, WindowMoves

(* In every reachable state, tokens and resends included, the pending       *)
(* messages are exactly the newest ones pushed, in order (conn.go:248-268). *)
THEOREM PendingIsNewestAlways == Spec => []PendingIsNewest
<1>1. Init => TypeInv /\ PendingIsNewest
  <2>1. Init => SendsBounded
    BY ProcsAssumption DEF Init, SendsBounded, Procs
  <2>2. Init => PendingIsNewest
    BY DEF Init, NewWindow, PendingIsNewest, Cutoff
  <2> QED
    BY <2>1, <2>2, InitTypeOK DEF TypeInv
<1>2. TypeInv /\ PendingIsNewest /\ [Next]_vars => (TypeInv /\ PendingIsNewest)'
  BY NextTypeInv, PendingIsNewestStep
<1> QED
  BY <1>1, <1>2, PTL DEF Spec

(* Without tokens no worker is in handleTokenCheck or resends. *)
TokenLabels == {"verify", "adopt", "assign", "snapshot", "resend"}

NoTokenHandlers == \A w \in Workers : pc[w] \notin TokenLabels

(* Only a token message takes a worker there. *)
LEMMA NoTokenHandlersStep ==
    ASSUME "token" \notin Jobs, TypeInv, NoTokenHandlers, [Next]_vars
    PROVE  NoTokenHandlers'
<1> USE DEF TypeInv, TypeOK, TokenLabels
<1>g. ASSUME NEW p \in Procs, NEW l, Goto(p, l), l \notin TokenLabels
      PROVE  NoTokenHandlers'
  BY <1>g DEF Goto, NoTokenHandlers
<1>u. CASE UNCHANGED pc
  BY <1>u DEF NoTokenHandlers
<1>1. ASSUME NEW s \in Senders, SenderNext(s)
      PROVE  NoTokenHandlers'
  BY <1>1, <1>g DEF Procs, SenderNext, AsyncSendCheck, AsyncSendPush, AsyncSendCount,
     AsyncSendEnqueue
<1>2. ASSUME NEW p \in Procs \ Senders, Close(p)
      PROVE  NoTokenHandlers'
  BY <1>2, <1>g DEF Close, CloseCas, CloseCancel, CloseShut, Return
<1>3. ASSUME NEW w \in Workers, Handler(w) \/ SyncWrite(w)
      PROVE  NoTokenHandlers'
  <2>0. w \in Procs /\ pc[w] \notin TokenLabels
    BY DEF Procs, NoTokenHandlers
  <2>1. CASE WorkerTake(w)
    <3>0. Head(inbox) \in Job
      BY <2>1 DEF WorkerTake, JobTypeOK
    <3>1. Head(inbox).kind # "token"
      BY <3>0 DEF Job
    <3>2. PICK l \in {"inc", "sync"} : Goto(w, l)
      BY <2>1, <3>1 DEF WorkerTake
    <3> QED
      BY <2>0, <3>2, <1>g
  <2>2. CASE TokenVerify(w) \/ TokenAdopt(w) \/ TokenAssign(w)
    BY <2>0, <2>2 DEF TokenVerify, TokenAdopt, TokenAssign, WindowStep, At
  <2>3. CASE LogicInc(w) \/ LogicUpdate(w)
    BY <2>0, <2>3, <1>g DEF LogicInc, LogicUpdate, WindowStep
  <2>4. CASE ResendSnapshot(w) \/ ResendOne(w) \/ ResendEnd(w)
    BY <2>0, <2>4 DEF ResendSnapshot, ResendOne, ResendEnd, At
  <2>5. CASE SyncLock(w) \/ SyncWrite(w)
    BY <2>0, <2>5, <1>g DEF SyncLock, SyncWrite
  <2> QED
    BY <1>3, <2>1, <2>2, <2>3, <2>4, <2>5 DEF Handler
<1>4. CASE WriterNext
  <2>1. Writer \in Procs
    BY DEF Procs
  <2>2. UNCHANGED pc \/ \E l \in {"loop", "flush", "direct", "close", "done"} : Goto(Writer, l)
    BY <1>4 DEF WriterNext, WriterTake, WriterTimer, WriterWrite, WriterFlush,
       WriterDirect, WriterPanic, WriterStop, Panic, AfterOverflow, AfterFlush
  <2> QED
    BY <2>1, <2>2, <1>g, <1>u
<1>5. CASE ReaderNext
  <2>1. Reader \in Procs
    BY DEF Procs
  <2>2. UNCHANGED pc \/ \E l \in {"check", "deadline", "read", "close", "done"} : Goto(Reader, l)
    BY <1>5 DEF ReaderNext, ReaderCheck, ReaderDeadline, ReaderDeliver, ReaderRetry,
       ReaderFail, ReaderPanic, Panic
  <2> QED
    BY <2>1, <2>2, <1>g, <1>u
<1>6. CASE ParentCancel \/ UNCHANGED vars
  BY <1>6, <1>u DEF ParentCancel, vars
<1> QED
  BY <1>1, <1>2, <1>3, <1>4, <1>5, <1>6 DEF Next

(* What is acked plus what is pending is what was pushed. *)
LEMMA WindowExactStep ==
    ASSUME TypeInv, WindowExact, NoTokenHandlers, [Next]_vars
    PROVE  WindowExact'
<1>t. /\ win \in WindowOver(Msg) /\ win.pendingMessages \in Seq(Msg)
      /\ pushed \in Seq(Msg) /\ win.serverAck \in Nat
  BY DEF TypeInv, TypeOK, SendTypeOK, WindowOver
<1>n. PendingIsNewest'
  BY PendingIsNewestStep DEF WindowExact
<1>1. CASE NothingCut
  BY <1>1, <1>n DEF NothingCut, NoTokenHandlers, TokenLabels, WindowExact, Cutoff
<1>2. CASE MessagePushed
  <2>1. PICK m \in Msg : /\ win' = PushToPendingMessages(win, m)
                         /\ pushed' = Append(pushed, m)
    BY <1>2 DEF MessagePushed
  <2>2. /\ win'.pendingMessages = Append(win.pendingMessages, m)
        /\ win'.serverAck = win.serverAck
    BY <1>t, <2>1 DEF PushToPendingMessages, WindowOver
  <2>3. /\ Len(Append(win.pendingMessages, m)) = Len(win.pendingMessages) + 1
        /\ Len(Append(pushed, m)) = Len(pushed) + 1
    BY <1>t
  <2>4. Len(pushed) \in Nat /\ Len(win.pendingMessages) \in Nat
    BY <1>t
  <2>5. Cutoff' = Cutoff
    BY <2>1, <2>2, <2>3, <2>4 DEF Cutoff
  <2> QED
    BY <1>n, <2>2, <2>5 DEF WindowExact
<1>3. CASE AckTaken
  <2>1. PICK ack \in Nat : win' = UpdateServerAck(win, ack) /\ pushed' = pushed
    BY <1>3 DEF AckTaken
  <2>2. /\ win' \in WindowOver(Msg)
        /\ win'.serverAck + Len(win'.pendingMessages)
             = win.serverAck + Len(win.pendingMessages)
    BY <1>t, <2>1, UpdateServerAckCuts
  <2>3. win'.serverAck \in Nat /\ win'.pendingMessages \in Seq(Msg)
    BY <2>2 DEF WindowOver
  <2> QED
    BY <1>t, <1>n, <2>1, <2>2, <2>3, SMTT(20) DEF Cutoff, WindowExact
<1> QED
  BY <1>1, <1>2, <1>3, WindowMoves

(* As long as no client sends a second token, serverAck is exactly the      *)
(* number of messages cut: every later ack cuts the messages it counts.     *)
THEOREM WindowExactAlways == "token" \notin Jobs => (Spec => []WindowExact)
<1> SUFFICES ASSUME "token" \notin Jobs PROVE Spec => []WindowExact
  OBVIOUS
<1> DEFINE WindowInv == TypeInv /\ WindowExact /\ NoTokenHandlers
<1>1. Init => WindowInv
  <2>1. Init => SendsBounded /\ NoTokenHandlers
    BY ProcsAssumption DEF Init, SendsBounded, NoTokenHandlers, TokenLabels, Procs
  <2>2. Init => WindowExact
    BY DEF Init, NewWindow, WindowExact, PendingIsNewest, Cutoff
  <2> QED
    BY <2>1, <2>2, InitTypeOK DEF TypeInv
<1>2. WindowInv /\ [Next]_vars => WindowInv'
  BY NextTypeInv, WindowExactStep, NoTokenHandlersStep
<1>3. WindowInv => WindowExact
  OBVIOUS
<1> QED
  BY <1>1, <1>2, <1>3, PTL DEF Spec

-------------------------------------------------------------------------------
(* How a connection ends.                                                   *)

(* A goroutine that is inside Close has won the flag, and only it takes the *)
(* socket away.                                                             *)
ClosersHaveClosed ==
    /\ \A p \in Procs \ Senders : pc[p] \in {"cancel", "shut"} => isClosed
    /\ sock = "nil" => isClosed

EndInv == TypeInv /\ ClosersHaveClosed /\ LoopsServe

(* A goroutine that is neither inside Close nor a loop that returns.        *)
LEMMA GotoKeepsEnd ==
    ASSUME EndInv, NEW p \in Procs, NEW l, Goto(p, l), l \notin {"cancel", "shut"},
           l = "done" /\ p \in {Writer, Reader} => isClosed' \/ ctxDone',
           isClosed => isClosed', ctxDone => ctxDone', sock' = "nil" => isClosed'
    PROVE  ClosersHaveClosed' /\ LoopsServe'
<1>0. /\ Writer \in Procs /\ Reader \in Procs
      /\ pc' = [pc EXCEPT ![p] = l] /\ pc \in [Procs -> Labels]
  BY DEF Procs, Goto, EndInv, TypeInv, TypeOK
<1>1. \A q \in Procs : pc'[q] = IF q = p THEN l ELSE pc[q]
  BY <1>0
<1> QED
  BY <1>0, <1>1 DEF EndInv, ClosersHaveClosed, LoopsServe

LEMMA EndStep ==
    ASSUME EndInv, [Next]_vars
    PROVE  ClosersHaveClosed' /\ LoopsServe'
<1> DEFINE Goal == ClosersHaveClosed' /\ LoopsServe'
<1>0. /\ Writer \in Procs \ Senders /\ Reader \in Procs \ Senders
      /\ Senders \subseteq Procs /\ Workers \subseteq Procs \ Senders
      /\ pc \in [Procs -> Labels]
      /\ Writer \notin Senders \cup Workers /\ Reader \notin Senders \cup Workers
  BY ProcsAssumption DEF Procs, EndInv, TypeInv, TypeOK
<1>s. ASSUME UNCHANGED shutVars \/ UNCHANGED <<isClosed, ctxDone, sock>>
      PROVE  /\ (isClosed => isClosed') /\ (ctxDone => ctxDone')
             /\ (sock' = "nil" => isClosed')
  BY <1>s DEF EndInv, ClosersHaveClosed, shutVars
<1>n. ASSUME NEW p \in Procs, NEW l, Goto(p, l), l \notin {"cancel", "shut", "done"},
             UNCHANGED shutVars \/ UNCHANGED <<isClosed, ctxDone, sock>>
      PROVE  Goal
  <2>1. /\ (isClosed => isClosed') /\ (ctxDone => ctxDone')
        /\ (sock' = "nil" => isClosed')
    BY <1>n, <1>s
  <2> QED
    BY <2>1, <1>n, GotoKeepsEnd
<1>u. CASE UNCHANGED <<pc, isClosed, ctxDone, sock>>
  BY <1>u DEF EndInv, ClosersHaveClosed, LoopsServe
<1>1. ASSUME NEW s \in Senders, SenderNext(s)
      PROVE  Goal
  BY <1>0, <1>1, <1>n DEF SenderNext, AsyncSendCheck, AsyncSendPush, AsyncSendCount,
     AsyncSendEnqueue
<1>2. ASSUME NEW p \in Procs \ Senders, CloseCas(p)
      PROVE  Goal
  <2>1. isClosed' /\ UNCHANGED <<ctxDone, sock>>
    BY <1>2 DEF CloseCas
  <2>2. PICK l : Goto(p, l)
    BY <1>2 DEF CloseCas, Return
  <2>3. ClosersHaveClosed'
    BY <2>1 DEF ClosersHaveClosed
  <2> QED
    BY <2>1, <2>3 DEF LoopsServe
<1>3. ASSUME NEW p \in Procs \ Senders, CloseCancel(p) \/ CloseShut(p)
      PROVE  Goal
  <2>1. isClosed /\ isClosed' = isClosed
    BY <1>3 DEF CloseCancel, CloseShut, At, EndInv, ClosersHaveClosed
  <2> QED
    BY <2>1 DEF ClosersHaveClosed, LoopsServe
<1>4. ASSUME NEW w \in Workers, Handler(w) \/ SyncWrite(w)
      PROVE  Goal
  <2>1. CASE \/ WorkerTake(w) \/ LogicInc(w) \/ LogicUpdate(w) \/ TokenVerify(w)
             \/ TokenAdopt(w) \/ TokenAssign(w) \/ ResendSnapshot(w) \/ ResendEnd(w)
    <3>1. /\ \E l : l \notin {"cancel", "shut", "done"} /\ Goto(w, l)
          /\ UNCHANGED shutVars
      BY <2>1 DEF WorkerTake, LogicInc, LogicUpdate, TokenVerify, TokenAdopt,
         TokenAssign, WindowStep, ResendSnapshot, ResendEnd
    <3> QED
      BY <1>0, <1>n, <3>1
  <2>2. CASE ResendOne(w)
    BY <2>2, <1>u DEF ResendOne, shutVars
  <2>3. CASE SyncLock(w) \/ SyncWrite(w)
    <3>1. /\ \E l : l \notin {"cancel", "shut", "done"} /\ Goto(w, l)
          /\ UNCHANGED <<isClosed, ctxDone, sock>>
      BY <2>3 DEF SyncLock, SyncWrite
    <3> QED
      BY <1>0, <1>n, <3>1
  <2> QED
    BY <1>4, <2>1, <2>2, <2>3 DEF Handler
<1>5. CASE WriterNext
  <2>1. CASE WriterStop
    <3>1. Goto(Writer, "done") /\ ctxDone' /\ UNCHANGED shutVars
      BY <2>1 DEF WriterStop, shutVars
    <3>2. /\ (isClosed => isClosed') /\ (ctxDone => ctxDone')
          /\ (sock' = "nil" => isClosed')
      BY <3>1, <1>s
    <3> QED
      BY <1>0, <3>1, <3>2, GotoKeepsEnd
  <2>2. CASE WriterTimer \/ WriterTake \/ WriterWrite
    <3>1. /\ UNCHANGED shutVars
          /\ \/ UNCHANGED pc
             \/ \E l \in {"loop", "flush", "direct", "close"} : Goto(Writer, l)
      BY <2>2 DEF WriterTimer, WriterTake, WriterWrite, WriterFlush, WriterDirect,
         WriterPanic, Panic, AfterOverflow, AfterFlush
    <3> QED
      BY <1>0, <1>n, <1>u, <3>1 DEF shutVars
  <2> QED
    BY <1>5, <2>1, <2>2 DEF WriterNext
<1>6. CASE ReaderNext
  <2>1. CASE ReaderCheck \/ ReaderDeadline
    <3>1. UNCHANGED shutVars
      BY <2>1 DEF ReaderCheck, ReaderDeadline
    <3>2. PICK l \in {"done", "deadline", "read"} :
            Goto(Reader, l) /\ (l = "done" => ctxDone \/ isClosed \/ sock = "nil")
      BY <2>1 DEF ReaderCheck, ReaderDeadline, EndInv, TypeInv, TypeOK, ShutTypeOK
    <3>3. l = "done" => isClosed' \/ ctxDone'
      BY <3>1, <3>2 DEF EndInv, ClosersHaveClosed, shutVars
    <3>4. /\ (isClosed => isClosed') /\ (ctxDone => ctxDone')
          /\ (sock' = "nil" => isClosed')
      BY <3>1, <1>s
    <3> QED
      BY <1>0, <3>2, <3>3, <3>4, GotoKeepsEnd
  <2>2. CASE ReaderDeliver \/ ReaderRetry \/ ReaderFail \/ ReaderPanic
    <3>1. /\ UNCHANGED shutVars
          /\ UNCHANGED pc \/ \E l \in {"check", "close"} : Goto(Reader, l)
      BY <2>2 DEF ReaderDeliver, ReaderRetry, ReaderFail, ReaderPanic, Panic
    <3> QED
      BY <1>0, <1>n, <1>u, <3>1 DEF shutVars
  <2> QED
    BY <1>6, <2>1, <2>2 DEF ReaderNext
<1>7. CASE ParentCancel \/ UNCHANGED vars
  <2>1. UNCHANGED <<pc, isClosed, sock>> /\ (ctxDone => ctxDone')
    BY <1>7 DEF ParentCancel, vars, shutVars
  <2> QED
    BY <2>1 DEF EndInv, ClosersHaveClosed, LoopsServe
<1> QED
  BY <1>1, <1>2, <1>3, <1>4, <1>5, <1>6, <1>7 DEF Next, Close

(* Neither loop ever leaves a connection that is neither closed nor         *)
(* cancelled: no way out of batchWriteLoop or readLoop, failed writes and   *)
(* reads included, forgets to close (conn.go:301-460).                      *)
THEOREM LoopsServeUntilClosedAlways == Spec => []LoopsServeUntilClosed
<1>1. Init => EndInv
  <2> SUFFICES ASSUME Init PROVE EndInv
    OBVIOUS
  <2>1. TypeInv
    <3>1. SendsBounded
      BY ProcsAssumption DEF Init, SendsBounded, Procs
    <3> QED
      BY <3>1, InitTypeOK DEF TypeInv
  <2>2. \A p \in Procs : pc[p] \in {"loop", "check", "close", "idle"}
    BY DEF Init
  <2>3. Writer \in Procs /\ Reader \in Procs /\ sock = "open"
    BY DEF Procs, Init
  <2> QED
    BY <2>1, <2>2, <2>3 DEF EndInv, ClosersHaveClosed, LoopsServe
<1>2. EndInv /\ [Next]_vars => EndInv'
  BY NextTypeInv, EndStep DEF EndInv
<1>3. EndInv => LoopsServeUntilClosed
  BY DEF EndInv, TypeInv, LoopsServeUntilClosed
<1> QED
  BY <1>1, <1>2, <1>3, PTL DEF Spec

-------------------------------------------------------------------------------
(* Sending, counting and acknowledging.                                     *)

(* The senders stand still, or one starts to send.                          *)
SendersRest ==
    /\ UNCHANGED <<pushed, sent>>
    /\ win'.hasBeenSentNum = win.hasBeenSentNum
    /\ \A s \in Senders : pc'[s] = pc[s] \/ (pc[s] = "idle" /\ pc'[s] = "push")

LEMMA SendersMove ==
    ASSUME TypeInv, [Next]_vars
    PROVE  \/ \E s \in Senders :
                AsyncSendPush(s) \/ AsyncSendCount(s) \/ AsyncSendEnqueue(s)
           \/ SendersRest
<1> USE DEF TypeInv, TypeOK
<1>0. /\ Writer \in Procs \ Senders /\ Reader \in Procs \ Senders
      /\ Senders \subseteq Procs /\ Workers \subseteq Procs \ Senders
      /\ pc \in [Procs -> Labels] /\ win \in WindowOver(Msg)
  BY ProcsAssumption DEF Procs, SendTypeOK
<1>g. ASSUME UNCHANGED pc \/ \E p \in Procs \ Senders : \E l : Goto(p, l)
      PROVE  \A s \in Senders : pc'[s] = pc[s]
  BY <1>0, <1>g DEF Goto
<1>u. ASSUME UNCHANGED sendVars, \A s \in Senders : pc'[s] = pc[s]
      PROVE  SendersRest
  BY <1>u DEF sendVars, SendersRest
<1>1. ASSUME NEW s \in Senders, AsyncSendCheck(s)
      PROVE  SendersRest
  <2>1. UNCHANGED sendVars /\ pc[s] = "idle" /\ pc' = [pc EXCEPT ![s] = "push"]
    BY <1>1 DEF AsyncSendCheck, At, Goto
  <2>2. \A q \in Senders : pc'[q] = IF q = s THEN "push" ELSE pc[q]
    BY <1>0, <2>1
  <2> QED
    BY <2>1, <2>2 DEF SendersRest, sendVars
<1>2. ASSUME NEW p \in Procs \ Senders, Close(p)
      PROVE  SendersRest
  <2>1. UNCHANGED sendVars /\ \E l : Goto(p, l)
    BY <1>2 DEF Close, CloseCas, CloseCancel, CloseShut, Return
  <2> QED
    BY <1>g, <1>u, <2>1
<1>3. ASSUME NEW w \in Workers, Handler(w) \/ SyncWrite(w)
      PROVE  SendersRest
  <2>p. w \in Procs \ Senders /\ req[w].ack \in Nat
    BY <1>0 DEF JobTypeOK, Job, NoJob
  <2>1. ASSUME NEW from, NEW v, NEW to, WindowStep(w, from, v, to),
               v.hasBeenSentNum = win.hasBeenSentNum
        PROVE  SendersRest
    BY <1>g, <2>p, <2>1 DEF WindowStep, SendersRest
  <2>2. UpdateServerAck(win, req[w].ack).hasBeenSentNum = win.hasBeenSentNum
    BY <1>0, <2>p, UpdateServerAckCuts
  <2>3. /\ IncClientAck(win).hasBeenSentNum = win.hasBeenSentNum
        /\ SetServerAck(win, req[w].ack).hasBeenSentNum = win.hasBeenSentNum
    BY <1>0 DEF IncClientAck, SetServerAck, WindowOver
  <2>4. CASE \/ LogicInc(w) \/ LogicUpdate(w) \/ TokenVerify(w) \/ TokenAdopt(w)
             \/ TokenAssign(w)
    BY <2>1, <2>2, <2>3, <2>4 DEF LogicInc, LogicUpdate, TokenVerify, TokenAdopt, TokenAssign
  <2>5. CASE WorkerTake(w) \/ ResendSnapshot(w) \/ ResendEnd(w) \/ SyncLock(w) \/ SyncWrite(w)
    <3>1. UNCHANGED sendVars /\ \E l : Goto(w, l)
      BY <2>5 DEF WorkerTake, ResendSnapshot, ResendEnd, SyncLock, SyncWrite
    <3> QED
      BY <1>g, <1>u, <2>p, <3>1
  <2>6. CASE ResendOne(w)
    BY <2>6 DEF ResendOne, SendersRest
  <2> QED
    BY <1>3, <2>4, <2>5, <2>6 DEF Handler
<1>4. CASE WriterNext
  <2>1. UNCHANGED pc \/ \E l : Goto(Writer, l)
    BY <1>4 DEF WriterNext, WriterTake, WriterTimer, WriterWrite, WriterFlush,
       WriterDirect, WriterPanic, WriterStop, Panic, AfterOverflow, AfterFlush
  <2>2. UNCHANGED <<win, pushed, sent>>
    BY <1>4 DEF WriterNext, WriterTake, WriterTimer, WriterWrite, WriterFlush,
       WriterDirect, WriterPanic, WriterStop, Panic, sendVars
  <2> QED
    BY <1>0, <1>g, <2>1, <2>2 DEF SendersRest
<1>5. CASE ReaderNext
  <2>1. UNCHANGED sendVars /\ (UNCHANGED pc \/ \E l : Goto(Reader, l))
    BY <1>5 DEF ReaderNext, ReaderCheck, ReaderDeadline, ReaderDeliver, ReaderRetry,
       ReaderFail, ReaderPanic, Panic
  <2> QED
    BY <1>0, <1>g, <1>u, <2>1
<1>6. CASE ParentCancel \/ UNCHANGED vars
  BY <1>6, <1>g, <1>u DEF ParentCancel, vars
<1> QED
  BY <1>1, <1>2, <1>3, <1>4, <1>5, <1>6 DEF Next, SenderNext

(* A sender moves from one label to another. *)
LEMMA OneSenderMoves ==
    ASSUME TypeInv, NEW s \in Senders, NEW l, Goto(s, l)
    PROVE  pc'[s] = l /\ \A q \in Senders : q # s => pc'[q] = pc[q]
  BY DEF TypeInv, TypeOK, Goto, Procs

LEMMA SentCountStep ==
    ASSUME TypeInv, SentCountExact, [Next]_vars
    PROVE  SentCountExact'
<1>0. /\ win \in WindowOver(Msg) /\ win.hasBeenSentNum \in Nat
      /\ pushed \in Seq(Msg) /\ Len(pushed) \in Nat
  BY DEF TypeInv, TypeOK, SendTypeOK, WindowOver
<1>f. IsFiniteSet(Counting) /\ Cardinality(Counting) \in Nat
  BY ProcsAssumption, FS_Subset, FS_CardinalityType DEF Counting
<1>1. ASSUME NEW s \in Senders, AsyncSendPush(s)
      PROVE  SentCountExact'
  <2>1. pc[s] = "push" /\ Goto(s, "count")
    BY <1>1 DEF AsyncSendPush, At
  <2>2. Counting' = Counting \cup {s} /\ s \notin Counting
    BY <2>1, OneSenderMoves DEF Counting
  <2>3. Cardinality(Counting') = Cardinality(Counting) + 1
    BY <1>f, <2>2, FS_AddElement
  <2>4. Len(pushed') = Len(pushed) + 1
    BY <1>1, <1>0 DEF AsyncSendPush
  <2>5. win'.hasBeenSentNum = win.hasBeenSentNum
    BY <1>1, <1>0 DEF AsyncSendPush, PushToPendingMessages, WindowOver
  <2> QED
    BY <1>0, <1>f, <2>3, <2>4, <2>5 DEF SentCountExact
<1>2. ASSUME NEW s \in Senders, AsyncSendCount(s)
      PROVE  SentCountExact'
  <2>1. pc[s] = "count" /\ Goto(s, "enqueue")
    BY <1>2 DEF AsyncSendCount, At
  <2>2. Counting' = Counting \ {s} /\ s \in Counting
    BY <2>1, OneSenderMoves DEF Counting
  <2>3. Cardinality(Counting') = Cardinality(Counting) - 1
    BY <1>f, <2>2, FS_RemoveElement
  <2>4. win'.hasBeenSentNum = win.hasBeenSentNum + 1 /\ pushed' = pushed
    BY <1>2, <1>0 DEF AsyncSendCount, IncHasBeenSendCount, WindowOver
  <2> QED
    BY <1>0, <1>f, <2>3, <2>4 DEF SentCountExact
<1>3. ASSUME NEW s \in Senders, AsyncSendEnqueue(s)
      PROVE  SentCountExact'
  <2>1. pc[s] = "enqueue" /\ Goto(s, "idle")
    BY <1>3 DEF AsyncSendEnqueue, At
  <2>2. Counting' = Counting
    BY <2>1, OneSenderMoves DEF Counting
  <2> QED
    BY <1>3, <2>2 DEF AsyncSendEnqueue, SentCountExact
<1>4. CASE SendersRest
  <2>1. Counting' = Counting
    BY <1>4 DEF SendersRest, Counting
  <2> QED
    BY <1>4, <2>1 DEF SendersRest, SentCountExact
<1> QED
  BY <1>1, <1>2, <1>3, <1>4, SendersMove

-------------------------------------------------------------------------------
(* What the ranges of the queues become.                                    *)

LEMMA RangeOfAppend ==
    ASSUME NEW S, NEW s \in Seq(S), NEW x \in S
    PROVE  RangeOf(Append(s, x)) = RangeOf(s) \cup {x}
<1> DEFINE t == Append(s, x)
<1>1. /\ Len(s) \in Nat /\ Len(t) = Len(s) + 1
      /\ \A i \in 1 .. Len(s) : t[i] = s[i]
      /\ t[Len(s) + 1] = x
  BY AppendProperties
<1> HIDE DEF t
<1>2. RangeOf(t) = RangeOf(s) \cup {x}
  BY <1>1 DEF RangeOf
<1> QED
  BY <1>2 DEF t

LEMMA RangeOfConcat ==
    ASSUME NEW S, NEW s \in Seq(S), NEW t \in Seq(S)
    PROVE  RangeOf(s \o t) = RangeOf(s) \cup RangeOf(t)
<1> DEFINE u == s \o t
<1>1. /\ Len(s) \in Nat /\ Len(t) \in Nat /\ Len(u) = Len(s) + Len(t)
      /\ \A i \in 1 .. Len(s) + Len(t) :
            u[i] = IF i <= Len(s) THEN s[i] ELSE t[i - Len(s)]
  BY ConcatProperties
<1> HIDE DEF u
<1>2. ASSUME NEW i \in 1 .. Len(u)
      PROVE  u[i] \in RangeOf(s) \cup RangeOf(t)
  <2>1. CASE i <= Len(s)
    BY <2>1, <1>1 DEF RangeOf
  <2>2. CASE ~(i <= Len(s))
    <3>1. i - Len(s) \in 1 .. Len(t)
      BY <2>2, <1>1
    <3> QED
      BY <3>1, <2>2, <1>1 DEF RangeOf
  <2> QED
    BY <2>1, <2>2
<1>3. ASSUME NEW i \in 1 .. Len(s)
      PROVE  i \in 1 .. Len(u) /\ u[i] = s[i]
  BY <1>1
<1>4. ASSUME NEW i \in 1 .. Len(t)
      PROVE  Len(s) + i \in 1 .. Len(u) /\ u[Len(s) + i] = t[i]
  <2>1. Len(s) + i \in 1 .. Len(u) /\ ~(Len(s) + i <= Len(s)) /\ (Len(s) + i) - Len(s) = i
    BY <1>1
  <2> QED
    BY <2>1, <1>1
<1>5. RangeOf(u) = RangeOf(s) \cup RangeOf(t)
  <2>1. RangeOf(u) \subseteq RangeOf(s) \cup RangeOf(t)
    BY <1>2 DEF RangeOf
  <2>2. RangeOf(s) \subseteq RangeOf(u)
    BY <1>3 DEF RangeOf
  <2>3. RangeOf(t) \subseteq RangeOf(u)
    BY <1>4 DEF RangeOf
  <2> QED
    BY <2>1, <2>2, <2>3
<1> QED
  BY <1>5 DEF u

LEMMA RangeOfPrefix ==
    ASSUME NEW S, NEW s \in Seq(S), NEW n \in 0 .. Len(s)
    PROVE  /\ SubSeq(s, 1, n) \in Seq(S)
           /\ RangeOf(SubSeq(s, 1, n)) \subseteq RangeOf(s)
<1> DEFINE t == SubSeq(s, 1, n)
<1>1. /\ Len(s) \in Nat /\ t \in Seq(S) /\ Len(t) = n
      /\ \A i \in 1 .. n : t[i] = s[i] /\ i \in 1 .. Len(s)
  OBVIOUS
<1> HIDE DEF t
<1>2. RangeOf(t) \subseteq RangeOf(s)
  BY <1>1 DEF RangeOf
<1> QED
  BY <1>1, <1>2 DEF t

LEMMA RangeOfTail ==
    ASSUME NEW S, NEW s \in Seq(S), s # <<>>
    PROVE  /\ Head(s) \in S /\ Tail(s) \in Seq(S)
           /\ Head(s) \in RangeOf(s) /\ RangeOf(Tail(s)) \subseteq RangeOf(s)
<1> DEFINE t == Tail(s)
<1>1. /\ Len(s) \in Nat \ {0} /\ t \in Seq(S) /\ Len(t) = Len(s) - 1
      /\ \A i \in 1 .. Len(t) : t[i] = s[i + 1] /\ i + 1 \in 1 .. Len(s)
      /\ Head(s) = s[1] /\ Head(s) \in S
  OBVIOUS
<1> HIDE DEF t
<1>2. RangeOf(t) \subseteq RangeOf(s) /\ s[1] \in RangeOf(s)
  BY <1>1 DEF RangeOf
<1> QED
  BY <1>1, <1>2 DEF t

LEMMA RangeOfOne ==
    /\ RangeOf(<<>>) = {}
    /\ \A x : RangeOf(<<x>>) = {x} /\ Len(<<x>>) = 1
<1>1. RangeOf(<<>>) = {}
  BY DEF RangeOf
<1>2. ASSUME NEW x
      PROVE  RangeOf(<<x>>) = {x} /\ Len(<<x>>) = 1
  <2>1. Len(<<x>>) = 1 /\ <<x>>[1] = x /\ 1 .. 1 = {1}
    OBVIOUS
  <2> QED
    BY <2>1 DEF RangeOf
<1> QED
  BY <1>1, <1>2

-------------------------------------------------------------------------------
(* How messages go to the socket.                                           *)

Sent == {m \in Msg : m[2] <= sent[m[1]]}

OnWay == RangeOf(wire) \cup RangeOf(batch) \cup RangeOf(spill) \cup RangeOf(sendQueue)

(* Two queues one behind the other, and one in itself. *)
Before(A, B) == \A x \in A, y \in B : x[1] = y[1] => x[2] < y[2]

Ordered(s) ==
    \A i, j \in 1 .. Len(s) : i < j /\ s[i][1] = s[j][1] => s[i][2] < s[j][2]

LEMMA OrderedAppend ==
    ASSUME NEW S, NEW s \in Seq(S), NEW x \in S, Ordered(s), Before(RangeOf(s), {x})
    PROVE  Ordered(Append(s, x))
<1> DEFINE t == Append(s, x)
<1>1. /\ Len(s) \in Nat /\ Len(t) = Len(s) + 1
      /\ \A i \in 1 .. Len(s) : t[i] = s[i]
      /\ t[Len(s) + 1] = x
  BY AppendProperties
<1> HIDE DEF t
<1>2. \A i \in 1 .. Len(s) : s[i][1] = x[1] => s[i][2] < x[2]
  BY DEF Before, RangeOf
<1>3. Ordered(t)
  <2> SUFFICES ASSUME NEW i \in 1 .. Len(t), NEW j \in 1 .. Len(t), i < j, t[i][1] = t[j][1]
               PROVE  t[i][2] < t[j][2]
    BY DEF Ordered
  <2>1. i \in 1 .. Len(s) /\ t[i] = s[i]
    BY <1>1
  <2>2. CASE j = Len(s) + 1
    BY <2>1, <2>2, <1>1, <1>2
  <2>3. CASE j \in 1 .. Len(s)
    BY <2>1, <2>3, <1>1 DEF Ordered
  <2> QED
    BY <2>2, <2>3, <1>1
<1> QED
  BY <1>3 DEF t

LEMMA OrderedConcat ==
    ASSUME NEW S, NEW s \in Seq(S), NEW t \in Seq(S), Ordered(s), Ordered(t),
           Before(RangeOf(s), RangeOf(t))
    PROVE  Ordered(s \o t)
<1> DEFINE u == s \o t
<1>1. /\ Len(s) \in Nat /\ Len(t) \in Nat /\ Len(u) = Len(s) + Len(t)
      /\ \A i \in 1 .. Len(s) + Len(t) :
            u[i] = IF i <= Len(s) THEN s[i] ELSE t[i - Len(s)]
  BY ConcatProperties
<1> HIDE DEF u
<1>2. \A i \in 1 .. Len(s), j \in 1 .. Len(t) : s[i][1] = t[j][1] => s[i][2] < t[j][2]
  BY DEF Before, RangeOf
<1>3. Ordered(u)
  <2> SUFFICES ASSUME NEW i \in 1 .. Len(u), NEW j \in 1 .. Len(u), i < j, u[i][1] = u[j][1]
               PROVE  u[i][2] < u[j][2]
    BY DEF Ordered
  <2>1. CASE j <= Len(s)
    <3>1. i \in 1 .. Len(s) /\ j \in 1 .. Len(s) /\ u[i] = s[i] /\ u[j] = s[j]
      BY <2>1, <1>1
    <3> QED
      BY <3>1 DEF Ordered
  <2>2. CASE ~(j <= Len(s)) /\ i <= Len(s)
    <3>1. i \in 1 .. Len(s) /\ j - Len(s) \in 1 .. Len(t) /\ u[i] = s[i] /\ u[j] = t[j - Len(s)]
      BY <2>2, <1>1
    <3> QED
      BY <3>1, <1>2
  <2>3. CASE ~(i <= Len(s))
    <3>1. /\ i - Len(s) \in 1 .. Len(t) /\ j - Len(s) \in 1 .. Len(t)
          /\ i - Len(s) < j - Len(s) /\ u[i] = t[i - Len(s)] /\ u[j] = t[j - Len(s)]
      BY <2>3, <1>1
    <3> QED
      BY <3>1 DEF Ordered
  <2> QED
    BY <2>1, <2>2, <2>3
<1> QED
  BY <1>3 DEF u

LEMMA OrderedPrefix ==
    ASSUME NEW S, NEW s \in Seq(S), NEW n \in 0 .. Len(s), Ordered(s)
    PROVE  Ordered(SubSeq(s, 1, n))
<1> DEFINE t == SubSeq(s, 1, n)
<1>1. Len(t) = n /\ \A i \in 1 .. n : t[i] = s[i] /\ i \in 1 .. Len(s)
  OBVIOUS
<1> HIDE DEF t
<1>2. Ordered(t)
  BY <1>1 DEF Ordered
<1> QED
  BY <1>2 DEF t

LEMMA OrderedTail ==
    ASSUME NEW S, NEW s \in Seq(S), s # <<>>, Ordered(s)
    PROVE  Ordered(Tail(s)) /\ Before({Head(s)}, RangeOf(Tail(s)))
<1> DEFINE t == Tail(s)
<1>1. /\ Len(s) \in Nat \ {0} /\ Len(t) = Len(s) - 1
      /\ \A i \in 1 .. Len(t) : t[i] = s[i + 1] /\ i + 1 \in 1 .. Len(s)
      /\ Head(s) = s[1]
  OBVIOUS
<1> HIDE DEF t
<1>2. Ordered(t)
  BY <1>1 DEF Ordered
<1>3. ASSUME NEW y \in RangeOf(t), s[1][1] = y[1]
      PROVE  s[1][2] < y[2]
  <2>1. PICK i \in 1 .. Len(t) : y = t[i]
    BY DEF RangeOf
  <2>2. i + 1 \in 1 .. Len(s) /\ y = s[i + 1] /\ 1 \in 1 .. Len(s) /\ 1 < i + 1
    BY <2>1, <1>1
  <2> QED
    BY <2>2, <1>3 DEF Ordered
<1>4. Before({s[1]}, RangeOf(t))
  BY <1>3 DEF Before
<1> QED
  BY <1>1, <1>2, <1>4 DEF t

Writing == pc[Writer] \in {"loop", "flush", "direct"}

(* What is written, then the batch, then the message in hand, then the      *)
(* queue: each is in order, and while the write loop goes on so is the row. *)
LineInOrder ==
    /\ Ordered(wire) /\ Ordered(batch) /\ Ordered(sendQueue) /\ Len(spill) <= 1
    /\ pc[Writer] = "loop" => spill = <<>>
    /\ pc[Writer] = "direct" => batch = <<>>
    /\ Writing =>
          /\ Before(RangeOf(wire), RangeOf(batch) \cup RangeOf(spill) \cup RangeOf(sendQueue))
          /\ Before(RangeOf(batch), RangeOf(spill) \cup RangeOf(sendQueue))
          /\ Before(RangeOf(spill), RangeOf(sendQueue))

FlowInv == LineInOrder /\ OnWay \subseteq Sent

LineRests ==
    /\ UNCHANGED <<wire, batch, spill, sendQueue, queued, sent>>
    /\ \/ pc'[Writer] = pc[Writer]
       \/ pc[Writer] = "loop" /\ pc'[Writer] = "flush"
       \/ pc'[Writer] \notin {"loop", "flush", "direct"}

LineQueues == <<wire, batch, spill, sendQueue, queued>>

(* Only senders, resends and the write loop move messages.                  *)
LEMMA LineMoves ==
    ASSUME TypeInv, [Next]_vars
    PROVE  \/ \E s \in Senders : AsyncSendEnqueue(s)
           \/ \E w \in Workers : ResendOne(w)
           \/ WriterTake \/ WriterFlush \/ WriterDirect \/ WriterStop
           \/ LineRests
<1> USE DEF TypeInv, TypeOK
<1>0. /\ Writer \in Procs \ (Senders \cup Workers) /\ Reader \in Procs \ {Writer}
      /\ Senders \subseteq Procs /\ Workers \subseteq Procs
      /\ pc \in [Procs -> Labels]
  BY ProcsAssumption DEF Procs
<1>g. ASSUME UNCHANGED pc \/ \E p \in Procs \ {Writer} : \E l : Goto(p, l),
             UNCHANGED <<LineQueues, sent>>
      PROVE  LineRests
  <2>1. pc'[Writer] = pc[Writer]
    BY <1>0, <1>g DEF Goto
  <2> QED
    BY <2>1, <1>g DEF LineRests, LineQueues
<1>1. ASSUME NEW s \in Senders, AsyncSendCheck(s) \/ AsyncSendPush(s) \/ AsyncSendCount(s)
      PROVE  LineRests
  <2>1. \E l : Goto(s, l)
    BY <1>1 DEF AsyncSendCheck, AsyncSendPush, AsyncSendCount
  <2>2. UNCHANGED <<LineQueues, sent>>
    BY <1>1 DEF AsyncSendCheck, AsyncSendPush, AsyncSendCount, sendVars, loopVars, LineQueues
  <2> QED
    BY <1>0, <1>g, <2>1, <2>2
<1>2. ASSUME NEW p \in Procs \ Senders, Close(p)
      PROVE  LineRests
  <2>1. /\ UNCHANGED <<LineQueues, sent>>
        /\ \E l \in {"idle", "done", "cancel", "shut"} : Goto(p, l)
    BY <1>2 DEF Close, CloseCas, CloseCancel, CloseShut, Return, sendVars, loopVars, LineQueues
  <2>2. CASE p = Writer
    BY <1>0, <2>1, <2>2 DEF Goto, LineRests, LineQueues
  <2>3. CASE p # Writer
    BY <1>g, <2>1, <2>3
  <2> QED
    BY <2>2, <2>3
<1>3. ASSUME NEW w \in Workers, Handler(w) \/ SyncWrite(w), ~ResendOne(w)
      PROVE  LineRests
  <2>p. w \in Procs \ {Writer}
    BY <1>0
  <2>1. CASE \/ LogicInc(w) \/ LogicUpdate(w)
             \/ TokenVerify(w) \/ TokenAdopt(w) \/ TokenAssign(w)
    <3>1. UNCHANGED <<LineQueues, sent>> /\ \E l : Goto(w, l)
      BY <2>1 DEF LogicInc, LogicUpdate, TokenVerify, TokenAdopt, TokenAssign, WindowStep,
         loopVars, LineQueues
    <3> QED
      BY <1>g, <2>p, <3>1
  <2>2. CASE WorkerTake(w) \/ SyncLock(w) \/ SyncWrite(w) \/ ResendSnapshot(w) \/ ResendEnd(w)
    <3>1. UNCHANGED <<LineQueues, sent>> /\ \E l : Goto(w, l)
      BY <2>2 DEF WorkerTake, SyncLock, SyncWrite, ResendSnapshot, ResendEnd, sendVars,
         loopVars, LineQueues
    <3> QED
      BY <1>g, <2>p, <3>1
  <2> QED
    BY <1>3, <2>1, <2>2 DEF Handler
<1>4. CASE WriterTimer \/ WriterPanic
  <2>1. CASE WriterTimer
    <3>1. UNCHANGED <<LineQueues, sent>> /\ pc[Writer] = "loop" /\ pc'[Writer] = "flush"
      BY <1>0, <2>1 DEF WriterTimer, At, Goto, sendVars, loopVars, LineQueues
    <3> QED
      BY <3>1 DEF LineRests, LineQueues
  <2>2. CASE WriterPanic
    BY <2>2, <1>g DEF WriterPanic, Panic, sendVars, loopVars, LineQueues
  <2> QED
    BY <1>4, <2>1, <2>2
<1>5. CASE ReaderNext
  <2>1. UNCHANGED <<LineQueues, sent>> /\ (UNCHANGED pc \/ \E l : Goto(Reader, l))
    BY <1>5 DEF ReaderNext, ReaderCheck, ReaderDeadline, ReaderDeliver, ReaderRetry,
       ReaderFail, ReaderPanic, Panic, sendVars, loopVars, LineQueues
  <2> QED
    BY <1>0, <1>g, <2>1
<1>6. CASE ParentCancel \/ UNCHANGED vars
  BY <1>6, <1>g DEF ParentCancel, vars, sendVars, loopVars, LineQueues
<1> QED
  BY <1>1, <1>2, <1>3, <1>4, <1>5, <1>6 DEF Next, SenderNext, WriterNext, WriterWrite

LEMMA NoTokenNoResend ==
    ASSUME NoTokenHandlers
    PROVE  ~\E w \in Workers : ResendOne(w)
<1> QED
  BY DEF NoTokenHandlers, TokenLabels, ResendOne, At

(* A short queue is in order. *)
LEMMA SpillOrdered ==
    ASSUME LineInOrder, spill \in Seq(Msg)
    PROVE  Ordered(spill)
  BY DEF LineInOrder, Ordered

LEMMA BeforeFacts ==
    /\ \A A, B, C : Before(A, B \cup C) <=> Before(A, B) /\ Before(A, C)
    /\ \A A, B, C : Before(A \cup B, C) <=> Before(A, C) /\ Before(B, C)
    /\ \A A, B, C, D : Before(A, B) /\ C \subseteq A /\ D \subseteq B => Before(C, D)
    /\ \A A : Before({}, A) /\ Before(A, {})
  BY DEF Before

(* AsyncSend puts its message behind all that are on the way. *)
LEMMA EnqueueFlow ==
    ASSUME TypeInv, FlowInv, NEW s \in Senders, AsyncSendEnqueue(s)
    PROVE  FlowInv'
<1>0. /\ wire \in Seq(Msg) /\ batch \in Seq(Msg) /\ spill \in Seq(Msg)
      /\ sendQueue \in Seq(Msg) /\ sent \in [Senders -> 0 .. MaxSends]
      /\ pc \in [Procs -> Labels]
  BY DEF TypeInv, TypeOK, LoopTypeOK, SendTypeOK
<1>1. /\ UNCHANGED <<wire, batch, spill>> /\ sent' = [sent EXCEPT ![s] = @ + 1]
      /\ sendQueue' = sendQueue \/ sendQueue' = Append(sendQueue, NextMsg(s))
      /\ pc[s] = "enqueue" /\ pc' = [pc EXCEPT ![s] = "idle"]
  BY DEF AsyncSendEnqueue, Enqueue, At, Goto, loopVars
<1>2. NextMsg(s) \in Msg /\ NextMsg(s)[1] = s /\ NextMsg(s)[2] = sent[s] + 1
  <2>1. sent[s] < MaxSends
    BY <1>1 DEF TypeInv, SendsBounded
  <2> QED
    BY <2>1, <1>0, BoundsAssumption DEF NextMsg, Msg
<1>3. pc'[Writer] = pc[Writer]
  BY <1>0, <1>1, ProcsAssumption DEF Procs
<1>4. Sent \subseteq Sent' /\ NextMsg(s) \in Sent'
  <2>1. \A m \in Msg : m[1] \in Senders /\ m[2] \in Nat
    BY DEF Msg
  <2>2. sent'[s] = sent[s] + 1 /\ \A q \in Senders : q # s => sent'[q] = sent[q]
    BY <1>0, <1>1
  <2>3. \A q \in Senders : sent[q] \in Nat
    BY <1>0, BoundsAssumption
  <2> QED
    BY <1>2, <2>1, <2>2, <2>3 DEF Sent
<1>5. Before(Sent, {NextMsg(s)})
  <2>1. sent[s] \in Nat
    BY <1>0, BoundsAssumption
  <2>2. \A x \in Sent : x[1] = s => x[2] <= sent[s] /\ x[2] \in Nat
    BY DEF Sent, Msg
  <2> QED
    BY <1>2, <2>1, <2>2 DEF Before
<1>6. RangeOf(sendQueue') \subseteq RangeOf(sendQueue) \cup {NextMsg(s)}
  BY <1>0, <1>1, <1>2, RangeOfAppend, ZenonT(30)
<1>7. OnWay' \subseteq Sent'
  BY <1>1, <1>4, <1>6 DEF FlowInv, OnWay
<1>8. Ordered(sendQueue')
  <2>1. Before(RangeOf(sendQueue), {NextMsg(s)})
    BY <1>5, BeforeFacts DEF FlowInv, OnWay
  <2> QED
    BY <1>0, <1>1, <1>2, <2>1, OrderedAppend DEF FlowInv, LineInOrder
<1>9. ASSUME NEW A \in SUBSET Sent, Before(A, RangeOf(sendQueue))
      PROVE  Before(A, RangeOf(sendQueue'))
  BY <1>5, <1>6, <1>9 DEF Before
<1>10. /\ RangeOf(wire) \in SUBSET Sent /\ RangeOf(batch) \in SUBSET Sent
       /\ RangeOf(spill) \in SUBSET Sent
  BY DEF FlowInv, OnWay
<1>11. Writing' =>
          /\ Before(RangeOf(wire), RangeOf(batch) \cup RangeOf(spill) \cup RangeOf(sendQueue'))
          /\ Before(RangeOf(batch), RangeOf(spill) \cup RangeOf(sendQueue'))
          /\ Before(RangeOf(spill), RangeOf(sendQueue'))
  <2> SUFFICES ASSUME Writing
               PROVE  /\ Before(RangeOf(wire), RangeOf(batch) \cup RangeOf(spill) \cup RangeOf(sendQueue'))
                      /\ Before(RangeOf(batch), RangeOf(spill) \cup RangeOf(sendQueue'))
                      /\ Before(RangeOf(spill), RangeOf(sendQueue'))
    BY <1>3 DEF Writing
  <2>1. /\ Before(RangeOf(wire), RangeOf(batch)) /\ Before(RangeOf(wire), RangeOf(spill))
        /\ Before(RangeOf(wire), RangeOf(sendQueue)) /\ Before(RangeOf(batch), RangeOf(spill))
        /\ Before(RangeOf(batch), RangeOf(sendQueue)) /\ Before(RangeOf(spill), RangeOf(sendQueue))
    BY BeforeFacts DEF FlowInv, LineInOrder
  <2>2. /\ Before(RangeOf(wire), RangeOf(sendQueue'))
        /\ Before(RangeOf(batch), RangeOf(sendQueue'))
        /\ Before(RangeOf(spill), RangeOf(sendQueue'))
    BY <1>9, <1>10, <2>1
  <2> QED
    BY <2>1, <2>2, BeforeFacts
<1>12. LineInOrder'
  <2>1. /\ Ordered(wire) /\ Ordered(batch) /\ Len(spill) <= 1
        /\ pc[Writer] = "loop" => spill = <<>>
        /\ pc[Writer] = "direct" => batch = <<>>
    BY DEF FlowInv, LineInOrder
  <2>2. UNCHANGED <<wire, batch, spill>>
    BY <1>1
  <2> QED
    BY <2>1, <2>2, <1>3, <1>8, <1>11 DEF LineInOrder
<1> QED
  BY <1>7, <1>12 DEF FlowInv

(* The write loop takes a message: it drops it, batches it or keeps it.     *)
LEMMA TakeFlow ==
    ASSUME TypeInv, FlowInv, WriterTake
    PROVE  FlowInv'
<1> DEFINE m == Head(sendQueue)
<1>0. /\ wire \in Seq(Msg) /\ batch \in Seq(Msg) /\ spill \in Seq(Msg)
      /\ sendQueue \in Seq(Msg) /\ sendQueue # <<>> /\ pc \in [Procs -> Labels]
      /\ Writer \in Procs
  BY DEF TypeInv, TypeOK, LoopTypeOK, SendTypeOK, WriterTake, Procs
<1>1. /\ m \in Msg /\ m \in RangeOf(sendQueue)
      /\ RangeOf(Tail(sendQueue)) \subseteq RangeOf(sendQueue)
  BY <1>0, RangeOfTail
<1>2. Ordered(Tail(sendQueue)) /\ Before({m}, RangeOf(Tail(sendQueue)))
  BY <1>0, OrderedTail DEF FlowInv, LineInOrder
<1> HIDE DEF m
<1>3. /\ pc[Writer] = "loop" /\ sendQueue' = Tail(sendQueue) /\ UNCHANGED <<wire, sent>>
      /\ \/ UNCHANGED <<batch, spill, pc>>
         \/ batch' = Append(batch, m) /\ UNCHANGED <<spill, pc>>
         \/ /\ spill' = <<m>> /\ UNCHANGED batch
            /\ Goto(Writer, IF batch = <<>> THEN "direct" ELSE "flush")
  BY DEF WriterTake, At, AfterOverflow, m
<1>4. /\ spill = <<>> /\ RangeOf(spill) = {} /\ Writing
      /\ Ordered(wire) /\ Ordered(batch)
  <2>1. spill = <<>> /\ Writing /\ Ordered(wire) /\ Ordered(batch)
    BY <1>3 DEF FlowInv, LineInOrder, Writing
  <2>2. RangeOf(<<>>) = {}
    BY RangeOfOne
  <2> QED
    BY <2>1, <2>2
<1>5. /\ Before(RangeOf(wire), RangeOf(batch)) /\ Before(RangeOf(wire), RangeOf(sendQueue))
      /\ Before(RangeOf(batch), RangeOf(sendQueue))
  BY <1>4, BeforeFacts DEF FlowInv, LineInOrder
<1>6. /\ Before(RangeOf(wire), {m}) /\ Before(RangeOf(batch), {m})
      /\ Before(RangeOf(wire), RangeOf(sendQueue'))
      /\ Before(RangeOf(batch), RangeOf(sendQueue'))
      /\ Before({m}, RangeOf(sendQueue'))
  <2>1. {m} \subseteq RangeOf(sendQueue) /\ RangeOf(sendQueue') \subseteq RangeOf(sendQueue)
    BY <1>1, <1>3
  <2>2. Before({m}, RangeOf(sendQueue'))
    BY <1>2, <1>3
  <2> QED
    BY <1>5, <2>1, <2>2 DEF Before
<1>7. /\ RangeOf(wire) \subseteq Sent /\ RangeOf(batch) \subseteq Sent
      /\ RangeOf(sendQueue') \subseteq Sent /\ m \in Sent /\ Sent' = Sent
  BY <1>1, <1>3 DEF FlowInv, OnWay, Sent
<1>8. CASE UNCHANGED <<batch, spill, pc>>
  <2>1. OnWay' \subseteq Sent'
    BY <1>8, <1>3, <1>4, <1>7 DEF OnWay
  <2>2. LineInOrder'
    <3>1. Before(RangeOf(spill), RangeOf(sendQueue'))
          /\ Before(RangeOf(wire), RangeOf(spill)) /\ Before(RangeOf(batch), RangeOf(spill))
      BY <1>4, BeforeFacts
    <3>2. /\ Before(RangeOf(wire), RangeOf(batch) \cup RangeOf(spill) \cup RangeOf(sendQueue'))
          /\ Before(RangeOf(batch), RangeOf(spill) \cup RangeOf(sendQueue'))
      BY <1>5, <1>6, <3>1, BeforeFacts
    <3>3. Len(spill) <= 1
      BY DEF FlowInv, LineInOrder
    <3> QED
      BY <1>2, <1>3, <1>4, <1>8, <3>1, <3>2, <3>3 DEF LineInOrder
  <2> QED
    BY <2>1, <2>2 DEF FlowInv
<1>9. CASE batch' = Append(batch, m) /\ UNCHANGED <<spill, pc>>
  <2>0. RangeOf(batch') = RangeOf(batch) \cup {m}
    BY <1>9, <1>0, <1>1, RangeOfAppend
  <2>1. OnWay' \subseteq Sent'
    BY <2>0, <1>9, <1>3, <1>4, <1>7 DEF OnWay
  <2>2. LineInOrder'
    <3>1. Before(RangeOf(spill), RangeOf(sendQueue'))
          /\ Before(RangeOf(wire), RangeOf(spill)) /\ Before(RangeOf(batch'), RangeOf(spill))
      BY <1>4, BeforeFacts
    <3>2. /\ Before(RangeOf(wire), RangeOf(batch')) /\ Before(RangeOf(batch'), RangeOf(sendQueue'))
      BY <1>5, <1>6, <2>0, BeforeFacts
    <3>3. /\ Before(RangeOf(wire), RangeOf(batch') \cup RangeOf(spill) \cup RangeOf(sendQueue'))
          /\ Before(RangeOf(batch'), RangeOf(spill) \cup RangeOf(sendQueue'))
      BY <1>6, <3>1, <3>2, BeforeFacts
    <3>4. Len(spill) <= 1
      BY DEF FlowInv, LineInOrder
    <3>5. Ordered(batch')
      BY <1>0, <1>1, <1>4, <1>6, <1>9, OrderedAppend
    <3> QED
      BY <1>2, <1>3, <1>4, <1>9, <3>1, <3>3, <3>4, <3>5 DEF LineInOrder
  <2> QED
    BY <2>1, <2>2 DEF FlowInv
<1>10. CASE /\ spill' = <<m>> /\ UNCHANGED batch
            /\ Goto(Writer, IF batch = <<>> THEN "direct" ELSE "flush")
  <2>0. RangeOf(spill') = {m} /\ Len(spill') = 1
    BY <1>10, RangeOfOne
  <2>1. OnWay' \subseteq Sent'
    BY <2>0, <1>10, <1>3, <1>4, <1>7 DEF OnWay
  <2>2. LineInOrder'
    <3>1. /\ Before(RangeOf(spill'), RangeOf(sendQueue'))
          /\ Before(RangeOf(wire), RangeOf(spill')) /\ Before(RangeOf(batch), RangeOf(spill'))
      BY <2>0, <1>6
    <3>2. /\ Before(RangeOf(wire), RangeOf(batch) \cup RangeOf(spill') \cup RangeOf(sendQueue'))
          /\ Before(RangeOf(batch), RangeOf(spill') \cup RangeOf(sendQueue'))
      BY <1>5, <1>6, <3>1, BeforeFacts
    <3>3. pc'[Writer] = IF batch = <<>> THEN "direct" ELSE "flush"
      BY <1>0, <1>10 DEF Goto
    <3>4. pc'[Writer] # "loop" /\ (pc'[Writer] = "direct" => batch = <<>>)
      BY <3>3
    <3> QED
      BY <1>2, <1>3, <1>4, <1>10, <2>0, <3>1, <3>2, <3>4 DEF LineInOrder
  <2> QED
    BY <2>1, <2>2 DEF FlowInv
<1> QED
  BY <1>3, <1>8, <1>9, <1>10

(* A write puts a queue, or the first part of it, behind what is written.   *)
LEMMA WritesFlow ==
    ASSUME NEW d \in Seq(Msg), wire \in Seq(Msg), Ordered(wire), Ordered(d),
           Before(RangeOf(wire), RangeOf(d)), WriteOk(d) \/ WriteErr(d)
    PROVE  /\ Ordered(wire')
           /\ RangeOf(wire') \subseteq RangeOf(wire) \cup RangeOf(d)
<1>1. CASE WriteOk(d)
  <2>1. wire' = wire \o d
    BY <1>1 DEF WriteOk
  <2> QED
    BY <2>1, OrderedConcat, RangeOfConcat
<1>2. CASE WriteErr(d)
  <2>1. PICK n \in 0 .. Len(d) : wire' = wire \o SubSeq(d, 1, n)
    BY <1>2 DEF WriteErr
  <2>2. /\ SubSeq(d, 1, n) \in Seq(Msg) /\ Ordered(SubSeq(d, 1, n))
        /\ RangeOf(SubSeq(d, 1, n)) \subseteq RangeOf(d)
    BY RangeOfPrefix, OrderedPrefix
  <2>3. Before(RangeOf(wire), RangeOf(SubSeq(d, 1, n)))
    BY <2>2 DEF Before
  <2> QED
    <3>1. /\ Ordered(wire \o SubSeq(d, 1, n))
          /\ RangeOf(wire \o SubSeq(d, 1, n)) = RangeOf(wire) \cup RangeOf(SubSeq(d, 1, n))
      BY <2>2, <2>3, OrderedConcat, RangeOfConcat, ZenonT(30)
    <3> QED
      BY <2>1, <2>2, <3>1
<1> QED
  BY <1>1, <1>2

(* The write loop writes its batch, or the message in its hand. *)
LEMMA WriteFlow ==
    ASSUME TypeInv, FlowInv, WriterFlush \/ WriterDirect \/ WriterStop
    PROVE  FlowInv'
<1>0. /\ wire \in Seq(Msg) /\ batch \in Seq(Msg) /\ spill \in Seq(Msg)
      /\ pc \in [Procs -> Labels] /\ Writer \in Procs
  BY DEF TypeInv, TypeOK, LoopTypeOK, Procs
<1>1. /\ Writing /\ UNCHANGED <<sendQueue, sent>>
  BY DEF WriterFlush, WriterDirect, WriterStop, At, Writing, sendVars
<1>2. /\ Ordered(wire) /\ Ordered(batch) /\ Ordered(sendQueue) /\ Ordered(spill)
      /\ Len(spill) <= 1
      /\ Before(RangeOf(wire), RangeOf(batch)) /\ Before(RangeOf(wire), RangeOf(spill))
      /\ Before(RangeOf(wire), RangeOf(sendQueue)) /\ Before(RangeOf(batch), RangeOf(spill))
      /\ Before(RangeOf(batch), RangeOf(sendQueue)) /\ Before(RangeOf(spill), RangeOf(sendQueue))
  BY <1>0, <1>1, SpillOrdered, BeforeFacts DEF FlowInv, LineInOrder
<1>3. /\ RangeOf(wire) \subseteq Sent /\ RangeOf(batch) \subseteq Sent /\ RangeOf(spill) \subseteq Sent
      /\ RangeOf(sendQueue) \subseteq Sent /\ Sent' = Sent
  BY <1>1 DEF FlowInv, OnWay, Sent
<1>4. RangeOf(<<>>) = {} /\ Ordered(<<>>)
  BY RangeOfOne DEF Ordered
<1>5. ASSUME pc'[Writer] \notin {"loop", "flush", "direct"}, UNCHANGED <<batch, spill>>,
             WriteOk(batch) \/ WriteErr(batch) \/ WriteOk(spill) \/ WriteErr(spill)
      PROVE  FlowInv'
  <2>1. Ordered(wire') /\ RangeOf(wire') \subseteq RangeOf(wire) \cup RangeOf(batch) \cup RangeOf(spill)
    BY <1>0, <1>2, <1>5, WritesFlow
  <2>2. OnWay' \subseteq Sent'
    BY <1>1, <1>3, <1>5, <2>1 DEF OnWay
  <2>3. LineInOrder'
    BY <1>1, <1>2, <1>5, <2>1 DEF LineInOrder, Writing
  <2> QED
    BY <2>2, <2>3 DEF FlowInv
<1>6. CASE WriterStop
  BY <1>0, <1>5, <1>6 DEF WriterStop, Goto
<1>7. CASE WriterFlush /\ WriteErr(batch) /\ Goto(Writer, "close") /\ UNCHANGED <<batch, spill>>
  BY <1>0, <1>5, <1>7 DEF Goto
<1>8. CASE WriterDirect /\ WriteErr(spill) /\ Goto(Writer, "close") /\ UNCHANGED <<batch, spill>>
  BY <1>0, <1>5, <1>8 DEF Goto
<1>9. CASE /\ WriteOk(batch) /\ batch' = <<>> /\ UNCHANGED spill
           /\ Goto(Writer, IF spill = <<>> THEN "loop" ELSE "direct")
  <2>1. Ordered(wire') /\ RangeOf(wire') \subseteq RangeOf(wire) \cup RangeOf(batch)
    BY <1>0, <1>2, <1>9, WritesFlow
  <2>2. OnWay' \subseteq Sent'
    BY <1>1, <1>3, <1>4, <1>9, <2>1 DEF OnWay
  <2>3. pc'[Writer] = IF spill = <<>> THEN "loop" ELSE "direct"
    BY <1>0, <1>9 DEF Goto
  <2>4. /\ Before(RangeOf(wire'), RangeOf(spill)) /\ Before(RangeOf(wire'), RangeOf(sendQueue))
        /\ Before(RangeOf(wire'), {}) /\ Before({}, RangeOf(spill) \cup RangeOf(sendQueue))
    BY <1>2, <2>1 DEF Before
  <2>5. /\ Before(RangeOf(wire'), RangeOf(batch') \cup RangeOf(spill) \cup RangeOf(sendQueue))
        /\ Before(RangeOf(batch'), RangeOf(spill) \cup RangeOf(sendQueue))
    BY <1>4, <1>9, <2>4, BeforeFacts
  <2>6. LineInOrder'
    BY <1>1, <1>2, <1>4, <1>9, <2>1, <2>3, <2>5 DEF LineInOrder
  <2> QED
    BY <2>2, <2>6 DEF FlowInv
<1>10. CASE /\ At(Writer, "direct") /\ WriteOk(spill) /\ spill' = <<>> /\ UNCHANGED batch
            /\ Goto(Writer, "loop")
  <2>1. Ordered(wire') /\ RangeOf(wire') \subseteq RangeOf(wire) \cup RangeOf(spill)
    BY <1>0, <1>2, <1>10, WritesFlow
  <2>2. OnWay' \subseteq Sent'
    BY <1>1, <1>3, <1>4, <1>10, <2>1 DEF OnWay
  <2>3. pc'[Writer] = "loop"
    BY <1>0, <1>10 DEF Goto
  <2>4. batch = <<>>
    BY <1>10 DEF FlowInv, LineInOrder, At
  <2>5. /\ Before(RangeOf(wire'), RangeOf(sendQueue)) /\ Before(RangeOf(wire'), {})
        /\ Before({}, RangeOf(sendQueue)) /\ Before({}, {})
    BY <1>2, <2>1 DEF Before
  <2>6. /\ Before(RangeOf(wire'), RangeOf(batch) \cup RangeOf(spill') \cup RangeOf(sendQueue))
        /\ Before(RangeOf(batch), RangeOf(spill') \cup RangeOf(sendQueue))
        /\ Before(RangeOf(spill'), RangeOf(sendQueue))
    BY <1>4, <1>10, <2>4, <2>5, BeforeFacts
  <2>7. Len(spill') <= 1
    BY <1>10
  <2>8. LineInOrder'
    BY <1>1, <1>2, <1>10, <2>1, <2>3, <2>6, <2>7 DEF LineInOrder
  <2> QED
    BY <2>2, <2>8 DEF FlowInv
<1> QED
  BY <1>6, <1>7, <1>8, <1>9, <1>10 DEF WriterFlush, WriterDirect, AfterFlush

LEMMA FlowStep ==
    ASSUME TypeInv, NoTokenHandlers, FlowInv, [Next]_vars
    PROVE  FlowInv'
<1>1. CASE LineRests
  <2>1. /\ UNCHANGED <<wire, batch, spill, sendQueue, sent>>
        /\ pc'[Writer] = "loop" => pc[Writer] = "loop"
        /\ pc'[Writer] = "direct" => pc[Writer] = "direct"
        /\ Writing' => Writing
    BY <1>1 DEF LineRests, Writing
  <2>2. LineInOrder'
    BY <2>1 DEF FlowInv, LineInOrder
  <2>3. OnWay' = OnWay /\ Sent' = Sent
    BY <2>1 DEF OnWay, Sent
  <2> QED
    BY <2>2, <2>3 DEF FlowInv
<1> QED
  BY <1>1, LineMoves, NoTokenNoResend, EnqueueFlow, TakeFlow, WriteFlow

(* As long as no client sends a second token, the messages of one sender    *)
(* are written in the order it sent them and never twice, across batches,   *)
(* overflowing messages and failed writes (conn.go:301-379).                *)
THEOREM WireInSendOrderAlways == "token" \notin Jobs => (Spec => []WireInSendOrder)
<1> SUFFICES ASSUME "token" \notin Jobs PROVE Spec => []WireInSendOrder
  OBVIOUS
<1> DEFINE WireInv == TypeInv /\ NoTokenHandlers /\ FlowInv
<1>1. Init => WireInv
  <2> SUFFICES ASSUME Init PROVE WireInv
    OBVIOUS
  <2>1. TypeInv /\ NoTokenHandlers
    <3>1. SendsBounded /\ NoTokenHandlers
      BY ProcsAssumption DEF Init, SendsBounded, NoTokenHandlers, TokenLabels, Procs
    <3> QED
      BY <3>1, InitTypeOK DEF TypeInv
  <2>2. wire = <<>> /\ batch = <<>> /\ spill = <<>> /\ sendQueue = <<>>
    BY DEF Init
  <2>3. RangeOf(<<>>) = {} /\ Len(<<>>) = 0
    BY DEF RangeOf
  <2>4. Ordered(<<>>)
    BY <2>3 DEF Ordered
  <2>5. FlowInv
    BY <2>2, <2>3, <2>4, BeforeFacts DEF FlowInv, LineInOrder, OnWay
  <2> QED
    BY <2>1, <2>5
<1>2. WireInv /\ [Next]_vars => WireInv'
  BY NextTypeInv, NoTokenHandlersStep, FlowStep
<1>3. WireInv => WireInSendOrder
  BY DEF FlowInv, LineInOrder, Ordered, WireInSendOrder
<1> QED
  BY <1>1, <1>2, <1>3, PTL DEF Spec

-------------------------------------------------------------------------------
(* What the client counts.                                                  *)

(* The messages that AsyncSend has counted. *)
Counted ==
    {m \in Msg :
        \/ m[2] <= sent[m[1]]
        \/ m[2] = sent[m[1]] + 1 /\ pc[m[1]] = "enqueue"}

CountedExact == IsFiniteSet(Counted) /\ Cardinality(Counted) = win.hasBeenSentNum

(* No client message counts more than that. *)
AcksAreCounted ==
    /\ clientHas <= win.hasBeenSentNum
    /\ \A i \in 1 .. Len(inbox) : inbox[i].ack <= win.hasBeenSentNum
    /\ \A w \in Workers : req[w].ack <= win.hasBeenSentNum

(* One sender's step adds at most its next message to those counted.        *)
LEMMA CountedStep ==
    ASSUME TypeInv, CountedExact, [Next]_vars
    PROVE  CountedExact' /\ win'.hasBeenSentNum >= win.hasBeenSentNum
<1>0. /\ win \in WindowOver(Msg) /\ win.hasBeenSentNum \in Nat
      /\ sent \in [Senders -> 0 .. MaxSends]
      /\ \A q \in Senders : sent[q] \in Nat
      /\ \A m \in Msg : m[1] \in Senders /\ m[2] \in Nat /\ m = <<m[1], m[2]>>
  BY BoundsAssumption DEF TypeInv, TypeOK, SendTypeOK, WindowOver, Msg
<1>1. ASSUME NEW s \in Senders, AsyncSendPush(s)
      PROVE  CountedExact' /\ win'.hasBeenSentNum >= win.hasBeenSentNum
  <2>1. pc[s] = "push" /\ Goto(s, "count") /\ sent' = sent
    BY <1>1 DEF AsyncSendPush, At
  <2>2. Counted' = Counted
    BY <1>0, <2>1, OneSenderMoves DEF Counted
  <2>3. win'.hasBeenSentNum = win.hasBeenSentNum
    BY <1>1, <1>0 DEF AsyncSendPush, PushToPendingMessages, WindowOver
  <2> QED
    BY <1>0, <2>2, <2>3 DEF CountedExact
<1>2. ASSUME NEW s \in Senders, AsyncSendCount(s)
      PROVE  CountedExact' /\ win'.hasBeenSentNum >= win.hasBeenSentNum
  <2>1. pc[s] = "count" /\ Goto(s, "enqueue") /\ sent' = sent
    BY <1>2 DEF AsyncSendCount, At
  <2>2. NextMsg(s) \in Msg /\ NextMsg(s)[1] = s /\ NextMsg(s)[2] = sent[s] + 1
    <3>1. sent[s] < MaxSends
      BY <2>1 DEF TypeInv, SendsBounded
    <3> QED
      BY <3>1, <1>0, BoundsAssumption DEF NextMsg, Msg
  <2>3. pc'[s] = "enqueue" /\ \A q \in Senders : q # s => pc'[q] = pc[q]
    BY <2>1, OneSenderMoves
  <2>4. NextMsg(s) \notin Counted
    BY <1>0, <2>1, <2>2 DEF Counted
  <2>5. ASSUME NEW m \in Msg
        PROVE  m \in Counted' <=> m \in Counted \/ m = NextMsg(s)
    <3>1. CASE m[1] = s
      <4>1. m = NextMsg(s) <=> m[2] = sent[s] + 1
        BY <3>1, <1>0 DEF NextMsg
      <4> QED
        <5>1. m \in Counted <=> m[2] <= sent[s]
          BY <3>1, <2>1 DEF Counted
        <5>2. m \in Counted' <=> m[2] <= sent[s] \/ m[2] = sent[s] + 1
          BY <3>1, <2>1, <2>3 DEF Counted
        <5> QED
          BY <4>1, <5>1, <5>2
    <3>2. CASE m[1] # s
      <4>1. m # NextMsg(s)
        BY <3>2, <2>2
      <4>2. pc'[m[1]] = pc[m[1]]
        BY <3>2, <1>0, <2>3
      <4> QED
        BY <4>1, <4>2, <2>1 DEF Counted
    <3> QED
      BY <3>1, <3>2
  <2>6. Counted' = Counted \cup {NextMsg(s)}
    <3>1. Counted \subseteq Msg /\ Counted' \subseteq Msg
      BY DEF Counted, Msg
    <3> QED
      BY <3>1, <2>2, <2>5
  <2>7. IsFiniteSet(Counted') /\ Cardinality(Counted') = Cardinality(Counted) + 1
    BY <2>4, <2>6, FS_AddElement DEF CountedExact
  <2>8. win'.hasBeenSentNum = win.hasBeenSentNum + 1
    BY <1>2, <1>0 DEF AsyncSendCount, IncHasBeenSendCount, WindowOver
  <2> QED
    BY <1>0, <2>7, <2>8 DEF CountedExact
<1>3. ASSUME NEW s \in Senders, AsyncSendEnqueue(s)
      PROVE  CountedExact' /\ win'.hasBeenSentNum >= win.hasBeenSentNum
  <2>1. pc[s] = "enqueue" /\ Goto(s, "idle") /\ sent' = [sent EXCEPT ![s] = @ + 1] /\ win' = win
    BY <1>3 DEF AsyncSendEnqueue, At
  <2>2. /\ pc'[s] = "idle" /\ sent'[s] = sent[s] + 1
        /\ \A q \in Senders : q # s => pc'[q] = pc[q] /\ sent'[q] = sent[q]
    BY <1>0, <2>1, OneSenderMoves
  <2>3. ASSUME NEW m \in Msg
        PROVE  m \in Counted' <=> m \in Counted
    <3>1. CASE m[1] = s
      <4> DEFINE n == m[2]
                 k == sent[s]
      <4>1. n \in Nat /\ k \in Nat
        BY <1>0
      <4>2. m \in Counted <=> n <= k \/ n = k + 1
        BY <3>1, <2>1 DEF Counted
      <4>3. m \in Counted' <=> n <= k + 1
        BY <3>1, <2>2 DEF Counted
      <4> HIDE DEF n, k
      <4> QED
        BY <4>1, <4>2, <4>3
    <3>2. CASE m[1] # s
      <4>1. pc'[m[1]] = pc[m[1]] /\ sent'[m[1]] = sent[m[1]]
        BY <3>2, <1>0, <2>2
      <4> QED
        BY <4>1 DEF Counted
    <3> QED
      BY <3>1, <3>2
  <2>4. Counted' = Counted
    <3>1. Counted \subseteq Msg /\ Counted' \subseteq Msg
      BY DEF Counted, Msg
    <3> QED
      BY <3>1, <2>3
  <2> QED
    BY <1>0, <2>1, <2>4 DEF CountedExact
<1>4. CASE SendersRest
  <2>1. \A m \in Msg : (pc'[m[1]] = "enqueue" <=> pc[m[1]] = "enqueue")
    BY <1>0, <1>4 DEF SendersRest
  <2>2. Counted' = Counted
    BY <1>4, <2>1 DEF SendersRest, Counted
  <2> QED
    BY <1>0, <1>4, <2>2 DEF SendersRest, CountedExact
<1> QED
  BY <1>1, <1>2, <1>3, <1>4, SendersMove

(* Client messages come in and are handed to workers. *)
LEMMA JobsMove ==
    ASSUME [Next]_vars
    PROVE  \/ UNCHANGED <<clientHas, inbox, req>>
           \/ ReaderDeliver \/ \E w \in Workers : WorkerTake(w)
<1>1. ASSUME NEW s \in Senders, SenderNext(s)
      PROVE  UNCHANGED <<clientHas, inbox, req>>
  BY <1>1 DEF SenderNext, AsyncSendCheck, AsyncSendPush, AsyncSendCount, AsyncSendEnqueue, jobVars
<1>2. ASSUME NEW p \in Procs \ Senders, Close(p)
      PROVE  UNCHANGED <<clientHas, inbox, req>>
  BY <1>2 DEF Close, CloseCas, CloseCancel, CloseShut, jobVars
<1>3. ASSUME NEW w \in Workers, Handler(w) \/ SyncWrite(w)
      PROVE  UNCHANGED <<clientHas, inbox, req>> \/ WorkerTake(w)
  BY <1>3 DEF Handler, LogicInc, LogicUpdate, TokenVerify, TokenAdopt, TokenAssign, WindowStep,
     ResendSnapshot, ResendOne, ResendEnd, SyncLock, SyncWrite, jobVars
<1>4. ASSUME WriterNext
      PROVE  UNCHANGED <<clientHas, inbox, req>>
  BY <1>4 DEF WriterNext, WriterTake, WriterTimer, WriterWrite, WriterFlush,
     WriterDirect, WriterPanic, WriterStop, Panic, jobVars
<1>5. ASSUME ReaderNext
      PROVE  UNCHANGED <<clientHas, inbox, req>> \/ ReaderDeliver
  BY <1>5 DEF ReaderNext, ReaderCheck, ReaderDeadline, ReaderRetry, ReaderFail, ReaderPanic,
     Panic, jobVars
<1>6. ASSUME ParentCancel \/ UNCHANGED vars
      PROVE  UNCHANGED <<clientHas, inbox, req>>
  BY <1>6 DEF ParentCancel, vars, jobVars
<1> QED
  BY <1>1, <1>2, <1>3, <1>4, <1>5, <1>6 DEF Next

LEMMA AcksStep ==
    ASSUME TypeInv, FlowInv, CountedExact, AcksAreCounted, [Next]_vars
    PROVE  AcksAreCounted'
<1>0. /\ win.hasBeenSentNum \in Nat /\ win'.hasBeenSentNum \in Nat
      /\ inbox \in Seq(Job) /\ clientHas \in Nat /\ wire \in Seq(Msg)
      /\ req \in [Workers -> Job \cup {NoJob}]
      /\ \A w \in Workers : req[w].ack \in Nat
      /\ \A i \in 1 .. Len(inbox) : inbox[i].ack \in Nat
  <2>1. win \in WindowOver(Msg) /\ win' \in WindowOver(Msg)
    BY NextTypeInv DEF TypeInv, TypeOK, SendTypeOK
  <2>2. /\ inbox \in Seq(Job) /\ clientHas \in Nat /\ wire \in Seq(Msg)
        /\ req \in [Workers -> Job \cup {NoJob}]
    BY DEF TypeInv, TypeOK, JobTypeOK, LoopTypeOK
  <2>3. \A j \in Job \cup {NoJob} : j.ack \in Nat
    BY DEF Job, NoJob
  <2>4. \A i \in 1 .. Len(inbox) : inbox[i] \in Job
    BY <2>2
  <2> QED
    BY <2>1, <2>2, <2>3, <2>4 DEF WindowOver
<1>1. win'.hasBeenSentNum >= win.hasBeenSentNum
  BY CountedStep
<1>2. CASE UNCHANGED <<clientHas, inbox, req>>
  BY <1>0, <1>1, <1>2 DEF AcksAreCounted
<1>3. CASE ReaderDeliver
  <2>1. PICK kind \in Jobs, ack \in clientHas .. Len(wire) :
          /\ ack <= Cardinality(RangeOf(wire))
          /\ inbox' = Append(inbox, [kind |-> kind, ack |-> ack])
          /\ clientHas' = ack
    BY <1>3 DEF ReaderDeliver
  <2>2. req' = req /\ win' = win
    BY <1>3 DEF ReaderDeliver, sendVars
  <2>3. RangeOf(wire) \subseteq Counted
    <3>1. RangeOf(wire) \subseteq Sent
      BY DEF FlowInv, OnWay
    <3>2. Sent \subseteq Counted
      BY DEF Sent, Counted
    <3> QED
      BY <3>1, <3>2
  <2>4. /\ Cardinality(RangeOf(wire)) <= win.hasBeenSentNum
        /\ Cardinality(RangeOf(wire)) \in Nat
    BY <2>3, FS_Subset, FS_CardinalityType DEF CountedExact
  <2>5. ack \in Nat /\ ack <= win.hasBeenSentNum
    BY <1>0, <2>1, <2>4
  <2> DEFINE j == [kind |-> kind, ack |-> ack]
  <2>6. j \in Job /\ j.ack = ack
    BY <2>5 DEF Job
  <2> HIDE DEF j
  <2>7. /\ Len(inbox') = Len(inbox) + 1 /\ inbox'[Len(inbox) + 1] = j
        /\ \A i \in 1 .. Len(inbox) : inbox'[i] = inbox[i]
    <3>1. inbox' = Append(inbox, j)
      BY <2>1 DEF j
    <3> QED
      BY <3>1, <2>6, <1>0, AppendProperties
  <2>8. \A i \in 1 .. Len(inbox') : inbox'[i].ack <= win.hasBeenSentNum
    <3> TAKE i \in 1 .. Len(inbox')
    <3>1. CASE i = Len(inbox) + 1
      BY <3>1, <2>5, <2>6, <2>7
    <3>2. CASE i \in 1 .. Len(inbox)
      BY <3>2, <2>7 DEF AcksAreCounted
    <3> QED
      BY <3>1, <3>2, <2>7, <1>0
  <2> QED
    BY <2>1, <2>2, <2>5, <2>8 DEF AcksAreCounted
<1>4. ASSUME NEW w \in Workers, WorkerTake(w)
      PROVE  AcksAreCounted'
  <2>1. /\ inbox # <<>> /\ req' = [req EXCEPT ![w] = Head(inbox)] /\ inbox' = Tail(inbox)
        /\ clientHas' = clientHas /\ win' = win
    BY <1>4 DEF WorkerTake, sendVars
  <2>2. /\ Len(inbox) \in Nat \ {0} /\ Len(inbox') = Len(inbox) - 1 /\ Head(inbox) = inbox[1]
        /\ \A i \in 1 .. Len(inbox') : inbox'[i] = inbox[i + 1] /\ i + 1 \in 1 .. Len(inbox)
    BY <1>0, <2>1
  <2>3. \A i \in 1 .. Len(inbox') : inbox'[i].ack <= win.hasBeenSentNum
    BY <2>2 DEF AcksAreCounted
  <2>4. Head(inbox).ack <= win.hasBeenSentNum
    BY <2>2 DEF AcksAreCounted
  <2>5. \A v \in Workers : req'[v].ack <= win.hasBeenSentNum
    <3> TAKE v \in Workers
    <3>1. req'[v] = IF v = w THEN Head(inbox) ELSE req[v]
      BY <1>0, <2>1
    <3> QED
      BY <3>1, <2>4 DEF AcksAreCounted
  <2> QED
    BY <2>1, <2>3, <2>5 DEF AcksAreCounted
<1> QED
  BY <1>2, <1>3, <1>4, JobsMove

(* As long as no client sends a second token, the count of what was sent is *)
(* exact but for pushes under way and an honest ack that is new is never    *)
(* refused (conn.go:145-146, 252-255).                                      *)
THEOREM HonestAckIsTakenAlways == "token" \notin Jobs => (Spec => []HonestAckIsTaken)
<1> SUFFICES ASSUME "token" \notin Jobs PROVE Spec => []HonestAckIsTaken
  OBVIOUS
<1> DEFINE AckInv == /\ TypeInv /\ NoTokenHandlers /\ WindowExact /\ SentCountExact
                     /\ FlowInv /\ CountedExact /\ AcksAreCounted
<1>1. Init => AckInv
  <2> SUFFICES ASSUME Init PROVE AckInv
    OBVIOUS
  <2>1. TypeInv /\ NoTokenHandlers
    <3>1. SendsBounded /\ NoTokenHandlers
      BY ProcsAssumption DEF Init, SendsBounded, NoTokenHandlers, TokenLabels, Procs
    <3> QED
      BY <3>1, InitTypeOK DEF TypeInv
  <2>2. WindowExact
    BY DEF Init, NewWindow, WindowExact, PendingIsNewest, Cutoff
  <2>3. \A s \in Senders : pc[s] = "idle" /\ sent[s] = 0
    BY ProcsAssumption DEF Init, Procs
  <2>4. win.hasBeenSentNum = 0 /\ Len(pushed) = 0
    BY DEF Init, NewWindow
  <2>5. SentCountExact
    <3>1. Counting = {}
      BY <2>3 DEF Counting
    <3> QED
      BY <3>1, <2>4, FS_EmptySet DEF SentCountExact
  <2>6. CountedExact
    <3>1. Counted = {}
      BY <2>3 DEF Counted, Msg
    <3> QED
      BY <3>1, <2>4, FS_EmptySet DEF CountedExact
  <2>7. AcksAreCounted
    BY <2>4 DEF Init, AcksAreCounted, NoJob
  <2>8. FlowInv
    <3>1. wire = <<>> /\ batch = <<>> /\ spill = <<>> /\ sendQueue = <<>>
      BY DEF Init
    <3>2. Ordered(<<>>) /\ Len(<<>>) = 0
      BY DEF Ordered
    <3> QED
      BY <3>1, <3>2, RangeOfOne, BeforeFacts DEF FlowInv, LineInOrder, OnWay
  <2> QED
    BY <2>1, <2>2, <2>5, <2>6, <2>7, <2>8
<1>2. AckInv /\ [Next]_vars => AckInv'
  BY NextTypeInv, NoTokenHandlersStep, WindowExactStep, SentCountStep, FlowStep,
     CountedStep, AcksStep
<1>3. AckInv => HonestAckIsTaken
  <2> SUFFICES ASSUME AckInv, NEW w \in Workers, req[w].ack > win.serverAck
               PROVE  IsNewAck(win, req[w].ack)
    BY DEF HonestAckIsTaken
  <2>1. /\ win.hasBeenSentNum \in Nat /\ win.serverAck \in Nat
        /\ Len(win.pendingMessages) \in Nat /\ Len(pushed) \in Nat /\ req[w].ack \in Nat
    BY DEF TypeInv, TypeOK, SendTypeOK, WindowOver, JobTypeOK, Job, NoJob
  <2>2. Cardinality(Counting) \in Nat
    BY ProcsAssumption, FS_Subset, FS_CardinalityType DEF Counting
  <2>3. /\ req[w].ack <= win.hasBeenSentNum
        /\ win.hasBeenSentNum <= Len(pushed)
        /\ win.serverAck = Len(pushed) - Len(win.pendingMessages)
    BY <2>1, <2>2 DEF AcksAreCounted, SentCountExact, WindowExact, Cutoff
  <2> QED
    BY <2>1, <2>3 DEF IsNewAck
<1> QED
  BY <1>1, <1>2, <1>3, PTL DEF Spec

-------------------------------------------------------------------------------
(* What is trimmed was received.                                            *)

(* The queue t holds what p has from position k + 1 on.                     *)
Lies(t, k, p) == \A i \in 1 .. Len(t) : t[i] = p[k + i]

(* Written, batched, in hand and queued make up the first n of p, in order. *)
InLine(w, b, h, q, p, n) ==
    /\ Lies(w, 0, p) /\ Lies(b, Len(w), p) /\ Lies(h, Len(w) + Len(b), p)
    /\ Lies(q, (Len(w) + Len(b)) + Len(h), p)
    /\ ((Len(w) + Len(b)) + Len(h)) + Len(q) = n

(* A sender between its push and its enqueue, and what has been enqueued.   *)
Underway == \E s \in Senders : pc[s] \in {"count", "enqueue"}
Enqueued == IF Underway THEN Len(pushed) - 1 ELSE Len(pushed)

(* The message of a sender under way is the last one pushed.                *)
LastIsUnderway ==
    \A s \in Senders : pc[s] \in {"count", "enqueue"} =>
        Len(pushed) >= 1 /\ pushed[Len(pushed)] = NextMsg(s)

(* What was pushed goes to the socket in that order and without a gap.      *)
StreamInPlace ==
    /\ Lies(wire, 0, pushed) /\ Len(wire) <= Len(pushed)
    /\ Writing => InLine(wire, batch, spill, sendQueue, pushed, Enqueued)

(* The client has counted no more than was written, *)
AcksAreWritten ==
    /\ clientHas <= Len(wire) /\ win.serverAck <= Len(wire)
    /\ \A i \in 1 .. Len(inbox) : inbox[i].ack <= Len(wire)
    /\ \A w \in Workers : req[w].ack <= Len(wire)

(* and AsyncSend finds room in the queue. *)
QueueHasRoom == \A s \in Senders : pc[s] = "enqueue" => HasRoom

OneSender == \A s, t \in Senders : s = t

LEMMA LiesAppend ==
    ASSUME NEW t \in Seq(Msg), NEW p \in Seq(Msg), NEW k \in Nat, Lies(t, k, p),
           NEW x \in Msg, x = p[(k + Len(t)) + 1]
    PROVE  Lies(Append(t, x), k, p) /\ Len(Append(t, x)) = Len(t) + 1
<1>1. /\ Len(Append(t, x)) = Len(t) + 1 /\ Append(t, x)[Len(t) + 1] = x
      /\ \A i \in 1 .. Len(t) : Append(t, x)[i] = t[i]
  BY AppendProperties
<1>2. Len(t) \in Nat /\ (k + Len(t)) + 1 = k + (Len(t) + 1)
  OBVIOUS
<1> DEFINE a == Append(t, x)
<1>3. ASSUME NEW i \in 1 .. Len(t) + 1
      PROVE  a[i] = p[k + i]
  <2>1. CASE i = Len(t) + 1
    BY <1>1, <1>2, <2>1
  <2>2. CASE i \in 1 .. Len(t)
    BY <1>1, <2>2 DEF Lies
  <2> HIDE DEF a
  <2> QED
    BY <1>2, <2>1, <2>2
<1> QED
  BY <1>1, <1>3 DEF Lies

LEMMA LiesConcat ==
    ASSUME NEW t \in Seq(Msg), NEW u \in Seq(Msg), NEW p \in Seq(Msg), NEW k \in Nat,
           Lies(t, k, p), Lies(u, k + Len(t), p)
    PROVE  Lies(t \o u, k, p) /\ Len(t \o u) = Len(t) + Len(u)
<1> DEFINE a == t \o u
<1>1. /\ Len(a) = Len(t) + Len(u) /\ Len(t) \in Nat /\ Len(u) \in Nat
      /\ \A i \in 1 .. Len(t) + Len(u) : a[i] = IF i <= Len(t) THEN t[i] ELSE u[i - Len(t)]
  BY ConcatProperties
<1> HIDE DEF a
<1>2. ASSUME NEW i \in 1 .. Len(a)
      PROVE  a[i] = p[k + i]
  <2>1. CASE i <= Len(t)
    <3>1. i \in 1 .. Len(t)
      BY <1>1, <2>1
    <3> QED
      BY <1>1, <2>1, <3>1 DEF Lies
  <2>2. CASE i > Len(t)
    <3> DEFINE j == i - Len(t)
    <3>1. j \in 1 .. Len(u) /\ (k + Len(t)) + j = k + i /\ ~(i <= Len(t))
      BY <1>1, <2>2
    <3>2. u[j] = p[(k + Len(t)) + j]
      BY <3>1 DEF Lies
    <3> QED
      BY <1>1, <3>1, <3>2
  <2> QED
    BY <1>1, <2>1, <2>2
<1> QED
  BY <1>1, <1>2 DEF Lies, a

LEMMA LiesPrefix ==
    ASSUME NEW t \in Seq(Msg), NEW p \in Seq(Msg), NEW k \in Nat, Lies(t, k, p),
           NEW n \in 0 .. Len(t)
    PROVE  Lies(SubSeq(t, 1, n), k, p) /\ Len(SubSeq(t, 1, n)) = n
           /\ SubSeq(t, 1, n) \in Seq(Msg)
<1> DEFINE a == SubSeq(t, 1, n)
<1>1. a \in Seq(Msg) /\ Len(a) = n /\ \A i \in 1 .. n : a[i] = t[i] /\ i \in 1 .. Len(t)
  OBVIOUS
<1> HIDE DEF a
<1>2. Lies(a, k, p)
  BY <1>1 DEF Lies
<1> QED
  BY <1>1, <1>2 DEF a

LEMMA LiesTail ==
    ASSUME NEW t \in Seq(Msg), t # <<>>, NEW p \in Seq(Msg), NEW k \in Nat, Lies(t, k, p)
    PROVE  /\ Head(t) = p[k + 1] /\ Lies(Tail(t), k + 1, p)
           /\ Len(Tail(t)) = Len(t) - 1 /\ Len(t) \in Nat \ {0}
<1> DEFINE a == Tail(t)
<1>1. /\ Len(t) \in Nat \ {0} /\ Len(a) = Len(t) - 1 /\ Head(t) = t[1]
      /\ \A i \in 1 .. Len(a) : a[i] = t[i + 1] /\ i + 1 \in 1 .. Len(t)
  OBVIOUS
<1> HIDE DEF a
<1>2. Head(t) = p[k + 1]
  BY <1>1 DEF Lies
<1>3. ASSUME NEW i \in 1 .. Len(a)
      PROVE  a[i] = p[(k + 1) + i]
  <2>1. a[i] = t[i + 1] /\ i + 1 \in 1 .. Len(t) /\ k + (i + 1) = (k + 1) + i
    BY <1>1
  <2> QED
    BY <2>1 DEF Lies
<1> QED
  BY <1>1, <1>2, <1>3 DEF Lies, a

LEMMA LiesLonger ==
    ASSUME NEW t \in Seq(Msg), NEW p \in Seq(Msg), NEW k \in Nat, NEW x \in Msg,
           Lies(t, k, p), k + Len(t) <= Len(p)
    PROVE  Lies(t, k, Append(p, x))
<1> DEFINE a == Append(p, x)
<1>1. \A i \in 1 .. Len(p) : a[i] = p[i]
  BY AppendProperties
<1>2. Len(t) \in Nat /\ Len(p) \in Nat
  OBVIOUS
<1> HIDE DEF a
<1>3. \A i \in 1 .. Len(t) : k + i \in 1 .. Len(p)
  BY <1>2
<1>4. Lies(t, k, a)
  BY <1>1, <1>3 DEF Lies
<1> QED
  BY <1>4 DEF a

(* Who changes the ack of the window. *)
LEMMA AckComes ==
    ASSUME TypeInv, NoTokenHandlers, [Next]_vars
    PROVE  \/ win'.serverAck = win.serverAck
           \/ \E w \in Workers : win' = UpdateServerAck(win, req[w].ack)
<1>v. win \in WindowOver(Msg)
  BY DEF TypeInv, TypeOK, SendTypeOK
<1>1. ASSUME NEW s \in Senders, SenderNext(s)
      PROVE  win'.serverAck = win.serverAck
  <2>1. CASE AsyncSendPush(s)
    BY <1>v, <2>1 DEF AsyncSendPush, PushToPendingMessages, WindowOver
  <2>2. CASE AsyncSendCount(s)
    BY <1>v, <2>2 DEF AsyncSendCount, IncHasBeenSendCount, WindowOver
  <2>3. CASE AsyncSendCheck(s) \/ AsyncSendEnqueue(s)
    BY <2>3 DEF AsyncSendCheck, AsyncSendEnqueue, sendVars
  <2> QED
    BY <1>1, <2>1, <2>2, <2>3 DEF SenderNext
<1>2. ASSUME NEW p \in Procs \ Senders, Close(p)
      PROVE  win' = win
  BY <1>2 DEF Close, CloseCas, CloseCancel, CloseShut, sendVars
<1>3. ASSUME NEW w \in Workers, Handler(w) \/ SyncWrite(w)
      PROVE  win'.serverAck = win.serverAck \/ win' = UpdateServerAck(win, req[w].ack)
  <2>0. pc[w] \notin TokenLabels
    BY DEF NoTokenHandlers
  <2>1. CASE LogicInc(w)
    BY <1>v, <2>1 DEF LogicInc, WindowStep, IncClientAck, WindowOver
  <2>2. CASE LogicUpdate(w)
    BY <2>2 DEF LogicUpdate, WindowStep
  <2>3. CASE WorkerTake(w) \/ SyncLock(w) \/ SyncWrite(w)
    BY <2>3 DEF WorkerTake, SyncLock, SyncWrite, sendVars
  <2>4. CASE \/ TokenVerify(w) \/ TokenAdopt(w) \/ TokenAssign(w)
             \/ ResendSnapshot(w) \/ ResendOne(w) \/ ResendEnd(w)
    BY <2>4, <2>0 DEF TokenVerify, TokenAdopt, TokenAssign, WindowStep, ResendSnapshot,
       ResendOne, ResendEnd, At, TokenLabels
  <2> QED
    BY <1>3, <2>1, <2>2, <2>3, <2>4 DEF Handler
<1>4. CASE WriterNext
  BY <1>4 DEF WriterNext, WriterTake, WriterTimer, WriterWrite, WriterFlush,
     WriterDirect, WriterPanic, WriterStop, Panic, sendVars
<1>5. CASE ReaderNext
  BY <1>5 DEF ReaderNext, ReaderCheck, ReaderDeadline, ReaderDeliver, ReaderRetry, ReaderFail,
     ReaderPanic, Panic, sendVars
<1>6. CASE ParentCancel \/ UNCHANGED vars
  BY <1>6 DEF ParentCancel, vars, sendVars
<1> QED
  BY <1>1, <1>2, <1>3, <1>4, <1>5, <1>6 DEF Next


(* InLine, as each step needs it: a longer history, *)
LEMMA LineLonger ==
    ASSUME NEW w \in Seq(Msg), NEW b \in Seq(Msg), NEW h \in Seq(Msg), NEW q \in Seq(Msg),
           NEW p \in Seq(Msg), NEW n \in Nat, InLine(w, b, h, q, p, n), n <= Len(p), NEW x \in Msg
    PROVE  InLine(w, b, h, q, Append(p, x), n)
<1> DEFINE lw == Len(w)
           lb == Len(b)
           lh == Len(h)
           lq == Len(q)
<1>1. lw \in Nat /\ lb \in Nat /\ lh \in Nat /\ lq \in Nat /\ Len(p) \in Nat
  OBVIOUS
<1>2. /\ Lies(w, 0, p) /\ Lies(b, lw, p) /\ Lies(h, lw + lb, p) /\ Lies(q, (lw + lb) + lh, p)
      /\ ((lw + lb) + lh) + lq = n
  BY DEF InLine
<1> HIDE DEF lw, lb, lh, lq
<1>3. /\ 0 + lw <= Len(p) /\ lw + lb <= Len(p) /\ (lw + lb) + lh <= Len(p)
      /\ ((lw + lb) + lh) + lq <= Len(p)
      /\ lw + lb \in Nat /\ (lw + lb) + lh \in Nat
  BY <1>1, <1>2
<1>4. Lies(w, 0, Append(p, x))
  BY <1>2, <1>3, LiesLonger DEF lw
<1>5. Lies(b, lw, Append(p, x))
  BY <1>1, <1>2, <1>3, LiesLonger DEF lb
<1>6. Lies(h, lw + lb, Append(p, x))
  BY <1>2, <1>3, LiesLonger DEF lh
<1>7. Lies(q, (lw + lb) + lh, Append(p, x))
  BY <1>2, <1>3, LiesLonger DEF lq
<1> QED
  BY <1>2, <1>4, <1>5, <1>6, <1>7 DEF InLine, lw, lb, lh, lq

(* one more in the queue, *)
LEMMA LineEnqueue ==
    ASSUME NEW w \in Seq(Msg), NEW b \in Seq(Msg), NEW h \in Seq(Msg), NEW q \in Seq(Msg),
           NEW p \in Seq(Msg), NEW n \in Nat, InLine(w, b, h, q, p, n),
           NEW x \in Msg, x = p[n + 1]
    PROVE  InLine(w, b, h, Append(q, x), p, n + 1)
<1> DEFINE k == (Len(w) + Len(b)) + Len(h)
<1>1. k \in Nat /\ Len(q) \in Nat /\ k + Len(q) = n /\ Lies(q, k, p)
  BY DEF InLine
<1> HIDE DEF k
<1>2. Lies(Append(q, x), k, p) /\ Len(Append(q, x)) = Len(q) + 1
  BY <1>1, LiesAppend
<1>3. k + Len(Append(q, x)) = n + 1
  BY <1>1, <1>2
<1> QED
  BY <1>2, <1>3 DEF InLine, k

(* the write loop taking one into its batch, or into its hand, *)
LEMMA LineTake ==
    ASSUME NEW w \in Seq(Msg), NEW b \in Seq(Msg), NEW q \in Seq(Msg), q # <<>>,
           NEW p \in Seq(Msg), NEW n \in Nat, InLine(w, b, <<>>, q, p, n)
    PROVE  /\ InLine(w, Append(b, Head(q)), <<>>, Tail(q), p, n)
           /\ InLine(w, b, <<Head(q)>>, Tail(q), p, n)
<1> DEFINE k == Len(w) + Len(b)
           x == Head(q)
           t == Tail(q)
<1>1. /\ Len(w) \in Nat /\ Len(b) \in Nat /\ k \in Nat /\ Len(<<>>) = 0
      /\ x \in Msg /\ t \in Seq(Msg)
  OBVIOUS
<1>2. Lies(w, 0, p) /\ Lies(b, Len(w), p) /\ Lies(q, k, p) /\ k + Len(q) = n
  BY <1>1 DEF InLine
<1>3. x = p[k + 1] /\ Lies(t, k + 1, p) /\ Len(t) = Len(q) - 1 /\ Len(q) \in Nat \ {0}
  <2> HIDE DEF k
  <2> QED
    BY <1>1, <1>2, LiesTail
<1> HIDE DEF x, t
<1>4. Lies(<<>>, k + 1, p) /\ Lies(Append(b, x), Len(w), p) /\ Len(Append(b, x)) = Len(b) + 1
  <2>1. Lies(<<>>, k + 1, p)
    BY DEF Lies
  <2> QED
    BY <1>1, <1>2, <1>3, <2>1, LiesAppend
<1>5. Lies(<<x>>, k, p) /\ Len(<<x>>) = 1
  BY <1>1, <1>3 DEF Lies
<1>6. /\ Len(w) + (Len(b) + 1) = k + 1 /\ (k + 1) + 0 = k + 1 /\ (k + 1) + Len(t) = n
  <2> DEFINE lw == Len(w)
             lb == Len(b)
             lq == Len(q)
  <2>1. lw \in Nat /\ lb \in Nat /\ lq \in Nat /\ Len(t) = lq - 1 /\ k = lw + lb
    BY <1>1, <1>3
  <2>2. k + lq = n /\ k \in Nat
    BY <1>1, <1>2
  <2> HIDE DEF lw, lb, lq, k
  <2>3. lw + (lb + 1) = k + 1
    BY <2>1
  <2>4. (k + 1) + 0 = k + 1
    BY <2>2
  <2>5. (k + 1) + Len(t) = n
    BY <2>1, <2>2
  <2> QED
    BY <2>3, <2>4, <2>5 DEF lw, lb
<1>7. InLine(w, Append(b, x), <<>>, t, p, n)
  <2> DEFINE a == Append(b, x)
  <2>1. Len(a) = Len(b) + 1 /\ Lies(a, Len(w), p)
    BY <1>4
  <2> HIDE DEF a, k
  <2>2. Len(w) + Len(a) = k + 1
    BY <1>6, <2>1
  <2>3. (k + 1) + Len(<<>>) = k + 1
    BY <1>1, <1>6
  <2>4. InLine(w, a, <<>>, t, p, n)
    BY <1>2, <1>3, <1>4, <1>6, <2>1, <2>2, <2>3 DEF InLine
  <2> QED
    BY <2>4 DEF a
<1>8. InLine(w, b, <<x>>, t, p, n)
  BY <1>2, <1>3, <1>5, <1>6 DEF InLine
<1> QED
  BY <1>7, <1>8 DEF x, t

(* and the loop writing its batch, or what is in its hand. *)
LEMMA LineWrite ==
    ASSUME NEW w \in Seq(Msg), NEW b \in Seq(Msg), NEW h \in Seq(Msg), NEW q \in Seq(Msg),
           NEW p \in Seq(Msg), NEW n \in Nat, InLine(w, b, h, q, p, n)
    PROVE  /\ InLine(w \o b, <<>>, h, q, p, n)
           /\ b = <<>> => InLine(w \o h, <<>>, <<>>, q, p, n)
           /\ \A m \in 0 .. Len(b) :
                 Lies(w \o SubSeq(b, 1, m), 0, p) /\ Len(w \o SubSeq(b, 1, m)) = Len(w) + m
           /\ b = <<>> => \A m \in 0 .. Len(h) :
                 Lies(w \o SubSeq(h, 1, m), 0, p) /\ Len(w \o SubSeq(h, 1, m)) = Len(w) + m
<1>1. /\ Len(w) \in Nat /\ Len(b) \in Nat /\ Len(h) \in Nat /\ Len(q) \in Nat /\ Len(<<>>) = 0
      /\ 0 + Len(w) = Len(w)
      /\ \A k : Lies(<<>>, k, p)
  BY DEF Lies
<1>2. /\ Lies(w, 0, p) /\ Lies(b, Len(w), p) /\ Lies(h, Len(w) + Len(b), p)
      /\ Lies(q, (Len(w) + Len(b)) + Len(h), p)
      /\ ((Len(w) + Len(b)) + Len(h)) + Len(q) = n
  BY DEF InLine
<1>3. InLine(w \o b, <<>>, h, q, p, n)
  <2>1. Lies(w \o b, 0, p) /\ Len(w \o b) = Len(w) + Len(b)
    BY <1>1, <1>2, LiesConcat
  <2>2. Len(w \o b) + Len(<<>>) = Len(w) + Len(b)
    BY <1>1, <2>1
  <2> QED
    BY <1>1, <1>2, <2>1, <2>2 DEF InLine
<1>4. ASSUME b = <<>>
      PROVE  InLine(w \o h, <<>>, <<>>, q, p, n) /\ Lies(h, Len(w), p)
  <2>1. Len(w) + Len(b) = Len(w)
    BY <1>1, <1>4
  <2>2. Lies(h, Len(w), p) /\ Lies(q, Len(w) + Len(h), p) /\ (Len(w) + Len(h)) + Len(q) = n
    BY <1>2, <2>1
  <2>3. Lies(w \o h, 0, p) /\ Len(w \o h) = Len(w) + Len(h)
    BY <1>1, <1>2, <2>2, LiesConcat
  <2>4. (Len(w \o h) + Len(<<>>)) + Len(<<>>) = Len(w) + Len(h)
    BY <1>1, <2>3
  <2> QED
    BY <1>1, <2>2, <2>3, <2>4 DEF InLine
<1>5. ASSUME NEW d \in Seq(Msg), Lies(d, Len(w), p), NEW m \in 0 .. Len(d)
      PROVE  Lies(w \o SubSeq(d, 1, m), 0, p) /\ Len(w \o SubSeq(d, 1, m)) = Len(w) + m
  <2>1. Lies(SubSeq(d, 1, m), Len(w), p) /\ Len(SubSeq(d, 1, m)) = m /\ SubSeq(d, 1, m) \in Seq(Msg)
    BY <1>1, <1>5, LiesPrefix
  <2> HIDE DEF Lies
  <2> DEFINE e == SubSeq(d, 1, m)
  <2>2. e \in Seq(Msg) /\ Lies(e, Len(w), p) /\ Len(e) = m
    BY <2>1
  <2> HIDE DEF e
  <2>3. Lies(w \o e, 0, p) /\ Len(w \o e) = Len(w) + m
    BY <1>1, <1>2, <2>2, LiesConcat
  <2> QED
    BY <2>3 DEF e
<1> QED
  BY <1>2, <1>3, <1>4, <1>5

-------------------------------------------------------------------------------
LEMMA StreamTypes ==
    ASSUME TypeInv
    PROVE  /\ wire \in Seq(Msg) /\ batch \in Seq(Msg) /\ spill \in Seq(Msg)
           /\ sendQueue \in Seq(Msg) /\ pushed \in Seq(Msg) /\ Len(pushed) \in Nat
           /\ sent \in [Senders -> 0 .. MaxSends] /\ pc \in [Procs -> Labels]
           /\ \A s \in Senders : s \in Procs \ {Writer}
           /\ Writer \in Procs
  BY ProcsAssumption DEF TypeInv, TypeOK, LoopTypeOK, SendTypeOK, Procs

(* The sender pushes, *)
LEMMA PushStream ==
    ASSUME TypeInv, StreamInPlace, OneSender, NEW s \in Senders, AsyncSendPush(s)
    PROVE  StreamInPlace' /\ LastIsUnderway'
<1>0. /\ wire \in Seq(Msg) /\ batch \in Seq(Msg) /\ spill \in Seq(Msg)
      /\ sendQueue \in Seq(Msg) /\ pushed \in Seq(Msg) /\ Len(pushed) \in Nat
      /\ s \in Procs \ {Writer} /\ pc \in [Procs -> Labels] /\ Writer \in Procs
  BY StreamTypes
<1>1. /\ pc[s] = "push" /\ pc' = [pc EXCEPT ![s] = "count"]
      /\ pushed' = Append(pushed, NextMsg(s))
      /\ UNCHANGED <<wire, batch, spill, sendQueue, sent>>
  BY DEF AsyncSendPush, At, Goto, loopVars
<1>2. NextMsg(s) \in Msg
  <2>1. sent[s] < MaxSends /\ sent[s] \in 0 .. MaxSends
    BY <1>1, StreamTypes DEF TypeInv, SendsBounded
  <2> QED
    BY <2>1, BoundsAssumption DEF NextMsg, Msg
<1>3. pc'[s] = "count" /\ pc'[Writer] = pc[Writer] /\ \A q \in Senders : q = s
  BY <1>0, <1>1 DEF OneSender
<1>4. /\ Len(pushed') = Len(pushed) + 1 /\ pushed'[Len(pushed) + 1] = NextMsg(s)
  BY <1>0, <1>1, <1>2, AppendProperties
<1>5. NextMsg(s)' = NextMsg(s)
  BY <1>1 DEF NextMsg
<1>6. Enqueued = Len(pushed) /\ Enqueued' = Len(pushed)
  <2>1. ~Underway /\ Underway'
    BY <1>1, <1>3 DEF Underway
  <2> QED
    BY <1>0, <1>4, <2>1 DEF Enqueued
<1>7. LastIsUnderway'
  <2>1. \A q \in Senders : Len(pushed') >= 1 /\ pushed'[Len(pushed')] = NextMsg(q)'
    BY <1>0, <1>3, <1>4, <1>5
  <2> QED
    BY <2>1 DEF LastIsUnderway
<1>8. Lies(wire, 0, pushed') /\ Len(wire) <= Len(pushed')
  <2>1. Lies(wire, 0, pushed) /\ Len(wire) <= Len(pushed) /\ Len(wire) \in Nat /\ 0 \in Nat
    BY <1>0 DEF StreamInPlace
  <2>2. 0 + Len(wire) <= Len(pushed)
    BY <2>1
  <2>3. Lies(wire, 0, pushed')
    BY <1>0, <1>1, <1>2, <2>1, <2>2, LiesLonger
  <2> QED
    BY <1>0, <1>4, <2>1, <2>3
<1>9. ASSUME Writing'
      PROVE  InLine(wire, batch, spill, sendQueue, pushed', Enqueued')
  <2> DEFINE n == Len(pushed)
  <2>1. InLine(wire, batch, spill, sendQueue, pushed, n) /\ n \in Nat /\ n <= Len(pushed)
    BY <1>0, <1>3, <1>6, <1>9 DEF StreamInPlace, Writing
  <2> HIDE DEF n
  <2>2. InLine(wire, batch, spill, sendQueue, Append(pushed, NextMsg(s)), n)
    BY <1>0, <1>2, <2>1, LineLonger
  <2> QED
    BY <1>1, <1>6, <2>2 DEF n
<1> QED
  BY <1>1, <1>7, <1>8, <1>9 DEF StreamInPlace

(* counts, *)
LEMMA CountStream ==
    ASSUME TypeInv, StreamInPlace, LastIsUnderway, OneSender, NEW s \in Senders, AsyncSendCount(s)
    PROVE  StreamInPlace' /\ LastIsUnderway'
<1>0. s \in Procs \ {Writer} /\ pc \in [Procs -> Labels] /\ Writer \in Procs
  BY StreamTypes
<1>1. /\ pc[s] = "count" /\ pc' = [pc EXCEPT ![s] = "enqueue"]
      /\ UNCHANGED <<wire, batch, spill, sendQueue, sent, pushed>>
  BY DEF AsyncSendCount, At, Goto, loopVars
<1>2. pc'[s] = "enqueue" /\ pc'[Writer] = pc[Writer] /\ \A q \in Senders : q = s
  BY <1>0, <1>1 DEF OneSender
<1>3. Enqueued' = Enqueued
  BY <1>1, <1>2 DEF Enqueued, Underway
<1>4. LastIsUnderway'
  <2>1. Len(pushed) >= 1 /\ pushed[Len(pushed)] = NextMsg(s) /\ NextMsg(s)' = NextMsg(s)
    BY <1>1 DEF LastIsUnderway, NextMsg
  <2> QED
    BY <1>1, <1>2, <2>1 DEF LastIsUnderway
<1> QED
  BY <1>1, <1>2, <1>3, <1>4 DEF StreamInPlace, Writing

(* and enqueues, for which there is room. *)
LEMMA EnqueueStream ==
    ASSUME TypeInv, StreamInPlace, LastIsUnderway, OneSender, NEW s \in Senders,
           AsyncSendEnqueue(s), QueueHasRoom
    PROVE  StreamInPlace' /\ LastIsUnderway'
<1>0. /\ wire \in Seq(Msg) /\ batch \in Seq(Msg) /\ spill \in Seq(Msg)
      /\ sendQueue \in Seq(Msg) /\ pushed \in Seq(Msg) /\ Len(pushed) \in Nat
      /\ s \in Procs \ {Writer} /\ pc \in [Procs -> Labels] /\ Writer \in Procs
  BY StreamTypes
<1>1. /\ pc[s] = "enqueue" /\ pc' = [pc EXCEPT ![s] = "idle"]
      /\ sendQueue' = Append(sendQueue, NextMsg(s))
      /\ UNCHANGED <<wire, batch, spill, pushed>>
  BY DEF AsyncSendEnqueue, Enqueue, At, Goto, loopVars, QueueHasRoom
<1>2. pc'[s] = "idle" /\ pc'[Writer] = pc[Writer] /\ \A q \in Senders : q = s
  BY <1>0, <1>1 DEF OneSender
<1>3. Len(pushed) >= 1 /\ pushed[Len(pushed)] = NextMsg(s)
  BY <1>1 DEF LastIsUnderway
<1>4. NextMsg(s) \in Msg
  BY <1>0, <1>3
<1>5. Enqueued = Len(pushed) - 1 /\ Enqueued' = Len(pushed)
  <2>1. Underway /\ ~Underway'
    BY <1>1, <1>2 DEF Underway
  <2> QED
    BY <1>1, <2>1 DEF Enqueued
<1>6. LastIsUnderway'
  BY <1>2 DEF LastIsUnderway
<1>7. ASSUME Writing'
      PROVE  InLine(wire, batch, spill, sendQueue', pushed, Len(pushed))
  <2> DEFINE n == Len(pushed) - 1
  <2>1. n \in Nat /\ n + 1 = Len(pushed)
    BY <1>0, <1>3
  <2>2. InLine(wire, batch, spill, sendQueue, pushed, n)
    BY <1>2, <1>5, <1>7 DEF StreamInPlace, Writing
  <2> HIDE DEF n
  <2>3. NextMsg(s) = pushed[n + 1]
    BY <1>3, <2>1
  <2>4. InLine(wire, batch, spill, Append(sendQueue, NextMsg(s)), pushed, n + 1)
    BY <1>0, <1>4, <2>1, <2>2, <2>3, LineEnqueue
  <2> QED
    BY <1>1, <2>1, <2>4
<1> QED
  BY <1>1, <1>5, <1>6, <1>7 DEF StreamInPlace

(* The senders rest. *)
LEMMA RestingSenders ==
    ASSUME TypeInv, LastIsUnderway, SendersRest
    PROVE  Enqueued' = Enqueued /\ LastIsUnderway' /\ pushed' = pushed
<1>1. \A s \in Senders : pc'[s] \in {"count", "enqueue"} <=> pc[s] \in {"count", "enqueue"}
  BY DEF SendersRest
<1>2. pushed' = pushed /\ \A s \in Senders : NextMsg(s)' = NextMsg(s)
  BY DEF SendersRest, NextMsg
<1>3. Enqueued' = Enqueued
  BY <1>1, <1>2 DEF Enqueued, Underway
<1> QED
  BY <1>1, <1>2, <1>3 DEF LastIsUnderway

LEMMA EnqueuedIsPushed ==
    ASSUME TypeInv, LastIsUnderway
    PROVE  Enqueued \in Nat /\ Enqueued <= Len(pushed)
<1>1. Len(pushed) \in Nat
  BY StreamTypes
<1>2. Underway => Len(pushed) >= 1
  BY DEF Underway, LastIsUnderway
<1> QED
  BY <1>1, <1>2 DEF Enqueued

LEMMA TakeStream ==
    ASSUME TypeInv, StreamInPlace, LastIsUnderway, LineInOrder, Unpackable = {},
           SendersRest, WriterTake
    PROVE  StreamInPlace'
<1>0. /\ wire \in Seq(Msg) /\ batch \in Seq(Msg) /\ spill \in Seq(Msg)
      /\ sendQueue \in Seq(Msg) /\ pushed \in Seq(Msg)
      /\ pc \in [Procs -> Labels] /\ Writer \in Procs
  BY StreamTypes
<1>1. /\ pc[Writer] = "loop" /\ sendQueue # <<>> /\ sendQueue' = Tail(sendQueue) /\ wire' = wire
      /\ \/ batch' = Append(batch, Head(sendQueue)) /\ spill' = spill
         \/ spill' = <<Head(sendQueue)>> /\ batch' = batch
  BY DEF WriterTake, At
<1>2. spill = <<>> /\ Enqueued \in Nat /\ Enqueued' = Enqueued /\ pushed' = pushed
  BY <1>1, RestingSenders, EnqueuedIsPushed DEF LineInOrder
<1>3. InLine(wire, batch, <<>>, sendQueue, pushed, Enqueued)
  BY <1>1, <1>2 DEF StreamInPlace, Writing
<1>4. InLine(wire, batch', spill', sendQueue', pushed, Enqueued)
  BY <1>0, <1>1, <1>2, <1>3, LineTake, ZenonT(30)
<1> QED
  BY <1>1, <1>2, <1>4 DEF StreamInPlace

(* What the write loop's writes make of a row, the one they all start from,  *)
(* whole or, when one fails, of what is on the socket.                       *)
LEMMA WriteRow ==
    ASSUME TypeInv, NEW q \in Seq(Msg), NEW p \in Seq(Msg), NEW n \in Nat, n <= Len(p),
           InLine(wire, batch, spill, q, p, n), pc[Writer] = "direct" => batch = <<>>,
           WriterFlush \/ WriterDirect \/ WriterStop
    PROVE  /\ Lies(wire', 0, p) /\ Len(wire') <= Len(p) /\ Len(wire) <= Len(wire')
           /\ Writing' => InLine(wire', batch', spill', q, p, n)
<1>0. /\ wire \in Seq(Msg) /\ batch \in Seq(Msg) /\ spill \in Seq(Msg) /\ Len(p) \in Nat
      /\ pc \in [Procs -> Labels] /\ Writer \in Procs
      /\ Len(wire) \in Nat /\ Len(batch) \in Nat /\ Len(spill) \in Nat /\ Len(q) \in Nat
  BY StreamTypes
<1>1. ((Len(wire) + Len(batch)) + Len(spill)) + Len(q) = n
  BY DEF InLine
<1>2. /\ InLine(wire \o batch, <<>>, spill, q, p, n)
      /\ batch = <<>> => InLine(wire \o spill, <<>>, <<>>, q, p, n)
      /\ \A m \in 0 .. Len(batch) :
            /\ Lies(wire \o SubSeq(batch, 1, m), 0, p)
            /\ Len(wire \o SubSeq(batch, 1, m)) = Len(wire) + m
      /\ batch = <<>> => \A m \in 0 .. Len(spill) :
            /\ Lies(wire \o SubSeq(spill, 1, m), 0, p)
            /\ Len(wire \o SubSeq(spill, 1, m)) = Len(wire) + m
  BY <1>0, LineWrite
<1>3. ASSUME NEW d, d = batch \/ (d = spill /\ batch = <<>>),
             NEW m \in 0 .. Len(d), wire' = wire \o SubSeq(d, 1, m)
      PROVE  Lies(wire', 0, p) /\ Len(wire') <= Len(p) /\ Len(wire) <= Len(wire')
  <2>1. Lies(wire', 0, p) /\ Len(wire') = Len(wire) + m
    BY <1>2, <1>3
  <2>2. m \in Nat /\ Len(wire) + m <= Len(p) /\ Len(wire) <= Len(wire) + m
    BY <1>0, <1>1, <1>3
  <2> QED
    BY <2>1, <2>2
<1>4. ASSUME NEW d \in Seq(Msg), wire' = wire \o d, d = batch \/ (d = spill /\ batch = <<>>)
      PROVE  Lies(wire', 0, p) /\ Len(wire') <= Len(p) /\ Len(wire) <= Len(wire')
  <2>1. Len(wire') = Len(wire) + Len(d)
    BY <1>0, <1>4, ConcatProperties
  <2>2. Len(wire) + Len(d) <= Len(p) /\ Len(wire) <= Len(wire) + Len(d)
    BY <1>0, <1>1, <1>4
  <2>3. Lies(wire', 0, p)
    BY <1>2, <1>4 DEF InLine
  <2> QED
    BY <2>1, <2>2, <2>3
<1>5. CASE WriterStop \/ (pc'[Writer] = "close" /\ (WriterFlush \/ WriterDirect))
  <2>1. ~Writing'
    BY <1>0, <1>5 DEF WriterStop, Goto, Writing
  <2>2. \/ WriteOk(batch) \/ WriteErr(batch)
        \/ batch = <<>> /\ (WriteOk(spill) \/ WriteErr(spill))
    BY <1>5 DEF WriterStop, WriterFlush, WriterDirect, At
  <2>3. Lies(wire', 0, p) /\ Len(wire') <= Len(p) /\ Len(wire) <= Len(wire')
    <3>1. CASE WriteOk(batch)
      BY <1>0, <1>4, <3>1 DEF WriteOk
    <3>2. CASE WriteErr(batch)
      BY <1>3, <3>2 DEF WriteErr
    <3>3. CASE batch = <<>> /\ WriteOk(spill)
      BY <1>0, <1>4, <3>3 DEF WriteOk
    <3>4. CASE batch = <<>> /\ WriteErr(spill)
      BY <1>3, <3>4 DEF WriteErr
    <3> QED
      BY <2>2, <3>1, <3>2, <3>3, <3>4
  <2> QED
    BY <2>1, <2>3
<1>6. CASE WriterFlush /\ WriteOk(batch) /\ batch' = <<>> /\ spill' = spill
  <2>1. wire' = wire \o batch
    BY <1>6 DEF WriteOk
  <2> QED
    BY <1>0, <1>2, <1>4, <1>6, <2>1
<1>7. CASE WriterDirect /\ WriteOk(spill) /\ spill' = <<>> /\ batch' = batch
  <2>1. wire' = wire \o spill /\ batch = <<>>
    BY <1>7 DEF WriteOk, WriterDirect, At
  <2> QED
    BY <1>0, <1>2, <1>4, <1>7, <2>1
<1>8. \/ WriterStop \/ (pc'[Writer] = "close" /\ (WriterFlush \/ WriterDirect))
      \/ WriterFlush /\ WriteOk(batch) /\ batch' = <<>> /\ spill' = spill
      \/ WriterDirect /\ WriteOk(spill) /\ spill' = <<>> /\ batch' = batch
  BY <1>0 DEF WriterFlush, WriterDirect, Goto
<1> QED
  BY <1>5, <1>6, <1>7, <1>8

LEMMA WriteStream ==
    ASSUME TypeInv, StreamInPlace, LastIsUnderway, LineInOrder, SendersRest,
           WriterFlush \/ WriterDirect \/ WriterStop
    PROVE  StreamInPlace' /\ Len(wire) <= Len(wire')
<1>1. Writing /\ sendQueue' = sendQueue /\ sendQueue \in Seq(Msg) /\ pushed \in Seq(Msg)
  BY StreamTypes DEF WriterFlush, WriterDirect, WriterStop, At, Writing, sendVars
<1>2. /\ Enqueued \in Nat /\ Enqueued <= Len(pushed) /\ Enqueued' = Enqueued /\ pushed' = pushed
  BY RestingSenders, EnqueuedIsPushed
<1>3. InLine(wire, batch, spill, sendQueue, pushed, Enqueued)
  BY <1>1 DEF StreamInPlace
<1>4. pc[Writer] = "direct" => batch = <<>>
  BY DEF LineInOrder
<1>5. /\ Lies(wire', 0, pushed) /\ Len(wire') <= Len(pushed) /\ Len(wire) <= Len(wire')
      /\ Writing' => InLine(wire', batch', spill', sendQueue, pushed, Enqueued)
  BY <1>1, <1>2, <1>3, <1>4, WriteRow
<1> QED
  BY <1>1, <1>2, <1>5 DEF StreamInPlace

LEMMA StreamStep ==
    ASSUME TypeInv, NoTokenHandlers, FlowInv, StreamInPlace, LastIsUnderway,
           OneSender, Unpackable = {}, QueueHasRoom, [Next]_vars
    PROVE  StreamInPlace' /\ LastIsUnderway' /\ Len(wire) <= Len(wire')
<1>0. Len(wire) \in Nat /\ LineInOrder
  BY StreamTypes DEF FlowInv
<1>1. ASSUME NEW s \in Senders, AsyncSendPush(s) \/ AsyncSendCount(s) \/ AsyncSendEnqueue(s)
      PROVE  StreamInPlace' /\ LastIsUnderway' /\ Len(wire) <= Len(wire')
  <2>1. wire' = wire
    BY <1>1 DEF AsyncSendPush, AsyncSendCount, AsyncSendEnqueue, loopVars
  <2> QED
    BY <1>0, <1>1, <2>1, PushStream, CountStream, EnqueueStream
<1>2. CASE SendersRest /\ LineRests
  <2>1. /\ UNCHANGED <<wire, batch, spill, sendQueue>> /\ (Writing' => Writing)
        /\ Enqueued' = Enqueued /\ pushed' = pushed /\ LastIsUnderway'
    BY <1>2, RestingSenders DEF LineRests, Writing
  <2> QED
    BY <1>0, <2>1 DEF StreamInPlace
<1>3. CASE SendersRest /\ WriterTake
  <2>1. wire' = wire
    BY <1>3 DEF WriterTake
  <2> QED
    BY <1>0, <1>3, <2>1, TakeStream, RestingSenders
<1>4. CASE SendersRest /\ (WriterFlush \/ WriterDirect \/ WriterStop)
  BY <1>0, <1>4, WriteStream, RestingSenders
<1> QED
  BY <1>1, <1>2, <1>3, <1>4, LineMoves, NoTokenNoResend, SendersMove

LEMMA WrittenAcksStep ==
    ASSUME TypeInv, NoTokenHandlers, AcksAreWritten, Lies(wire, 0, pushed),
           Len(wire) <= Len(wire'), [Next]_vars
    PROVE  AcksAreWritten'
<1>0. /\ Len(wire) \in Nat /\ Len(wire') \in Nat /\ win.serverAck \in Nat
      /\ inbox \in Seq(Job) /\ clientHas \in Nat /\ wire \in Seq(Msg)
      /\ req \in [Workers -> Job \cup {NoJob}] /\ win \in WindowOver(Msg)
      /\ \A w \in Workers : req[w].ack \in Nat
      /\ \A i \in 1 .. Len(inbox) : inbox[i].ack \in Nat
  <2>1. TypeInv'
    BY NextTypeInv
  <2>2. wire \in Seq(Msg) /\ wire' \in Seq(Msg) /\ win \in WindowOver(Msg)
    BY <2>1 DEF TypeInv, TypeOK, LoopTypeOK, SendTypeOK
  <2>3. inbox \in Seq(Job) /\ clientHas \in Nat /\ req \in [Workers -> Job \cup {NoJob}]
    BY DEF TypeInv, TypeOK, JobTypeOK
  <2>4. \A j \in Job \cup {NoJob} : j.ack \in Nat
    BY DEF Job, NoJob
  <2>5. \A i \in 1 .. Len(inbox) : inbox[i] \in Job
    BY <2>3
  <2> QED
    BY <2>2, <2>3, <2>4, <2>5 DEF WindowOver
<1>1. win'.serverAck <= Len(wire')
  <2>1. CASE win'.serverAck = win.serverAck
    BY <1>0, <2>1 DEF AcksAreWritten
  <2>2. ASSUME NEW w \in Workers, win' = UpdateServerAck(win, req[w].ack)
        PROVE  win'.serverAck <= Len(wire')
    <3>1. win'.serverAck = win.serverAck \/ win'.serverAck = req[w].ack
      BY <1>0, <2>2 DEF UpdateServerAck, Cut, WindowOver
    <3> QED
      BY <1>0, <3>1 DEF AcksAreWritten
  <2> QED
    BY <2>1, <2>2, AckComes
<1>2. CASE UNCHANGED <<clientHas, inbox, req>>
  BY <1>0, <1>1, <1>2 DEF AcksAreWritten
<1>3. CASE ReaderDeliver
  <2>1. PICK kind \in Jobs, ack \in clientHas .. Len(wire) :
          /\ inbox' = Append(inbox, [kind |-> kind, ack |-> ack])
          /\ clientHas' = ack
    BY <1>3 DEF ReaderDeliver
  <2>2. req' = req /\ ack \in Nat /\ ack <= Len(wire')
    BY <1>0, <1>3, <2>1 DEF ReaderDeliver
  <2> DEFINE j == [kind |-> kind, ack |-> ack]
  <2>3. j \in Job /\ j.ack = ack
    BY <2>2 DEF Job
  <2> HIDE DEF j
  <2>4. /\ Len(inbox') = Len(inbox) + 1 /\ inbox'[Len(inbox) + 1] = j
        /\ \A i \in 1 .. Len(inbox) : inbox'[i] = inbox[i]
    <3>1. inbox' = Append(inbox, j)
      BY <2>1 DEF j
    <3> QED
      BY <3>1, <2>3, <1>0, AppendProperties
  <2>5. \A i \in 1 .. Len(inbox') : inbox'[i].ack <= Len(wire')
    <3> TAKE i \in 1 .. Len(inbox')
    <3>1. CASE i = Len(inbox) + 1
      BY <3>1, <2>2, <2>3, <2>4
    <3>2. CASE i \in 1 .. Len(inbox)
      BY <3>2, <2>4, <1>0 DEF AcksAreWritten
    <3> QED
      BY <3>1, <3>2, <2>4, <1>0
  <2>6. \A w \in Workers : req'[w].ack <= Len(wire')
    BY <1>0, <2>2 DEF AcksAreWritten
  <2> QED
    BY <1>1, <2>1, <2>2, <2>5, <2>6 DEF AcksAreWritten
<1>4. ASSUME NEW w \in Workers, WorkerTake(w)
      PROVE  AcksAreWritten'
  <2>1. /\ inbox # <<>> /\ req' = [req EXCEPT ![w] = Head(inbox)] /\ inbox' = Tail(inbox)
        /\ clientHas' = clientHas
    BY <1>4 DEF WorkerTake
  <2>2. /\ Len(inbox) \in Nat \ {0} /\ Len(inbox') = Len(inbox) - 1 /\ Head(inbox) = inbox[1]
        /\ \A i \in 1 .. Len(inbox') : inbox'[i] = inbox[i + 1] /\ i + 1 \in 1 .. Len(inbox)
    BY <1>0, <2>1
  <2>3. \A i \in 1 .. Len(inbox) : inbox[i].ack <= Len(wire')
    BY <1>0 DEF AcksAreWritten
  <2>4. Head(inbox).ack <= Len(wire') /\ \A i \in 1 .. Len(inbox') : inbox'[i].ack <= Len(wire')
    BY <2>2, <2>3, SMTT(20)
  <2>5. \A v \in Workers : req'[v].ack <= Len(wire')
    <3> TAKE v \in Workers
    <3>1. req'[v] = IF v = w THEN Head(inbox) ELSE req[v]
      BY <1>0, <2>1
    <3> QED
      BY <1>0, <3>1, <2>4 DEF AcksAreWritten
  <2> QED
    BY <1>0, <1>1, <2>1, <2>4, <2>5 DEF AcksAreWritten
<1> QED
  BY <1>2, <1>3, <1>4, JobsMove

(* As long as no client sends a second token, what an ack cuts has reached  *)
(* the socket: for one sender whose messages can be packed and find room in *)
(* the queue, whatever the batches, failed writes, acks and closes do       *)
(* (conn.go:139-155, 248-268, 301-379).                                     *)
THEOREM OnlyReceivedIsTrimmedAlways ==
    "token" \notin Jobs /\ OneSender /\ Unpackable = {} =>
        (Spec /\ []QueueHasRoom => []OnlyReceivedIsTrimmed)
<1> SUFFICES ASSUME "token" \notin Jobs, OneSender, Unpackable = {}
             PROVE  Spec /\ []QueueHasRoom => []OnlyReceivedIsTrimmed
  OBVIOUS
<1> DEFINE TrimInv == /\ TypeInv /\ NoTokenHandlers /\ WindowExact /\ FlowInv
                      /\ StreamInPlace /\ LastIsUnderway /\ AcksAreWritten
<1>1. Init => TrimInv
  <2> SUFFICES ASSUME Init PROVE TrimInv
    OBVIOUS
  <2>1. TypeInv /\ NoTokenHandlers
    <3>1. SendsBounded /\ NoTokenHandlers
      BY ProcsAssumption DEF Init, SendsBounded, NoTokenHandlers, TokenLabels, Procs
    <3> QED
      BY <3>1, InitTypeOK DEF TypeInv
  <2>2. WindowExact
    BY DEF Init, NewWindow, WindowExact, PendingIsNewest, Cutoff
  <2>3. /\ wire = <<>> /\ batch = <<>> /\ spill = <<>> /\ sendQueue = <<>> /\ pushed = <<>>
        /\ Len(<<>>) = 0
    BY DEF Init
  <2>4. FlowInv
    <3>1. Ordered(<<>>) /\ Len(<<>>) = 0
      BY DEF Ordered
    <3> QED
      BY <2>3, <3>1, RangeOfOne, BeforeFacts DEF FlowInv, LineInOrder, OnWay
  <2>5. \A s \in Senders : pc[s] = "idle"
    BY ProcsAssumption DEF Init, Procs
  <2>6. StreamInPlace /\ LastIsUnderway
    <3>1. LastIsUnderway /\ Enqueued = 0
      BY <2>3, <2>5 DEF LastIsUnderway, Enqueued, Underway
    <3>2. InLine(<<>>, <<>>, <<>>, <<>>, <<>>, 0) /\ Lies(<<>>, 0, <<>>)
      BY DEF InLine, Lies
    <3> QED
      BY <2>3, <3>1, <3>2 DEF StreamInPlace
  <2>7. AcksAreWritten
    BY <2>3 DEF Init, AcksAreWritten, NoJob, NewWindow
  <2> QED
    BY <2>1, <2>2, <2>4, <2>6, <2>7
<1>2. TrimInv /\ QueueHasRoom /\ [Next]_vars => TrimInv'
  <2> SUFFICES ASSUME TrimInv, QueueHasRoom, [Next]_vars PROVE TrimInv'
    OBVIOUS
  <2>1. TypeInv' /\ NoTokenHandlers' /\ WindowExact' /\ FlowInv'
    BY NextTypeInv, NoTokenHandlersStep, WindowExactStep, FlowStep
  <2>2. StreamInPlace' /\ LastIsUnderway' /\ Len(wire) <= Len(wire')
    BY StreamStep
  <2>3. AcksAreWritten'
    BY <2>2, WrittenAcksStep DEF StreamInPlace
  <2> QED
    BY <2>1, <2>2, <2>3
<1>3. TrimInv => OnlyReceivedIsTrimmed
  <2> SUFFICES ASSUME TrimInv PROVE OnlyReceivedIsTrimmed
    OBVIOUS
  <2>1. /\ Cutoff \in Nat /\ Cutoff <= Len(wire) /\ Len(wire) <= Len(pushed)
        /\ Len(wire) \in Nat /\ Len(pushed) \in Nat /\ pushed \in Seq(Msg)
    <3>1. win.serverAck \in Nat /\ wire \in Seq(Msg) /\ pushed \in Seq(Msg)
      BY DEF TypeInv, TypeOK, SendTypeOK, LoopTypeOK, WindowOver
    <3>2. win.serverAck = Cutoff
      BY DEF WindowExact
    <3> QED
      BY <3>1, <3>2 DEF AcksAreWritten, StreamInPlace
  <2>2. /\ Len(Trimmed) = Cutoff /\ \A i \in 1 .. Cutoff : Trimmed[i] = pushed[i]
    BY <2>1 DEF Trimmed
  <2>3. \A i \in 1 .. Len(wire) : wire[i] = pushed[i]
    BY DEF StreamInPlace, Lies
  <2>4. \A i \in 1 .. Cutoff : i \in 1 .. Len(wire) /\ Trimmed[i] = wire[i]
    BY <2>1, <2>2, <2>3
  <2> QED
    BY <2>2, <2>4 DEF OnlyReceivedIsTrimmed, RangeOf
<1> QED
  BY <1>1, <1>2, <1>3, PTL DEF Spec

-------------------------------------------------------------------------------
(* What is written is what was queued.                                      *)

(* f tells where in q the messages of r are: they are those of q that can   *)
(* be packed, in the order they have there.                                 *)
Places(f, r, q) ==
    /\ f \in [1 .. Len(r) -> 1 .. Len(q)]
    /\ \A a, b \in 1 .. Len(r) : a < b => f[a] < f[b]
    /\ \A a \in 1 .. Len(r) : r[a] = q[f[a]] /\ q[f[a]] \notin Unpackable
    /\ \A i \in 1 .. Len(q) : q[i] \notin Unpackable => \E a \in 1 .. Len(r) : f[a] = i

PackablePart(r, q) == \E f : Places(f, r, q)

LEMMA PartOfLonger ==
    ASSUME NEW q \in Seq(Msg), NEW r \in Seq(Msg), NEW x \in Msg, PackablePart(r, q)
    PROVE  /\ x \notin Unpackable => PackablePart(Append(r, x), Append(q, x))
           /\ x \in Unpackable => PackablePart(r, Append(q, x))
<1> DEFINE p == Append(q, x)
           u == Append(r, x)
           n == Len(q)
           k == Len(r)
<1>1. PICK f : Places(f, r, q)
  BY DEF PackablePart
<1>2. /\ n \in Nat /\ k \in Nat
      /\ Len(p) = n + 1 /\ p[n + 1] = x /\ \A i \in 1 .. n : p[i] = q[i]
      /\ Len(u) = k + 1 /\ u[k + 1] = x /\ \A a \in 1 .. k : u[a] = r[a]
  BY AppendProperties
<1>3. /\ f \in [1 .. k -> 1 .. n]
      /\ \A a, b \in 1 .. k : a < b => f[a] < f[b]
      /\ \A a \in 1 .. k : r[a] = q[f[a]] /\ q[f[a]] \notin Unpackable
      /\ \A i \in 1 .. n : q[i] \notin Unpackable => \E a \in 1 .. k : f[a] = i
  BY <1>1 DEF Places
<1> HIDE DEF p, u, n, k
<1>4. /\ \A i \in 1 .. n + 1 : i \in 1 .. n \/ i = n + 1
      /\ \A a \in 1 .. k + 1 : a \in 1 .. k \/ a = k + 1
      /\ 1 .. n \subseteq 1 .. n + 1 /\ 1 .. k \subseteq 1 .. k + 1
      /\ n + 1 \in 1 .. n + 1 /\ k + 1 \in 1 .. k + 1
      /\ \A i \in 1 .. n : i < n + 1
      /\ \A a \in 1 .. k : a # k + 1 /\ ~(k + 1 < a)
  BY <1>2
<1>5. ASSUME x \notin Unpackable
      PROVE  PackablePart(u, p)
  <2> DEFINE g == [a \in 1 .. k + 1 |-> IF a = k + 1 THEN n + 1 ELSE f[a]]
  <2>1. g[k + 1] = n + 1 /\ \A a \in 1 .. k : g[a] = f[a]
    BY <1>4
  <2>2. g \in [1 .. k + 1 -> 1 .. n + 1]
    BY <1>3, <1>4
  <2> HIDE DEF g
  <2>3. \A a, b \in 1 .. k + 1 : a < b => g[a] < g[b]
    <3> SUFFICES ASSUME NEW a \in 1 .. k + 1, NEW b \in 1 .. k + 1, a < b
                 PROVE  g[a] < g[b]
      OBVIOUS
    <3>1. a \in 1 .. k
      <4>1. b \in Nat /\ b <= k + 1 /\ a \in Nat /\ a >= 1
        BY <1>2
      <4> QED
        BY <1>2, <4>1
    <3>2. CASE b = k + 1
      BY <1>3, <1>4, <2>1, <3>1, <3>2
    <3>3. CASE b \in 1 .. k
      BY <1>3, <2>1, <3>1, <3>3
    <3> QED
      BY <1>4, <3>2, <3>3
  <2>4. \A a \in 1 .. k + 1 : u[a] = p[g[a]] /\ p[g[a]] \notin Unpackable
    <3> TAKE a \in 1 .. k + 1
    <3>1. CASE a = k + 1
      BY <1>2, <1>5, <2>1, <3>1
    <3>2. CASE a \in 1 .. k
      <4>1. f[a] \in 1 .. n
        BY <1>3, <3>2
      <4> QED
        BY <1>2, <1>3, <2>1, <3>2, <4>1
    <3> QED
      BY <1>4, <3>1, <3>2
  <2>5. \A i \in 1 .. n + 1 : p[i] \notin Unpackable => \E a \in 1 .. k + 1 : g[a] = i
    <3> SUFFICES ASSUME NEW i \in 1 .. n + 1, p[i] \notin Unpackable
                 PROVE  \E a \in 1 .. k + 1 : g[a] = i
      OBVIOUS
    <3>1. CASE i = n + 1
      BY <1>4, <2>1, <3>1
    <3>2. CASE i \in 1 .. n
      <4>1. PICK a \in 1 .. k : f[a] = i
        BY <1>2, <1>3, <3>2
      <4> QED
        BY <1>4, <2>1, <4>1
    <3> QED
      BY <1>4, <3>1, <3>2
  <2>6. Places(g, u, p)
    BY <1>2, <2>2, <2>3, <2>4, <2>5 DEF Places
  <2> QED
    BY <2>6 DEF PackablePart
<1>6. ASSUME x \in Unpackable
      PROVE  PackablePart(r, p)
  <2>1. f \in [1 .. k -> 1 .. n + 1]
    BY <1>3, <1>4
  <2>2. \A a \in 1 .. k : r[a] = p[f[a]] /\ p[f[a]] \notin Unpackable
    BY <1>2, <1>3
  <2>3. \A i \in 1 .. n + 1 : p[i] \notin Unpackable => \E a \in 1 .. k : f[a] = i
    BY <1>2, <1>3, <1>4, <1>6
  <2>4. Places(f, r, p)
    BY <1>2, <1>3, <2>1, <2>2, <2>3 DEF Places, k
  <2> QED
    BY <2>4 DEF PackablePart
<1> QED
  BY <1>5, <1>6 DEF p, u

LEMMA PartOfTail ==
    ASSUME NEW q \in Seq(Msg), q # <<>>, NEW r \in Seq(Msg), PackablePart(r, q)
    PROVE  /\ Head(q) \notin Unpackable =>
                 r # <<>> /\ Head(r) = Head(q) /\ PackablePart(Tail(r), Tail(q))
           /\ Head(q) \in Unpackable => PackablePart(r, Tail(q))
<1> DEFINE p == Tail(q)
           n == Len(q)
           k == Len(r)
<1>1. PICK f : Places(f, r, q)
  BY DEF PackablePart
<1>2. /\ n \in Nat \ {0} /\ k \in Nat /\ Head(q) = q[1]
      /\ Len(p) = n - 1 /\ \A i \in 1 .. n - 1 : p[i] = q[i + 1]
  OBVIOUS
<1>3. /\ f \in [1 .. k -> 1 .. n]
      /\ \A a, b \in 1 .. k : a < b => f[a] < f[b]
      /\ \A a \in 1 .. k : r[a] = q[f[a]] /\ q[f[a]] \notin Unpackable
      /\ \A i \in 1 .. n : q[i] \notin Unpackable => \E a \in 1 .. k : f[a] = i
  BY <1>1 DEF Places
<1> HIDE DEF p, n, k
<1>4. /\ 1 \in 1 .. n
      /\ \A i \in 1 .. n : i # 1 => i - 1 \in 1 .. n - 1 /\ (i - 1) + 1 = i
      /\ \A i \in 1 .. n - 1 : i + 1 \in 1 .. n /\ i + 1 # 1 /\ (i + 1) - 1 = i
      /\ \A i, j \in 1 .. n : i < j => i - 1 < j - 1
  BY <1>2
<1>5. ASSUME q[1] \notin Unpackable
      PROVE  r # <<>> /\ Head(r) = Head(q) /\ PackablePart(Tail(r), p)
  <2>1. PICK c \in 1 .. k : f[c] = 1
    BY <1>3, <1>4, <1>5
  <2>2. c = 1
    <3> SUFFICES ASSUME c # 1 PROVE FALSE
      OBVIOUS
    <3>1. 1 \in 1 .. k /\ 1 < c
      BY <1>2, <2>1
    <3>2. f[1] < f[c] /\ f[1] \in 1 .. n
      BY <1>3, <3>1
    <3> QED
      BY <1>2, <2>1, <3>2
  <2> DEFINE t == Tail(r)
  <2>3. r # <<>> /\ Head(r) = r[1] /\ k \in Nat \ {0}
        /\ Len(t) = k - 1 /\ \A a \in 1 .. k - 1 : t[a] = r[a + 1]
    <3>1. Len(r) \in Nat /\ Len(r) # 0
      BY <1>2, <2>1, <2>2 DEF k
    <3> QED
      BY <3>1 DEF k
  <2> HIDE DEF t
  <2>4. Head(r) = Head(q)
    BY <1>2, <1>3, <2>1, <2>2, <2>3
  <2>5. \A a \in 1 .. k - 1 : a + 1 \in 1 .. k /\ 1 < a + 1
    BY <2>3
  <2>6. \A a \in 1 .. k - 1 : f[a + 1] \in 1 .. n /\ f[a + 1] # 1
    <3> TAKE a \in 1 .. k - 1
    <3>1. f[1] < f[a + 1] /\ f[a + 1] \in 1 .. n
      BY <1>3, <2>1, <2>2, <2>5
    <3> QED
      BY <1>2, <2>1, <2>2, <3>1
  <2> DEFINE g == [a \in 1 .. k - 1 |-> f[a + 1] - 1]
  <2>7. \A a \in 1 .. k - 1 : g[a] = f[a + 1] - 1
    OBVIOUS
  <2>8. g \in [1 .. k - 1 -> 1 .. n - 1]
    BY <1>4, <2>6
  <2> HIDE DEF g
  <2>9. \A a, b \in 1 .. k - 1 : a < b => g[a] < g[b]
    <3> SUFFICES ASSUME NEW a \in 1 .. k - 1, NEW b \in 1 .. k - 1, a < b
                 PROVE  g[a] < g[b]
      OBVIOUS
    <3>1. a + 1 < b + 1
      BY <2>3
    <3>2. f[a + 1] < f[b + 1]
      BY <1>3, <2>5, <3>1
    <3> QED
      BY <1>4, <2>6, <2>7, <3>2
  <2>10. \A a \in 1 .. k - 1 : t[a] = p[g[a]] /\ p[g[a]] \notin Unpackable
    <3> TAKE a \in 1 .. k - 1
    <3>1. g[a] \in 1 .. n - 1 /\ g[a] + 1 = f[a + 1]
      BY <1>4, <2>6, <2>7, <2>8
    <3>2. p[g[a]] = q[f[a + 1]]
      BY <1>2, <3>1
    <3> QED
      BY <1>3, <2>3, <2>5, <3>2
  <2>11. \A i \in 1 .. n - 1 : p[i] \notin Unpackable => \E a \in 1 .. k - 1 : g[a] = i
    <3> SUFFICES ASSUME NEW i \in 1 .. n - 1, p[i] \notin Unpackable
                 PROVE  \E a \in 1 .. k - 1 : g[a] = i
      OBVIOUS
    <3>1. PICK a \in 1 .. k : f[a] = i + 1
      BY <1>2, <1>3, <1>4
    <3>2. a # 1
      BY <1>4, <2>1, <2>2, <3>1
    <3>3. a - 1 \in 1 .. k - 1 /\ (a - 1) + 1 = a
      BY <2>3, <3>2
    <3>4. g[a - 1] = (i + 1) - 1
      BY <2>7, <3>1, <3>3
    <3> QED
      BY <1>4, <3>3, <3>4
  <2>12. Places(g, t, p)
    BY <1>2, <2>3, <2>8, <2>9, <2>10, <2>11 DEF Places
  <2> QED
    BY <2>3, <2>4, <2>12 DEF PackablePart, t
<1>6. ASSUME q[1] \in Unpackable
      PROVE  PackablePart(r, p)
  <2>1. \A a \in 1 .. k : f[a] \in 1 .. n /\ f[a] # 1
    BY <1>3, <1>6
  <2> DEFINE g == [a \in 1 .. k |-> f[a] - 1]
  <2>2. \A a \in 1 .. k : g[a] = f[a] - 1
    OBVIOUS
  <2>3. g \in [1 .. k -> 1 .. n - 1]
    BY <1>4, <2>1
  <2> HIDE DEF g
  <2>4. \A a, b \in 1 .. k : a < b => g[a] < g[b]
    BY <1>3, <1>4, <2>1, <2>2
  <2>5. \A a \in 1 .. k : r[a] = p[g[a]] /\ p[g[a]] \notin Unpackable
    <3> TAKE a \in 1 .. k
    <3>1. g[a] \in 1 .. n - 1 /\ g[a] + 1 = f[a]
      BY <1>4, <2>1, <2>2, <2>3
    <3> QED
      BY <1>2, <1>3, <3>1
  <2>6. \A i \in 1 .. n - 1 : p[i] \notin Unpackable => \E a \in 1 .. k : g[a] = i
    <3> SUFFICES ASSUME NEW i \in 1 .. n - 1, p[i] \notin Unpackable
                 PROVE  \E a \in 1 .. k : g[a] = i
      OBVIOUS
    <3>1. PICK a \in 1 .. k : f[a] = i + 1
      BY <1>2, <1>3, <1>4
    <3> QED
      BY <1>4, <2>2, <3>1
  <2>7. Places(g, r, p)
    BY <1>2, <2>3, <2>4, <2>5, <2>6 DEF Places, k
  <2> QED
    BY <2>7 DEF PackablePart
<1> QED
  BY <1>2, <1>5, <1>6 DEF p

(* What the write loop holds: nothing in hand when it takes the next        *)
(* message, nothing in the batch when it writes the one in hand alone.      *)
HandFree ==
    /\ pc[Writer] = "loop" => spill = <<>>
    /\ pc[Writer] = "direct" => batch = <<>>

(* What was queued is written, batched, in hand or still in the queue, in   *)
(* that order, until a write fails; what is written stays where it is.      *)
QueuedInPlace ==
    /\ Lies(wire, 0, queued) /\ Len(wire) <= Len(queued)
    /\ Writing => \E r \in Seq(Msg) :
          /\ PackablePart(r, sendQueue)
          /\ InLine(wire, batch, spill, r, queued, Len(queued))

QueuedInv == HandFree /\ QueuedInPlace

LEMMA QueuedTypes ==
    ASSUME TypeInv
    PROVE  /\ wire \in Seq(Msg) /\ batch \in Seq(Msg) /\ spill \in Seq(Msg)
           /\ sendQueue \in Seq(Msg) /\ queued \in Seq(Msg)
           /\ Len(wire) \in Nat /\ Len(queued) \in Nat
           /\ pc \in [Procs -> Labels] /\ Writer \in Procs
           /\ \A p \in Senders \cup Workers : p \in Procs \ {Writer}
  BY ProcsAssumption DEF TypeInv, TypeOK, LoopTypeOK, SendTypeOK, Procs

LEMMA QueuedInit == Init => QueuedInv
<1> SUFFICES ASSUME Init PROVE QueuedInv
  OBVIOUS
<1>1. /\ wire = <<>> /\ batch = <<>> /\ spill = <<>> /\ sendQueue = <<>> /\ queued = <<>>
      /\ Len(<<>>) = 0 /\ <<>> \in Seq(Msg)
  BY DEF Init
<1>2. \A k : Lies(<<>>, k, <<>>)
  BY <1>1 DEF Lies
<1>3. InLine(<<>>, <<>>, <<>>, <<>>, <<>>, Len(<<>>))
  BY <1>1, <1>2 DEF InLine
<1>4. PackablePart(<<>>, <<>>)
  <2> DEFINE f == [a \in 1 .. 0 |-> a]
  <2>1. f \in [1 .. 0 -> 1 .. 0] /\ 1 .. 0 = {}
    OBVIOUS
  <2> HIDE DEF f
  <2>2. Places(f, <<>>, <<>>)
    BY <1>1, <2>1 DEF Places
  <2> QED
    BY <2>2 DEF PackablePart
<1>5. /\ InLine(wire, batch, spill, <<>>, queued, Len(queued))
      /\ PackablePart(<<>>, sendQueue) /\ Lies(wire, 0, queued)
  BY <1>1, <1>2, <1>3, <1>4
<1>6. Len(wire) <= Len(queued)
  BY <1>1
<1>7. QueuedInPlace
  BY <1>1, <1>5, <1>6 DEF QueuedInPlace
<1> QED
  BY <1>1, <1>7 DEF QueuedInv, HandFree

(* A message is queued. *)
LEMMA EnqueueQueued ==
    ASSUME TypeInv, QueuedInPlace, NEW m \in Msg, Enqueue(m),
           UNCHANGED <<wire, batch, spill>>, pc'[Writer] = pc[Writer]
    PROVE  QueuedInPlace'
<1> DEFINE p == Append(queued, m)
           n == Len(queued)
<1>0. /\ wire \in Seq(Msg) /\ batch \in Seq(Msg) /\ spill \in Seq(Msg)
      /\ sendQueue \in Seq(Msg) /\ queued \in Seq(Msg) /\ Len(wire) \in Nat /\ n \in Nat
  BY QueuedTypes
<1>1. /\ sendQueue' = Append(sendQueue, m)
      /\ m \in Unpackable => queued' = queued
      /\ m \notin Unpackable => queued' = p
  BY DEF Enqueue
<1>2. Lies(wire, 0, queued) /\ Len(wire) <= n
  BY DEF QueuedInPlace
<1>3. p \in Seq(Msg) /\ Len(p) = n + 1 /\ p[n + 1] = m
  BY <1>0, AppendProperties
<1>4. Lies(wire, 0, p) /\ Len(wire) <= n + 1
  <2>1. 0 + Len(wire) <= Len(queued)
    BY <1>0, <1>2
  <2> QED
    BY <1>0, <1>2, <2>1, LiesLonger
<1>5. ASSUME Writing
      PROVE  \E r \in Seq(Msg) :
                PackablePart(r, sendQueue')
                /\ InLine(wire, batch, spill, r, queued', Len(queued'))
  <2>1. PICK r \in Seq(Msg) :
           PackablePart(r, sendQueue) /\ InLine(wire, batch, spill, r, queued, n)
    BY <1>5 DEF QueuedInPlace
  <2>2. /\ m \notin Unpackable => PackablePart(Append(r, m), sendQueue')
        /\ m \in Unpackable => PackablePart(r, sendQueue')
    BY <1>0, <1>1, <2>1, PartOfLonger
  <2>3. InLine(wire, batch, spill, r, p, n)
    <3>1. n <= Len(queued)
      BY <1>0
    <3> QED
      BY <1>0, <2>1, <3>1, LineLonger
  <2> HIDE DEF p
  <2>4. InLine(wire, batch, spill, Append(r, m), p, n + 1)
    BY <1>0, <1>3, <2>3, LineEnqueue
  <2>5. Append(r, m) \in Seq(Msg)
    OBVIOUS
  <2>6. CASE m \in Unpackable
    BY <1>1, <2>1, <2>2, <2>6
  <2>7. CASE m \notin Unpackable
    <3>1. queued' = p /\ Len(queued') = n + 1
      BY <1>1, <1>3, <2>7
    <3> HIDE DEF n
    <3> QED
      BY <2>2, <2>4, <2>5, <2>7, <3>1
  <2> QED
    BY <2>6, <2>7
<1>6. Writing' <=> Writing
  BY DEF Writing
<1>7. Lies(wire', 0, queued') /\ Len(wire') <= Len(queued')
  BY <1>1, <1>2, <1>3, <1>4
<1>8. Writing' => \E r \in Seq(Msg) :
         PackablePart(r, sendQueue') /\ InLine(wire', batch', spill', r, queued', Len(queued'))
  BY <1>5, <1>6
<1> QED
  BY <1>7, <1>8 DEF QueuedInPlace

(* The write loop takes a message, *)
LEMMA TakeQueued ==
    ASSUME TypeInv, QueuedInv, WriterTake
    PROVE  QueuedInv'
<1>0. /\ wire \in Seq(Msg) /\ batch \in Seq(Msg) /\ sendQueue \in Seq(Msg)
      /\ queued \in Seq(Msg) /\ Len(queued) \in Nat
      /\ pc \in [Procs -> Labels] /\ Writer \in Procs
  BY QueuedTypes
<1>1. /\ pc[Writer] = "loop" /\ sendQueue # <<>> /\ sendQueue' = Tail(sendQueue)
      /\ wire' = wire /\ queued' = queued
  BY DEF WriterTake, At
<1>2. \/ Head(sendQueue) \in Unpackable /\ UNCHANGED <<batch, spill, pc>>
      \/ /\ Head(sendQueue) \notin Unpackable /\ batch' = Append(batch, Head(sendQueue))
         /\ UNCHANGED <<spill, pc>>
      \/ /\ Head(sendQueue) \notin Unpackable /\ spill' = <<Head(sendQueue)>> /\ batch' = batch
         /\ pc'[Writer] = IF batch = <<>> THEN "direct" ELSE "flush"
  BY <1>0 DEF WriterTake, Goto, AfterOverflow
<1>3. spill = <<>>
  BY <1>1 DEF QueuedInv, HandFree
<1>4. HandFree'
  BY <1>1, <1>2, <1>3 DEF HandFree
<1>5. PICK r \in Seq(Msg) :
         PackablePart(r, sendQueue) /\ InLine(wire, batch, <<>>, r, queued, Len(queued))
  BY <1>1, <1>3 DEF QueuedInv, QueuedInPlace, Writing
<1>6. /\ Head(sendQueue) \notin Unpackable =>
            r # <<>> /\ Head(r) = Head(sendQueue) /\ PackablePart(Tail(r), sendQueue')
      /\ Head(sendQueue) \in Unpackable => PackablePart(r, sendQueue')
  BY <1>0, <1>1, <1>5, PartOfTail
<1>7. \E t \in Seq(Msg) :
         PackablePart(t, sendQueue') /\ InLine(wire, batch', spill', t, queued, Len(queued))
  <2>1. CASE Head(sendQueue) \in Unpackable
    <3>1. batch' = batch /\ spill' = <<>>
      BY <1>2, <1>3, <2>1
    <3> QED
      BY <1>5, <1>6, <2>1, <3>1
  <2>2. CASE Head(sendQueue) \notin Unpackable
    <3>1. Tail(r) \in Seq(Msg) /\ PackablePart(Tail(r), sendQueue')
      BY <1>6, <2>2
    <3>2. /\ InLine(wire, Append(batch, Head(sendQueue)), <<>>, Tail(r), queued, Len(queued))
          /\ InLine(wire, batch, <<Head(sendQueue)>>, Tail(r), queued, Len(queued))
      <4>1. r # <<>> /\ Head(r) = Head(sendQueue)
        BY <1>6, <2>2
      <4> QED
        BY <1>0, <1>5, <4>1, LineTake
    <3>3. InLine(wire, batch', spill', Tail(r), queued, Len(queued))
      BY <1>2, <1>3, <2>2, <3>2
    <3> QED
      BY <3>1, <3>3
  <2> QED
    BY <2>1, <2>2
<1>8. QueuedInPlace'
  BY <1>1, <1>7 DEF QueuedInv, QueuedInPlace
<1> QED
  BY <1>4, <1>8 DEF QueuedInv

(* and writes. *)
LEMMA WriteQueued ==
    ASSUME TypeInv, QueuedInv, WriterFlush \/ WriterDirect \/ WriterStop
    PROVE  QueuedInv'
<1>0. /\ queued \in Seq(Msg) /\ Len(queued) \in Nat
      /\ pc \in [Procs -> Labels] /\ Writer \in Procs
  BY QueuedTypes
<1>1. Writing /\ sendQueue' = sendQueue /\ queued' = queued
  BY DEF WriterFlush, WriterDirect, WriterStop, At, Writing, sendVars
<1>2. PICK r \in Seq(Msg) :
         PackablePart(r, sendQueue) /\ InLine(wire, batch, spill, r, queued, Len(queued))
  BY <1>1 DEF QueuedInv, QueuedInPlace
<1>3. pc[Writer] = "direct" => batch = <<>>
  BY DEF QueuedInv, HandFree
<1>4. /\ Lies(wire', 0, queued) /\ Len(wire') <= Len(queued)
      /\ Writing' => InLine(wire', batch', spill', r, queued, Len(queued))
  BY <1>0, <1>2, <1>3, WriteRow
<1>5. HandFree'
  <2>1. \/ pc'[Writer] \in {"close", "done"}
        \/ batch' = <<>> /\ spill' = spill /\ pc'[Writer] = AfterFlush
        \/ spill' = <<>> /\ pc'[Writer] = "loop"
    BY <1>0 DEF WriterFlush, WriterDirect, WriterStop, Goto
  <2> QED
    BY <2>1 DEF HandFree, AfterFlush
<1>6. QueuedInPlace'
  BY <1>1, <1>2, <1>4 DEF QueuedInPlace
<1> QED
  BY <1>5, <1>6 DEF QueuedInv

(* What AsyncSend and ProcessPendingMessages queue are messages. *)
LEMMA EnqueuedIsMsg ==
    ASSUME TypeInv, NEW s \in Senders, AsyncSendEnqueue(s)
    PROVE  NextMsg(s) \in Msg
<1>1. sent[s] < MaxSends /\ sent[s] \in 0 .. MaxSends
  BY DEF TypeInv, TypeOK, SendTypeOK, SendsBounded, AsyncSendEnqueue, At
<1> QED
  BY <1>1, BoundsAssumption DEF NextMsg, Msg

LEMMA ResentIsMsg ==
    ASSUME TypeInv, NEW w \in Workers, ResendOne(w)
    PROVE  Head(resend[w]) \in Msg
<1>1. resend[w] \in Seq(Msg) /\ resend[w] # <<>>
  BY DEF TypeInv, TypeOK, JobTypeOK, ResendOne
<1> QED
  BY <1>1

LEMMA QueuedStep ==
    ASSUME TypeInv, QueuedInv, [Next]_vars
    PROVE  QueuedInv'
<1>0. /\ pc \in [Procs -> Labels] /\ Writer \in Procs
      /\ \A p \in Senders \cup Workers : p \in Procs \ {Writer}
  BY QueuedTypes
<1>q. ASSUME UNCHANGED <<wire, batch, spill>>, pc'[Writer] = pc[Writer],
             (UNCHANGED <<sendQueue, queued>>) \/ \E m \in Msg : Enqueue(m)
      PROVE  QueuedInv'
  <2>1. HandFree'
    BY <1>q DEF QueuedInv, HandFree
  <2>2. CASE UNCHANGED <<sendQueue, queued>>
    BY <1>q, <2>1, <2>2 DEF QueuedInv, QueuedInPlace, Writing
  <2>3. CASE \E m \in Msg : Enqueue(m)
    BY <1>q, <2>1, <2>3, EnqueueQueued DEF QueuedInv
  <2> QED
    BY <1>q, <2>2, <2>3
<1>1. ASSUME NEW s \in Senders, AsyncSendEnqueue(s)
      PROVE  QueuedInv'
  <2>1. UNCHANGED <<wire, batch, spill>> /\ pc'[Writer] = pc[Writer]
    BY <1>0, <1>1 DEF AsyncSendEnqueue, Goto, loopVars
  <2>2. (UNCHANGED <<sendQueue, queued>>) \/ \E m \in Msg : Enqueue(m)
    BY <1>1, EnqueuedIsMsg DEF AsyncSendEnqueue
  <2> QED
    BY <1>q, <2>1, <2>2
<1>2. ASSUME NEW w \in Workers, ResendOne(w)
      PROVE  QueuedInv'
  <2>1. UNCHANGED <<wire, batch, spill>> /\ pc'[Writer] = pc[Writer]
    BY <1>2 DEF ResendOne, loopVars
  <2>2. \E m \in Msg : Enqueue(m)
    BY <1>2, ResentIsMsg DEF ResendOne
  <2> QED
    BY <1>q, <2>1, <2>2
<1>3. CASE LineRests
  <2>1. UNCHANGED <<wire, batch, spill, sendQueue, queued>> /\ (Writing' => Writing)
    BY <1>3 DEF LineRests, Writing
  <2>2. QueuedInPlace'
    BY <2>1 DEF QueuedInv, QueuedInPlace
  <2>3. HandFree'
    BY <1>3 DEF LineRests, QueuedInv, HandFree
  <2> QED
    BY <2>2, <2>3 DEF QueuedInv
<1> QED
  BY <1>1, <1>2, <1>3, TakeQueued, WriteQueued, LineMoves

LEMMA QueuedAlways == Spec => [](TypeInv /\ QueuedInv)
<1>1. Init => TypeInv /\ QueuedInv
  <2>1. Init => SendsBounded
    BY ProcsAssumption DEF Init, SendsBounded, Procs
  <2> QED
    BY <2>1, InitTypeOK, QueuedInit DEF TypeInv
<1>2. TypeInv /\ QueuedInv /\ [Next]_vars => (TypeInv /\ QueuedInv)'
  BY NextTypeInv, QueuedStep
<1> QED
  BY <1>1, <1>2, PTL DEF Spec

(* What lies at the start of a longer sequence is a prefix of it. *)
LEMMA LiesIsPrefix ==
    ASSUME NEW t \in Seq(Msg), NEW p \in Seq(Msg), Lies(t, 0, p), Len(t) <= Len(p)
    PROVE  t = SubSeq(p, 1, Len(t))
<1>1. /\ Len(t) \in Nat /\ Len(p) \in Nat
      /\ t = [i \in 1 .. Len(t) |-> t[i]]
  OBVIOUS
<1>2. SubSeq(p, 1, Len(t)) = [i \in 1 .. Len(t) |-> p[i]]
  BY <1>1
<1>3. \A i \in 1 .. Len(t) : t[i] = p[i]
  BY <1>1 DEF Lies
<1>4. [i \in 1 .. Len(t) |-> t[i]] = [i \in 1 .. Len(t) |-> p[i]]
  BY <1>3
<1> QED
  BY <1>1, <1>2, <1>4

-------------------------------------------------------------------------------
(* The refinement: a message that can be packed is accepted when it is      *)
(* queued, what a write puts on the socket is delivered, the rest stutters. *)
LEMMA StreamStutters ==
    ASSUME UNCHANGED <<queued, wire>>
    PROVE  [Stream!Accept \/ Stream!Deliver]_<<queued, wire>>
  OBVIOUS

LEMMA QueueAccepts ==
    ASSUME NEW m \in Msg, Enqueue(m), UNCHANGED wire
    PROVE  [Stream!Accept \/ Stream!Deliver]_<<queued, wire>>
<1>1. CASE m \in Unpackable
  BY <1>1 DEF Enqueue
<1>2. CASE m \notin Unpackable
  BY <1>2 DEF Enqueue, Stream!Accept
<1> QED
  BY <1>1, <1>2

LEMMA WriteDelivers ==
    ASSUME TypeInv, TypeInv', QueuedInv, QueuedInv', WriterFlush \/ WriterDirect \/ WriterStop
    PROVE  [Stream!Accept \/ Stream!Deliver]_<<queued, wire>>
<1>0. /\ queued \in Seq(Msg) /\ wire \in Seq(Msg) /\ wire' \in Seq(Msg)
      /\ Len(queued) \in Nat /\ Len(wire) \in Nat /\ Len(wire') \in Nat
  <2>1. wire' \in Seq(Msg)
    BY DEF TypeInv, TypeOK, LoopTypeOK
  <2> QED
    BY <2>1, QueuedTypes
<1>1. Writing /\ queued' = queued
  BY DEF WriterFlush, WriterDirect, WriterStop, At, Writing, sendVars
<1>2. Len(wire) <= Len(wire')
  <2>1. PICK r \in Seq(Msg) : InLine(wire, batch, spill, r, queued, Len(queued))
    BY <1>1 DEF QueuedInv, QueuedInPlace
  <2>2. pc[Writer] = "direct" => batch = <<>>
    BY DEF QueuedInv, HandFree
  <2>3. Len(queued) <= Len(queued)
    BY <1>0
  <2> QED
    BY <1>0, <2>1, <2>2, <2>3, WriteRow
<1>3. /\ Lies(wire, 0, queued) /\ Len(wire) <= Len(queued)
      /\ Lies(wire', 0, queued) /\ Len(wire') <= Len(queued)
  BY <1>1 DEF QueuedInv, QueuedInPlace
<1>4. /\ wire = SubSeq(queued, 1, Len(wire))
      /\ wire' = SubSeq(queued, 1, Len(wire'))
  BY <1>0, <1>3, LiesIsPrefix
<1>5. CASE Len(wire') = Len(wire)
  BY <1>1, <1>4, <1>5
<1>6. CASE Len(wire') # Len(wire)
  <2>1. Len(wire') \in Len(wire) + 1 .. Len(queued)
    BY <1>0, <1>2, <1>3, <1>6
  <2> QED
    BY <1>1, <1>4, <2>1 DEF Stream!Deliver
<1> QED
  BY <1>5, <1>6

LEMMA StreamRefines ==
    ASSUME TypeInv, TypeInv', QueuedInv, QueuedInv', [Next]_vars
    PROVE  [Stream!Accept \/ Stream!Deliver]_<<queued, wire>>
<1>1. ASSUME NEW s \in Senders, AsyncSendEnqueue(s)
      PROVE  [Stream!Accept \/ Stream!Deliver]_<<queued, wire>>
  <2>1. /\ wire' = wire
        /\ queued' = queued \/ \E m \in Msg : Enqueue(m)
    BY <1>1, EnqueuedIsMsg DEF AsyncSendEnqueue, loopVars
  <2> QED
    BY <2>1, QueueAccepts
<1>2. ASSUME NEW w \in Workers, ResendOne(w)
      PROVE  [Stream!Accept \/ Stream!Deliver]_<<queued, wire>>
  <2>1. wire' = wire /\ \E m \in Msg : Enqueue(m)
    BY <1>2, ResentIsMsg DEF ResendOne, loopVars
  <2> QED
    BY <2>1, QueueAccepts
<1>3. CASE LineRests \/ WriterTake
  <2>1. UNCHANGED <<queued, wire>>
    BY <1>3 DEF LineRests, WriterTake
  <2> QED
    BY <2>1, StreamStutters
<1> QED
  BY <1>1, <1>2, <1>3, WriteDelivers, LineMoves

(* What a connection puts on the socket is what its queue took, resends     *)
(* included, in that order, each once and none left out: for any number of  *)
(* goroutines, any messages that cannot be packed and any queue capacity    *)
(* (conn.go:148-155, 278-281, 301-379).                                     *)
THEOREM WrittenAsQueuedHolds == Spec => WrittenAsQueued
<1>1. Init => Stream!Init
  BY DEF Init, Stream!Init
<1>2. /\ TypeInv /\ TypeInv' /\ QueuedInv /\ QueuedInv' /\ [Next]_vars
      => [Stream!Accept \/ Stream!Deliver]_<<queued, wire>>
  BY StreamRefines
<1>3. Spec => Stream!Spec
  BY <1>1, <1>2, QueuedAlways, PTL DEF Spec, Stream!Spec
<1> QED
  BY <1>3 DEF WrittenAsQueued
==============================================================================
