---------------------------- MODULE ReadLoopProofs ----------------------------
(***************************************************************************)
(* Theorems about the global queue and the read loops that feed it, for    *)
(* any producers, workers, frames, queue size and choice of handlers and   *)
(* of messages that make them panic.                                       *)
(***************************************************************************)
EXTENDS ReadLoop, SequenceTheorems, FiniteSetTheorems, WellFoundedInduction, TLAPS

-------------------------------------------------------------------------------
(* The inductive invariant of the queue, part by part.                      *)

(* What was accepted was taken, in that order, or is still queued.          *)
InPlace ==
    /\ Len(accepted) = Len(started) + Len(queue)
    /\ \A i \in 1 .. Len(started) : started[i] = accepted[i]
    /\ \A i \in 1 .. Len(queue) : queue[i] = accepted[Len(started) + i]

(* The messages SendToGlobalQueue was called with, and their number.        *)
Tried == {m \in Msg : m[2] <= tried[m[1]]}

SendsCounted == IsFiniteSet(Tried) /\ Len(accepted) + dropped = Cardinality(Tried)

(* None is accepted twice. *)
AcceptedOnce ==
    /\ \A i \in 1 .. Len(accepted) : accepted[i] \in Tried
    /\ \A i, j \in 1 .. Len(accepted) : accepted[i] = accepted[j] => i = j

Dead     == {w \in Workers : pc[w] = "dead"}
Risking  == {w \in Workers : hand[w] \in Panics}
Poison   == Panics \cap RangeOf(started)

(* A message that can make its handler panic is taken once: for each one    *)
(* taken at most one worker is dead of it or still has it in hand.          *)
OnePerPoison ==
    /\ IsFiniteSet(Dead) /\ IsFiniteSet(Risking) /\ IsFiniteSet(Poison)
    /\ Cardinality(Dead) + Cardinality(Risking) <= Cardinality(Poison)

QueueInv == TypeOK /\ InPlace /\ SendsCounted /\ AcceptedOnce

-------------------------------------------------------------------------------
(* What a step does to the messages. *)

SendAccepted(p) ==
    /\ tried[p] < MaxSends /\ Len(queue) < QueueSize
    /\ tried' = [tried EXCEPT ![p] = @ + 1]
    /\ queue' = Append(queue, NextMsg(p)) /\ accepted' = Append(accepted, NextMsg(p))
    /\ UNCHANGED <<started, dropped, pc, hand, open, ctxDone, workerCount, crashed>>

SendDropped(p) ==
    /\ tried[p] < MaxSends
    /\ tried' = [tried EXCEPT ![p] = @ + 1] /\ dropped' = dropped + 1
    /\ UNCHANGED <<queue, accepted, started, pc, hand, open, ctxDone, workerCount, crashed>>

MessagesRest == UNCHANGED <<queue, accepted, started, tried, dropped>>

LEMMA QueueMoves ==
    ASSUME [Next]_vars
    PROVE  \/ \E p \in Producers : SendAccepted(p) \/ SendDropped(p)
           \/ \E w \in Workers : Take(w)
           \/ MessagesRest
<1>1. ASSUME NEW p \in Producers, Send(p)
      PROVE  SendAccepted(p) \/ SendDropped(p)
  BY <1>1 DEF Send, SendAccepted, SendDropped, workVars
<1>2. ASSUME NEW p \in Producers, SendPanic(p)
      PROVE  MessagesRest
  BY <1>2 DEF SendPanic, MessagesRest, queueVars, workVars, senderVars
<1>3. CASE StartWorker \/ StopCancel \/ StopClose \/ UNCHANGED vars
  BY <1>3 DEF StartWorker, StopCancel, StopClose, vars, MessagesRest, queueVars, workVars, senderVars
<1>4. ASSUME NEW w \in Workers, TakeTick(w) \/ Exit(w) \/ Process(w)
      PROVE  MessagesRest
  BY <1>4 DEF TakeTick, Exit, Process, RunEvent, RunLogic, Die, Hang, MessagesRest, queueVars, senderVars
<1> QED
  BY <1>1, <1>2, <1>3, <1>4 DEF Next, QueueNext

Labels == {"off", "loop", "event", "logic", "stuck", "dead", "done"}

HandOf == Msg \cup {Tick, Nothing}

(* The variables that count no message keep their types.                    *)
LEMMA ControlTypes ==
    ASSUME TypeOK, [Next]_vars
    PROVE  /\ open' \in BOOLEAN /\ ctxDone' \in BOOLEAN /\ crashed' \in BOOLEAN
           /\ workerCount' \in Nat
           /\ pc' \in [Workers -> Labels] /\ hand' \in [Workers -> HandOf]
<1>0. /\ open \in BOOLEAN /\ ctxDone \in BOOLEAN /\ crashed \in BOOLEAN
      /\ workerCount \in Nat
      /\ pc \in [Workers -> Labels] /\ hand \in [Workers -> HandOf]
      /\ queue \in Seq(Msg)
  BY DEF TypeOK, Labels, HandOf
<1> USE DEF queueVars, workVars, senderVars, vars
<1>g. \A w \in Workers, l \in Labels : Goto(w, l) => pc' \in [Workers -> Labels]
  BY <1>0 DEF Goto
<1>f. \A w \in Workers, l \in Labels :
         Finish(w, l) => pc' \in [Workers -> Labels] /\ hand' \in [Workers -> HandOf]
  BY <1>0, <1>g DEF Finish, HandOf
<1>l. {"loop", "event", "logic", "stuck", "dead", "done"} \subseteq Labels
  BY DEF Labels
<1>1. ASSUME NEW p \in Producers, Send(p) \/ SendPanic(p)
      PROVE  /\ open' \in BOOLEAN /\ ctxDone' \in BOOLEAN /\ crashed' \in BOOLEAN
             /\ workerCount' \in Nat
             /\ pc' \in [Workers -> Labels] /\ hand' \in [Workers -> HandOf]
  BY <1>0, <1>1 DEF Send, SendPanic
<1>2. CASE StartWorker
  <2>1. Cardinality(Workers) \in Nat
    BY BoundsAssumption, FS_CardinalityType
  <2>2. pc' \in [Workers -> Labels]
    BY <1>2, <1>l DEF StartWorker
  <2> QED
    BY <1>0, <1>2, <2>1, <2>2 DEF StartWorker
<1>3. CASE StopCancel \/ StopClose \/ UNCHANGED vars
  BY <1>0, <1>3 DEF StopCancel, StopClose
<1>4. ASSUME NEW w \in Workers, Take(w) \/ TakeTick(w)
      PROVE  /\ UNCHANGED <<open, ctxDone, workerCount, crashed>>
             /\ pc' \in [Workers -> Labels] /\ hand' \in [Workers -> HandOf]
  <2>1. pc' \in [Workers -> Labels] /\ UNCHANGED <<open, ctxDone, workerCount, crashed>>
    BY <1>4, <1>g, <1>l DEF Take, TakeTick
  <2>2. \E m \in HandOf : hand' = [hand EXCEPT ![w] = m]
    <3>1. CASE Take(w)
      <4>1. Head(queue) \in Msg
        BY <1>0, <3>1 DEF Take
      <4> QED
        BY <3>1, <4>1 DEF Take, HandOf
    <3>2. CASE TakeTick(w)
      BY <3>2 DEF TakeTick, HandOf
    <3> QED
      BY <1>4, <3>1, <3>2
  <2>3. hand' \in [Workers -> HandOf]
    BY <1>0, <2>2
  <2> QED
    BY <2>1, <2>3
<1>5. ASSUME NEW w \in Workers, Exit(w) \/ Process(w)
      PROVE  /\ UNCHANGED <<open, ctxDone, workerCount, crashed>>
             /\ pc' \in [Workers -> Labels] /\ hand' \in [Workers -> HandOf]
  <2>1. UNCHANGED <<open, ctxDone, workerCount, crashed>>
    BY <1>5 DEF Exit, Process, RunEvent, RunLogic, Die, Hang
  <2>2. CASE Exit(w)
    BY <1>0, <1>g, <1>l, <2>2 DEF Exit
  <2>3. CASE RunEvent(w)
    BY <1>0, <1>f, <1>g, <1>l, <2>3 DEF RunEvent
  <2>4. CASE RunLogic(w) \/ Die(w)
    BY <1>f, <1>l, <2>4 DEF RunLogic, Die
  <2>5. CASE Hang(w)
    BY <1>0, <1>g, <1>l, <2>5 DEF Hang
  <2> QED
    BY <1>5, <2>1, <2>2, <2>3, <2>4, <2>5 DEF Process
<1> QED
  BY <1>0, <1>1, <1>2, <1>3, <1>4, <1>5 DEF Next, QueueNext

-------------------------------------------------------------------------------
LEMMA InitQueueInv == Init => QueueInv
<1> SUFFICES ASSUME Init PROVE QueueInv
  OBVIOUS
<1>1. /\ queue = <<>> /\ accepted = <<>> /\ started = <<>> /\ dropped = 0
      /\ \A p \in Producers : tried[p] = 0
      /\ Len(queue) = 0 /\ Len(accepted) = 0 /\ Len(started) = 0
  BY DEF Init
<1>2. TypeOK
  <2>1. queue \in Seq(Msg) /\ accepted \in Seq(Msg) /\ started \in Seq(Msg)
    BY <1>1
  <2>2. tried \in [Producers -> 0 .. MaxSends] /\ Len(queue) <= QueueSize
    BY <1>1, BoundsAssumption DEF Init
  <2>3. /\ open \in BOOLEAN /\ ctxDone \in BOOLEAN /\ crashed \in BOOLEAN
        /\ workerCount \in Nat /\ dropped \in Nat
    BY DEF Init
  <2>4. pc \in [Workers -> Labels] /\ hand \in [Workers -> HandOf]
    BY DEF Init, Labels, HandOf
  <2> QED
    BY <2>1, <2>2, <2>3, <2>4 DEF TypeOK, Labels, HandOf
<1>3. InPlace /\ AcceptedOnce
  BY <1>1 DEF InPlace, AcceptedOnce
<1>4. SendsCounted
  <2>1. Tried = {}
    BY <1>1 DEF Tried, Msg
  <2> QED
    BY <1>1, <2>1, FS_EmptySet DEF SendsCounted
<1> QED
  BY <1>2, <1>3, <1>4 DEF QueueInv

(* A producer's next call adds its next message to those tried. *)
LEMMA TriedGrows ==
    ASSUME TypeOK, NEW p \in Producers, tried[p] < MaxSends,
           tried' = [tried EXCEPT ![p] = @ + 1]
    PROVE  /\ NextMsg(p) \in Msg /\ NextMsg(p) \notin Tried
           /\ Tried' = Tried \cup {NextMsg(p)}
           /\ tried' \in [Producers -> 0 .. MaxSends]
<1>0. /\ tried \in [Producers -> 0 .. MaxSends]
      /\ \A q \in Producers : tried[q] \in Nat
      /\ \A m \in Msg : m[1] \in Producers /\ m[2] \in Nat /\ m = <<m[1], m[2]>>
  BY BoundsAssumption DEF TypeOK, Msg
<1>1. NextMsg(p) \in Msg /\ NextMsg(p)[1] = p /\ NextMsg(p)[2] = tried[p] + 1
  BY <1>0, BoundsAssumption DEF NextMsg, Msg
<1>2. NextMsg(p) \notin Tried
  BY <1>0, <1>1 DEF Tried
<1>3. tried'[p] = tried[p] + 1 /\ \A q \in Producers : q # p => tried'[q] = tried[q]
  BY <1>0
<1>4. ASSUME NEW m \in Msg
      PROVE  m \in Tried' <=> m \in Tried \/ m = NextMsg(p)
  <2>1. CASE m[1] = p
    <3>1. m = NextMsg(p) <=> m[2] = tried[p] + 1
      BY <2>1, <1>0 DEF NextMsg
    <3>2. m \in Tried' <=> m[2] <= tried[p] + 1
      BY <2>1, <1>3 DEF Tried
    <3>3. m \in Tried <=> m[2] <= tried[p]
      BY <2>1 DEF Tried
    <3> QED
      BY <1>0, <3>1, <3>2, <3>3
  <2>2. CASE m[1] # p
    <3>1. m # NextMsg(p) /\ tried'[m[1]] = tried[m[1]]
      BY <2>2, <1>0, <1>1, <1>3
    <3> QED
      BY <3>1 DEF Tried
  <2> QED
    BY <2>1, <2>2
<1>5. Tried' = Tried \cup {NextMsg(p)}
  <2>1. Tried \subseteq Msg /\ Tried' \subseteq Msg
    BY DEF Tried, Msg
  <2> QED
    BY <2>1, <1>1, <1>4
<1>6. tried' \in [Producers -> 0 .. MaxSends]
  BY <1>0, BoundsAssumption
<1> QED
  BY <1>1, <1>2, <1>5, <1>6

LEMMA SendAcceptedInv ==
    ASSUME QueueInv, [Next]_vars, NEW p \in Producers, SendAccepted(p)
    PROVE  QueueInv'
<1> USE DEF QueueInv
<1>0. /\ queue \in Seq(Msg) /\ accepted \in Seq(Msg) /\ started \in Seq(Msg)
      /\ Len(queue) \in Nat /\ Len(accepted) \in Nat /\ Len(started) \in Nat
      /\ dropped \in Nat
  BY DEF TypeOK
<1>1. /\ NextMsg(p) \in Msg /\ NextMsg(p) \notin Tried
      /\ Tried' = Tried \cup {NextMsg(p)} /\ tried' \in [Producers -> 0 .. MaxSends]
  BY TriedGrows DEF SendAccepted
<1> DEFINE m == NextMsg(p)
<1>2. /\ queue' = Append(queue, m) /\ accepted' = Append(accepted, m) /\ Len(queue) < QueueSize
      /\ started' = started /\ dropped' = dropped
  BY DEF SendAccepted
<1> HIDE DEF m
<1>3. /\ m \in Msg /\ m \notin Tried /\ Tried' = Tried \cup {m}
  BY <1>1 DEF m
<1>4. /\ queue' \in Seq(Msg) /\ accepted' \in Seq(Msg)
      /\ Len(queue') = Len(queue) + 1 /\ Len(accepted') = Len(accepted) + 1
      /\ \A i \in 1 .. Len(queue) : queue'[i] = queue[i]
      /\ \A i \in 1 .. Len(accepted) : accepted'[i] = accepted[i]
      /\ queue'[Len(queue) + 1] = m /\ accepted'[Len(accepted) + 1] = m
  BY <1>0, <1>2, <1>3, AppendProperties
<1>5. TypeOK'
  <2>1. Len(queue') <= QueueSize
    BY <1>0, <1>2, <1>4, BoundsAssumption
  <2> QED
    BY <1>0, <1>1, <1>2, <1>4, <2>1, ControlTypes DEF TypeOK, Labels, HandOf
<1>6. InPlace'
  <2>1. \A i \in 1 .. Len(started) : started[i] = accepted'[i]
    <3>1. 1 .. Len(started) \subseteq 1 .. Len(accepted)
      BY <1>0 DEF InPlace
    <3> QED
      BY <1>4, <3>1 DEF InPlace
  <2>2. \A i \in 1 .. Len(queue') : queue'[i] = accepted'[Len(started) + i]
    <3> TAKE i \in 1 .. Len(queue')
    <3>1. CASE i = Len(queue) + 1
      <4>1. Len(started) + i = Len(accepted) + 1
        BY <3>1, <1>0 DEF InPlace
      <4> QED
        BY <3>1, <4>1, <1>4
    <3>2. CASE i \in 1 .. Len(queue)
      <4>1. Len(started) + i \in 1 .. Len(accepted)
        BY <3>2, <1>0 DEF InPlace
      <4> QED
        BY <3>2, <4>1, <1>4 DEF InPlace
    <3> QED
      BY <3>1, <3>2, <1>0, <1>4
  <2> QED
    <3>1. Len(accepted') = Len(started') + Len(queue')
      BY <1>0, <1>2, <1>4 DEF InPlace
    <3>2. \A i \in 1 .. Len(started') : started'[i] = accepted'[i]
      BY <1>2, <2>1
    <3>3. \A i \in 1 .. Len(queue') : queue'[i] = accepted'[Len(started') + i]
      BY <1>2, <2>2
    <3> QED
      BY <3>1, <3>2, <3>3 DEF InPlace
<1>7. SendsCounted'
  <2>1. IsFiniteSet(Tried') /\ Cardinality(Tried') = Cardinality(Tried) + 1
    BY <1>3, FS_AddElement DEF SendsCounted
  <2> QED
    BY <1>0, <1>2, <1>4, <2>1 DEF SendsCounted
<1>8. AcceptedOnce'
  <2>1. \A i \in 1 .. Len(accepted) : accepted[i] \in Tried /\ accepted[i] # m
    BY <1>3 DEF AcceptedOnce
  <2>2. \A i \in 1 .. Len(accepted') : i \in 1 .. Len(accepted) \/ i = Len(accepted) + 1
    BY <1>0, <1>4
  <2>3. \A i \in 1 .. Len(accepted') : accepted'[i] \in Tried'
    BY <1>3, <1>4, <2>1, <2>2
  <2>4. \A i, j \in 1 .. Len(accepted') : accepted'[i] = accepted'[j] => i = j
    BY <1>4, <2>1, <2>2 DEF AcceptedOnce
  <2> QED
    BY <2>3, <2>4 DEF AcceptedOnce
<1> QED
  BY <1>5, <1>6, <1>7, <1>8

LEMMA SendDroppedInv ==
    ASSUME QueueInv, [Next]_vars, NEW p \in Producers, SendDropped(p)
    PROVE  QueueInv'
<1> USE DEF QueueInv
<1>1. /\ NextMsg(p) \notin Tried
      /\ Tried' = Tried \cup {NextMsg(p)} /\ tried' \in [Producers -> 0 .. MaxSends]
  BY TriedGrows DEF SendDropped
<1>2. UNCHANGED <<queue, accepted, started>> /\ dropped' = dropped + 1
  BY DEF SendDropped
<1>3. TypeOK'
  BY <1>1, <1>2, ControlTypes DEF TypeOK, Labels, HandOf
<1>4. InPlace'
  BY <1>2 DEF InPlace
<1>5. SendsCounted'
  <2>1. IsFiniteSet(Tried') /\ Cardinality(Tried') = Cardinality(Tried) + 1
    BY <1>1, FS_AddElement DEF SendsCounted
  <2>2. Len(accepted) \in Nat /\ dropped \in Nat
    BY DEF TypeOK
  <2> QED
    BY <1>2, <2>1, <2>2 DEF SendsCounted
<1>6. AcceptedOnce'
  BY <1>1, <1>2 DEF AcceptedOnce
<1> QED
  BY <1>3, <1>4, <1>5, <1>6

(* What a worker takes is the next message that was accepted. *)
LEMMA TakeMoves ==
    ASSUME QueueInv, NEW w \in Workers, Take(w)
    PROVE  /\ queue' \in Seq(Msg) /\ started' \in Seq(Msg)
           /\ Len(queue') = Len(queue) - 1 /\ Len(started') = Len(started) + 1
           /\ \A i \in 1 .. Len(queue') : queue'[i] = queue[i + 1] /\ i + 1 \in 1 .. Len(queue)
           /\ \A i \in 1 .. Len(started) : started'[i] = started[i]
           /\ Head(queue) = accepted[Len(started) + 1]
           /\ started'[Len(started) + 1] = Head(queue)
           /\ Len(started) + 1 \in 1 .. Len(accepted)
           /\ Head(queue) \in Msg
           /\ UNCHANGED <<accepted, tried, dropped>>
<1> USE DEF QueueInv
<1>0. /\ queue \in Seq(Msg) /\ started \in Seq(Msg) /\ queue # <<>>
      /\ Len(queue) \in Nat \ {0} /\ Len(started) \in Nat
  BY DEF TypeOK, Take
<1>1. /\ queue' = Tail(queue) /\ started' = Append(started, Head(queue))
      /\ UNCHANGED <<accepted, tried, dropped>>
  BY DEF Take, senderVars
<1>2. /\ Head(queue) \in Msg /\ Head(queue) = queue[1] /\ Tail(queue) \in Seq(Msg)
      /\ Len(Tail(queue)) = Len(queue) - 1
      /\ \A i \in 1 .. Len(queue) - 1 : Tail(queue)[i] = queue[i + 1]
  BY <1>0
<1>3. queue[1] = accepted[Len(started) + 1] /\ Len(started) + 1 \in 1 .. Len(accepted)
  BY <1>0 DEF InPlace
<1>4. /\ started' \in Seq(Msg) /\ Len(started') = Len(started) + 1
      /\ \A i \in 1 .. Len(started) : started'[i] = started[i]
      /\ started'[Len(started) + 1] = Head(queue)
  BY <1>0, <1>1, <1>2, AppendProperties
<1>5. \A i \in 1 .. Len(queue) - 1 : i + 1 \in 1 .. Len(queue)
  BY <1>0
<1> QED
  BY <1>1, <1>2, <1>3, <1>4, <1>5

LEMMA TakeInv ==
    ASSUME QueueInv, [Next]_vars, NEW w \in Workers, Take(w)
    PROVE  QueueInv'
<1> USE DEF QueueInv
<1>0. Len(queue) \in Nat /\ Len(started) \in Nat /\ Len(accepted) \in Nat
  BY DEF TypeOK
<1>1. /\ queue' \in Seq(Msg) /\ started' \in Seq(Msg)
      /\ Len(queue') = Len(queue) - 1 /\ Len(started') = Len(started) + 1
      /\ \A i \in 1 .. Len(queue') : queue'[i] = queue[i + 1] /\ i + 1 \in 1 .. Len(queue)
      /\ \A i \in 1 .. Len(started) : started'[i] = started[i]
      /\ Head(queue) = accepted[Len(started) + 1]
      /\ started'[Len(started) + 1] = Head(queue)
      /\ UNCHANGED <<accepted, tried, dropped>>
  BY TakeMoves
<1>2. TypeOK'
  <2>1. Len(queue') <= QueueSize
    BY <1>0, <1>1, BoundsAssumption DEF TypeOK
  <2> QED
    BY <1>1, <2>1, ControlTypes DEF TypeOK, Labels, HandOf
<1>3. InPlace'
  <2>1. \A i \in 1 .. Len(started') : started'[i] = accepted[i]
    <3> TAKE i \in 1 .. Len(started')
    <3>1. i \in 1 .. Len(started) \/ i = Len(started) + 1
      BY <1>0, <1>1
    <3> QED
      BY <3>1, <1>1 DEF InPlace
  <2>2. \A i \in 1 .. Len(queue') : queue'[i] = accepted[Len(started') + i]
    <3> TAKE i \in 1 .. Len(queue')
    <3>1. queue[i + 1] = accepted[Len(started) + (i + 1)]
      BY <1>1 DEF InPlace
    <3>2. Len(started) + (i + 1) = Len(started') + i
      BY <1>0, <1>1
    <3> QED
      BY <3>1, <3>2, <1>1
  <2>3. Len(accepted) = Len(started') + Len(queue')
    BY <1>0, <1>1 DEF InPlace
  <2> QED
    BY <1>1, <2>1, <2>2, <2>3 DEF InPlace
<1>4. SendsCounted' /\ AcceptedOnce'
  BY <1>1 DEF SendsCounted, AcceptedOnce, Tried
<1> QED
  BY <1>2, <1>3, <1>4

LEMMA NextQueueInv == QueueInv /\ [Next]_vars => QueueInv'
<1> SUFFICES ASSUME QueueInv, [Next]_vars PROVE QueueInv'
  OBVIOUS
<1>1. CASE MessagesRest
  <2>1. TypeOK'
    BY <1>1, ControlTypes DEF MessagesRest, QueueInv, TypeOK, Labels, HandOf
  <2>2. InPlace' /\ SendsCounted' /\ AcceptedOnce'
    BY <1>1 DEF MessagesRest, QueueInv, InPlace, SendsCounted, AcceptedOnce, Tried
  <2> QED
    BY <2>1, <2>2 DEF QueueInv
<1> QED
  BY <1>1, QueueMoves, SendAcceptedInv, SendDroppedInv, TakeInv

-------------------------------------------------------------------------------
(* To the queue, what a read loop does beside its call is nothing. *)
LEMMA ReadStepIsStep ==
    ASSUME [ReadNext]_<<vars, readVars>>
    PROVE  [Next]_vars
<1>1. ASSUME NEW p \in Producers, ReadBody(p)
      PROVE  Next
  BY <1>1 DEF ReadBody, Next
<1>2. ASSUME NEW p \in Producers, ReadHead(p) \/ ReadGarbled(p) \/ Deadline(p) \/ ReadEnds(p)
      PROVE  UNCHANGED vars
  BY <1>2 DEF ReadHead, ReadGarbled, Deadline, ReadEnds
<1> QED
  BY <1>1, <1>2 DEF ReadNext, Next

LEMMA QueueInvAlways == ReadSpec => []QueueInv
<1>1. QueueInv /\ [ReadNext]_<<vars, readVars>> => QueueInv'
  BY ReadStepIsStep, NextQueueInv
<1>2. ReadInit => QueueInv
  BY InitQueueInv DEF ReadInit
<1> QED
  BY <1>1, <1>2, PTL DEF ReadSpec

LEMMA InPlaceIsWhole ==
    ASSUME TypeOK, InPlace
    PROVE  started \o queue = accepted
<1>0. /\ started \in Seq(Msg) /\ queue \in Seq(Msg) /\ accepted \in Seq(Msg)
      /\ Len(started) \in Nat /\ Len(queue) \in Nat
  BY DEF TypeOK
<1> DEFINE all == started \o queue
<1>1. /\ all \in Seq(Msg) /\ Len(all) = Len(started) + Len(queue)
      /\ \A i \in 1 .. Len(started) + Len(queue) :
            all[i] = IF i <= Len(started) THEN started[i] ELSE queue[i - Len(started)]
  BY <1>0, ConcatProperties
<1> HIDE DEF all
<1>2. ASSUME NEW i \in 1 .. Len(started) + Len(queue)
      PROVE  all[i] = accepted[i]
  <2>1. CASE i <= Len(started)
    BY <2>1, <1>0, <1>1 DEF InPlace
  <2>2. CASE ~(i <= Len(started))
    <3>1. i - Len(started) \in 1 .. Len(queue) /\ Len(started) + (i - Len(started)) = i
      BY <2>2, <1>0
    <3> QED
      BY <2>2, <3>1, <1>1 DEF InPlace
  <2> QED
    BY <2>1, <2>2
<1>3. Len(all) = Len(accepted)
  BY <1>1 DEF InPlace
<1>4. all = accepted
  BY <1>0, <1>1, <1>2, <1>3, SeqEqual
<1> QED
  BY <1>4 DEF all

(* Every message that a read loop sent was taken, is still queued, or is     *)
(* counted as dropped (global_mq.go:104-123).                                *)
THEOREM NothingGoesMissingAlways == ReadSpec => []NothingGoesMissing
<1>1. QueueInv => NothingGoesMissing
  BY InPlaceIsWhole DEF QueueInv, SendsCounted, Tried, NothingGoesMissing
<1> QED
  BY <1>1, QueueInvAlways, PTL

-------------------------------------------------------------------------------
(* What a step does to the workers: one takes a message, or it dies, or      *)
(* nobody is more at risk than before.                                       *)
LEMMA WorkersMove ==
    ASSUME TypeOK, [Next]_vars
    PROVE  \/ \E w \in Workers : Take(w)
           \/ \E w \in Workers : Die(w)
           \/ Dead' \subseteq Dead /\ Risking' \subseteq Risking /\ started' = started
<1>0. /\ pc \in [Workers -> Labels] /\ hand \in [Workers -> HandOf]
      /\ Tick \notin Panics /\ Nothing \notin Panics
  BY MsgAssumption DEF TypeOK, Labels, HandOf
<1>1. ASSUME UNCHANGED workVars \/ StartWorker
      PROVE  Dead' \subseteq Dead /\ Risking' \subseteq Risking /\ started' = started
  BY <1>1 DEF workVars, StartWorker, Dead, Risking
<1>2. ASSUME NEW w \in Workers,
             TakeTick(w) \/ Exit(w) \/ RunEvent(w) \/ RunLogic(w) \/ Hang(w)
      PROVE  Dead' \subseteq Dead /\ Risking' \subseteq Risking /\ started' = started
  <2>1. \E l \in {"loop", "event", "logic", "stuck", "done"} : Goto(w, l)
    BY <1>2 DEF TakeTick, Exit, RunEvent, RunLogic, Hang, Finish
  <2>2. Dead' \subseteq Dead
    BY <2>1, <1>0 DEF Goto, Dead
  <2>3. \/ hand' = hand
        \/ \E m \in {Tick, Nothing} : hand' = [hand EXCEPT ![w] = m]
    BY <1>2 DEF TakeTick, Exit, RunEvent, RunLogic, Hang, Finish
  <2>4. Risking' \subseteq Risking
    BY <2>3, <1>0 DEF Risking
  <2>5. started' = started
    BY <1>2 DEF TakeTick, Exit, RunEvent, RunLogic, Hang
  <2> QED
    BY <2>2, <2>4, <2>5
<1>3. ASSUME NEW p \in Producers, Send(p) \/ SendPanic(p)
      PROVE  UNCHANGED workVars
  BY <1>3 DEF Send, SendPanic
<1>4. ASSUME StopCancel \/ StopClose \/ UNCHANGED vars
      PROVE  UNCHANGED workVars
  BY <1>4 DEF StopCancel, StopClose, vars
<1> QED
  BY <1>1, <1>2, <1>3, <1>4 DEF Next, QueueNext, Process

PoisonInv == QueueInv /\ OnePerPoison

LEMMA InitPoisonInv == Init => PoisonInv
<1> SUFFICES ASSUME Init PROVE PoisonInv
  OBVIOUS
<1>1. Dead = {} /\ Risking = {}
  BY MsgAssumption DEF Init, Dead, Risking
<1>2. Poison = {}
  BY DEF Init, Poison, RangeOf
<1>3. OnePerPoison
  BY <1>1, <1>2, FS_EmptySet DEF OnePerPoison
<1> QED
  BY <1>3, InitQueueInv DEF PoisonInv

(* A set of workers, or of messages, that gains at most one more. *)
LEMMA AtMostOneMore ==
    ASSUME NEW S, IsFiniteSet(S), NEW x, NEW T, T \subseteq S \cup {x}
    PROVE  IsFiniteSet(T) /\ Cardinality(T) \in Nat /\ Cardinality(S) \in Nat
           /\ Cardinality(T) <= Cardinality(S) + 1
<1>1. IsFiniteSet(S \cup {x}) /\ Cardinality(S \cup {x}) <= Cardinality(S) + 1
  <2>1. Cardinality(S) \in Nat
    BY FS_CardinalityType
  <2>2. /\ IsFiniteSet(S \cup {x})
        /\ \/ Cardinality(S \cup {x}) = Cardinality(S)
           \/ Cardinality(S \cup {x}) = Cardinality(S) + 1
    BY FS_AddElement
  <2> QED
    BY <2>1, <2>2
<1>2. IsFiniteSet(T) /\ Cardinality(T) <= Cardinality(S \cup {x})
  BY <1>1, FS_Subset
<1>3. Cardinality(S) \in Nat /\ Cardinality(T) \in Nat /\ Cardinality(S \cup {x}) \in Nat
  BY <1>1, <1>2, FS_CardinalityType
<1> QED
  BY <1>1, <1>2, <1>3

LEMMA TakePoison ==
    ASSUME PoisonInv, NEW w \in Workers, Take(w)
    PROVE  OnePerPoison'
<1> USE DEF PoisonInv, OnePerPoison
<1>0. /\ pc \in [Workers -> Labels] /\ hand \in [Workers -> HandOf]
      /\ Len(started) \in Nat
  BY DEF QueueInv, TypeOK, Labels, HandOf
<1>1. /\ Len(started') = Len(started) + 1
      /\ \A i \in 1 .. Len(started) : started'[i] = started[i]
      /\ Head(queue) = accepted[Len(started) + 1]
      /\ started'[Len(started) + 1] = Head(queue)
      /\ Len(started) + 1 \in 1 .. Len(accepted)
  BY TakeMoves
<1> DEFINE m == Head(queue)
<1>2. RangeOf(started') = RangeOf(started) \cup {m}
  BY <1>0, <1>1 DEF RangeOf
<1>3. m \notin RangeOf(started)
  <2> SUFFICES ASSUME NEW i \in 1 .. Len(started), started[i] = m PROVE FALSE
    BY DEF RangeOf
  <2>1. started[i] = accepted[i] /\ i \in 1 .. Len(accepted)
    BY <1>0, <1>1 DEF QueueInv, InPlace
  <2> QED
    BY <2>1, <1>0, <1>1 DEF QueueInv, AcceptedOnce
<1>4. Dead' \subseteq Dead
  BY <1>0 DEF Take, Goto, Dead
<1>5. hand' = [hand EXCEPT ![w] = m]
  BY DEF Take
<1> HIDE DEF m
<1>6. IsFiniteSet(Dead') /\ Cardinality(Dead') <= Cardinality(Dead)
  BY <1>4, FS_Subset
<1>7. /\ Cardinality(Dead) \in Nat /\ Cardinality(Dead') \in Nat
      /\ Cardinality(Risking) \in Nat /\ Cardinality(Poison) \in Nat
  BY <1>6, FS_CardinalityType
<1>8. CASE m \in Panics
  <2>1. Poison' = Poison \cup {m} /\ m \notin Poison
    BY <1>2, <1>3, <1>8 DEF Poison
  <2>2. IsFiniteSet(Poison') /\ Cardinality(Poison') = Cardinality(Poison) + 1
    BY <2>1, FS_AddElement
  <2>3. Risking' \subseteq Risking \cup {w}
    BY <1>0, <1>5 DEF Risking
  <2>4. /\ IsFiniteSet(Risking') /\ Cardinality(Risking') \in Nat
        /\ Cardinality(Risking') <= Cardinality(Risking) + 1
    BY <2>3, AtMostOneMore
  <2> QED
    BY <1>6, <1>7, <2>2, <2>4
<1>9. CASE m \notin Panics
  <2>1. Poison' = Poison
    BY <1>2, <1>9 DEF Poison
  <2>2. Risking' \subseteq Risking
    BY <1>0, <1>5, <1>9 DEF Risking
  <2>3. IsFiniteSet(Risking') /\ Cardinality(Risking') <= Cardinality(Risking)
    BY <2>2, FS_Subset
  <2>4. Cardinality(Risking') \in Nat
    BY <2>3, FS_CardinalityType
  <2> QED
    BY <1>6, <1>7, <2>1, <2>3, <2>4
<1> QED
  BY <1>8, <1>9

(* Who dies had in hand what it dies of, and has it no more. *)
LEMMA DiePoison ==
    ASSUME PoisonInv, Tick \notin HasLogic, NEW w \in Workers, Die(w)
    PROVE  OnePerPoison'
<1> USE DEF PoisonInv, OnePerPoison
<1>0. /\ pc \in [Workers -> Labels] /\ hand \in [Workers -> HandOf]
      /\ Nothing \notin Panics
  BY MsgAssumption DEF QueueInv, TypeOK, Labels, HandOf
<1>1. hand' = [hand EXCEPT ![w] = Nothing] /\ pc' = [pc EXCEPT ![w] = "dead"]
  BY DEF Die, Finish, Goto
<1>2. hand[w] \in Panics
  BY DEF Die
<1>3. w \in Risking /\ Risking' = Risking \ {w}
  BY <1>0, <1>1, <1>2 DEF Risking
<1>4. Dead' \subseteq Dead \cup {w}
  BY <1>0, <1>1 DEF Dead
<1>5. Poison' = Poison
  BY DEF Die, Poison
<1>6. IsFiniteSet(Risking') /\ Cardinality(Risking') = Cardinality(Risking) - 1
  BY <1>3, FS_RemoveElement
<1>7. /\ IsFiniteSet(Dead') /\ Cardinality(Dead') \in Nat /\ Cardinality(Dead) \in Nat
      /\ Cardinality(Dead') <= Cardinality(Dead) + 1
  BY <1>4, AtMostOneMore
<1>8. Cardinality(Risking) \in Nat /\ Cardinality(Poison) \in Nat
  BY FS_CardinalityType
<1> QED
  BY <1>5, <1>6, <1>7, <1>8

LEMMA NextPoisonInv ==
    ASSUME Tick \notin HasLogic, PoisonInv, [Next]_vars
    PROVE  PoisonInv'
<1>1. ASSUME Dead' \subseteq Dead, Risking' \subseteq Risking, started' = started
      PROVE  OnePerPoison'
  <2>1. /\ IsFiniteSet(Dead') /\ Cardinality(Dead') <= Cardinality(Dead)
        /\ IsFiniteSet(Risking') /\ Cardinality(Risking') <= Cardinality(Risking)
    BY <1>1, FS_Subset DEF PoisonInv, OnePerPoison
  <2>2. /\ Cardinality(Dead) \in Nat /\ Cardinality(Dead') \in Nat
        /\ Cardinality(Risking) \in Nat /\ Cardinality(Risking') \in Nat
        /\ Cardinality(Poison) \in Nat
    BY <2>1, FS_CardinalityType DEF PoisonInv, OnePerPoison
  <2>3. Poison' = Poison
    BY <1>1 DEF Poison
  <2> QED
    BY <2>1, <2>2, <2>3 DEF PoisonInv, OnePerPoison
<1>2. OnePerPoison'
  BY <1>1, WorkersMove, TakePoison, DiePoison DEF PoisonInv, QueueInv
<1> QED
  BY <1>2, NextQueueInv DEF PoisonInv

(* A message that makes its handler panic costs one worker, never a second:  *)
(* what is taken is taken once and is not handed out again                   *)
(* (global_mq.go:143-150).                                                   *)
THEOREM PoisonKillsOnceAlways == ReadSpec => []PoisonKillsOnce
<1>1. CASE Tick \in HasLogic
  <2>1. PoisonKillsOnce
    BY <1>1 DEF PoisonKillsOnce
  <2> QED
    BY <2>1, PTL
<1>2. CASE Tick \notin HasLogic
  <2>1. PoisonInv => PoisonKillsOnce
    <3> SUFFICES ASSUME PoisonInv PROVE PoisonKillsOnce
      OBVIOUS
    <3>1. /\ Cardinality(Dead) \in Nat /\ Cardinality(Risking) \in Nat
          /\ Cardinality(Poison) \in Nat
          /\ Cardinality(Dead) + Cardinality(Risking) <= Cardinality(Poison)
      BY FS_CardinalityType DEF PoisonInv, OnePerPoison
    <3>2. Cardinality(Dead) <= Cardinality(Poison)
      BY <3>1
    <3> QED
      BY <3>2 DEF PoisonKillsOnce, Dead, Poison
  <2>2. PoisonInv /\ [ReadNext]_<<vars, readVars>> => PoisonInv'
    BY <1>2, ReadStepIsStep, NextPoisonInv
  <2>3. ReadInit => PoisonInv
    BY InitPoisonInv DEF ReadInit
  <2> QED
    BY <2>1, <2>2, <2>3, PTL DEF ReadSpec
<1> QED
  BY <1>1, <1>2

-------------------------------------------------------------------------------
(* The refinement: Send accepts, Take delivers, the rest stutters.           *)
LEMMA DeliveryStep ==
    ASSUME QueueInv, QueueInv', [Next]_vars
    PROVE  [Delivery!Accept \/ Delivery!Deliver]_<<accepted, started>>
<1>1. ASSUME NEW p \in Producers, SendAccepted(p)
      PROVE  Delivery!Accept
  <2>1. NextMsg(p) \in Msg
    BY <1>1, TriedGrows DEF QueueInv, SendAccepted
  <2>2. accepted' = Append(accepted, NextMsg(p)) /\ started' = started
    BY <1>1 DEF SendAccepted
  <2> QED
    BY <2>1, <2>2 DEF Delivery!Accept
<1>2. ASSUME NEW w \in Workers, Take(w)
      PROVE  Delivery!Deliver
  <2>1. /\ Len(started') = Len(started) + 1 /\ Len(started') \in 1 .. Len(accepted)
        /\ accepted' = accepted
    BY <1>2, TakeMoves
  <2>2. \A i \in 1 .. Len(started') : started'[i] = accepted[i]
    BY <2>1 DEF QueueInv, InPlace
  <2>3. /\ started' \in Seq(Msg) /\ accepted \in Seq(Msg) /\ Len(started) \in Nat
        /\ Len(accepted) \in Nat
    BY DEF QueueInv, TypeOK
  <2> DEFINE front == SubSeq(accepted, 1, Len(started'))
  <2>4. /\ front \in Seq(Msg) /\ Len(front) = Len(started')
        /\ \A i \in 1 .. Len(started') : front[i] = accepted[i]
    BY <2>1, <2>3, SubSeqProperties
  <2> HIDE DEF front
  <2>5. started' = front
    BY <2>2, <2>3, <2>4, SeqEqual
  <2>6. Len(started') \in Len(started) + 1 .. Len(accepted)
    BY <2>1, <2>3
  <2> QED
    BY <2>1, <2>5, <2>6 DEF Delivery!Deliver, front
<1> QED
  BY <1>1, <1>2, QueueMoves DEF SendDropped, MessagesRest

(* The queue hands to the workers what SendToGlobalQueue accepted, in that   *)
(* order and at most once, panics, a full queue and a Stop included          *)
(* (global_mq.go:104-174).                                                   *)
THEOREM DeliversInOrderHolds == ReadSpec => DeliversInOrder
<1>1. QueueInv /\ QueueInv' /\ [ReadNext]_<<vars, readVars>>
        => [Delivery!Accept \/ Delivery!Deliver]_<<accepted, started>>
  BY ReadStepIsStep, DeliveryStep
<1>2. ReadInit => Delivery!Init
  BY DEF ReadInit, Init, Delivery!Init
<1>3. ReadSpec => Delivery!Spec
  BY <1>1, <1>2, QueueInvAlways, PTL DEF ReadSpec, Delivery!Spec
<1> QED
  BY <1>3 DEF DeliversInOrder

-------------------------------------------------------------------------------
(* Where the frames of a stream are.  HeadAt is defined by recursion, so     *)
(* that there is such a function, and what it is, goes by the least number   *)
(* for which it would not be so.                                             *)
LEMMA LeastNumber ==
    ASSUME NEW S, S \subseteq Nat, S # {}
    PROVE  \E k \in S : \A j \in S : ~(j < k)
<1>1. \E k \in S : \A j \in S : <<j, k>> \notin OpToRel(<, Nat)
  BY WFMin, NatLessThanWellFounded
<1>2. ASSUME NEW j \in S, NEW k \in S, j < k
      PROVE  <<j, k>> \in OpToRel(<, Nat)
  BY <1>2 DEF OpToRel
<1> QED
  BY <1>1, <1>2

(* A function that is as HeadAt should be, up to the k-th frame. *)
IsHeadAt(f, k) ==
    /\ f \in [1 .. k -> Nat]
    /\ \A n \in 1 .. k :
          f[n] = IF n = 1 THEN 0 ELSE f[n - 1] + HeadLen + BodyLen[n - 1]

LEMMA HeadAtExists == \E f : IsHeadAt(f, MaxSends + 1)
<1> DEFINE Missing == {k \in 0 .. MaxSends + 1 : ~\E f : IsHeadAt(f, k)}
<1>0. MaxSends \in Nat /\ HeadLen \in Nat /\ \A n \in 1 .. MaxSends : BodyLen[n] \in Nat
  BY BoundsAssumption, FrameAssumption
<1> SUFFICES ASSUME Missing # {} PROVE FALSE
  BY <1>0
<1>1. PICK k \in Missing : \A j \in Missing : ~(j < k)
  <2>1. Missing \subseteq Nat
    BY <1>0
  <2> HIDE DEF Missing
  <2> QED
    BY <2>1, LeastNumber
<1>2. k # 0
  <2>1. IsHeadAt([n \in 1 .. 0 |-> 0], 0)
    BY DEF IsHeadAt
  <2> QED
    BY <2>1
<1>3. k \in 0 .. MaxSends + 1 /\ k - 1 \in 0 .. MaxSends
  BY <1>0, <1>2
<1>4. k - 1 \in 0 .. MaxSends + 1 /\ k - 1 < k
  BY <1>0, <1>3
<1>5. PICK f : IsHeadAt(f, k - 1)
  BY <1>1, <1>4
<1> DEFINE last == IF k = 1 THEN 0 ELSE f[k - 1] + HeadLen + BodyLen[k - 1]
           g == [n \in 1 .. k |-> IF n = k THEN last ELSE f[n]]
<1>6. last \in Nat
  BY <1>0, <1>3, <1>5 DEF IsHeadAt
<1>7. g \in [1 .. k -> Nat]
  <2> HIDE DEF last
  <2> QED
    BY <1>3, <1>5, <1>6 DEF IsHeadAt
<1>8. \A n \in 1 .. k :
          g[n] = IF n = 1 THEN 0 ELSE g[n - 1] + HeadLen + BodyLen[n - 1]
  <2> TAKE n \in 1 .. k
  <2>1. CASE n = k
    <3>1. g[n] = last
      BY <2>1
    <3>2. n # 1 => g[n - 1] = f[n - 1]
      BY <1>3, <2>1
    <3> QED
      BY <2>1, <3>1, <3>2
  <2>2. CASE n # k
    <3>1. n \in 1 .. k - 1 /\ g[n] = f[n]
      BY <1>3, <2>2
    <3>2. n # 1 => g[n - 1] = f[n - 1]
      BY <1>3, <2>2
    <3>3. f[n] = IF n = 1 THEN 0 ELSE f[n - 1] + HeadLen + BodyLen[n - 1]
      BY <1>5, <3>1 DEF IsHeadAt
    <3> HIDE DEF g
    <3> QED
      BY <3>1, <3>2, <3>3
  <2> QED
    BY <2>1, <2>2
<1>9. IsHeadAt(g, k)
  <2> HIDE DEF g
  <2> QED
    BY <1>7, <1>8 DEF IsHeadAt
<1> QED
  BY <1>1, <1>9

LEMMA HeadAtIs ==
    \A n \in 1 .. MaxSends + 1 :
        HeadAt[n] = IF n = 1 THEN 0 ELSE HeadAt[n - 1] + HeadLen + BodyLen[n - 1]
<1> DEFINE Def(f) == [n \in 1 .. MaxSends + 1 |->
                        IF n = 1 THEN 0 ELSE f[n - 1] + HeadLen + BodyLen[n - 1]]
<1>1. PICK f : IsHeadAt(f, MaxSends + 1)
  BY HeadAtExists
<1>2. f = Def(f)
  BY <1>1 DEF IsHeadAt
<1>3. HeadAt = CHOOSE g : g = Def(g)
  BY DEF HeadAt
<1>4. HeadAt = Def(HeadAt)
  <2> HIDE DEF Def
  <2> QED
    BY <1>2, <1>3
<1> QED
  BY <1>4

(* Each head is a number, and past those before it. *)
Grows(n) == HeadAt[n] \in Nat /\ \A m \in 1 .. n - 1 : HeadAt[m] < HeadAt[n]

LEMMA HeadAtGrows == \A n \in 1 .. MaxSends + 1 : Grows(n)
<1> DEFINE Wrong == {n \in 1 .. MaxSends + 1 : ~Grows(n)}
<1>0. /\ MaxSends \in Nat /\ HeadLen \in Nat \ {0}
      /\ \A n \in 1 .. MaxSends : BodyLen[n] \in Nat
  BY BoundsAssumption, FrameAssumption
<1> SUFFICES ASSUME Wrong # {} PROVE FALSE
  OBVIOUS
<1>1. PICK n \in Wrong : \A j \in Wrong : ~(j < n)
  <2>1. Wrong \subseteq Nat
    BY <1>0
  <2> HIDE DEF Wrong
  <2> QED
    BY <2>1, LeastNumber
<1>2. CASE n = 1
  <2>1. HeadAt[1] = 0
    BY <1>0, HeadAtIs
  <2> QED
    BY <1>1, <1>2, <2>1 DEF Grows
<1>3. CASE n # 1
  <2>1. /\ n - 1 \in 1 .. MaxSends /\ n - 1 \in 1 .. MaxSends + 1 /\ n - 1 < n
        /\ n \in 1 .. MaxSends + 1 /\ ~Grows(n)
    BY <1>0, <1>3
  <2>2. Grows(n - 1)
    BY <1>1, <2>1
  <2>3. HeadAt[n] = HeadAt[n - 1] + HeadLen + BodyLen[n - 1]
    BY <1>3, <2>1, HeadAtIs
  <2>4. HeadAt[n - 1] \in Nat /\ HeadAt[n] \in Nat /\ HeadAt[n - 1] < HeadAt[n]
    BY <1>0, <2>1, <2>2, <2>3 DEF Grows
  <2>5. ASSUME NEW m \in 1 .. n - 1
        PROVE  HeadAt[m] < HeadAt[n]
    <3>1. CASE m = n - 1
      BY <3>1, <2>4
    <3>2. CASE m # n - 1
      <4>1. m \in 1 .. (n - 1) - 1 /\ m \in 1 .. MaxSends + 1 /\ m < n
        BY <1>0, <2>1, <3>2
      <4>2. HeadAt[m] < HeadAt[n - 1]
        BY <2>2, <4>1 DEF Grows
      <4>3. HeadAt[m] \in Nat
        BY <1>1, <4>1 DEF Grows
      <4> QED
        BY <2>4, <4>2, <4>3
    <3> QED
      BY <3>1, <3>2
  <2> QED
    BY <2>1, <2>4, <2>5 DEF Grows
<1> QED
  BY <1>2, <1>3

(* The n-th frame has its place in the stream, and no head is inside it.     *)
LEMMA FramePlace ==
    ASSUME NEW n \in 1 .. MaxSends
    PROVE  /\ n \in 1 .. MaxSends + 1 /\ n + 1 \in 1 .. MaxSends + 1
           /\ HeadAt[n] \in Nat /\ HeadAt[n + 1] \in Nat
           /\ HeadAt[n + 1] = HeadAt[n] + HeadLen + BodyLen[n]
           /\ HeadAt[n + 1] <= StreamEnd
           /\ \A m \in 1 .. MaxSends + 1 :
                 HeadAt[n] <= HeadAt[m] /\ HeadAt[m] < HeadAt[n + 1] => m = n
<1>0. MaxSends \in Nat /\ n \in 1 .. MaxSends + 1 /\ n + 1 \in 1 .. MaxSends + 1
  BY BoundsAssumption
<1>1. \A m \in 1 .. MaxSends + 1 :
          HeadAt[m] \in Nat /\ \A i \in 1 .. m - 1 : HeadAt[i] < HeadAt[m]
  BY HeadAtGrows DEF Grows
<1>2. HeadAt[n + 1] = HeadAt[n] + HeadLen + BodyLen[n]
  <2>1. n + 1 # 1 /\ (n + 1) - 1 = n
    BY <1>0
  <2> QED
    BY <1>0, <2>1, HeadAtIs
<1>3. HeadAt[n + 1] <= StreamEnd
  <2>1. n + 1 = MaxSends + 1 \/ n + 1 \in 1 .. (MaxSends + 1) - 1
    BY <1>0
  <2>2. MaxSends + 1 \in 1 .. MaxSends + 1
    BY <1>0
  <2> QED
    BY <1>0, <1>1, <2>1, <2>2 DEF StreamEnd
<1>4. ASSUME NEW m \in 1 .. MaxSends + 1,
             HeadAt[n] <= HeadAt[m], HeadAt[m] < HeadAt[n + 1]
      PROVE  m = n
  <2>1. ~(m < n)
    <3> SUFFICES ASSUME m < n PROVE FALSE
      OBVIOUS
    <3>1. m \in 1 .. n - 1
      BY <1>0
    <3> QED
      BY <1>0, <1>1, <1>4, <3>1
  <2>2. ~(n + 1 < m)
    <3> SUFFICES ASSUME n + 1 < m PROVE FALSE
      OBVIOUS
    <3>1. n + 1 \in 1 .. m - 1
      BY <1>0
    <3> QED
      BY <1>0, <1>1, <1>4, <3>1
  <2>3. m # n + 1
    BY <1>0, <1>1, <1>4
  <2> QED
    BY <1>0, <2>1, <2>2, <2>3
<1> QED
  BY <1>0, <1>1, <1>2, <1>3, <1>4

-------------------------------------------------------------------------------
(* The inductive invariant of the read loops: each that is in step has sent  *)
(* its frames in order, and is at the head or at the body of the next.       *)
FrameInStep(p) ==
    /\ \A n \in 1 .. tried[p] : carried[<<p, n>>] = n
    /\ Reading(p) =>
          \/ need[p] = 0 /\ pos[p] = HeadAt[tried[p] + 1]
          \/ /\ tried[p] < MaxSends /\ need[p] = BodyLen[tried[p] + 1]
             /\ pos[p] = HeadAt[tried[p] + 1] + HeadLen

FrameInv == TypeOK /\ ReadTypeOK /\ \A p \in Producers \ torn : FrameInStep(p)

LEMMA InitFrameInv == ReadInit => FrameInv
<1> SUFFICES ASSUME ReadInit PROVE FrameInv
  OBVIOUS
<1>1. TypeOK
  BY InitQueueInv DEF ReadInit, QueueInv
<1>2. 1 \in 1 .. MaxSends + 1 /\ MaxSends \in Nat
  BY BoundsAssumption
<1>3. HeadAt[1] = 0
  BY <1>2, HeadAtIs
<1>4. MaxSends + 1 \in 1 .. MaxSends + 1 /\ StreamEnd \in Nat
  BY <1>2, HeadAtGrows DEF Grows, StreamEnd
<1>5. ReadTypeOK
  BY <1>2, <1>4 DEF ReadInit, ReadTypeOK
<1>6. ASSUME NEW p \in Producers
      PROVE  FrameInStep(p)
  <2>1. tried[p] = 0 /\ need[p] = 0 /\ pos[p] = 0
    BY DEF ReadInit, Init
  <2> QED
    BY <2>1, <1>3 DEF FrameInStep
<1> QED
  BY <1>1, <1>5, <1>6 DEF FrameInv

(* Who does not move stays in step. *)
LEMMA StaysInStep ==
    ASSUME NEW p, FrameInStep(p), crashed => crashed',
           tried'[p] = tried[p], pos'[p] = pos[p], need'[p] = need[p],
           reader'[p] = reader[p],
           \A n \in 1 .. tried[p] : carried'[<<p, n>>] = carried[<<p, n>>]
    PROVE  FrameInStep(p)'
BY DEF FrameInStep, Reading

(* Those who only take units of their stream. *)
LEMMA UnitsTaken ==
    ASSUME FrameInv, NEW p \in Producers, NEW u, NEW next,
           Move(p, u, next), u \in Nat, next \in 0 .. StreamEnd
    PROVE  /\ pos' \in [Producers -> 0 .. StreamEnd]
           /\ need' \in [Producers -> 0 .. StreamEnd]
           /\ pos'[p] = pos[p] + u /\ need'[p] = next
           /\ pos[p] + u <= StreamEnd
           /\ \A q \in Producers : q # p => pos'[q] = pos[q] /\ need'[q] = need[q]
<1>1. /\ pos \in [Producers -> 0 .. StreamEnd] /\ need \in [Producers -> 0 .. StreamEnd]
      /\ StreamEnd \in Nat
  <2>1. MaxSends + 1 \in 1 .. MaxSends + 1
    BY BoundsAssumption
  <2> QED
    BY <2>1, HeadAtGrows DEF FrameInv, ReadTypeOK, Grows, StreamEnd
<1>2. pos[p] + u \in 0 .. StreamEnd
  BY <1>1 DEF Move
<1> QED
  BY <1>1, <1>2 DEF Move

(* In step, the head that is read is the next frame's. *)
LEMMA HeadInStep ==
    ASSUME FrameInv, NEW p \in Producers \ torn, Reading(p), need[p] = 0
    PROVE  pos[p] = HeadAt[tried[p] + 1]
<1>1. tried[p] \in 0 .. MaxSends /\ MaxSends \in Nat
  BY BoundsAssumption DEF FrameInv, TypeOK
<1>2. tried[p] < MaxSends => BodyLen[tried[p] + 1] # 0
  BY <1>1, FrameAssumption
<1> QED
  BY <1>2 DEF FrameInv, FrameInStep

LEMMA ReadHeadInv ==
    ASSUME FrameInv, NEW p \in Producers, ReadHead(p)
    PROVE  FrameInv'
<1> USE DEF FrameInv
<1>0. /\ MaxSends \in Nat /\ HeadLen \in Nat \ {0} /\ BodyLen \in [1 .. MaxSends -> Nat \ {0}]
      /\ reader \in [Producers -> {"reading", "ended"}] /\ torn \subseteq Producers
      /\ tried \in [Producers -> 0 .. MaxSends]
  BY BoundsAssumption, FrameAssumption DEF ReadTypeOK, TypeOK
<1>1. /\ UNCHANGED <<torn, carried, vars>> /\ Reading(p) /\ need[p] = 0
      /\ reader' \in [Producers -> {"reading", "ended"}]
      /\ \A q \in Producers : q # p => reader'[q] = reader[q]
  BY <1>0 DEF ReadHead, End
<1>2. TypeOK' /\ crashed' = crashed /\ tried' = tried
  BY <1>1 DEF TypeOK, vars, queueVars, workVars, senderVars
<1>3. PICK next \in 0 .. StreamEnd :
          /\ Move(p, HeadLen, next)
          /\ \/ /\ ~AtHead(pos[p])
             \/ /\ UNCHANGED reader
                /\ \E n \in 1 .. MaxSends : HeadAt[n] = pos[p] /\ next = BodyLen[n]
  <2>1. ASSUME NEW n \in 1 .. MaxSends
        PROVE  BodyLen[n] \in 0 .. StreamEnd
    <3>1. BodyLen[n] \in Nat /\ StreamEnd \in Nat
      BY <1>0, HeadAtGrows DEF Grows, StreamEnd
    <3>2. /\ HeadAt[n] \in Nat /\ HeadAt[n + 1] = HeadAt[n] + HeadLen + BodyLen[n]
          /\ HeadAt[n + 1] <= StreamEnd
      BY FramePlace
    <3> QED
      BY <1>0, <3>1, <3>2
  <2> QED
    BY <2>1 DEF ReadHead, BodySize
<1>4. /\ pos' \in [Producers -> 0 .. StreamEnd] /\ need' \in [Producers -> 0 .. StreamEnd]
      /\ pos'[p] = pos[p] + HeadLen /\ need'[p] = next
      /\ \A q \in Producers : q # p => pos'[q] = pos[q] /\ need'[q] = need[q]
  BY <1>0, <1>3, UnitsTaken
<1>5. ReadTypeOK'
  BY <1>1, <1>4 DEF ReadTypeOK
<1>6. ASSUME p \notin torn
      PROVE  FrameInStep(p)'
  <2>1. pos[p] = HeadAt[tried[p] + 1] /\ tried[p] + 1 \in 1 .. MaxSends + 1
    <3>1. tried[p] + 1 \in 1 .. MaxSends + 1
      BY <1>0
    <3> QED
      BY <1>1, <1>6, <3>1, HeadInStep
  <2>2. AtHead(pos[p])
    BY <2>1 DEF AtHead
  <2>3. PICK n \in 1 .. MaxSends : HeadAt[n] = pos[p] /\ next = BodyLen[n]
    BY <1>3, <2>2
  <2>4. n = tried[p] + 1
    <3>1. HeadAt[n] <= HeadAt[tried[p] + 1] /\ HeadAt[tried[p] + 1] < HeadAt[n + 1]
      <4>1. HeadAt[n] \in Nat /\ HeadAt[n + 1] = HeadAt[n] + HeadLen + BodyLen[n]
        BY FramePlace
      <4> QED
        BY <1>0, <2>1, <2>3, <4>1
    <3> QED
      BY <2>1, <3>1, FramePlace
  <2>5. tried[p] < MaxSends
    BY <1>0, <2>4
  <2>6. carried' = carried
    BY <1>1
  <2> QED
    BY <1>2, <1>4, <1>6, <2>1, <2>3, <2>4, <2>5, <2>6 DEF FrameInStep
<1>7. ASSUME NEW q \in Producers \ torn', q # p
      PROVE  FrameInStep(q)'
  BY <1>1, <1>2, <1>4, <1>7, StaysInStep
<1> QED
  BY <1>1, <1>2, <1>5, <1>6, <1>7

(* In step, the body that is read is the next frame's. *)
LEMMA BodyInStep ==
    ASSUME FrameInv, NEW p \in Producers \ torn, Reading(p), need[p] > 0
    PROVE  /\ tried[p] + 1 \in 1 .. MaxSends /\ InHand(p) = tried[p] + 1
           /\ pos[p] + need[p] = HeadAt[tried[p] + 2]
           /\ pos[p] = HeadAt[tried[p] + 1] + HeadLen
           /\ need[p] = BodyLen[tried[p] + 1]
<1> USE DEF FrameInv
<1>0. /\ MaxSends \in Nat /\ HeadLen \in Nat \ {0} /\ BodyLen \in [1 .. MaxSends -> Nat \ {0}]
      /\ tried[p] \in 0 .. MaxSends
  BY BoundsAssumption, FrameAssumption DEF TypeOK
<1>1. /\ tried[p] < MaxSends /\ need[p] = BodyLen[tried[p] + 1]
      /\ pos[p] = HeadAt[tried[p] + 1] + HeadLen
  BY DEF FrameInStep
<1>2. tried[p] + 1 \in 1 .. MaxSends
  BY <1>0, <1>1
<1> DEFINE t == tried[p] + 1
           whole == {n \in 1 .. MaxSends :
                       HeadAt[n] + HeadLen = pos[p] /\ BodyLen[n] = need[p]}
<1>3. t \in whole
  BY <1>1, <1>2
<1>4. ASSUME NEW n \in whole
      PROVE  n = t
  <2>1. HeadAt[n] + HeadLen = HeadAt[t] + HeadLen /\ n \in 1 .. MaxSends
    BY <1>1, <1>4
  <2>2. HeadAt[n] \in Nat /\ HeadAt[t] \in Nat /\ HeadAt[t + 1] = HeadAt[t] + HeadLen + BodyLen[t]
    BY <1>2, <2>1, FramePlace
  <2>3. t \in 1 .. MaxSends /\ BodyLen[t] \in Nat \ {0} /\ n \in 1 .. MaxSends + 1
    BY <1>0, <1>2, <2>1
  <2> HIDE DEF t
  <2>4. HeadAt[n] = HeadAt[t]
    BY <1>0, <2>1, <2>2
  <2>5. HeadAt[t] <= HeadAt[n] /\ HeadAt[n] < HeadAt[t + 1]
    BY <1>0, <2>2, <2>3, <2>4
  <2> QED
    BY <2>3, <2>5, FramePlace
<1>5. InHand(p) = t
  <2>1. InHand(p) = IF whole = {} THEN Garbled ELSE CHOOSE n \in whole : TRUE
    BY DEF InHand
  <2>2. whole = {t}
    BY <1>3, <1>4
  <2> HIDE DEF whole, t
  <2> QED
    BY <2>1, <2>2
<1>6. pos[p] + need[p] = HeadAt[tried[p] + 2]
  <2>1. t + 1 = tried[p] + 2
    BY <1>0
  <2>2. HeadAt[t + 1] = HeadAt[t] + HeadLen + BodyLen[t]
    BY <1>2, FramePlace
  <2>3. pos[p] = HeadAt[t] + HeadLen /\ need[p] = BodyLen[t]
    BY <1>1
  <2> HIDE DEF t
  <2> QED
    BY <2>1, <2>2, <2>3
<1> QED
  BY <1>1, <1>2, <1>5, <1>6

LEMMA ReadBodyInv ==
    ASSUME FrameInv, TypeOK', NEW p \in Producers, ReadBody(p)
    PROVE  FrameInv'
<1> USE DEF FrameInv
<1>0. /\ MaxSends \in Nat /\ tried \in [Producers -> 0 .. MaxSends]
      /\ tried[p] \in 0 .. MaxSends /\ tried[p] < MaxSends
      /\ carried \in [Msg -> (0 .. MaxSends) \cup {Garbled}]
      /\ torn \subseteq Producers
  BY BoundsAssumption DEF ReadTypeOK, TypeOK, ReadBody, Send, SendPanic
<1>1. /\ UNCHANGED <<reader, torn>> /\ Reading(p) /\ need[p] > 0 /\ need[p] \in Nat
      /\ Move(p, need[p], 0) /\ ~crashed
      /\ carried' = [carried EXCEPT ![NextMsg(p)] = InHand(p)]
  BY DEF ReadBody, ReadTypeOK, Reading
<1>2. \/ crashed' /\ tried' = tried
      \/ crashed' = crashed /\ tried' = [tried EXCEPT ![p] = @ + 1]
  BY DEF ReadBody, Send, SendPanic, senderVars
<1>3. /\ pos' \in [Producers -> 0 .. StreamEnd] /\ need' \in [Producers -> 0 .. StreamEnd]
      /\ pos'[p] = pos[p] + need[p] /\ need'[p] = 0
      /\ \A q \in Producers : q # p => pos'[q] = pos[q] /\ need'[q] = need[q]
  <2>1. 0 \in 0 .. StreamEnd
    <3>1. MaxSends + 1 \in 1 .. MaxSends + 1
      BY <1>0
    <3>2. StreamEnd \in Nat
      BY <3>1, HeadAtGrows DEF Grows, StreamEnd
    <3> QED
      BY <3>2
  <2> QED
    BY <1>1, <2>1, UnitsTaken
<1>4. /\ NextMsg(p) \in Msg /\ NextMsg(p) = <<p, tried[p] + 1>>
      /\ InHand(p) \in (0 .. MaxSends) \cup {Garbled}
  <2>1. NextMsg(p) \in Msg
    BY <1>0 DEF NextMsg, Msg
  <2> DEFINE whole == {n \in 1 .. MaxSends :
                         HeadAt[n] + HeadLen = pos[p] /\ BodyLen[n] = need[p]}
  <2>2. InHand(p) = IF whole = {} THEN Garbled ELSE CHOOSE n \in whole : TRUE
    BY DEF InHand
  <2>3. whole \subseteq 0 .. MaxSends
    BY <1>0
  <2> HIDE DEF whole
  <2>4. InHand(p) \in (0 .. MaxSends) \cup {Garbled}
    BY <2>2, <2>3
  <2> QED
    BY <2>1, <2>4 DEF NextMsg
<1>5. ReadTypeOK'
  BY <1>0, <1>1, <1>3, <1>4 DEF ReadTypeOK
<1>6. ASSUME NEW m \in Msg, m # NextMsg(p)
      PROVE  carried'[m] = carried[m]
  BY <1>0, <1>1, <1>6
<1>7. ASSUME NEW q \in Producers, NEW n \in 1 .. MaxSends
      PROVE  <<q, n>> \in Msg
  BY DEF Msg
<1>8. ASSUME p \notin torn
      PROVE  FrameInStep(p)'
  <2>1. /\ InHand(p) = tried[p] + 1 /\ pos[p] + need[p] = HeadAt[tried[p] + 2]
    BY <1>1, <1>8, BodyInStep
  <2>2. carried'[NextMsg(p)] = tried[p] + 1
    BY <1>0, <1>1, <1>4, <2>1
  <2>3. ASSUME NEW n \in 1 .. tried[p]
        PROVE  carried'[<<p, n>>] = n
    <3>1. carried[<<p, n>>] = n
      BY <1>8 DEF FrameInStep
    <3>2. n \in 1 .. MaxSends /\ <<p, n>> # NextMsg(p)
      BY <1>0, <1>4
    <3> QED
      BY <1>6, <1>7, <3>1, <3>2
  <2>4. CASE crashed' /\ tried' = tried
    BY <2>3, <2>4 DEF FrameInStep, Reading
  <2>5. CASE crashed' = crashed /\ tried' = [tried EXCEPT ![p] = @ + 1]
    <3>1. tried'[p] = tried[p] + 1
      BY <1>0, <2>5
    <3>2. \A n \in 1 .. tried'[p] : n \in 1 .. tried[p] \/ n = tried[p] + 1
      BY <1>0, <3>1
    <3>3. tried'[p] + 1 = tried[p] + 2
      BY <1>0, <3>1
    <3>4. \A n \in 1 .. tried'[p] : carried'[<<p, n>>] = n
      BY <1>4, <2>2, <2>3, <3>2
    <3> QED
      BY <1>3, <2>1, <3>3, <3>4 DEF FrameInStep
  <2> QED
    BY <1>2, <2>4, <2>5
<1>9. ASSUME NEW q \in Producers \ torn', q # p
      PROVE  FrameInStep(q)'
  <2>1. tried'[q] = tried[q] /\ tried[q] \in 0 .. MaxSends
    BY <1>0, <1>2, <1>9
  <2>2. ASSUME NEW n \in 1 .. tried[q]
        PROVE  carried'[<<q, n>>] = carried[<<q, n>>]
    <3>1. n \in 1 .. MaxSends /\ <<q, n>> # NextMsg(p)
      BY <1>0, <1>4, <1>9, <2>1
    <3> QED
      BY <1>6, <1>7, <3>1
  <2> QED
    BY <1>1, <1>3, <1>9, <2>1, <2>2, StaysInStep
<1> QED
  BY <1>1, <1>5, <1>8, <1>9

(* The deadline keeps who was at a head there, and tears any other frame.    *)
LEMMA DeadlineInv ==
    ASSUME FrameInv, NEW p \in Producers, Deadline(p)
    PROVE  FrameInv'
<1> USE DEF FrameInv
<1>0. /\ MaxSends \in Nat /\ tried \in [Producers -> 0 .. MaxSends]
      /\ HeadLen \in Nat \ {0} /\ BodyLen \in [1 .. MaxSends -> Nat \ {0}]
      /\ torn \subseteq Producers
      /\ need[p] \in Nat /\ pos[p] \in Nat
  BY BoundsAssumption, FrameAssumption DEF ReadTypeOK, TypeOK
<1>1. /\ UNCHANGED <<reader, carried, vars>> /\ Reading(p)
  BY DEF Deadline
<1>2. TypeOK' /\ crashed' = crashed /\ tried' = tried
  BY <1>1 DEF TypeOK, vars, queueVars, workVars, senderVars
<1>3. PICK got \in 0 .. (IF need[p] = 0 THEN HeadLen ELSE need[p]) - 1 :
          /\ Move(p, got, 0)
          /\ torn' = IF AtHead(pos[p] + got) THEN torn ELSE torn \cup {p}
  BY DEF Deadline
<1>4. /\ got \in Nat /\ (need[p] = 0 => got < HeadLen) /\ (need[p] # 0 => got < need[p])
      /\ 0 \in 0 .. StreamEnd /\ StreamEnd \in Nat
  <2>1. MaxSends + 1 \in 1 .. MaxSends + 1
    BY <1>0
  <2>2. StreamEnd \in Nat
    BY <2>1, HeadAtGrows DEF Grows, StreamEnd
  <2> QED
    BY <1>0, <2>2
<1>5. /\ pos' \in [Producers -> 0 .. StreamEnd] /\ need' \in [Producers -> 0 .. StreamEnd]
      /\ pos'[p] = pos[p] + got /\ need'[p] = 0 /\ pos[p] + got <= StreamEnd
      /\ \A q \in Producers : q # p => pos'[q] = pos[q] /\ need'[q] = need[q]
  BY <1>3, <1>4, UnitsTaken
<1>6. torn \subseteq torn' /\ torn' \subseteq Producers
  BY <1>0, <1>3
<1>7. ReadTypeOK'
  BY <1>1, <1>5, <1>6 DEF ReadTypeOK
<1>8. ASSUME p \notin torn'
      PROVE  FrameInStep(p)'
  <2> DEFINE t == tried[p] + 1
  <2>1. AtHead(pos[p] + got) /\ p \notin torn
    BY <1>3, <1>6, <1>8
  <2>2. PICK m \in 1 .. MaxSends + 1 : HeadAt[m] = pos[p] + got
    BY <2>1 DEF AtHead
  <2>3. t \in 1 .. MaxSends + 1 /\ HeadAt[t] \in Nat
    BY <1>0, HeadAtGrows DEF Grows
  <2>4. need[p] = 0 /\ pos[p] = HeadAt[t]
    <3> SUFFICES ASSUME need[p] > 0 PROVE FALSE
      <4>1. need[p] = 0 \/ need[p] > 0
        BY <1>0
      <4> QED
        BY <1>1, <2>1, <4>1, HeadInStep
    <3>1. /\ t \in 1 .. MaxSends /\ pos[p] = HeadAt[t] + HeadLen /\ need[p] = BodyLen[t]
      BY <1>1, <2>1, BodyInStep
    <3> HIDE DEF t
    <3>2. HeadAt[t + 1] = HeadAt[t] + HeadLen + BodyLen[t]
      BY <3>1, FramePlace
    <3>3. need[p] # 0 /\ got < BodyLen[t] /\ BodyLen[t] \in Nat
      BY <1>0, <1>4, <3>1
    <3>4. HeadAt[m] = HeadAt[t] + HeadLen + got
      BY <2>2, <3>1
    <3>5. HeadAt[t] <= HeadAt[m] /\ HeadAt[m] < HeadAt[t + 1]
      BY <1>0, <1>4, <2>3, <3>2, <3>3, <3>4, SMTT(20)
    <3>6. m = t
      BY <3>1, <3>5, FramePlace
    <3> QED
      BY <1>0, <1>4, <2>3, <3>4, <3>6
  <2>5. got = 0
    <3>1. CASE t \in 1 .. MaxSends
      <4>1. BodyLen[t] \in Nat
        BY <1>0, <3>1
      <4> HIDE DEF t
      <4>2. HeadAt[t + 1] = HeadAt[t] + HeadLen + BodyLen[t]
        BY <3>1, FramePlace
      <4>3. HeadAt[t] <= HeadAt[m] /\ HeadAt[m] < HeadAt[t + 1]
        BY <1>0, <1>4, <2>2, <2>3, <2>4, <4>1, <4>2
      <4>4. m = t
        BY <3>1, <4>3, FramePlace
      <4> QED
        BY <1>4, <2>2, <2>3, <2>4, <4>4
    <3>2. CASE t \notin 1 .. MaxSends
      <4>1. t = MaxSends + 1
        BY <1>0, <2>3, <3>2
      <4>2. HeadAt[t] = StreamEnd
        BY <4>1 DEF StreamEnd
      <4> HIDE DEF t
      <4> QED
        BY <1>4, <1>5, <2>4, <4>2
    <3> QED
      BY <3>1, <3>2
  <2>6. pos'[p] = HeadAt[tried'[p] + 1]
    BY <1>0, <1>2, <1>5, <2>4, <2>5
  <2>7. carried' = carried
    BY <1>1
  <2> QED
    BY <1>2, <1>5, <2>1, <2>6, <2>7 DEF FrameInStep
<1>9. ASSUME NEW q \in Producers \ torn', q # p
      PROVE  FrameInStep(q)'
  BY <1>1, <1>2, <1>5, <1>6, <1>9, StaysInStep
<1> QED
  BY <1>2, <1>7, <1>8, <1>9

(* A body out of step that gives no message, and the end of a read loop.     *)
LEMMA GarbledOrEndInv ==
    ASSUME FrameInv, NEW p \in Producers, ReadGarbled(p) \/ ReadEnds(p)
    PROVE  FrameInv'
<1> USE DEF FrameInv
<1>0. /\ MaxSends \in Nat /\ tried \in [Producers -> 0 .. MaxSends]
      /\ reader \in [Producers -> {"reading", "ended"}] /\ torn \subseteq Producers
      /\ pos \in [Producers -> 0 .. StreamEnd] /\ need \in [Producers -> 0 .. StreamEnd]
      /\ need[p] \in Nat
  BY BoundsAssumption DEF ReadTypeOK, TypeOK
<1>1. /\ UNCHANGED <<torn, carried, vars>> /\ Reading(p)
      /\ reader' \in [Producers -> {"reading", "ended"}]
      /\ \A q \in Producers : q # p => reader'[q] = reader[q]
  BY <1>0 DEF ReadGarbled, ReadEnds, End
<1>2. TypeOK' /\ crashed' = crashed /\ tried' = tried
  BY <1>1 DEF TypeOK, vars, queueVars, workVars, senderVars
<1>3. 0 \in 0 .. StreamEnd
  <2>1. MaxSends + 1 \in 1 .. MaxSends + 1
    BY <1>0
  <2>2. StreamEnd \in Nat
    BY <2>1, HeadAtGrows DEF Grows, StreamEnd
  <2> QED
    BY <2>2
<1>4. /\ pos' \in [Producers -> 0 .. StreamEnd] /\ need' \in [Producers -> 0 .. StreamEnd]
      /\ \A q \in Producers : q # p => pos'[q] = pos[q] /\ need'[q] = need[q]
  <2>1. CASE ReadGarbled(p)
    <3>1. Move(p, need[p], 0)
      BY <2>1 DEF ReadGarbled
    <3> QED
      BY <1>0, <1>3, <3>1, UnitsTaken
  <2>2. CASE ReadEnds(p)
    BY <1>0, <1>3, <2>2 DEF ReadEnds
  <2> QED
    BY <2>1, <2>2
<1>5. ReadTypeOK'
  BY <1>1, <1>4 DEF ReadTypeOK
<1>6. ASSUME p \notin torn
      PROVE  FrameInStep(p)'
  <2>1. ~ReadGarbled(p)
    <3> SUFFICES ASSUME ReadGarbled(p) PROVE FALSE
      OBVIOUS
    <3>1. need[p] > 0 /\ InHand(p) = Garbled
      BY DEF ReadGarbled
    <3>2. InHand(p) = tried[p] + 1 /\ tried[p] \in 0 .. MaxSends
      BY <1>0, <1>1, <1>6, <3>1, BodyInStep
    <3>3. tried[p] + 1 \in Nat
      BY <1>0, <3>2
    <3> QED
      BY <3>1, <3>2, <3>3, FrameAssumption
  <2>2. reader'[p] = "ended"
    BY <1>0, <2>1 DEF ReadEnds, End
  <2>3. carried' = carried
    BY <1>1
  <2> QED
    BY <1>2, <1>6, <2>2, <2>3 DEF FrameInStep, Reading
<1>7. ASSUME NEW q \in Producers \ torn', q # p
      PROVE  FrameInStep(q)'
  BY <1>1, <1>2, <1>4, <1>7, StaysInStep
<1> QED
  BY <1>1, <1>2, <1>5, <1>6, <1>7

LEMMA NextFrameInv ==
    ASSUME FrameInv, TypeOK', [ReadNext]_<<vars, readVars>>
    PROVE  FrameInv'
<1>1. CASE (QueueNext \/ UNCHANGED vars) /\ UNCHANGED readVars
  <2>1. UNCHANGED <<reader, pos, need, torn, carried>>
    BY <1>1 DEF readVars
  <2>2. tried' = tried /\ crashed' = crashed
    BY <1>1 DEF QueueNext, StartWorker, StopCancel, StopClose, Take, TakeTick, Exit,
                Process, RunEvent, RunLogic, Die, Hang, vars, senderVars
  <2>3. ReadTypeOK'
    BY <2>1 DEF FrameInv, ReadTypeOK
  <2>4. \A q \in Producers \ torn' : FrameInStep(q)'
    BY <2>1, <2>2, StaysInStep DEF FrameInv
  <2> QED
    BY <2>3, <2>4 DEF FrameInv
<1> QED
  BY <1>1, ReadHeadInv, ReadBodyInv, DeadlineInv, GarbledOrEndInv DEF ReadNext

LEMMA FrameInvIsInStep == FrameInv => FramesInStep
<1> SUFFICES ASSUME FrameInv PROVE FramesInStep
  OBVIOUS
<1>1. ASSUME NEW p \in Producers \ torn
      PROVE  /\ \A n \in 1 .. tried[p] : carried[<<p, n>>] = n
             /\ Reading(p) /\ need[p] = 0 => pos[p] = HeadAt[tried[p] + 1]
  BY HeadInStep DEF FrameInv, FrameInStep
<1> QED
  BY <1>1 DEF FrameInv, FramesInStep

(* What a connection sends to the queue is what its client sent, frame by    *)
(* frame in order, for as long as no read deadline passes inside a frame,    *)
(* for any lengths of head and bodies (conn.go:401-445).                     *)
THEOREM FramesInStepAlways == ReadSpec => []FramesInStep
<1>1. QueueInv' => TypeOK'
  BY DEF QueueInv
<1> QED
  BY <1>1, InitFrameInv, NextFrameInv, FrameInvIsInStep, QueueInvAlways, PTL DEF ReadSpec
===============================================================================
