--------------------------- MODULE PlayerDataProofs ---------------------------
(* Theorems about the two places where a player's data is between the        *)
(* services and the database: a write-behind executor, for any events, batch *)
(* size and queue size, and the player cache, for any keys, values, filter,  *)
(* sizes and durations.                                                      *)
EXTENDS ShardExecutor, LRUCache, SequenceTheorems, FiniteSetTheorems,
        WellFoundedInduction, TLAPS

-------------------------------------------------------------------------------
(* The write-behind executor.                                                *)

(* The inductive invariant, part by part.                                   *)

InCallbacks == loop \in {"callback", "lastCallback"}

(* A batch that is full is flushed before the next event is taken. *)
BatchHasRoom == loop = "select" => Len(events) < BatchSize

(* NothingLost, position by position: what was accepted is called back,     *)
(* then in the batch, then queued.                                          *)
InPlace ==
    /\ Len(accepted) = Len(called) + Len(events) + Len(queue)
    /\ \A i \in 1 .. Len(called) : called[i].event = accepted[i]
    /\ \A i \in 1 .. Len(events) : events[i] = accepted[Len(called) + i]
    /\ \A i \in 1 .. Len(queue) : queue[i] = accepted[Len(called) + Len(events) + i]

(* No event is accepted twice. *)
AcceptedOnce ==
    \A i, j \in 1 .. Len(accepted) : accepted[i] = accepted[j] => i = j

(* How far the writes can have got. *)
Written == Len(called) + (IF InCallbacks THEN Len(events) ELSE 0)

(* The database holds what was accepted, up to there, in that order.        *)
DbInOrder ==
    /\ \A i \in 1 .. Len(db) : \E k \in 1 .. Written : db[i] = accepted[k]
    /\ \A i, j \in 1 .. Len(db) : \A k, l \in 1 .. Len(accepted) :
          i < j /\ db[i] = accepted[k] /\ db[j] = accepted[l] => k < l

(* A batch that is about to be told of its success is in the database. *)
BatchIsDurable ==
    InCallbacks /\ ~err => \A i \in 1 .. Len(events) : events[i] \in RangeOf(db)

ExecInv ==
    /\ TypeOK /\ BatchHasRoom /\ InPlace /\ AcceptedOnce /\ DbInOrder
    /\ BatchIsDurable /\ SuccessIsDurable

(* At first there is nothing. *)
LEMMA InitExecInv == Init => ExecInv
<1> SUFFICES ASSUME Init PROVE ExecInv
  OBVIOUS
<1>1. TypeOK
  <2>1. /\ queue = <<>> /\ accepted = <<>> /\ refused = {}
        /\ events = <<>> /\ db = <<>> /\ called = <<>>
        /\ err = FALSE /\ ctxDone = FALSE /\ loop = "select" /\ shutdown = "idle"
    BY DEF Init
  <2>2. /\ Len(queue) = 0 /\ Len(events) = 0
        /\ queue \in Seq(Events) /\ accepted \in Seq(Events) /\ events \in Seq(Events)
        /\ db \in Seq(Events) /\ called \in Seq(Result)
    BY <2>1, EmptySeq
  <2>3. Len(queue) <= QueueSize /\ Len(events) <= BatchSize
    BY <2>2, SizesAssumption
  <2> QED
    BY <2>1, <2>2, <2>3 DEF TypeOK
<1>2. BatchHasRoom /\ InPlace /\ AcceptedOnce
  BY SizesAssumption DEF Init, BatchHasRoom, InPlace, AcceptedOnce
<1>3. DbInOrder /\ BatchIsDurable /\ SuccessIsDurable
  BY DEF Init, DbInOrder, BatchIsDurable, SuccessIsDurable, InCallbacks, Written
<1> QED
  BY <1>1, <1>2, <1>3 DEF ExecInv

-------------------------------------------------------------------------------
(* Submit appends to what is accepted and to the queue, or refuses. *)
LEMMA SubmitExecInv ==
    ASSUME ExecInv, NEW e \in Events, Submit(e)
    PROVE  ExecInv'
<1> USE DEF ExecInv, loopVars, shutVars
<1>1. CASE Len(queue) < QueueSize
  <2>1. /\ queue' = Append(queue, e) /\ accepted' = Append(accepted, e)
        /\ e \notin RangeOf(accepted)
        /\ UNCHANGED <<events, loop, err, db, called, refused, ctxDone, shutdown>>
    BY <1>1 DEF Submit
  <2>2. /\ Len(queue') = Len(queue) + 1 /\ Len(accepted') = Len(accepted) + 1
        /\ \A i \in 1 .. Len(queue) : queue'[i] = queue[i]
        /\ queue'[Len(queue) + 1] = e
        /\ \A i \in 1 .. Len(accepted) : accepted'[i] = accepted[i]
        /\ accepted'[Len(accepted) + 1] = e
        /\ queue' \in Seq(Events) /\ accepted' \in Seq(Events)
    BY <2>1, AppendProperties DEF TypeOK
  <2>0. /\ Len(queue) \in Nat /\ Len(events) \in Nat /\ Len(called) \in Nat
        /\ Len(accepted) \in Nat /\ Len(db) \in Nat
    BY DEF TypeOK
  <2>3. TypeOK'
    BY <1>1, <2>0, <2>1, <2>2, SizesAssumption DEF TypeOK
  <2>4. InPlace'
    BY <2>0, <2>1, <2>2, SMTT(20) DEF InPlace
  <2>5. AcceptedOnce'
    BY <2>0, <2>1, <2>2 DEF AcceptedOnce, RangeOf
  <2>6. DbInOrder'
    <3>1. Written' = Written /\ Written \in Nat /\ Written <= Len(accepted)
      BY <2>0, <2>1 DEF Written, InCallbacks, InPlace
    <3>2. \A i \in 1 .. Len(db) : \E k \in 1 .. Written : db[i] = accepted[k]
      BY DEF DbInOrder
    <3>3. \A i \in 1 .. Len(db) : \E k \in 1 .. Written : db[i] = accepted'[k]
      BY <3>1, <3>2, <2>0, <2>2
    <3>4. \A i \in 1 .. Len(db) : db[i] # e
      BY <3>1, <3>2, <2>0, <2>1 DEF RangeOf
    <3>5. ASSUME NEW i \in 1 .. Len(db), NEW j \in 1 .. Len(db),
                 NEW k \in 1 .. Len(accepted'), NEW l \in 1 .. Len(accepted'),
                 i < j, db[i] = accepted'[k], db[j] = accepted'[l]
          PROVE  k < l
      <4>1. k \in 1 .. Len(accepted) /\ l \in 1 .. Len(accepted)
        BY <3>4, <3>5, <2>0, <2>2
      <4> QED
        BY <4>1, <3>5, <2>2 DEF DbInOrder
    <3> QED
      BY <2>1, <3>1, <3>3, <3>5, SMTT(20) DEF DbInOrder
  <2>7. BatchHasRoom' /\ BatchIsDurable' /\ SuccessIsDurable'
    BY <2>1 DEF BatchHasRoom, BatchIsDurable, SuccessIsDurable, InCallbacks, RangeOf
  <2> QED
    BY <2>3, <2>4, <2>5, <2>6, <2>7
<1>2. CASE ~(Len(queue) < QueueSize)
  <2>1. /\ refused' = refused \cup {e}
        /\ UNCHANGED <<queue, accepted, events, loop, err, db, called, ctxDone, shutdown>>
    BY <1>2 DEF Submit
  <2> QED
    BY <2>1 DEF TypeOK, BatchHasRoom, InPlace, AcceptedOnce, DbInOrder, BatchIsDurable,
                SuccessIsDurable, InCallbacks, Written, RangeOf
<1> QED
  BY <1>1, <1>2

(* Collect moves the head of the queue to the end of the batch. *)
LEMMA CollectExecInv ==
    ASSUME ExecInv, Collect
    PROVE  ExecInv'
<1> USE DEF ExecInv, shutVars
<1>0. /\ Len(queue) \in Nat /\ Len(events) \in Nat /\ Len(called) \in Nat
      /\ Len(accepted) \in Nat /\ Len(db) \in Nat /\ Len(queue) > 0
  BY DEF TypeOK, Collect
<1>1. /\ loop = "select" /\ queue' = Tail(queue) /\ events' = Append(events, Head(queue))
      /\ loop' = IF Len(events) + 1 >= BatchSize THEN "flush" ELSE "select"
      /\ UNCHANGED <<refused, accepted, err, db, called, ctxDone, shutdown>>
  BY DEF Collect
<1>2. /\ Tail(queue) \in Seq(Events) /\ Len(queue') = Len(queue) - 1
      /\ \A i \in 1 .. Len(queue) - 1 : queue'[i] = queue[i + 1]
      /\ Head(queue) \in Events /\ Head(queue) = queue[1]
  BY <1>0, <1>1, HeadTailProperties DEF TypeOK
<1>3. /\ events' \in Seq(Events) /\ Len(events') = Len(events) + 1
      /\ \A i \in 1 .. Len(events) : events'[i] = events[i]
      /\ events'[Len(events) + 1] = queue[1]
  BY <1>1, <1>2, AppendProperties DEF TypeOK
<1>4. TypeOK' /\ BatchHasRoom'
  BY <1>0, <1>1, <1>2, <1>3, SizesAssumption DEF TypeOK, BatchHasRoom
<1>5. InPlace'
  <2>1. Len(accepted) = Len(called) + Len(events') + Len(queue')
    BY <1>0, <1>2, <1>3 DEF InPlace
  <2>2. queue[1] = accepted[Len(called) + Len(events) + 1]
    BY <1>0 DEF InPlace
  <2>3. \A i \in 1 .. Len(events') : events'[i] = accepted[Len(called) + i]
    <3> TAKE i \in 1 .. Len(events')
    <3>1. CASE i = Len(events) + 1
      BY <3>1, <2>2, <1>0, <1>3
    <3>2. CASE i \in 1 .. Len(events)
      BY <3>2, <1>3 DEF InPlace
    <3> QED
      BY <3>1, <3>2, <1>0, <1>3
  <2>4. \A i \in 1 .. Len(queue') : queue'[i] = accepted[Len(called) + Len(events') + i]
    <3> TAKE i \in 1 .. Len(queue')
    <3>1. i + 1 \in 1 .. Len(queue) /\ queue'[i] = queue[i + 1]
      BY <1>0, <1>2
    <3>2. queue[i + 1] = accepted[Len(called) + Len(events) + (i + 1)]
      BY <3>1 DEF InPlace
    <3>3. Len(called) + Len(events) + (i + 1) = Len(called) + Len(events') + i
      BY <1>0, <1>3
    <3> QED
      BY <3>1, <3>2, <3>3
  <2>5. \A i \in 1 .. Len(called) : called[i].event = accepted[i]
    BY DEF InPlace
  <2> QED
    BY <1>1, <2>1, <2>3, <2>4, <2>5 DEF InPlace
<1>6. AcceptedOnce' /\ BatchIsDurable' /\ SuccessIsDurable'
  BY <1>1 DEF AcceptedOnce, BatchIsDurable, SuccessIsDurable, InCallbacks, RangeOf
<1>7. DbInOrder'
  BY <1>0, <1>1 DEF DbInOrder, Written, InCallbacks
<1> QED
  BY <1>4, <1>5, <1>6, <1>7

(* What the select decides, and Shutdown, move nothing. *)
LEMMA DecideExecInv ==
    ASSUME ExecInv, Ticker \/ Stop \/ Shutdown \/ ShutdownReturn \/ UNCHANGED vars
    PROVE  ExecInv'
<1> USE DEF ExecInv, subVars, loopVars, shutVars
<1>1. /\ UNCHANGED <<queue, events, accepted, refused, err, db, called>>
      /\ ~InCallbacks => ~InCallbacks'
      /\ InCallbacks => loop' = loop
      /\ loop' = "select" => loop = "select"
  BY DEF Ticker, Stop, Shutdown, ShutdownReturn, vars, InCallbacks
<1>2. TypeOK'
  BY DEF Ticker, Stop, Shutdown, ShutdownReturn, vars, TypeOK
<1>3. InCallbacks' <=> InCallbacks
  BY <1>1 DEF InCallbacks
<1>4. BatchHasRoom' /\ InPlace' /\ AcceptedOnce' /\ SuccessIsDurable'
  BY <1>1 DEF BatchHasRoom, InPlace, AcceptedOnce, SuccessIsDurable, RangeOf
<1>5. DbInOrder' /\ BatchIsDurable'
  BY <1>1, <1>3 DEF DbInOrder, Written, BatchIsDurable, RangeOf
<1> QED
  BY <1>2, <1>4, <1>5

(* BulkWrite applies the batch, or with an error the first writes of it.    *)
LEMMA BulkWriteExecInv ==
    ASSUME ExecInv, BulkWrite
    PROVE  ExecInv'
<1> USE DEF ExecInv, subVars, shutVars
<1>0. /\ Len(queue) \in Nat /\ Len(events) \in Nat /\ Len(called) \in Nat
      /\ Len(accepted) \in Nat /\ Len(db) \in Nat /\ events \in Seq(Events)
      /\ db \in Seq(Events)
  BY DEF TypeOK
<1>1. /\ UNCHANGED <<queue, accepted, refused, events, called, ctxDone, shutdown>>
      /\ ~InCallbacks /\ InCallbacks' /\ loop' \in {"callback", "lastCallback"}
      /\ err' \in BOOLEAN
  <2>1. /\ UNCHANGED <<queue, accepted, refused, events, called, ctxDone, shutdown>>
        /\ loop \in {"flush", "last"} /\ err' \in BOOLEAN
        /\ loop' = [flush |-> "callback", last |-> "lastCallback"][loop]
    BY DEF BulkWrite
  <2>2. loop' \in {"callback", "lastCallback"}
    <3>1. CASE loop = "flush"
      BY <3>1, <2>1
    <3>2. CASE loop = "last"
      BY <3>2, <2>1
    <3> QED
      BY <3>1, <3>2, <2>1
  <2> QED
    BY <2>1, <2>2 DEF InCallbacks
<1>2. PICK n \in 0 .. Len(events) :
        /\ db' = db \o SubSeq(events, 1, n)
        /\ ~err' => n = Len(events)
  <2>1. SubSeq(events, 1, Len(events)) = events
    BY <1>0
  <2>2. CASE db' = db \o events /\ err' = FALSE
    <3>1. db' = db \o SubSeq(events, 1, Len(events)) /\ Len(events) \in 0 .. Len(events)
      BY <1>0, <2>1, <2>2
    <3> QED
      BY <3>1
  <2>3. CASE (\E n \in 0 .. Len(events) : db' = db \o SubSeq(events, 1, n)) /\ err' = TRUE
    BY <2>3
  <2> QED
    BY <2>2, <2>3 DEF BulkWrite
<1>3. /\ SubSeq(events, 1, n) \in Seq(Events) /\ Len(SubSeq(events, 1, n)) = n
      /\ \A i \in 1 .. n : SubSeq(events, 1, n)[i] = events[i]
  BY <1>0
<1>4. /\ db' \in Seq(Events) /\ Len(db') = Len(db) + n
      /\ \A i \in 1 .. Len(db) : db'[i] = db[i]
      /\ \A i \in 1 .. n : db'[Len(db) + i] = events[i]
  BY <1>0, <1>2, <1>3
<1>5. TypeOK' /\ BatchHasRoom' /\ InPlace' /\ AcceptedOnce'
  BY <1>1, <1>4 DEF TypeOK, BatchHasRoom, InPlace, AcceptedOnce
<1>6. \A x \in RangeOf(db) : x \in RangeOf(db')
  BY <1>0, <1>4 DEF RangeOf
<1>7. SuccessIsDurable'
  BY <1>1, <1>6 DEF SuccessIsDurable
<1>8. BatchIsDurable'
  <2> SUFFICES ASSUME ~err', NEW i \in 1 .. Len(events) PROVE events[i] \in RangeOf(db')
    BY <1>1 DEF BatchIsDurable
  <2>1. Len(db) + i \in 1 .. Len(db') /\ db'[Len(db) + i] = events[i]
    BY <1>0, <1>2, <1>4
  <2> QED
    BY <2>1 DEF RangeOf
<1>9. /\ Written = Len(called) /\ Written' = Len(called) + Len(events)
      /\ Written' <= Len(accepted)
  BY <1>0, <1>1 DEF Written, InPlace
<1>10. \A i \in 1 .. n : db'[Len(db) + i] = accepted[Len(called) + i]
  <2> TAKE i \in 1 .. n
  <2>1. i \in 1 .. Len(events)
    BY <1>0
  <2>2. events[i] = accepted[Len(called) + i]
    BY <2>1 DEF InPlace
  <2> QED
    BY <2>2, <1>4
<1>11. \A i \in 1 .. Len(db') : \E k \in 1 .. Written' : db'[i] = accepted[k]
  <2> TAKE i \in 1 .. Len(db')
  <2>1. CASE i \in 1 .. Len(db)
    <3>1. PICK k \in 1 .. Len(called) : db[i] = accepted[k]
      BY <2>1, <1>9 DEF DbInOrder
    <3>2. k \in 1 .. Written'
      BY <1>0, <1>9
    <3> QED
      BY <3>1, <3>2, <2>1, <1>4
  <2>2. CASE i \notin 1 .. Len(db)
    <3>1. i - Len(db) \in 1 .. n /\ i = Len(db) + (i - Len(db))
      BY <2>2, <1>0, <1>4
    <3>2. Len(called) + (i - Len(db)) \in 1 .. Written'
      BY <3>1, <1>0, <1>9
    <3> QED
      BY <3>1, <3>2, <1>10
  <2> QED
    BY <2>1, <2>2
<1>12. ASSUME NEW i \in 1 .. Len(db'), NEW j \in 1 .. Len(db'),
              NEW k \in 1 .. Len(accepted), NEW l \in 1 .. Len(accepted),
              i < j, db'[i] = accepted[k], db'[j] = accepted[l]
       PROVE  k < l
  <2>1. CASE j \in 1 .. Len(db)
    <3>1. i \in 1 .. Len(db)
      BY <2>1, <1>0, <1>4, <1>12
    <3>2. db[i] = accepted[k] /\ db[j] = accepted[l]
      BY <3>1, <2>1, <1>4, <1>12
    <3> QED
      BY <3>1, <3>2, <2>1, <1>12 DEF DbInOrder
  <2>2. CASE j \notin 1 .. Len(db)
    <3>1. j - Len(db) \in 1 .. n /\ j = Len(db) + (j - Len(db))
      BY <2>2, <1>0, <1>4
    <3>2. db'[j] = accepted[Len(called) + (j - Len(db))]
      BY <3>1, <1>10
    <3>3. Len(called) + (j - Len(db)) \in 1 .. Len(accepted)
      BY <3>1, <1>0, <1>9
    <3>4. l = Len(called) + (j - Len(db))
      BY <3>2, <3>3, <1>12 DEF AcceptedOnce
    <3>5. CASE i \in 1 .. Len(db)
      <4>1. PICK m \in 1 .. Len(called) : db[i] = accepted[m]
        BY <3>5, <1>9 DEF DbInOrder
      <4>2. m \in 1 .. Len(accepted)
        BY <1>0, <1>9
      <4>3. k = m
        BY <4>1, <4>2, <3>5, <1>4, <1>12 DEF AcceptedOnce
      <4> QED
        BY <4>3, <3>1, <3>4, <1>0
    <3>6. CASE i \notin 1 .. Len(db)
      <4>1. i - Len(db) \in 1 .. n /\ i = Len(db) + (i - Len(db))
        BY <3>6, <1>0, <1>4
      <4>2. db'[i] = accepted[Len(called) + (i - Len(db))]
        BY <4>1, <1>10
      <4>3. Len(called) + (i - Len(db)) \in 1 .. Len(accepted)
        BY <4>1, <1>0, <1>9, SMTT(20)
      <4>4. k = Len(called) + (i - Len(db))
        BY <4>2, <4>3, <1>12 DEF AcceptedOnce
      <4> QED
        BY <4>1, <4>4, <3>1, <3>4, <1>0, <1>12
    <3> QED
      BY <3>5, <3>6
  <2> QED
    BY <2>1, <2>2
<1>13. DbInOrder'
  BY <1>1, <1>11, <1>12 DEF DbInOrder
<1> QED
  BY <1>5, <1>7, <1>8, <1>13

(* The results of a batch, as the callbacks are told them. *)
Told == [i \in 1 .. Len(events) |-> [event |-> events[i], err |-> err]]

(* Callbacks moves the batch to the end of what is called back. *)
LEMMA CallbacksMove ==
    ASSUME ExecInv, Callbacks
    PROVE  /\ called' \in Seq(Result) /\ Len(called') = Len(called) + Len(events)
           /\ \A i \in 1 .. Len(called) : called'[i] = called[i]
           /\ \A i \in 1 .. Len(events) : /\ called'[Len(called) + i].event = events[i]
                                         /\ called'[Len(called) + i].err = err
           /\ events' = <<>> /\ Len(events') = 0 /\ InCallbacks
           /\ loop' \in {"select", "done"}
           /\ UNCHANGED <<queue, refused, accepted, err, db, ctxDone, shutdown>>
<1> USE DEF ExecInv, subVars, shutVars
<1>0. /\ Len(events) \in Nat /\ Len(called) \in Nat /\ events \in Seq(Events)
      /\ called \in Seq(Result) /\ err \in BOOLEAN
  BY DEF TypeOK
<1>1. /\ called' = called \o Told /\ events' = <<>> /\ InCallbacks
      /\ loop' \in {"select", "done"}
      /\ UNCHANGED <<queue, refused, accepted, err, db, ctxDone, shutdown>>
  BY DEF Callbacks, Told, InCallbacks
<1>2. \A i \in 1 .. Len(events) : events[i] \in Events
  BY <1>0
<1>3. Told \in [1 .. Len(events) -> Result]
  BY <1>0, <1>2 DEF Told, Result
<1>4. Told \in Seq(Result) /\ Len(Told) = Len(events)
  BY <1>0, <1>3 DEF Told
<1>5. \A i \in 1 .. Len(events) : Told[i].event = events[i] /\ Told[i].err = err
  BY DEF Told
<1>6. /\ called' \in Seq(Result) /\ Len(called') = Len(called) + Len(events)
      /\ \A i \in 1 .. Len(called) : called'[i] = called[i]
      /\ \A i \in 1 .. Len(events) : called'[Len(called) + i] = Told[i]
  BY <1>0, <1>1, <1>4
<1> QED
  BY <1>1, <1>5, <1>6, EmptySeq

LEMMA CallbacksExecInv ==
    ASSUME ExecInv, Callbacks
    PROVE  ExecInv'
<1> USE DEF ExecInv
<1>0. /\ Len(queue) \in Nat /\ Len(events) \in Nat /\ Len(called) \in Nat
      /\ Len(accepted) \in Nat /\ Len(db) \in Nat
  BY DEF TypeOK
<1>1. /\ called' \in Seq(Result) /\ Len(called') = Len(called) + Len(events)
      /\ \A i \in 1 .. Len(called) : called'[i] = called[i]
      /\ \A i \in 1 .. Len(events) : /\ called'[Len(called) + i].event = events[i]
                                    /\ called'[Len(called) + i].err = err
      /\ events' = <<>> /\ Len(events') = 0 /\ InCallbacks
      /\ loop' \in {"select", "done"}
      /\ UNCHANGED <<queue, refused, accepted, err, db, ctxDone, shutdown>>
  BY CallbacksMove
<1>2. TypeOK' /\ BatchHasRoom'
  <2>1. events' \in Seq(Events) /\ Len(events') <= BatchSize /\ Len(events') < BatchSize
    BY <1>1, SizesAssumption
  <2> QED
    BY <1>1, <2>1 DEF TypeOK, BatchHasRoom
<1>3. ASSUME NEW i \in 1 .. Len(called'), i \notin 1 .. Len(called)
      PROVE  /\ i - Len(called) \in 1 .. Len(events)
             /\ i = Len(called) + (i - Len(called))
  BY <1>0, <1>1, <1>3
<1>4. \A i \in 1 .. Len(called') : called'[i].event = accepted[i]
  <2> TAKE i \in 1 .. Len(called')
  <2>1. CASE i \in 1 .. Len(called)
    BY <2>1, <1>1 DEF InPlace
  <2>2. CASE i \notin 1 .. Len(called)
    <3>1. events[i - Len(called)] = accepted[Len(called) + (i - Len(called))]
      BY <2>2, <1>3 DEF InPlace
    <3> QED
      BY <2>2, <3>1, <1>1, <1>3
  <2> QED
    BY <2>1, <2>2
<1>5. \A i \in 1 .. Len(queue) : queue[i] = accepted[Len(called') + Len(events') + i]
  BY <1>0, <1>1 DEF InPlace
<1>6. InPlace'
  BY <1>0, <1>1, <1>4, <1>5 DEF InPlace
<1>7. AcceptedOnce'
  BY <1>1 DEF AcceptedOnce
<1>8. ~InCallbacks' /\ Written' = Written
  BY <1>0, <1>1 DEF InCallbacks, Written
<1>9. DbInOrder' /\ BatchIsDurable'
  BY <1>1, <1>8 DEF DbInOrder, BatchIsDurable
<1>10. SuccessIsDurable'
  <2> SUFFICES ASSUME NEW i \in 1 .. Len(called'), ~called'[i].err
               PROVE  called'[i].event \in RangeOf(db)
    BY <1>1 DEF SuccessIsDurable, RangeOf
  <2>1. CASE i \in 1 .. Len(called)
    BY <2>1, <1>1 DEF SuccessIsDurable
  <2>2. CASE i \notin 1 .. Len(called)
    <3>1. ~err /\ called'[i].event = events[i - Len(called)]
      BY <2>2, <1>1, <1>3
    <3> QED
      BY <3>1, <2>2, <1>1, <1>3 DEF BatchIsDurable
  <2> QED
    BY <2>1, <2>2
<1> QED
  BY <1>2, <1>6, <1>7, <1>9, <1>10

LEMMA NextExecInv == ExecInv /\ [Next]_vars => ExecInv'
<1> SUFFICES ASSUME ExecInv, [Next]_vars PROVE ExecInv'
  OBVIOUS
<1>1. CASE \E e \in Events : Submit(e)
  BY <1>1, SubmitExecInv
<1>2. CASE Loop
  BY <1>2, CollectExecInv, BulkWriteExecInv, CallbacksExecInv, DecideExecInv DEF Loop
<1>3. CASE Shutdown \/ ShutdownReturn \/ UNCHANGED vars
  BY <1>3, DecideExecInv
<1> QED
  BY <1>1, <1>2, <1>3 DEF Next

LEMMA ExecInvAlways == Spec => []ExecInv
BY InitExecInv, NextExecInv, PTL DEF Spec

-------------------------------------------------------------------------------
(* What the invariant says of the runs' properties. *)
LEMMA CalledBackIsSeq ==
    ASSUME TypeOK
    PROVE  CalledBack \in Seq(Events) /\ Len(CalledBack) = Len(called)
<1>1. Len(called) \in Nat /\ \A i \in 1 .. Len(called) : called[i] \in Result
  BY DEF TypeOK
<1>2. \A i \in 1 .. Len(called) : called[i].event \in Events
  BY <1>1 DEF Result
<1>3. CalledBack \in [1 .. Len(called) -> Events]
  BY <1>2 DEF CalledBack
<1> QED
  BY <1>1, <1>3 DEF CalledBack

LEMMA InPlaceLosesNothing ==
    ASSUME TypeOK, InPlace
    PROVE  NothingLost
<1>0. /\ Len(queue) \in Nat /\ Len(events) \in Nat /\ Len(called) \in Nat
      /\ Len(accepted) \in Nat /\ queue \in Seq(Events) /\ events \in Seq(Events)
      /\ accepted \in Seq(Events)
  BY DEF TypeOK
<1>1. /\ CalledBack \in Seq(Events) /\ Len(CalledBack) = Len(called)
      /\ \A i \in 1 .. Len(called) : CalledBack[i] = called[i].event
  BY CalledBackIsSeq DEF CalledBack
<1> DEFINE told == CalledBack \o events
           all == told \o queue
<1>2. /\ told \in Seq(Events) /\ Len(told) = Len(called) + Len(events)
      /\ \A i \in 1 .. Len(told) :
            told[i] = IF i <= Len(called) THEN called[i].event
                      ELSE events[i - Len(called)]
  <2>1. /\ told \in Seq(Events) /\ Len(told) = Len(CalledBack) + Len(events)
        /\ \A i \in 1 .. Len(CalledBack) + Len(events) :
              told[i] = IF i <= Len(CalledBack) THEN CalledBack[i]
                        ELSE events[i - Len(CalledBack)]
    BY <1>0, <1>1, ConcatProperties
  <2> HIDE DEF told
  <2> QED
    BY <1>0, <1>1, <2>1
<1> HIDE DEF told
<1>3. \A i \in 1 .. Len(told) : told[i] = accepted[i]
  <2> TAKE i \in 1 .. Len(told)
  <2>1. CASE i <= Len(called)
    <3>1. i \in 1 .. Len(called)
      BY <2>1, <1>0, <1>2
    <3> QED
      BY <2>1, <3>1, <1>2 DEF InPlace
  <2>2. CASE ~(i <= Len(called))
    <3>1. i - Len(called) \in 1 .. Len(events) /\ Len(called) + (i - Len(called)) = i
      BY <2>2, <1>0, <1>2
    <3> QED
      BY <2>2, <3>1, <1>2 DEF InPlace
  <2> QED
    BY <2>1, <2>2
<1>4. /\ all \in Seq(Events) /\ Len(all) = Len(told) + Len(queue)
      /\ \A i \in 1 .. Len(all) :
            all[i] = IF i <= Len(told) THEN told[i] ELSE queue[i - Len(told)]
  <2>1. Len(told) + Len(queue) \in Nat
    BY <1>0, <1>2
  <2>0. told \in Seq(Events) /\ queue \in Seq(Events)
    BY <1>0, <1>2
  <2>2. /\ all \in Seq(Events) /\ Len(all) = Len(told) + Len(queue)
        /\ \A i \in 1 .. Len(told) + Len(queue) :
              all[i] = IF i <= Len(told) THEN told[i] ELSE queue[i - Len(told)]
    BY <2>0, ConcatProperties
  <2> HIDE DEF all
  <2> QED
    BY <2>2
<1> HIDE DEF all
<1>5. \A i \in 1 .. Len(all) : all[i] = accepted[i]
  <2> TAKE i \in 1 .. Len(all)
  <2>1. CASE i <= Len(told)
    BY <2>1, <1>0, <1>2, <1>3, <1>4
  <2>2. CASE ~(i <= Len(told))
    <3>1. i - Len(told) \in 1 .. Len(queue) /\ Len(told) + (i - Len(told)) = i
      BY <2>2, <1>0, <1>2, <1>4
    <3> QED
      BY <2>2, <3>1, <1>2, <1>4 DEF InPlace
  <2> QED
    BY <2>1, <2>2
<1>6. Len(all) = Len(accepted)
  BY <1>2, <1>4 DEF InPlace
<1>7. all = accepted
  BY <1>0, <1>4, <1>5, <1>6, SeqEqual
<1> QED
  BY <1>7 DEF all, told, NothingLost

(* Where an event is accepted. *)
At(e) == CHOOSE k \in 1 .. Len(accepted) : accepted[k] = e

LEMMA ExecInvIsInOrder == ExecInv => WritesInOrder
<1> SUFFICES ASSUME ExecInv PROVE WritesInOrder
  OBVIOUS
<1>1. TypeOK /\ NothingLost /\ SuccessIsDurable
  BY InPlaceLosesNothing DEF ExecInv
<1>2. /\ Len(events) \in Nat /\ Len(called) \in Nat /\ Len(accepted) \in Nat
      /\ Len(queue) \in Nat
  BY <1>1 DEF TypeOK
<1>3. Written <= Len(accepted) /\ Written \in Nat
  BY <1>2 DEF Written, ExecInv, InPlace
<1>4. ASSUME NEW i \in 1 .. Len(db)
      PROVE  At(db[i]) \in 1 .. Len(accepted) /\ db[i] = accepted[At(db[i])]
  <2>1. PICK k \in 1 .. Written : db[i] = accepted[k]
    BY DEF ExecInv, DbInOrder
  <2>2. k \in 1 .. Len(accepted)
    BY <1>2, <1>3
  <2> QED
    BY <2>1, <2>2 DEF At
<1>5. \A i, j \in 1 .. Len(db) : i < j => At(db[i]) < At(db[j])
  BY <1>4 DEF ExecInv, DbInOrder
<1> QED
  BY <1>1, <1>5 DEF WritesInOrder, At

(* At all times nothing that Submit took is lost, a success that a caller   *)
(* was told of is in the database, and the writes of a shard are there in   *)
(* the order of submission and at most once (shard_manager.go:51-129).      *)
THEOREM WritesInOrderAlways == Spec => []WritesInOrder
BY ExecInvAlways, ExecInvIsInOrder, PTL

-------------------------------------------------------------------------------
(* The refinement: Submit accepts, Callbacks delivers, the rest stutters.   *)
LEMMA DeliveryInit == Init => Delivery!Init
<1> SUFFICES ASSUME Init PROVE Delivery!Init
  OBVIOUS
<1>1. Len(called) = 0
  BY EmptySeq DEF Init
<1>2. CalledBack = <<>>
  BY <1>1 DEF CalledBack
<1> QED
  BY <1>2 DEF Init, Delivery!Init

LEMMA DeliveryStep ==
    ASSUME ExecInv, ExecInv', [Next]_vars
    PROVE  [Delivery!Accept \/ Delivery!Deliver]_<<accepted, CalledBack>>
<1>1. ASSUME NEW e \in Events, Submit(e)
      PROVE  Delivery!Accept \/ UNCHANGED <<accepted, CalledBack>>
  <2>1. CalledBack' = CalledBack
    BY <1>1 DEF Submit, loopVars, CalledBack
  <2> QED
    BY <1>1, <2>1 DEF Submit, Delivery!Accept
<1>2. CASE Callbacks
  <2>0. /\ Len(queue) \in Nat /\ Len(events) \in Nat /\ Len(called) \in Nat
        /\ Len(accepted) \in Nat /\ accepted \in Seq(Events)
    BY DEF ExecInv, TypeOK
  <2>1. /\ Len(called') = Len(called) + Len(events) /\ accepted' = accepted
        /\ \A i \in 1 .. Len(called) : called'[i] = called[i]
    BY <1>2, CallbacksMove
  <2>2. CASE Len(events) = 0
    <3>1. CalledBack' = CalledBack
      BY <2>0, <2>1, <2>2 DEF CalledBack
    <3> QED
      BY <2>1, <3>1
  <2>3. CASE Len(events) # 0
    <3>1. Len(CalledBack) = Len(called)
      BY CalledBackIsSeq DEF ExecInv
    <3>2. Len(called') \in Len(CalledBack) + 1 .. Len(accepted)
      BY <2>0, <2>1, <2>3, <3>1 DEF ExecInv, InPlace
    <3>3. \A i \in 1 .. Len(called') : called'[i].event = accepted[i]
      BY <2>1 DEF ExecInv, InPlace
    <3>4. SubSeq(accepted, 1, Len(called')) = [i \in 1 .. Len(called') |-> accepted[i]]
      BY <2>0, <3>1, <3>2
    <3>5. CalledBack' = SubSeq(accepted, 1, Len(called'))
      BY <3>3, <3>4 DEF CalledBack
    <3> QED
      BY <2>1, <3>2, <3>5 DEF Delivery!Deliver
  <2> QED
    BY <2>0, <2>2, <2>3
<1>3. CASE Collect \/ Ticker \/ Stop \/ BulkWrite \/ Shutdown \/ ShutdownReturn \/ UNCHANGED vars
  BY <1>3 DEF Collect, Ticker, Stop, BulkWrite, Shutdown, ShutdownReturn, vars, subVars,
              loopVars, CalledBack
<1> QED
  BY <1>1, <1>2, <1>3 DEF Next, Loop

(* A write-behind executor delivers what Submit accepts to the callbacks in *)
(* order and at most once, failing batches and a shutdown included          *)
(* (shard_manager.go:51-129).                                               *)
THEOREM CallsBackInOrderHolds == Spec => CallsBackInOrder
<1>1. ExecInv /\ ExecInv' /\ [Next]_vars
        => [Delivery!Accept \/ Delivery!Deliver]_<<accepted, CalledBack>>
  BY DeliveryStep
<1>2. Spec => Delivery!Spec
  BY <1>1, DeliveryInit, ExecInvAlways, PTL DEF Spec, Delivery!Spec
<1> QED
  BY <1>2 DEF CallsBackInOrder

-------------------------------------------------------------------------------
(* The player cache.                                                         *)

(* Lists without some of their keys.  Without is defined by recursion, so    *)
(* that it is what it should be goes by the least number for which it would  *)
(* not be so.                                                                *)
LEMMA LeastNumber ==
    ASSUME NEW S, S \subseteq Nat, S # {}
    PROVE  \E k \in S : \A j \in S : ~(j < k)
<1>1. \E k \in S : \A j \in S : <<j, k>> \notin OpToRel(<, Nat)
  BY WFMin, NatLessThanWellFounded
<1>2. ASSUME NEW j \in S, NEW k \in S, j < k
      PROVE  <<j, k>> \in OpToRel(<, Nat)
  BY <1>2 DEF OpToRel
<1> QED
  BY <1>1, <1>2

(* The next prefix of a list without S. *)
KeptNext(s, S, before, i) == IF s[i] \in S THEN before ELSE Append(before, s[i])

(* A function from the first k prefixes of s to these without S. *)
IsKept(f, k, s, S) ==
    /\ f = [i \in 0 .. k |-> f[i]]
    /\ \A i \in 0 .. k : f[i] = IF i = 0 THEN <<>> ELSE KeptNext(s, S, f[i - 1], i)

LEMMA KeptExists ==
    ASSUME NEW s, NEW S, NEW n \in Nat
    PROVE  \E f : IsKept(f, n, s, S)
<1> DEFINE Missing == {k \in 0 .. n : ~\E f : IsKept(f, k, s, S)}
<1> SUFFICES ASSUME Missing # {} PROVE FALSE
  OBVIOUS
<1>1. PICK k \in Missing : \A j \in Missing : ~(j < k)
  <2>1. Missing \subseteq Nat
    OBVIOUS
  <2> HIDE DEF Missing
  <2> QED
    BY <2>1, LeastNumber
<1>2. k # 0
  <2> DEFINE e == [i \in 0 .. 0 |-> <<>>]
  <2>1. e = [i \in 0 .. 0 |-> e[i]] /\ \A i \in 0 .. 0 : i = 0 /\ e[i] = <<>>
    OBVIOUS
  <2>2. IsKept(e, 0, s, S)
    <3> HIDE DEF e
    <3> QED
      BY <2>1 DEF IsKept
  <2> QED
    BY <2>2
<1>3. k \in 1 .. n /\ k - 1 \in 0 .. n /\ k - 1 < k
  BY <1>2
<1>4. PICK f : IsKept(f, k - 1, s, S)
  BY <1>1, <1>3
<1> DEFINE last == KeptNext(s, S, f[k - 1], k)
           g == [i \in 0 .. k |-> IF i = k THEN last ELSE f[i]]
<1> HIDE DEF last
<1>5. g = [i \in 0 .. k |-> g[i]]
  OBVIOUS
<1>6. \A i \in 0 .. k : g[i] = IF i = 0 THEN <<>> ELSE KeptNext(s, S, g[i - 1], i)
  <2> TAKE i \in 0 .. k
  <2>1. CASE i = k
    <3>1. g[i] = last /\ i # 0 /\ g[i - 1] = f[i - 1]
      BY <1>3, <2>1
    <3> QED
      BY <2>1, <3>1 DEF last
  <2>2. CASE i # k
    <3>1. i \in 0 .. k - 1 /\ g[i] = f[i]
      BY <1>3, <2>2
    <3>2. i # 0 => g[i - 1] = f[i - 1]
      BY <1>3, <2>2
    <3>3. f[i] = IF i = 0 THEN <<>> ELSE KeptNext(s, S, f[i - 1], i)
      BY <1>4, <3>1 DEF IsKept
    <3> HIDE DEF g
    <3> QED
      BY <3>1, <3>2, <3>3
  <2> QED
    BY <2>1, <2>2
<1>7. IsKept(g, k, s, S)
  <2> HIDE DEF g
  <2> QED
    BY <1>5, <1>6 DEF IsKept
<1> QED
  BY <1>1, <1>7

LEMMA WithoutIsKept ==
    ASSUME NEW s, NEW S, Len(s) \in Nat
    PROVE  \E f : IsKept(f, Len(s), s, S) /\ Without(s, S) = f[Len(s)]
<1> DEFINE Def(f) == [i \in 0 .. Len(s) |->
                        IF i = 0 THEN <<>> 
                        ELSE IF s[i] \in S THEN f[i - 1] ELSE Append(f[i - 1], s[i])]
           kept == CHOOSE f : f = Def(f)
<1>1. PICK f : IsKept(f, Len(s), s, S)
  BY KeptExists
<1>2. f = Def(f)
  BY <1>1 DEF IsKept, KeptNext
<1>3. kept = Def(kept)
  <2> HIDE DEF Def
  <2> QED
    BY <1>2
<1>4. Without(s, S) = kept[Len(s)]
  BY DEF Without
<1>5. IsKept(kept, Len(s), s, S)
  <2> HIDE DEF kept
  <2> QED
    BY <1>3 DEF IsKept, KeptNext
<1> QED
  BY <1>4, <1>5

(* What a list t is when it is the first i of s without those in S. *)
IsRest(t, i, s, S) ==
    /\ \A a \in 1 .. Len(t) : \E c \in 1 .. i : t[a] = s[c] /\ s[c] \notin S
    /\ \A c \in 1 .. i : s[c] \notin S => \E a \in 1 .. Len(t) : t[a] = s[c]
    /\ \A a, b \in 1 .. Len(t) :
          a < b => \E c, d \in 1 .. i : c < d /\ t[a] = s[c] /\ t[b] = s[d]

LEMMA RestGrows ==
    ASSUME NEW T, NEW s \in Seq(T), NEW S, NEW i \in 1 .. Len(s),
           NEW t \in Seq(T), IsRest(t, i - 1, s, S)
    PROVE  /\ KeptNext(s, S, t, i) \in Seq(T)
           /\ IsRest(KeptNext(s, S, t, i), i, s, S)
<1>0. /\ Len(s) \in Nat /\ Len(t) \in Nat /\ s[i] \in T /\ i \in Nat \ {0}
      /\ \A c \in 1 .. i : c = i \/ c \in 1 .. i - 1
      /\ 1 .. i - 1 \subseteq 1 .. i /\ i \in 1 .. i
      /\ \A c \in 1 .. i - 1 : c < i
  BY ElementOfSeq
<1>1. CASE s[i] \in S
  <2>1. KeptNext(s, S, t, i) = t
    BY <1>1 DEF KeptNext
  <2>2. \A a \in 1 .. Len(t) : \E c \in 1 .. i : t[a] = s[c] /\ s[c] \notin S
    BY <1>0 DEF IsRest
  <2>3. \A c \in 1 .. i : s[c] \notin S => \E a \in 1 .. Len(t) : t[a] = s[c]
    BY <1>0, <1>1 DEF IsRest
  <2>4. \A a, b \in 1 .. Len(t) :
            a < b => \E c, d \in 1 .. i : c < d /\ t[a] = s[c] /\ t[b] = s[d]
    <3> SUFFICES ASSUME NEW a \in 1 .. Len(t), NEW b \in 1 .. Len(t), a < b
                 PROVE  \E c, d \in 1 .. i : c < d /\ t[a] = s[c] /\ t[b] = s[d]
      OBVIOUS
    <3>1. PICK c \in 1 .. i - 1, d \in 1 .. i - 1 : c < d /\ t[a] = s[c] /\ t[b] = s[d]
      BY DEF IsRest
    <3> QED
      BY <1>0, <3>1
  <2>5. IsRest(t, i, s, S)
    BY <2>2, <2>3, <2>4 DEF IsRest
  <2> QED
    BY <2>1, <2>5
<1>2. CASE s[i] \notin S
  <2> DEFINE u == Append(t, s[i])
  <2>1. /\ u \in Seq(T) /\ Len(u) = Len(t) + 1 /\ u[Len(t) + 1] = s[i]
        /\ \A a \in 1 .. Len(t) : u[a] = t[a]
    BY <1>0, AppendProperties
  <2> HIDE DEF u
  <2>2. \A a \in 1 .. Len(u) : a \in 1 .. Len(t) \/ a = Len(t) + 1
    BY <1>0, <2>1
  <2>3. 1 .. Len(t) \subseteq 1 .. Len(u) /\ Len(t) + 1 \in 1 .. Len(u)
    BY <1>0, <2>1
  <2>4. \A a \in 1 .. Len(u) : \E c \in 1 .. i : u[a] = s[c] /\ s[c] \notin S
    <3> TAKE a \in 1 .. Len(u)
    <3>1. CASE a \in 1 .. Len(t)
      <4>1. PICK c \in 1 .. i - 1 : t[a] = s[c] /\ s[c] \notin S
        BY <3>1 DEF IsRest
      <4> QED
        BY <1>0, <2>1, <3>1, <4>1
    <3>2. CASE a = Len(t) + 1
      BY <1>0, <1>2, <2>1, <3>2
    <3> QED
      BY <2>2, <3>1, <3>2
  <2>5. \A c \in 1 .. i : s[c] \notin S => \E a \in 1 .. Len(u) : u[a] = s[c]
    <3> TAKE c \in 1 .. i
    <3>1. CASE c \in 1 .. i - 1
      BY <2>1, <2>3, <3>1 DEF IsRest
    <3>2. CASE c = i
      BY <2>1, <2>3, <3>2
    <3> QED
      BY <1>0, <3>1, <3>2
  <2>6. \A a, b \in 1 .. Len(u) :
            a < b => \E c, d \in 1 .. i : c < d /\ u[a] = s[c] /\ u[b] = s[d]
    <3> SUFFICES ASSUME NEW a \in 1 .. Len(u), NEW b \in 1 .. Len(u), a < b
                 PROVE  \E c, d \in 1 .. i : c < d /\ u[a] = s[c] /\ u[b] = s[d]
      OBVIOUS
    <3>1. a \in 1 .. Len(t) /\ u[a] = t[a]
      BY <1>0, <2>1
    <3>2. CASE b \in 1 .. Len(t)
      <4>1. u[b] = t[b]
        BY <2>1, <3>2
      <4>2. PICK c \in 1 .. i - 1, d \in 1 .. i - 1 : c < d /\ t[a] = s[c] /\ t[b] = s[d]
        BY <3>1, <3>2 DEF IsRest
      <4> QED
        BY <1>0, <3>1, <4>1, <4>2
    <3>3. CASE b = Len(t) + 1
      <4>1. PICK c \in 1 .. i - 1 : t[a] = s[c]
        BY <3>1 DEF IsRest
      <4> QED
        BY <1>0, <2>1, <3>1, <3>3, <4>1
    <3> QED
      BY <2>2, <3>2, <3>3
  <2>7. KeptNext(s, S, t, i) = u
    BY <1>2 DEF KeptNext, u
  <2>8. IsRest(u, i, s, S)
    BY <2>4, <2>5, <2>6 DEF IsRest
  <2> QED
    BY <2>1, <2>7, <2>8
<1> QED
  BY <1>1, <1>2

LEMMA WithoutIsRest ==
    ASSUME NEW T, NEW s \in Seq(T), NEW S
    PROVE  Without(s, S) \in Seq(T) /\ IsRest(Without(s, S), Len(s), s, S)
<1>0. Len(s) \in Nat
  OBVIOUS
<1>1. PICK f : IsKept(f, Len(s), s, S) /\ Without(s, S) = f[Len(s)]
  BY <1>0, WithoutIsKept
<1> DEFINE Right(i) == f[i] \in Seq(T) /\ IsRest(f[i], i, s, S)
           Wrong == {i \in 0 .. Len(s) : ~Right(i)}
<1> SUFFICES ASSUME Wrong # {} PROVE FALSE
  BY <1>0, <1>1
<1>2. PICK k \in Wrong : \A j \in Wrong : ~(j < k)
  <2>1. Wrong \subseteq Nat
    BY <1>0
  <2> HIDE DEF Wrong
  <2> QED
    BY <2>1, LeastNumber
<1>3. Right(0)
  <2>1. f[0] = <<>>
    BY <1>0, <1>1 DEF IsKept
  <2>2. Len(<<>>) = 0 /\ <<>> \in Seq(T) /\ 1 .. 0 = {}
    OBVIOUS
  <2> QED
    BY <2>1, <2>2 DEF IsRest
<1>4. k \in 1 .. Len(s) /\ k - 1 \in 0 .. Len(s) /\ k - 1 < k
  BY <1>0, <1>2, <1>3
<1>5. Right(k - 1)
  BY <1>2, <1>4
<1>6. f[k] = KeptNext(s, S, f[k - 1], k)
  <2>1. k \in 0 .. Len(s) /\ k # 0
    BY <1>0, <1>4
  <2>2. f[k] = IF k = 0 THEN <<>> ELSE KeptNext(s, S, f[k - 1], k)
    BY <1>1, <2>1 DEF IsKept
  <2> QED
    BY <2>1, <2>2
<1>7. Right(k)
  BY <1>4, <1>5, <1>6, RestGrows
<1> QED
  BY <1>2, <1>7

(* The last of some places of a list. *)
LEMMA LastPlace ==
    ASSUME NEW n \in Nat, NEW E, E \subseteq 1 .. n, E # {}
    PROVE  Max(E) \in E /\ \A e \in E : Max(E) >= e
<1> DEFINE After == {n - e : e \in E}
<1>1. After \subseteq Nat /\ After # {}
  <2>1. \A e \in E : n - e \in Nat
    OBVIOUS
  <2> QED
    BY <2>1
<1>2. PICK a \in After : \A b \in After : ~(b < a)
  <2> HIDE DEF After
  <2> QED
    BY <1>1, LeastNumber
<1>3. PICK last \in E : a = n - last
  OBVIOUS
<1>4. \A e \in E : last >= e
  <2> TAKE e \in E
  <2>1. n - e \in After /\ e \in 1 .. n /\ last \in 1 .. n
    OBVIOUS
  <2>2. ~(n - e < n - last)
    BY <1>2, <1>3, <2>1
  <2> HIDE DEF After
  <2> QED
    BY <2>1, <2>2
<1> QED
  BY <1>4, Zenon DEF Max

-------------------------------------------------------------------------------
(* What the list says of the use of its keys: each was used after the ones   *)
(* behind it, so that it stands in the list once.                            *)
ByUse(order, u) ==
    \A i, j \in 1 .. Len(order) : i < j => u[order[i]] > u[order[j]]

(* A cache whose map and list are of the same keys, in order of use.         *)
Sound(c, u) ==
    /\ c = [items |-> c.items, order |-> c.order]
    /\ \A k \in Stored(c) : c.items[k] \in [value : Values, expireTime : Deadlines]
    /\ c.order \in Seq(Keys)
    /\ Range(c.order) = Stored(c)
    /\ ByUse(c.order, u)

(* Every use so far was before the n-th. *)
Before(u, n) == \A k \in Keys : u[k] < n

LEMMA PlacesOf ==
    ASSUME NEW c, NEW u, Sound(c, u)
    PROVE  /\ Len(c.order) \in Nat
           /\ \A i \in 1 .. Len(c.order) : c.order[i] \in Stored(c)
           /\ \A k \in Stored(c) : \E i \in 1 .. Len(c.order) : c.order[i] = k
           /\ Stored(c) \subseteq Keys
<1>1. /\ DOMAIN c.order = 1 .. Len(c.order) /\ Len(c.order) \in Nat
      /\ \A i \in 1 .. Len(c.order) : c.order[i] \in Keys
      /\ Range(c.order) = Stored(c)
  <2>1. c.order \in Seq(Keys) /\ Range(c.order) = Stored(c)
    BY DEF Sound
  <2> QED
    BY <2>1, LenProperties, ElementOfSeq
<1> HIDE DEF Stored
<1> QED
  BY <1>1 DEF Range

(* The list is as long as the map is large. *)
LEMMA SizeIsLength ==
    ASSUME NEW c, NEW u \in [Keys -> Nat], Sound(c, u)
    PROVE  IsFiniteSet(Stored(c)) /\ Size(c) = Len(c.order) /\ Size(c) \in Nat
<1> DEFINE n == Len(c.order)
<1>1. /\ n \in Nat /\ \A k \in Stored(c) : \E i \in 1 .. n : c.order[i] = k
      /\ \A i \in 1 .. n : c.order[i] \in Stored(c)
      /\ Stored(c) \subseteq Keys
  BY PlacesOf
<1>2. c.order \in Seq(Keys)
  BY DEF Sound
<1>3. c.order \in [1 .. n -> Stored(c)]
  <2>1. c.order \in [1 .. n -> Keys]
    BY <1>2, LenProperties
  <2> QED
    BY <1>1, <2>1
<1>4. \A i, j \in 1 .. n : c.order[i] = c.order[j] => i = j
  <2> SUFFICES ASSUME NEW i \in 1 .. n, NEW j \in 1 .. n, c.order[i] = c.order[j], i < j
               PROVE  FALSE
    BY <1>1
  <2>1. u[c.order[i]] > u[c.order[j]]
    BY DEF Sound, ByUse
  <2>2. u[c.order[i]] \in Nat
    BY <1>1
  <2> QED
    BY <2>1, <2>2
<1>5. ExistsBijection(1 .. n, Stored(c))
  <2> HIDE DEF n
  <2>1. c.order \in Injection(1 .. n, Stored(c))
    BY <1>3, <1>4 DEF Injection, IsInjective
  <2>2. c.order \in Surjection(1 .. n, Stored(c))
    BY <1>1, <1>3 DEF Surjection
  <2> QED
    BY <2>1, <2>2 DEF ExistsBijection, Bijection
<1>6. IsFiniteSet(1 .. n) /\ Cardinality(1 .. n) = n
  <2>1. 1 \in Int /\ n \in Int /\ n = n - 1 + 1
    BY <1>1
  <2> HIDE DEF n
  <2>2. /\ IsFiniteSet(1 .. n)
        /\ Cardinality(1 .. n) = IF 1 > n THEN 0 ELSE n - 1 + 1
    BY <2>1, FS_Interval, SMTT(20)
  <2>3. n \in Nat
    BY <1>1
  <2> QED
    BY <2>2, <2>3
<1> HIDE DEF n
<1>7. IsFiniteSet(Stored(c)) /\ Cardinality(Stored(c)) = n
  BY <1>1, <1>5, FS_CountingElements, FS_NatBijection
<1> QED
  BY <1>1, <1>7 DEF Size, n

(* What is dropped leaves the map and the list, and the others stay as they  *)
(* are.                                                                      *)
LEMMA RemoveItemsStores ==
    ASSUME NEW c, NEW S
    PROVE  /\ Stored(RemoveItems(c, S)) = Stored(c) \ S
           /\ \A k \in Stored(c) \ S : RemoveItems(c, S).items[k] = c.items[k]
           /\ RemoveItems(c, S).order = Without(c.order, S)
           /\ RemoveItems(c, S) = [items |-> RemoveItems(c, S).items,
                                   order |-> RemoveItems(c, S).order]
<1> DEFINE r == RemoveItems(c, S)
<1>1. /\ r = [items |-> r.items, order |-> r.order] /\ r.order = Without(c.order, S)
      /\ r.items = [k \in Stored(c) \ S |-> c.items[k]]
  BY DEF RemoveItems, Restrict
<1>2. Stored(r) = Stored(c) \ S
  BY <1>1 DEF Stored
<1> QED
  BY <1>1, <1>2

LEMMA RemoveItemsSound ==
    ASSUME NEW c, NEW u, NEW S, Sound(c, u)
    PROVE  Sound(RemoveItems(c, S), u)
<1> DEFINE r == RemoveItems(c, S)
           t == Without(c.order, S)
<1>1. /\ r = [items |-> r.items, order |-> r.order] /\ r.order = t
      /\ \A k \in Stored(c) \ S : r.items[k] = c.items[k]
  BY RemoveItemsStores
<1>2. Stored(r) = Stored(c) \ S
  BY RemoveItemsStores
<1>3. t \in Seq(Keys) /\ IsRest(t, Len(c.order), c.order, S)
  BY WithoutIsRest DEF Sound
<1> HIDE DEF r, t
<1>4. Len(t) \in Nat /\ DOMAIN t = 1 .. Len(t)
  BY <1>3, LenProperties
<1>5. /\ Len(c.order) \in Nat
      /\ \A i \in 1 .. Len(c.order) : c.order[i] \in Stored(c)
      /\ \A k \in Stored(c) : \E i \in 1 .. Len(c.order) : c.order[i] = k
  BY PlacesOf
<1>6. Range(t) = Stored(c) \ S
  <2>1. ASSUME NEW k \in Range(t) PROVE k \in Stored(c) \ S
    <3>1. PICK a \in 1 .. Len(t) : k = t[a]
      BY <1>4 DEF Range
    <3> QED
      BY <1>3, <1>5, <3>1 DEF IsRest
  <2>2. ASSUME NEW k \in Stored(c) \ S PROVE k \in Range(t)
    <3>1. PICK i \in 1 .. Len(c.order) : c.order[i] = k
      BY <1>5
    <3>2. PICK a \in 1 .. Len(t) : t[a] = k
      BY <1>3, <3>1 DEF IsRest
    <3> QED
      BY <1>4, <3>2 DEF Range
  <2> QED
    BY <2>1, <2>2
<1>7. ByUse(t, u)
  <2>1. ASSUME NEW a \in 1 .. Len(t), NEW b \in 1 .. Len(t), a < b
        PROVE  u[t[a]] > u[t[b]]
    <3>1. PICK i \in 1 .. Len(c.order), j \in 1 .. Len(c.order) :
              i < j /\ t[a] = c.order[i] /\ t[b] = c.order[j]
      BY <1>3, <2>1 DEF IsRest
    <3> QED
      BY <3>1 DEF Sound, ByUse
  <2> QED
    BY <2>1 DEF ByUse
<1>8. Sound(r, u)
  <2>1. \A k \in Stored(r) : r.items[k] \in [value : Values, expireTime : Deadlines]
    BY <1>1, <1>2 DEF Sound
  <2> QED
    BY <1>1, <1>2, <1>3, <1>6, <1>7, <2>1 DEF Sound
<1> QED
  BY <1>8 DEF r

(* A key used now goes to the front. *)
LEMMA FrontByUse ==
    ASSUME NEW t \in Seq(Keys), NEW u \in [Keys -> Nat], NEW k \in Keys, NEW n \in Nat,
           ByUse(t, u), k \notin Range(t), Before(u, n)
    PROVE  /\ <<k>> \o t \in Seq(Keys)
           /\ Range(<<k>> \o t) = {k} \cup Range(t)
           /\ ByUse(<<k>> \o t, [u EXCEPT ![k] = n])
<1> DEFINE s == <<k>> \o t
           v == [u EXCEPT ![k] = n]
<1>1. <<k>> \in Seq(Keys) /\ Len(<<k>>) = 1 /\ <<k>>[1] = k
  OBVIOUS
<1>2. /\ s \in Seq(Keys) /\ Len(s) = 1 + Len(t)
      /\ \A i \in 1 .. 1 + Len(t) : s[i] = IF i <= 1 THEN <<k>>[i] ELSE t[i - 1]
  BY <1>1, ConcatProperties, SMTT(20)
<1>3. /\ Len(t) \in Nat /\ DOMAIN t = 1 .. Len(t) /\ DOMAIN s = 1 .. Len(s)
      /\ \A i \in 1 .. Len(t) : t[i] \in Keys /\ t[i] \in Range(t)
  <2>1. Len(t) \in Nat /\ DOMAIN t = 1 .. Len(t) /\ DOMAIN s = 1 .. Len(s)
    BY <1>2, LenProperties
  <2> QED
    BY <2>1, ElementOfSeq DEF Range
<1> HIDE DEF s
<1>4. s[1] = k /\ 1 \in 1 .. Len(s)
  BY <1>1, <1>2, <1>3
<1>5. \A i \in 1 .. Len(t) : i + 1 \in 1 .. Len(s) /\ s[i + 1] = t[i]
  <2> TAKE i \in 1 .. Len(t)
  <2>1. /\ i + 1 \in 1 .. Len(s) /\ i + 1 \in 1 .. 1 + Len(t) /\ ~(i + 1 <= 1)
        /\ (i + 1) - 1 = i
    BY <1>2, <1>3
  <2>2. s[i + 1] = t[(i + 1) - 1]
    BY <1>2, <2>1, Zenon
  <2> QED
    BY <2>1, <2>2
<1>6. \A i \in 1 .. Len(s) : i = 1 \/ (i - 1 \in 1 .. Len(t) /\ s[i] = t[i - 1])
  <2> TAKE i \in 1 .. Len(s)
  <2> SUFFICES ASSUME i # 1 PROVE i - 1 \in 1 .. Len(t) /\ s[i] = t[i - 1]
    OBVIOUS
  <2>1. i \in 1 .. 1 + Len(t) /\ ~(i <= 1) /\ i - 1 \in 1 .. Len(t)
    BY <1>2, <1>3
  <2> QED
    BY <1>2, <2>1, Zenon
<1>7. Range(s) = {k} \cup Range(t)
  <2>1. ASSUME NEW x \in Range(s) PROVE x \in {k} \cup Range(t)
    <3>1. PICK i \in 1 .. Len(s) : x = s[i]
      BY <1>3 DEF Range
    <3> QED
      BY <1>3, <1>4, <1>6, <3>1
  <2>2. ASSUME NEW x \in {k} \cup Range(t) PROVE x \in Range(s)
    <3>1. \E i \in 1 .. Len(s) : x = s[i]
      <4>1. CASE x = k
        BY <1>4, <4>1
      <4>2. CASE x \in Range(t)
        <5>1. PICK i \in 1 .. Len(t) : x = t[i]
          BY <1>3, <4>2 DEF Range
        <5> QED
          BY <1>5, <5>1
      <4> QED
        BY <4>1, <4>2
    <3> QED
      BY <1>3, <3>1 DEF Range
  <2> QED
    BY <2>1, <2>2
<1>8. ByUse(s, v)
  <2>0. v[k] = n /\ \A l \in Keys : l # k => v[l] = u[l]
    OBVIOUS
  <2> HIDE DEF v
  <2>1. ASSUME NEW i \in 1 .. Len(s), NEW j \in 1 .. Len(s), i < j
        PROVE  v[s[i]] > v[s[j]]
    <3>1. j - 1 \in 1 .. Len(t) /\ s[j] = t[j - 1]
      BY <1>3, <1>6, <2>1
    <3>2. v[s[j]] = u[t[j - 1]] /\ t[j - 1] \in Keys
      BY <1>3, <2>0, <3>1
    <3>3. CASE i = 1
      <4>1. v[s[i]] = n
        BY <1>4, <2>0, <3>3
      <4> QED
        BY <3>2, <4>1 DEF Before
    <3>4. CASE i # 1
      <4>1. i - 1 \in 1 .. Len(t) /\ s[i] = t[i - 1] /\ i - 1 < j - 1
        BY <1>3, <1>6, <2>1, <3>4
      <4>2. v[s[i]] = u[t[i - 1]]
        BY <1>3, <2>0, <4>1
      <4> QED
        BY <3>1, <3>2, <4>1, <4>2 DEF ByUse
    <3> QED
      BY <3>3, <3>4
  <2> QED
    BY <2>1 DEF ByUse
<1> QED
  BY <1>2, <1>7, <1>8 DEF s

LEMMA MoveToFrontSound ==
    ASSUME NEW c, NEW u \in [Keys -> Nat], NEW k \in Stored(c), NEW n \in Nat,
           Sound(c, u), Before(u, n)
    PROVE  /\ Sound(MoveToFront(c, k), [u EXCEPT ![k] = n])
           /\ Stored(MoveToFront(c, k)) = Stored(c)
<1> DEFINE m == MoveToFront(c, k)
           t == Without(c.order, {k})
           r == RemoveItems(c, {k})
<1>1. m = [items |-> c.items, order |-> <<k>> \o t]
  <2>1. c = [items |-> c.items, order |-> c.order]
    BY DEF Sound
  <2>2. m = [c EXCEPT !.order = <<k>> \o t]
    BY DEF MoveToFront
  <2> HIDE DEF m, t
  <2> QED
    BY <2>1, <2>2
<1>2. Sound(r, u) /\ Stored(r) = Stored(c) \ {k} /\ r.order = t
  BY RemoveItemsSound, RemoveItemsStores
<1> HIDE DEF m, t, r
<1>3. t \in Seq(Keys) /\ Range(t) = Stored(c) \ {k} /\ ByUse(t, u)
  BY <1>2 DEF Sound
<1>4. k \in Keys
  BY PlacesOf
<1>5. /\ <<k>> \o t \in Seq(Keys)
      /\ Range(<<k>> \o t) = {k} \cup Range(t)
      /\ ByUse(<<k>> \o t, [u EXCEPT ![k] = n])
  BY <1>3, <1>4, FrontByUse
<1>6. /\ m = [items |-> m.items, order |-> m.order]
      /\ m.items = c.items /\ m.order = <<k>> \o t
  BY <1>1
<1>7. Stored(m) = Stored(c)
  BY <1>6 DEF Stored
<1>8. Range(m.order) = Stored(m)
  BY <1>3, <1>5, <1>6, <1>7
<1>9. \A l \in Stored(m) : m.items[l] \in [value : Values, expireTime : Deadlines]
  BY <1>6, <1>7 DEF Sound
<1>10. Sound(m, [u EXCEPT ![k] = n])
  BY <1>5, <1>6, <1>8, <1>9 DEF Sound
<1> QED
  BY <1>7, <1>10 DEF m

(* A deadline is never one that lies before the call that set it. *)
LEMMA DeadlineIsOne ==
    ASSUME NEW d \in Durations, clock \in 1 .. MaxClock
    PROVE  Deadline(d) \in Deadlines
<1>1. CASE d > 0
  <2>1. d \in Durations \ {0}
    BY <1>1, ParametersAssumption
  <2>2. clock \in 1 .. clock
    BY ParametersAssumption
  <2>3. clock + d \in {t + e : t \in 1 .. clock, e \in Durations \ {0}}
    BY <2>1, <2>2
  <2> QED
    BY <1>1, <2>3 DEF Deadline, Deadlines
<1>2. CASE ~(d > 0)
  BY <1>2 DEF Deadline, Deadlines
<1> QED
  BY <1>1, <1>2

(* Making room drops the least recently used of the entries that may go,     *)
(* and none if there is none.                                                *)
LEMMA EvictOldestSound ==
    ASSUME NEW c, NEW u \in [Keys -> Nat], Sound(c, u)
    PROVE  /\ Sound(EvictOldestEligible(c), u)
           /\ Stored(EvictOldestEligible(c)) \subseteq Stored(c)
           /\ \A k \in Stored(EvictOldestEligible(c)) :
                 EvictOldestEligible(c).items[k] = c.items[k]
           /\ \A k \in Stored(c) \ Stored(EvictOldestEligible(c)) :
                 /\ Evictable(c, k)
                 /\ \A l \in Stored(c) \ {k} : u[l] < u[k] => ~Evictable(c, l)
           /\ (\E k \in Stored(c) : Evictable(c, k)) =>
                 \E k \in Stored(c) : Stored(EvictOldestEligible(c)) = Stored(c) \ {k}
<1> DEFINE e == EvictOldestEligible(c)
           E == Eligible(c)
           last == Max(E)
           old == c.order[last]
           n == Len(c.order)
<1>1. /\ n \in Nat
      /\ \A i \in 1 .. n : c.order[i] \in Stored(c)
      /\ \A k \in Stored(c) : \E i \in 1 .. n : c.order[i] = k
      /\ Stored(c) \subseteq Keys
  BY PlacesOf
<1>2. E \subseteq 1 .. n /\ \A i \in 1 .. n : i \in E <=> Evictable(c, c.order[i])
  BY DEF Eligible
<1>3. CASE E = {}
  <2>1. e = c
    BY <1>3 DEF EvictOldestEligible
  <2>2. \A k \in Stored(c) : ~Evictable(c, k)
    <3> TAKE k \in Stored(c)
    <3>1. PICK i \in 1 .. n : c.order[i] = k
      BY <1>1
    <3> HIDE DEF E, n
    <3> QED
      BY <1>2, <1>3, <3>1
  <2> HIDE DEF e, E, n
  <2> QED
    BY <2>1, <2>2 DEF e
<1>4. CASE E # {}
  <2>1. e = RemoveItems(c, {old})
    BY <1>4 DEF EvictOldestEligible
  <2>2. last \in E /\ \A i \in E : last >= i
    <3> HIDE DEF E, n
    <3> QED
      BY <1>1, <1>2, <1>4, LastPlace
  <2> HIDE DEF e, E, last, n
  <2>3. last \in 1 .. n /\ old \in Stored(c) /\ Evictable(c, old)
    BY <1>1, <1>2, <2>2
  <2> HIDE DEF old
  <2>4. /\ Sound(e, u) /\ Stored(e) = Stored(c) \ {old}
        /\ \A k \in Stored(c) \ {old} : e.items[k] = c.items[k]
    <3> DEFINE r == RemoveItems(c, {old})
    <3>1. Sound(r, u)
      BY RemoveItemsSound
    <3>2. /\ Stored(r) = Stored(c) \ {old}
          /\ \A k \in Stored(c) \ {old} : r.items[k] = c.items[k]
      BY RemoveItemsStores
    <3>3. e = r
      BY <2>1
    <3> HIDE DEF r
    <3> QED
      BY <3>1, <3>2, <3>3
  <2>5. ASSUME NEW l \in Stored(c) \ {old}, u[l] < u[old]
        PROVE  ~Evictable(c, l)
    <3> SUFFICES ASSUME Evictable(c, l) PROVE FALSE
      OBVIOUS
    <3>1. PICK i \in 1 .. n : c.order[i] = l
      BY <1>1
    <3>2. i \in E /\ last >= i
      BY <1>2, <2>2, <3>1
    <3>3. i # last
      BY <3>1 DEF old
    <3>4. i < last
      BY <1>1, <2>3, <3>2, <3>3
    <3>5. u[l] > u[old]
      BY <2>3, <3>1, <3>4 DEF Sound, ByUse, old, n
    <3>6. u[l] \in Nat /\ u[old] \in Nat
      BY <1>1, <2>3
    <3> QED
      BY <2>5, <3>5, <3>6
  <2> QED
    BY <2>3, <2>4, <2>5 DEF e
<1> QED
  BY <1>3, <1>4

(* What an insert makes of the map and the list. *)
Added(room, k, v, d) ==
    [ items |-> [l \in Stored(room) \cup {k} |->
                    IF l = k THEN [value |-> v, expireTime |-> Deadline(d)]
                             ELSE room.items[l]],
      order |-> <<k>> \o room.order ]

LEMMA AddedSound ==
    ASSUME NEW c, NEW u \in [Keys -> Nat], NEW k \in Keys \ Stored(c), NEW v \in Values,
           NEW d \in Durations, NEW n \in Nat, clock \in 1 .. MaxClock,
           Sound(c, u), Before(u, n)
    PROVE  Sound(Added(c, k, v, d), [u EXCEPT ![k] = n])
<1> DEFINE a == Added(c, k, v, d)
           new == [value |-> v, expireTime |-> Deadline(d)]
<1>1. /\ a = [items |-> a.items, order |-> a.order]
      /\ a.order = <<k>> \o c.order
      /\ Stored(a) = Stored(c) \cup {k}
      /\ \A l \in Stored(a) : a.items[l] = IF l = k THEN new ELSE c.items[l]
  <2>1. /\ a = [items |-> a.items, order |-> a.order] /\ a.order = <<k>> \o c.order
        /\ a.items = [l \in Stored(c) \cup {k} |-> IF l = k THEN new ELSE c.items[l]]
    BY DEF Added
  <2> HIDE DEF a, new
  <2>2. Stored(a) = Stored(c) \cup {k}
    BY <2>1 DEF Stored
  <2> QED
    BY <2>1, <2>2
<1>2. new \in [value : Values, expireTime : Deadlines]
  BY DeadlineIsOne
<1> HIDE DEF a, new
<1>3. \A l \in Stored(a) : a.items[l] \in [value : Values, expireTime : Deadlines]
  BY <1>1, <1>2 DEF Sound
<1>4. c.order \in Seq(Keys) /\ ByUse(c.order, u) /\ Range(c.order) = Stored(c)
  BY DEF Sound
<1>5. /\ <<k>> \o c.order \in Seq(Keys)
      /\ Range(<<k>> \o c.order) = {k} \cup Range(c.order)
      /\ ByUse(<<k>> \o c.order, [u EXCEPT ![k] = n])
  BY <1>4, FrontByUse
<1>6. Sound(a, [u EXCEPT ![k] = n])
  BY <1>1, <1>3, <1>4, <1>5 DEF Sound
<1> QED
  BY <1>6 DEF a

(* An insert, whole: the sizes it leaves, and what it drops.                 *)
LEMMA AddItemSound ==
    ASSUME NEW c, NEW u \in [Keys -> Nat], NEW k \in Keys \ Stored(c), NEW v \in Values,
           NEW d \in Durations, NEW n \in Nat, clock \in 1 .. MaxClock,
           Sound(c, u), Before(u, n)
    PROVE  /\ Sound(AddItem(c, k, v, d), [u EXCEPT ![k] = n])
           /\ Stored(AddItem(c, k, v, d)) \subseteq Stored(c) \cup {k}
           /\ \A l \in Stored(c) \ Stored(AddItem(c, k, v, d)) :
                 /\ Evictable(c, l)
                 /\ \/ Expired(c, l)
                    \/ \A m \in Stored(c) \ {l} : u[m] < u[l] => ~Evictable(c, m)
           /\ (Size(c) >= MinSize /\ \E l \in Stored(c) : Evictable(c, l))
                 => Size(AddItem(c, k, v, d)) <= Size(c)
<1> DEFINE room == IF Size(c) >= MinSize THEN EvictOldestEligible(c) ELSE c
           added == Added(room, k, v, d)
           gone == {l \in Stored(added) : Expired(added, l) /\ Evictable(added, l)}
           result == AddItem(c, k, v, d)
           w == [u EXCEPT ![k] = n]
<1>1. result = IF Size(added) > CoreSize THEN RemoveItems(added, gone) ELSE added
  BY Zenon DEF AddItem, Added, CleanExpiredEligible
<1> HIDE DEF result
<1>2. /\ Sound(room, u) /\ Stored(room) \subseteq Stored(c)
      /\ \A l \in Stored(room) : room.items[l] = c.items[l]
      /\ \A l \in Stored(c) \ Stored(room) :
            /\ Evictable(c, l)
            /\ \A m \in Stored(c) \ {l} : u[m] < u[l] => ~Evictable(c, m)
      /\ (Size(c) >= MinSize /\ \E l \in Stored(c) : Evictable(c, l)) =>
            \E l \in Stored(c) : Stored(room) = Stored(c) \ {l}
  <2>1. CASE Size(c) >= MinSize
    <3> DEFINE e == EvictOldestEligible(c)
    <3>1. room = e
      BY <2>1
    <3>2. /\ Sound(e, u) /\ Stored(e) \subseteq Stored(c)
          /\ \A l \in Stored(e) : e.items[l] = c.items[l]
          /\ \A l \in Stored(c) \ Stored(e) :
                /\ Evictable(c, l)
                /\ \A m \in Stored(c) \ {l} : u[m] < u[l] => ~Evictable(c, m)
          /\ (\E l \in Stored(c) : Evictable(c, l)) =>
                \E l \in Stored(c) : Stored(e) = Stored(c) \ {l}
      BY EvictOldestSound
    <3> HIDE DEF e, room
    <3> QED
      BY <3>1, <3>2
  <2>2. CASE ~(Size(c) >= MinSize)
    <3>1. room = c
      BY <2>2
    <3> HIDE DEF room
    <3> QED
      BY <2>2, <3>1
  <2> QED
    BY <2>1, <2>2
<1> HIDE DEF room
<1>3. k \in Keys \ Stored(room)
  BY <1>2
<1>4. /\ Sound(added, w) /\ Stored(added) = Stored(room) \cup {k}
      /\ \A l \in Stored(room) : added.items[l] = room.items[l]
  <2>1. Sound(room, u)
    BY <1>2
  <2>2. Sound(Added(room, k, v, d), [u EXCEPT ![k] = n])
    <3> HIDE DEF added, w
    <3> QED
      BY <1>3, <2>1, AddedSound
  <2> DEFINE new == [value |-> v, expireTime |-> Deadline(d)]
  <2>3. added.items = [l \in Stored(room) \cup {k} |-> IF l = k THEN new ELSE room.items[l]]
    BY DEF Added
  <2> HIDE DEF added, new
  <2>4. Stored(added) = Stored(room) \cup {k}
    BY <2>3 DEF Stored
  <2>5. \A l \in Stored(room) : added.items[l] = room.items[l]
    BY <1>3, <2>3
  <2> QED
    BY <2>2, <2>4, <2>5 DEF added
<1>5. w \in [Keys -> Nat]
  OBVIOUS
<1> HIDE DEF added, gone, w
<1>6. Sound(result, w) /\ Stored(result) \subseteq Stored(added)
  <2>1. CASE Size(added) > CoreSize
    <3> DEFINE r == RemoveItems(added, gone)
    <3>1. Sound(r, w) /\ Stored(r) = Stored(added) \ gone
      BY <1>4, RemoveItemsSound, RemoveItemsStores
    <3>2. result = r
      BY <1>1, <2>1
    <3> HIDE DEF r
    <3> QED
      BY <3>1, <3>2
  <2>2. CASE ~(Size(added) > CoreSize)
    BY <1>1, <1>4, <2>2
  <2> QED
    BY <2>1, <2>2
<1>7. ASSUME NEW l \in Stored(added) \ Stored(result)
      PROVE  l \in gone
  <2>1. CASE Size(added) > CoreSize
    <3>1. Stored(RemoveItems(added, gone)) = Stored(added) \ gone
      BY RemoveItemsStores
    <3> QED
      BY <1>1, <2>1, <3>1
  <2>2. CASE ~(Size(added) > CoreSize)
    BY <1>1, <2>2
  <2> QED
    BY <2>1, <2>2
<1>8. \A l \in Stored(c) \ Stored(result) :
         /\ Evictable(c, l)
         /\ \/ Expired(c, l)
            \/ \A m \in Stored(c) \ {l} : u[m] < u[l] => ~Evictable(c, m)
  <2> TAKE l \in Stored(c) \ Stored(result)
  <2>1. CASE l \in Stored(room)
    <3>1. l \in Stored(added) \ Stored(result)
      BY <1>4, <2>1
    <3>2. Expired(added, l) /\ Evictable(added, l)
      BY <1>7, <3>1 DEF gone
    <3>3. added.items[l] = c.items[l]
      BY <1>2, <1>4, <2>1
    <3> QED
      BY <3>2, <3>3 DEF Expired, Evictable
  <2>2. CASE l \notin Stored(room)
    BY <1>2, <2>2
  <2> QED
    BY <2>1, <2>2
<1>9. ASSUME Size(c) >= MinSize, \E l \in Stored(c) : Evictable(c, l)
      PROVE  Size(result) <= Size(c)
  <2>1. PICK l \in Stored(c) : Stored(room) = Stored(c) \ {l}
    BY <1>2, <1>9
  <2>2. IsFiniteSet(Stored(c)) /\ Size(c) \in Nat
    BY SizeIsLength
  <2>3. IsFiniteSet(Stored(c) \ {l}) /\ Cardinality(Stored(c) \ {l}) = Size(c) - 1
    BY <2>2, FS_RemoveElement DEF Size
  <2>4. /\ IsFiniteSet(Stored(room) \cup {k})
        /\ Cardinality(Stored(room) \cup {k}) = (Size(c) - 1) + 1
    <3> DEFINE S == Stored(room)
    <3>1. IsFiniteSet(S) /\ Cardinality(S) = Size(c) - 1 /\ k \notin S
      BY <1>3, <2>1, <2>3
    <3> HIDE DEF S
    <3>2. /\ IsFiniteSet(S \cup {k})
          /\ Cardinality(S \cup {k}) = IF k \in S THEN Cardinality(S) ELSE Cardinality(S) + 1
      BY <3>1, FS_AddElement
    <3>3. IsFiniteSet(S \cup {k}) /\ Cardinality(S \cup {k}) = (Size(c) - 1) + 1
      BY <3>1, <3>2
    <3> QED
      BY <3>3 DEF S
  <2>5. Cardinality(Stored(result)) <= Cardinality(Stored(added))
    BY <1>4, <1>6, <2>4, FS_Subset
  <2> QED
    BY <1>4, <2>2, <2>4, <2>5 DEF Size
<1> QED
  BY <1>2, <1>4, <1>6, <1>8, <1>9 DEF result, w

-------------------------------------------------------------------------------
(* ListIsByRecency is not inductive: that a key moves to the front of the    *)
(* keys used before it needs that no use is of a call still to come, and     *)
(* what EXCEPT makes of a cache that it is a record of these two fields.     *)
CacheInv ==
    /\ Sound(cache, used)
    /\ clock \in 1 .. MaxClock /\ ops \in 0 .. MaxOps
    /\ used \in [Keys -> 0 .. MaxOps] /\ asked \subseteq Keys
    /\ Before(used, ops + 1)

(* What the two action properties say of a step. *)
StepRight ==
    /\ \A k \in Dropped : ~Evictable(cache, k) => k \in asked'
    /\ Inserting => DroppedIsOldest /\ GrowsOnlyWhenHeld

LEMMA UsedTyped ==
    ASSUME CacheInv
    PROVE  used \in [Keys -> Nat]
<1> QED
  BY ParametersAssumption DEF CacheInv

LEMMA InvGivesRecency ==
    ASSUME CacheInv
    PROVE  ListIsByRecency
<1>1. used \in [Keys -> Nat]
  BY UsedTyped
<1>2. Size(cache) = Len(cache.order)
  BY <1>1, SizeIsLength DEF CacheInv
<1>3. CacheTypeOK
  <2>1. Stored(cache) \subseteq Keys
    BY PlacesOf DEF CacheInv
  <2> QED
    BY <2>1 DEF CacheInv, CacheTypeOK, Sound
<1> QED
  BY <1>2, <1>3 DEF ListIsByRecency, ListMatchesMap, CacheInv, Sound, ByUse

LEMMA InitCacheInv ==
    ASSUME CacheInit
    PROVE  CacheInv
<1>1. cache = [items |-> cache.items, order |-> cache.order]
  BY DEF CacheInit, Empty
<1>2. cache.order = <<>> /\ Stored(cache) = {}
  BY DEF CacheInit, Empty, Stored
<1>3. <<>> \in Seq(Keys) /\ Len(<<>>) = 0 /\ DOMAIN <<>> = 1 .. 0 /\ 1 .. 0 = {}
  OBVIOUS
<1>4. Range(<<>>) = {}
  BY <1>3 DEF Range
<1>5. Sound(cache, used)
  <2> HIDE DEF Stored
  <2> QED
    BY <1>1, <1>2, <1>3, <1>4 DEF Sound, ByUse
<1>6. used \in [Keys -> 0 .. MaxOps] /\ Before(used, ops + 1)
  BY ParametersAssumption DEF CacheInit, Before
<1> QED
  BY <1>5, <1>6, ParametersAssumption DEF CacheInit, CacheInv

(* A call: the clock stands, so that a deadline stays one.                   *)
LEMMA CallKeeps ==
    ASSUME CacheInv, NEW D \in SUBSET Keys, CallFor(D), Sound(cache', used'),
           used' \in [Keys -> 0 .. MaxOps], Before(used', ops + 2)
    PROVE  CacheInv'
<1>1. Deadlines' = Deadlines
  BY DEF CallFor, Deadlines
<1>2. Sound(cache, used)'
  BY <1>1 DEF Sound, Stored, ByUse
<1>3. ops \in Nat /\ ops' = ops + 1 /\ ops' + 1 = ops + 2 /\ ops' \in 0 .. MaxOps
  BY ParametersAssumption DEF CallFor, CacheInv
<1>4. Before(used, ops + 1)'
  BY <1>3 DEF Before
<1> QED
  BY <1>2, <1>3, <1>4 DEF CacheInv, CallFor

LEMMA NotUsed ==
    ASSUME CacheInv, UNCHANGED used
    PROVE  used' \in [Keys -> 0 .. MaxOps] /\ Before(used', ops + 2)
<1>1. used \in [Keys -> Nat] /\ ops \in Nat
  BY UsedTyped, ParametersAssumption DEF CacheInv
<1>2. \A k \in Keys : used[k] < ops + 2
  BY <1>1 DEF CacheInv, Before
<1> QED
  BY <1>2 DEF CacheInv, Before

LEMMA UsedNow ==
    ASSUME CacheInv, NEW k \in Keys, Use(k), ops < MaxOps
    PROVE  used' \in [Keys -> 0 .. MaxOps] /\ Before(used', ops + 2)
<1>1. used \in [Keys -> Nat] /\ ops \in Nat
  BY UsedTyped, ParametersAssumption DEF CacheInv
<1>2. ops + 1 \in 0 .. MaxOps
  BY <1>1, ParametersAssumption
<1>3. /\ used' \in [Keys -> 0 .. MaxOps] /\ used'[k] = ops + 1
      /\ \A l \in Keys : l # k => used'[l] = used[l]
  BY <1>2 DEF CacheInv, Use
<1>4. \A l \in Keys : used'[l] < ops + 2
  BY <1>1, <1>3 DEF CacheInv, Before
<1> QED
  BY <1>3, <1>4 DEF Before

(* A call that only drops, and nothing that is neither asked for nor free.   *)
LEMMA RemoveStep ==
    ASSUME CacheInv, NEW D \in SUBSET Keys, NEW S, CallFor(D), UNCHANGED used,
           cache' = RemoveItems(cache, S),
           \A k \in S \cap Stored(cache) : Evictable(cache, k) \/ k \in D
    PROVE  CacheInv' /\ StepRight
<1>1. Sound(cache', used') /\ Stored(cache') = Stored(cache) \ S
  BY RemoveItemsSound, RemoveItemsStores DEF CacheInv
<1>2. CacheInv'
  BY <1>1, NotUsed, CallKeeps
<1>3. Stored(cache)' = Stored(cache) \ S
  BY <1>1 DEF Stored
<1>4. asked' = D
  BY DEF CallFor
<1>5. StepRight
  <2> HIDE DEF Stored
  <2> QED
    BY <1>3, <1>4 DEF StepRight, Dropped, Inserting
<1> QED
  BY <1>2, <1>5

(* One that changes nothing but what is used last.                           *)
LEMMA FrontStep ==
    ASSUME CacheInv, NEW c, Sound(c, used), NEW k \in Stored(c), Call, Use(k),
           Stored(c) = Stored(cache), cache' = MoveToFront(c, k)
    PROVE  CacheInv' /\ StepRight
<1>1. k \in Keys
  BY PlacesOf
<1>2. CallFor({}) /\ ops < MaxOps
  BY DEF Call, CallFor
<1>3. used \in [Keys -> Nat] /\ ops + 1 \in Nat /\ Before(used, ops + 1)
  BY UsedTyped, ParametersAssumption DEF CacheInv
<1>4. Sound(cache', used') /\ Stored(cache') = Stored(c)
  BY <1>3, MoveToFrontSound DEF Use
<1>5. CacheInv'
  BY <1>1, <1>2, <1>4, UsedNow, CallKeeps
<1>6. Stored(cache)' = Stored(cache)
  BY <1>4 DEF Stored
<1>7. StepRight
  BY <1>6 DEF StepRight, Dropped, Inserting
<1> QED
  BY <1>5, <1>7

(* An insert: what it drops may go, and is expired or the oldest that may.   *)
LEMMA InsertStep ==
    ASSUME CacheInv, NEW k \in Keys \ Stored(cache), NEW v \in Values, NEW d \in Durations,
           Call, Use(k), cache' = AddItem(cache, k, v, d)
    PROVE  CacheInv' /\ StepRight
<1>1. CallFor({}) /\ ops < MaxOps
  BY DEF Call, CallFor
<1>2. /\ used \in [Keys -> Nat] /\ ops + 1 \in Nat /\ Before(used, ops + 1)
      /\ clock \in 1 .. MaxClock /\ Sound(cache, used)
  BY UsedTyped, ParametersAssumption DEF CacheInv
<1> DEFINE c == AddItem(cache, k, v, d)
<1>3. /\ Sound(c, [used EXCEPT ![k] = ops + 1])
      /\ Stored(c) \subseteq Stored(cache) \cup {k}
      /\ \A l \in Stored(cache) \ Stored(c) :
            /\ Evictable(cache, l)
            /\ \/ Expired(cache, l)
               \/ \A m \in Stored(cache) \ {l} : used[m] < used[l] => ~Evictable(cache, m)
      /\ (Size(cache) >= MinSize /\ \E l \in Stored(cache) : Evictable(cache, l))
            => Size(c) <= Size(cache)
  BY <1>2, AddItemSound
<1> HIDE DEF c
<1>4. Sound(cache', used') /\ cache' = c
  BY <1>3 DEF Use, c
<1>5. CacheInv'
  BY <1>1, <1>4, UsedNow, CallKeeps
<1>6. Stored(cache)' = Stored(c) /\ Size(cache)' = Size(c)
  BY <1>4 DEF Stored, Size
<1>7. \A l \in Dropped : Evictable(cache, l)
  BY <1>3, <1>6 DEF Dropped
<1>8. DroppedIsOldest
  BY <1>3, <1>6 DEF DroppedIsOldest, Dropped
<1>9. GrowsOnlyWhenHeld
  <2>1. used' \in [Keys -> Nat]
    <3>1. used' \in [Keys -> 0 .. MaxOps]
      BY <1>5 DEF CacheInv
    <3> QED
      BY <3>1, ParametersAssumption
  <2>2. Size(c) \in Nat /\ Size(cache) \in Nat
    BY <1>2, <1>4, <2>1, SizeIsLength
  <2> QED
    BY <1>3, <1>6, <2>2 DEF GrowsOnlyWhenHeld
<1> QED
  BY <1>5, <1>7, <1>8, <1>9 DEF StepRight

LEMMA StayStep ==
    ASSUME CacheInv, Call, UNCHANGED <<cache, used>>
    PROVE  CacheInv' /\ StepRight
<1>1. CallFor({}) /\ Sound(cache', used')
  BY DEF Call, CacheInv
<1>2. CacheInv'
  BY <1>1, NotUsed, CallKeeps
<1>3. StepRight
  BY DEF StepRight, Dropped, Inserting, Stored
<1> QED
  BY <1>2, <1>3

LEMMA ClearStep ==
    ASSUME CacheInv, Clear
    PROVE  CacheInv' /\ StepRight
<1>1. CallFor(Stored(cache)) /\ cache' = Empty /\ UNCHANGED used
  BY DEF Clear
<1>2. Stored(cache) \in SUBSET Keys
  BY PlacesOf DEF CacheInv
<1>3. /\ Empty = [items |-> Empty.items, order |-> Empty.order]
      /\ Empty.order = <<>> /\ Stored(Empty) = {}
  BY DEF Empty, Stored
<1>4. <<>> \in Seq(Keys) /\ Len(<<>>) = 0 /\ DOMAIN <<>> = 1 .. 0 /\ 1 .. 0 = {}
  OBVIOUS
<1>5. Range(<<>>) = {}
  BY <1>4 DEF Range
<1>6. Sound(cache', used')
  <2> HIDE DEF Stored
  <2> QED
    BY <1>1, <1>3, <1>4, <1>5 DEF Sound, ByUse
<1>7. CacheInv'
  BY <1>1, <1>2, <1>6, NotUsed, CallKeeps
<1>8. Stored(cache)' = {}
  BY <1>1, <1>3 DEF Stored
<1>9. asked' = Stored(cache)
  BY <1>1 DEF CallFor
<1>10. StepRight
  BY <1>8, <1>9 DEF StepRight, Dropped, Inserting
<1> QED
  BY <1>7, <1>10

(* The clock only adds deadlines. *)
LEMMA TickStep ==
    ASSUME CacheInv, Tick
    PROVE  CacheInv' /\ StepRight
<1>1. clock \in 1 .. MaxClock /\ clock < MaxClock /\ clock' = clock + 1
  BY DEF Tick, CacheInv
<1>2. clock' \in 1 .. MaxClock /\ 1 .. clock \subseteq 1 .. clock'
  BY <1>1, ParametersAssumption
<1>3. Deadlines \subseteq Deadlines'
  BY <1>2 DEF Deadlines
<1>4. cache' = cache /\ used' = used /\ ops' = ops /\ asked' = {}
  BY DEF Tick
<1>5. \A k \in Stored(cache) : cache.items[k] \in [value : Values, expireTime : Deadlines']
  BY <1>3 DEF CacheInv, Sound
<1>6. Sound(cache, used)'
  BY <1>4, <1>5 DEF CacheInv, Sound, Stored, ByUse
<1>7. CacheInv'
  BY <1>2, <1>4, <1>6 DEF CacheInv, Before
<1>8. StepRight
  BY <1>4 DEF StepRight, Dropped, Inserting, Stored
<1> QED
  BY <1>7, <1>8

LEMMA GetHitStep ==
    ASSUME CacheInv, NEW k \in Keys, GetHit(k)
    PROVE  CacheInv' /\ StepRight
<1> QED
  BY FrontStep DEF GetHit, CacheInv

LEMMA GetExpiredStep ==
    ASSUME CacheInv, NEW k \in Keys, GetExpired(k)
    PROVE  CacheInv' /\ StepRight
<1>1. CASE Evictable(cache, k)
  <2>1. cache' = RemoveItems(cache, {k}) /\ CallFor({}) /\ UNCHANGED used
    BY <1>1 DEF GetExpired, Call
  <2>2. \A l \in {k} \cap Stored(cache) : Evictable(cache, l)
    BY <1>1
  <2> QED
    BY <2>1, <2>2, RemoveStep
<1>2. CASE ~Evictable(cache, k)
  BY <1>2, StayStep DEF GetExpired
<1> QED
  BY <1>1, <1>2

LEMMA PutUpdateStep ==
    ASSUME CacheInv, NEW k \in Keys, NEW v \in Values, NEW d \in Durations,
           PutUpdate(k, v, d)
    PROVE  CacheInv' /\ StepRight
<1> DEFINE new == [value |-> v, expireTime |-> Deadline(d)]
           c == [cache EXCEPT !.items[k] = new]
<1>1. Call /\ k \in Stored(cache) /\ cache' = MoveToFront(c, k) /\ Use(k)
  BY DEF PutUpdate
<1>2. new \in [value : Values, expireTime : Deadlines]
  BY DeadlineIsOne DEF CacheInv
<1> HIDE DEF new
<1>3. /\ c = [items |-> c.items, order |-> c.order]
      /\ c.items = [cache.items EXCEPT ![k] = new] /\ c.order = cache.order
  <2>1. cache = [items |-> cache.items, order |-> cache.order]
    BY DEF CacheInv, Sound
  <2> QED
    BY <2>1
<1> HIDE DEF c
<1>4. Stored(c) = Stored(cache)
  BY <1>3 DEF Stored
<1>5. \A l \in Stored(c) : c.items[l] = IF l = k THEN new ELSE cache.items[l]
  BY <1>3 DEF Stored
<1>6. Sound(c, used)
  BY <1>2, <1>3, <1>4, <1>5 DEF CacheInv, Sound
<1> QED
  BY <1>1, <1>4, <1>6, FrontStep

LEMMA CacheStepRight ==
    ASSUME CacheInv, CacheNext
    PROVE  CacheInv' /\ StepRight
<1>1. ASSUME NEW k \in Keys, GetHit(k)
      PROVE  CacheInv' /\ StepRight
  BY <1>1, GetHitStep
<1>2. ASSUME NEW k \in Keys, GetExpired(k)
      PROVE  CacheInv' /\ StepRight
  BY <1>2, GetExpiredStep
<1>3. ASSUME NEW k \in Keys, Delete(k)
      PROVE  CacheInv' /\ StepRight
  BY <1>3, RemoveStep DEF Delete
<1>4. ASSUME NEW k \in Keys, NEW v \in Values, NEW d \in Durations,
             GetLoad(k, v, d) \/ PutNew(k, v, d)
      PROVE  CacheInv' /\ StepRight
  BY <1>4, InsertStep DEF GetLoad, PutNew
<1>5. ASSUME NEW k \in Keys, NEW v \in Values, NEW d \in Durations, PutUpdate(k, v, d)
      PROVE  CacheInv' /\ StepRight
  BY <1>5, PutUpdateStep
<1>6. CASE Clear
  BY <1>6, ClearStep
<1>7. CASE RemoveEligible
  <2> DEFINE S == {k \in Stored(cache) : Evictable(cache, k)}
  <2>1. CallFor(S) /\ cache' = RemoveItems(cache, S) /\ UNCHANGED used
    BY <1>7 DEF RemoveEligible
  <2>2. S \in SUBSET Keys
    BY PlacesOf DEF CacheInv
  <2> QED
    BY <2>1, <2>2, RemoveStep
<1>8. CASE CleanExpired
  <2> DEFINE S == {k \in Stored(cache) : Expired(cache, k) /\ Evictable(cache, k)}
  <2>1. CallFor({}) /\ cache' = RemoveItems(cache, S) /\ UNCHANGED used
    BY <1>8 DEF CleanExpired, CleanExpiredEligible, Call
  <2>2. \A k \in S \cap Stored(cache) : Evictable(cache, k)
    OBVIOUS
  <2> HIDE DEF S
  <2> QED
    BY <2>1, <2>2, RemoveStep
<1>9. CASE Tick
  BY <1>9, TickStep
<1> QED
  BY <1>1, <1>2, <1>3, <1>4, <1>5, <1>6, <1>7, <1>8, <1>9 DEF CacheNext

LEMMA CacheInvAlways == CacheSpec => []CacheInv
<1>1. CacheInit => CacheInv
  BY InitCacheInv
<1>2. CacheInv /\ [CacheNext]_cacheVars => CacheInv'
  <2>1. ASSUME CacheInv, UNCHANGED cacheVars
        PROVE  CacheInv'
    BY <2>1 DEF CacheInv, cacheVars, Sound, Stored, ByUse, Before, Deadlines
  <2> QED
    BY <2>1, CacheStepRight
<1> QED
  BY <1>1, <1>2, PTL DEF CacheSpec

(* Whatever is got, put, dropped, expired or evicted, the list and the map   *)
(* hold the same keys, in order of last use (cache_mgr.go:85-98, 263-268).   *)
THEOREM ListIsByRecencyAlways == CacheSpec => []ListIsByRecency
<1>1. CacheInv => ListIsByRecency
  BY InvGivesRecency
<1> QED
  BY <1>1, CacheInvAlways, PTL

LEMMA EveryStepRight == CacheSpec => [][StepRight]_cacheVars
<1>1. CacheInv /\ [CacheNext]_cacheVars => [StepRight]_cacheVars
  BY CacheStepRight
<1> QED
  BY <1>1, CacheInvAlways, PTL DEF CacheSpec

(* An entry the filter protects leaves by Delete or Clear only, for any      *)
(* filter, sizes and durations.                                              *)
THEOREM HeldStaysAlways == CacheSpec => HeldStays
<1>1. [StepRight]_cacheVars =>
          [\A k \in Dropped : ~Evictable(cache, k) => k \in asked']_cacheVars
  BY DEF StepRight
<1> QED
  BY <1>1, EveryStepRight, PTL DEF HeldStays

(* An insert drops what is expired and the least recently used of what it    *)
(* may, and grows past MinSize only if it may drop nothing.                  *)
THEOREM InsertDropsLeastRecentAlways == CacheSpec => InsertDropsLeastRecent
<1>1. [StepRight]_cacheVars => [Inserting => DroppedIsOldest /\ GrowsOnlyWhenHeld]_cacheVars
  BY DEF StepRight
<1> QED
  BY <1>1, EveryStepRight, PTL DEF InsertDropsLeastRecent
===============================================================================
