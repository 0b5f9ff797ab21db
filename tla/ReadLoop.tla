------------------------------- MODULE ReadLoop -------------------------------
(***************************************************************************)
(* The queue with the read loops that feed it: readLoop of                 *)
(* network/tcp_net/conn.go cuts each connection's stream into frames, a    *)
(* head that holds the length and a body, and what Unpack returns for a    *)
(* body sends it to GlobalMQ.  A stream is a row of units, of which a head *)
(* takes HeadLen; the default head of four bytes may arrive in parts too.  *)
(*                                                                         *)
(* The read deadline of five minutes may pass in the middle of a head or a *)
(* body.  readLoop then goes round, what it had read is gone, and it takes *)
(* whatever comes next for a head.  Conn has the rest of readLoop's life.  *)
(*                                                                         *)
(* Definitions that the model does not use and that stand before one it   *)
(* does are mutants: slips a property is shown to notice.                  *)
(***************************************************************************)
EXTENDS GlobalMQ

CONSTANTS
    HeadLen,      \* units of a head
    BodyLen,      \* units of the body of each frame
    Garbled       \* a body that is none the client has sent

ASSUME FrameAssumption ==
    /\ HeadLen \in Nat \ {0} /\ BodyLen \in [1 .. MaxSends -> Nat \ {0}]
    /\ Garbled \notin Nat

VARIABLES
    reader,    \* each readLoop: "reading", or "ended": it reads nothing more
    pos,       \* units of its stream it has taken
    need,      \* units of the body it reads, or 0: it reads a head
    torn,      \* history: connections whose deadline passed inside a frame
    carried    \* history: the frame that is in each message it has sent

readVars == <<reader, pos, need, torn, carried>>

(* Where the head of the n-th frame is, and one past the last frame.        *)
HeadAt[n \in 1 .. MaxSends + 1] ==
    IF n = 1 THEN 0 ELSE HeadAt[n - 1] + HeadLen + BodyLen[n - 1]

StreamEnd == HeadAt[MaxSends + 1]
AtHead(u) == \E n \in 1 .. MaxSends + 1 : HeadAt[n] = u

ReadInit ==
    /\ Init
    /\ reader = [p \in Producers |-> "reading"] /\ pos = [p \in Producers |-> 0]
    /\ need = [p \in Producers |-> 0] /\ torn = {} /\ carried = [m \in Msg |-> 0]

Reading(p) == reader[p] = "reading" /\ ~crashed

(* How far the goroutine moves in its stream, and what it reads next.       *)
Move(p, units, next) ==
    /\ pos[p] + units <= StreamEnd
    /\ pos' = [pos EXCEPT ![p] = @ + units] /\ need' = [need EXCEPT ![p] = next]

End(p) == reader' = [reader EXCEPT ![p] = "ended"]

-------------------------------------------------------------------------------
BodySizeWithHead(n) == BodyLen[n] + HeadLen

(* The length in the n-th head. *)
BodySize(n) == BodyLen[n]

(* A head is read.  In step it holds its body's length; out of step any      *)
(* number, and one that is out of bounds closes the connection.              *)
ReadHead(p) ==
    /\ Reading(p) /\ need[p] = 0
    /\ \/ \E n \in 1 .. MaxSends :
             HeadAt[n] = pos[p] /\ Move(p, HeadLen, BodySize(n)) /\ UNCHANGED reader
       \/ /\ ~AtHead(pos[p])
          /\ \E n \in 0 .. StreamEnd :
                /\ Move(p, HeadLen, n)
                /\ IF n = 0 THEN End(p) ELSE UNCHANGED reader
    /\ UNCHANGED <<torn, carried, vars>>

(* The frame in the body that is about to be read. *)
InHand(p) ==
    LET whole == {n \in 1 .. MaxSends :
                    HeadAt[n] + HeadLen = pos[p] /\ BodyLen[n] = need[p]}
    IN  IF whole = {} THEN Garbled ELSE CHOOSE n \in whole : TRUE

(* A body is read and unpacked into a message for the queue.                *)
ReadBody(p) ==
    /\ Reading(p) /\ need[p] > 0 /\ Move(p, need[p], 0)
    /\ Send(p) \/ SendPanic(p)
    /\ carried' = [carried EXCEPT ![NextMsg(p)] = InHand(p)]
    /\ UNCHANGED <<reader, torn>>

(* One out of step need not make a message: Unpack fails, or gives nothing.  *)
ReadGarbled(p) ==
    /\ Reading(p) /\ need[p] > 0 /\ InHand(p) = Garbled /\ Move(p, need[p], 0)
    /\ End(p) \/ UNCHANGED reader
    /\ UNCHANGED <<torn, carried, vars>>

(* The deadline passes: the part of the head or body that had come is lost.  *)
Deadline(p) ==
    /\ Reading(p)
    /\ \E got \in 0 .. (IF need[p] = 0 THEN HeadLen ELSE need[p]) - 1 :
          /\ Move(p, got, 0)
          /\ torn' = IF AtHead(pos[p] + got) THEN torn ELSE torn \cup {p}
    /\ UNCHANGED <<reader, carried, vars>>

(* No more is read.  The client has closed its side, which between two      *)
(* reads is EOF and retried for ever, or the connection has failed or been   *)
(* closed, and readLoop returns.                                             *)
ReadEnds(p) ==
    /\ Reading(p) /\ End(p) /\ need' = [need EXCEPT ![p] = 0]
    /\ UNCHANGED <<pos, torn, carried, vars>>

ReadNext ==
    \/ QueueNext /\ UNCHANGED readVars
    \/ \E p \in Producers :
          \/ ReadHead(p) \/ ReadBody(p) \/ ReadGarbled(p)
          \/ Deadline(p) \/ ReadEnds(p)

ReadSpec == ReadInit /\ [][ReadNext]_<<vars, readVars>>

(* Clients need not send; of the queue, what GlobalMQ asks for. *)
ReadFairSpec == ReadSpec /\ Fairness

-------------------------------------------------------------------------------
(* Every variable has its type. *)
ReadTypeOK ==
    /\ reader \in [Producers -> {"reading", "ended"}]
    /\ pos \in [Producers -> 0 .. StreamEnd] /\ need \in [Producers -> 0 .. StreamEnd]
    /\ torn \subseteq Producers
    /\ carried \in [Msg -> (0 .. MaxSends) \cup {Garbled}]

(* What a connection sends to the queue is what its client sent, frame by    *)
(* frame in order, nothing left out and nothing put together from two, for   *)
(* as long as no deadline passes inside a frame (conn.go:401-445).           *)
FramesInStep ==
    /\ ReadTypeOK
    /\ \A p \in Producers \ torn :
          /\ \A n \in 1 .. tried[p] : carried[<<p, n>>] = n
          /\ Reading(p) /\ need[p] = 0 => pos[p] = HeadAt[tried[p] + 1]
===============================================================================
