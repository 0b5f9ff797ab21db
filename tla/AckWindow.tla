------------------------------ MODULE AckWindow ------------------------------
(***************************************************************************)
(* The resend window of one TCP connection, network/tcp_net/conn.go.       *)
(*                                                                         *)
(* Every message the server sends is appended to pendingMessages; the      *)
(* client acknowledges a COUNT of messages, and that many are cut from the *)
(* head.  The four fields are only touched under Conn.mu or atomically, so *)
(* each method below is one function from a window to a window.            *)
(***************************************************************************)
EXTENDS Naturals, Sequences

NewWindow == [ pendingMessages |-> <<>>,  \* sent, not yet acknowledged, oldest first
               serverAck       |-> 0,     \* messages the client has acknowledged
               hasBeenSentNum  |-> 0,     \* messages handed to AsyncSend
               clientAck       |-> 0 ]    \* client messages this server has handled

WindowOver(M) == [ pendingMessages : Seq(M), serverAck : Nat,
                   hasBeenSentNum : Nat, clientAck : Nat ]

PushToPendingMessages(w, m) == [w EXCEPT !.pendingMessages = Append(@, m)]

IncHasBeenSendCount(w) == [w EXCEPT !.hasBeenSentNum = @ + 1]

IncClientAck(w) == [w EXCEPT !.clientAck = @ + 1]

SetServerAck(w, ack) == [w EXCEPT !.serverAck = ack]

(* Whether a reconnecting client may resume at ack. *)
CheckServerAck(w, ack) ==
    /\ ack <= w.clientAck
    /\ ack > w.serverAck => Len(w.pendingMessages) >= ack - w.serverAck

(* Slips in the next definition, here and below: each stands before the    *)
(* definition it could be mistaken for, and the model uses none of them.   *)
CutNewest(w, ack) ==
    [w EXCEPT !.pendingMessages = SubSeq(@, 1, Len(@) - (ack - w.serverAck)),
              !.serverAck = ack]

CutOneMore(w, ack) ==
    [w EXCEPT !.pendingMessages = SubSeq(@, ack - w.serverAck + 2, Len(@)),
              !.serverAck = ack]

CutKeepsAck(w, ack) ==
    [w EXCEPT !.pendingMessages = SubSeq(@, ack - w.serverAck + 1, Len(@))]

(* Cut the acknowledged messages from the head.  An ack that is not new,   *)
(* or counts more than was sent or is pending, leaves the window alone.    *)
Cut(w, ack) ==
    LET needRemoveNum == ack - w.serverAck
    IN  [w EXCEPT !.pendingMessages = SubSeq(@, needRemoveNum + 1, Len(@)),
                  !.serverAck = ack]

IsNewAckStrict(w, ack) ==
    /\ w.hasBeenSentNum > ack
    /\ ack > w.serverAck
    /\ ack - w.serverAck <= Len(w.pendingMessages)

IsNewAck(w, ack) ==
    /\ w.hasBeenSentNum >= ack
    /\ ack > w.serverAck
    /\ ack - w.serverAck <= Len(w.pendingMessages)

UpdateServerAck(w, ack) == IF IsNewAck(w, ack) THEN Cut(w, ack) ELSE w
==============================================================================
