------------------------------- MODULE SessionMC -------------------------------
(* Small instances of Session for TLC.                                      *)
EXTENDS Session, TLC

CONSTANTS a, b, v, w, p, q, s, t

(* Two players, whose tokens two workers handle at a time, and a restart.   *)
Reconnecting == [players |-> {p, q}, workers |-> {v, w}, failing |-> TRUE,
                 visits |-> 2, sends |-> 0, logics |-> 0, tokens |-> 2, restarts |-> 1]

(* The two, with something to acknowledge, so that a token may be refused.  *)
Refused == [Reconnecting EXCEPT !.workers = {w}, !.sends = 1, !.restarts = 0]

(* One player, to whom two senders send at a time, with acks.               *)
Sending == [players |-> {p}, workers |-> {w}, failing |-> FALSE, visits |-> 0,
            sends |-> 2, logics |-> 2, tokens |-> 2, restarts |-> 0]

(* The same with enough messages for a queue to be full, and no tokens.     *)
Overfull == [Sending EXCEPT !.sends = 3, !.logics = 1, !.tokens = 0]

Scenarios == {Reconnecting, Refused, Sending, Overfull}

(* Connections are alike, and senders; players and workers are not.         *)
Symmetry == Permutations(Conns) \cup Permutations(Senders)
===============================================================================
