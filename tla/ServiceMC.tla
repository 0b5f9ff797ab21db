------------------------------- MODULE ServiceMC -------------------------------
(* Small instances of Service for TLC.                                      *)
EXTENDS Service

CONSTANTS a, b, k

(* Every set of servers, every queue, with and without MongoDB and ports,   *)
(* but not every combination.                                               *)
Usual     == [enabled |-> Types, mongo |-> TRUE, mq |-> "on", noPorts |-> FALSE]
Differing ==
    {Usual, [Usual EXCEPT !.noPorts = TRUE], [Usual EXCEPT !.enabled = {}],
     [Usual EXCEPT !.mongo = FALSE, !.enabled = {"http"}],
     [Usual EXCEPT !.mongo = FALSE, !.enabled = {"tcp"}]}
      \cup {[Usual EXCEPT !.mq = q, !.enabled = {"tcp"}] :
               q \in {"on", "idle", "off", "nil"}}
===============================================================================
