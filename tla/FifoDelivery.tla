----------------------------- MODULE FifoDelivery -----------------------------
(***************************************************************************)
(* What GlobalMQ, a ShardExecutor and a Conn promise those who hand        *)
(* something to them: an accepted item is delivered at most once, in the   *)
(* order of acceptance, and none is skipped.  That the last ones are       *)
(* delivered at all is not promised: each may stop.                        *)
(***************************************************************************)
EXTENDS Naturals, Sequences

CONSTANT Item

VARIABLES accepted, delivered   \* sequences of items

Init == accepted = <<>> /\ delivered = <<>>

Accept ==
    /\ \E x \in Item : accepted' = Append(accepted, x)
    /\ UNCHANGED delivered

(* One or more items, the oldest that are left. *)
Deliver ==
    /\ \E n \in Len(delivered) + 1 .. Len(accepted) :
          delivered' = SubSeq(accepted, 1, n)
    /\ UNCHANGED accepted

Spec == Init /\ [][Accept \/ Deliver]_<<accepted, delivered>>
===============================================================================
