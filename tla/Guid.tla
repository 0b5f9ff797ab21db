--------------------------------- MODULE Guid ---------------------------------
(***************************************************************************)
(* Session ids, core/guid.go.  An id is a high half from a remote          *)
(* allocator and a low half that counts up in the process; when the low    *)
(* half reaches its limit a new high half is asked for.  A failed request  *)
(* is not reported: the old high half, zero at first, stays in use.        *)
(*                                                                         *)
(* GetGuid takes no lock; the accept loop is its only caller.  Definitions *)
(* that the model does not use and that stand before one it does are       *)
(* mutants: slips a property is shown to notice.                           *)
(***************************************************************************)
EXTENDS Naturals, Sequences

CONSTANTS
    LowMax,     \* the low half that is never handed out (2147483647)
    MaxHigh     \* bound: high halves the allocator hands out

ASSUME LowMaxAssumption == LowMax \in Nat /\ LowMax > 1
ASSUME MaxHighAssumption == MaxHigh \in Nat

VARIABLES
    highGuid,   \* 0 until the allocator has answered
    lowGuid,
    nextHigh,   \* the allocator: what it hands out next
    failed,     \* history: a request to the allocator has failed
    given       \* history: the ids GetGuid has returned, over restarts too

guidVars == <<highGuid, lowGuid, nextHigh, failed, given>>

GuidInit ==
    /\ highGuid = 0 /\ lowGuid = 0 /\ nextHigh = 1
    /\ failed = FALSE /\ given = <<>>

(* highGuidRefresh: the allocator never hands out a value twice. *)
RefreshAnswered ==
    /\ nextHigh <= MaxHigh
    /\ highGuid' = nextHigh /\ nextHigh' = nextHigh + 1
    /\ UNCHANGED failed

RefreshFails == failed' = TRUE /\ UNCHANGED <<highGuid, nextHigh>>

Refresh == RefreshAnswered \/ RefreshFails

Wraps == lowGuid + 1 = LowMax

GetGuidWrapsAlone ==
    /\ IF highGuid = 0 THEN Refresh /\ lowGuid' = 1
       ELSE /\ lowGuid' = IF Wraps THEN 0 ELSE lowGuid + 1
            /\ UNCHANGED <<highGuid, nextHigh, failed>>
    /\ given' = Append(given, <<highGuid', lowGuid'>>)

GetGuid ==
    /\ \/ /\ highGuid = 0              \* the low half starts from zero
          /\ Refresh /\ lowGuid' = 1
       \/ /\ highGuid # 0 /\ ~Wraps
          /\ lowGuid' = lowGuid + 1 /\ UNCHANGED <<highGuid, nextHigh, failed>>
       \/ /\ highGuid # 0 /\ Wraps
          /\ Refresh /\ lowGuid' = 0
    /\ given' = Append(given, <<highGuid', lowGuid'>>)

(* A new process starts without a high half. *)
GuidRestart ==
    /\ highGuid' = 0 /\ lowGuid' = 0
    /\ UNCHANGED <<nextHigh, failed, given>>

GuidSpec == GuidInit /\ [][GetGuid \/ GuidRestart]_guidVars

-------------------------------------------------------------------------------
(* Every variable has its type. *)
GuidTypeOK ==
    /\ highGuid \in Nat /\ lowGuid \in 0 .. LowMax - 1 /\ nextHigh \in Nat
    /\ failed \in BOOLEAN /\ given \in Seq(Nat \X Nat)

(* No id is handed out twice, over wraps of the low half and over restarts, *)
(* as long as the allocator has answered every time: a failed refresh is    *)
(* the only way to an old id (guid.go:42-57, 85-87).                        *)
GuidsDiffer ==
    ~failed => \A i, j \in 1 .. Len(given) : i # j => given[i] # given[j]
===============================================================================
