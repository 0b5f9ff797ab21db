---------------------------- MODULE TcpServerProofs ----------------------------
(* Theorems about the TCP server's table and its Close, for any connections,*)
(* workers, limit and number of tokens.                                     *)
EXTENDS TcpServer, FiniteSetTheorems, TLAPS

-------------------------------------------------------------------------------
(* Who is where.                                                            *)

Inserters == {w \in Adders : work[w] \in {"insert", "plus"}}
Plusers   == {w \in Adders : work[w] = "plus"}
Minusers  == {w \in Checkers : work[w] = "minus"}
Leavers   == {c \in Conns : starter[c] = "minus"}
Alive     == {c \in Conns : starter[c] \notin {"none", "done"}}

(* When one element joins or leaves a finite set, its size changes by that. *)
LEMMA OneMoves ==
    ASSUME NEW A, NEW B, NEW x, IsFiniteSet(A),
           \A y : y # x => (y \in A <=> y \in B)
    PROVE  /\ Cardinality(A) \in Nat
           /\ Cardinality(B) = Cardinality(A) + (IF x \in B /\ x \notin A THEN 1 ELSE 0)
                                              - (IF x \notin B /\ x \in A THEN 1 ELSE 0)
<1>1. Cardinality(A) \in Nat
  BY FS_CardinalityType
<1>2. CASE x \in B
  <2>1. B = A \cup {x}
    BY <1>2
  <2>2. Cardinality(A \cup {x}) = IF x \in A THEN Cardinality(A) ELSE Cardinality(A) + 1
    BY FS_AddElement
  <2> QED
    BY <1>1, <1>2, <2>1, <2>2
<1>3. CASE x \notin B
  <2>1. B = A \ {x}
    BY <1>3
  <2>2. Cardinality(A \ {x}) = IF x \in A THEN Cardinality(A) - 1 ELSE Cardinality(A)
    BY FS_RemoveElement
  <2> QED
    BY <1>1, <1>3, <2>1, <2>2
<1> QED
  BY <1>2, <1>3

(* All of these are finite, and the module's own sums are made of them. *)
LEMMA CountsAreNumbers ==
    /\ TypeOK => IsFiniteSet(activeConns) /\ Cardinality(activeConns) \in Nat
    /\ IsFiniteSet(Inserters) /\ Cardinality(Inserters) \in Nat
    /\ IsFiniteSet(Plusers) /\ Cardinality(Plusers) \in Nat
    /\ IsFiniteSet(Minusers) /\ Cardinality(Minusers) \in Nat
    /\ IsFiniteSet(Leavers) /\ Cardinality(Leavers) \in Nat
    /\ IsFiniteSet(Alive) /\ Cardinality(Alive) \in Nat
    /\ Adding = Cardinality(Plusers) + (IF accept = "plus" THEN 1 ELSE 0)
    /\ Removing = Cardinality(Minusers) + Cardinality(Leavers)
<1>1. \A S \in {Conns, Adders, Checkers} : \A T \in SUBSET S :
         IsFiniteSet(T) /\ Cardinality(T) \in Nat
  BY SetsAssumption, FS_Subset, FS_CardinalityType
<1>2. TypeOK => activeConns \in SUBSET Conns
  BY DEF TypeOK
<1>3. /\ Inserters \in SUBSET Adders /\ Plusers \in SUBSET Adders
      /\ Minusers \in SUBSET Checkers
      /\ Leavers \in SUBSET Conns /\ Alive \in SUBSET Conns
  BY DEF Inserters, Plusers, Minusers, Leavers, Alive
<1>4. Adding = Cardinality(Plusers) + (IF accept = "plus" THEN 1 ELSE 0)
  BY DEF Adding, Plusers
<1>5. Removing = Cardinality(Minusers) + Cardinality(Leavers)
  BY DEF Removing, Minusers, Leavers
<1> QED
  BY <1>1, <1>2, <1>3, <1>4, <1>5

(* An adder moves. *)
LEMMA AdderMoves ==
    ASSUME NEW w \in Adders, \A v \in Workers : v # w => work'[v] = work[v]
    PROVE  /\ Cardinality(Inserters)' = Cardinality(Inserters)
                + (IF w \in Inserters' /\ w \notin Inserters THEN 1 ELSE 0)
                - (IF w \notin Inserters' /\ w \in Inserters THEN 1 ELSE 0)
           /\ Cardinality(Plusers)' = Cardinality(Plusers)
                + (IF w \in Plusers' /\ w \notin Plusers THEN 1 ELSE 0)
                - (IF w \notin Plusers' /\ w \in Plusers THEN 1 ELSE 0)
           /\ Minusers' = Minusers
<1>1. w \in Workers /\ w \notin Checkers /\ Adders \subseteq Workers /\ Checkers \subseteq Workers
  BY SetsAssumption DEF Workers
<1>2. \A v : v # w => (v \in Inserters <=> v \in Inserters')
  BY <1>1 DEF Inserters
<1>3. \A v : v # w => (v \in Plusers <=> v \in Plusers')
  BY <1>1 DEF Plusers
<1>4. Minusers' = Minusers
  BY <1>1 DEF Minusers
<1> QED
  BY <1>2, <1>3, <1>4, OneMoves, CountsAreNumbers

(* A checker moves. *)
LEMMA CheckerMoves ==
    ASSUME NEW w \in Checkers, \A v \in Workers : v # w => work'[v] = work[v]
    PROVE  /\ Cardinality(Minusers)' = Cardinality(Minusers)
                + (IF w \in Minusers' /\ w \notin Minusers THEN 1 ELSE 0)
                - (IF w \notin Minusers' /\ w \in Minusers THEN 1 ELSE 0)
           /\ Inserters' = Inserters /\ Plusers' = Plusers
<1>1. w \in Workers /\ w \notin Adders /\ Adders \subseteq Workers /\ Checkers \subseteq Workers
  BY SetsAssumption DEF Workers
<1>2. \A v : v # w => (v \in Minusers <=> v \in Minusers')
  BY <1>1 DEF Minusers
<1>3. Inserters' = Inserters /\ Plusers' = Plusers
  BY <1>1 DEF Inserters, Plusers
<1> QED
  BY <1>2, <1>3, OneMoves, CountsAreNumbers

(* The goroutine of a connection moves. *)
LEMMA StarterMoves ==
    ASSUME NEW c \in Conns, \A d \in Conns : d # c => starter'[d] = starter[d]
    PROVE  /\ Cardinality(Leavers)' = Cardinality(Leavers)
                + (IF c \in Leavers' /\ c \notin Leavers THEN 1 ELSE 0)
                - (IF c \notin Leavers' /\ c \in Leavers THEN 1 ELSE 0)
           /\ Cardinality(Alive)' = Cardinality(Alive)
                + (IF c \in Alive' /\ c \notin Alive THEN 1 ELSE 0)
                - (IF c \notin Alive' /\ c \in Alive THEN 1 ELSE 0)
<1>1. \A d : d # c => (d \in Leavers <=> d \in Leavers')
  BY DEF Leavers
<1>2. \A d : d # c => (d \in Alive <=> d \in Alive')
  BY DEF Alive
<1> QED
  BY <1>1, <1>2, OneMoves, CountsAreNumbers

-------------------------------------------------------------------------------
(* The inductive invariant, part by part.                                   *)

(* An adder adds, a checker removes, each a connection it has in hand.      *)
RolesInv ==
    /\ \A w \in Adders : work[w] \in {"idle", "insert", "plus", "stuck"}
    /\ \A w \in Checkers : work[w] \in {"idle", "check", "delete", "minus", "stuck"}
    /\ \A w \in Workers : work[w] \in {"insert", "delete"} => target[w] \in Conns

Admitting(c) == accept \in {"insert", "plus", "spawn"} /\ admitting = c

(* The connection acceptLoop has in hand waits for its id, or exists and is *)
(* not served yet.                                                          *)
AdmitInv ==
    /\ accept = "guid" => \E c \in Conns : admitting = c /\ conn[c] = "none"
    /\ accept \in {"insert", "plus", "spawn"} =>
           \E c \in Conns : admitting = c /\ conn[c] # "none" /\ starter[c] = "none"

(* Whoever refers to a connection refers to one that has come; every one    *)
(* that has come has its goroutine, except the one acceptLoop has in hand.  *)
MetInv ==
    \A c \in Conns :
        /\ starter[c] # "none" => conn[c] # "none"
        /\ conn[c] # "none" => starter[c] # "none" \/ Admitting(c)
        /\ c \in activeConns \cup closing => conn[c] # "none"
        /\ \A w \in Adders : work[w] = "insert" /\ target[w] = c => conn[c] # "none"

(* Nothing runs before Listen. *)
RunInv == accept = "off" => ~isRunning /\ close = "idle"

(* The WaitGroup, in terms of the set of goroutines. *)
WgInv == wg = Cardinality(Alive) + (IF accept \in {"off", "done"} THEN 0 ELSE 1)

PartsInv == RolesInv /\ AdmitInv /\ MetInv /\ RunInv /\ WgInv

ServerInv == TypeOK /\ PartsInv /\ CloseOkMeansQuiet

(* WgInv is WgCountsGoroutines, and keeps the WaitGroup from going negative. *)
LEMMA WgIsExact ==
    /\ WgInv <=> WgCountsGoroutines
    /\ WgInv /\ TypeOK => \A c \in Conns : starter[c] = "wgdone" => wg >= 1
    /\ WgInv /\ accept = "accept" => wg >= 1
<1>1. WgInv <=> WgCountsGoroutines
  BY DEF WgInv, WgCountsGoroutines, Alive
<1>2. \A c \in Conns : starter[c] = "wgdone" => Cardinality(Alive) # 0
  BY CountsAreNumbers, FS_EmptySet DEF Alive
<1> QED
  BY <1>1, <1>2, CountsAreNumbers DEF WgInv

-------------------------------------------------------------------------------
(* Every step keeps the types.                                              *)
LEMMA NextTypeOK ==
    ASSUME TypeOK, PartsInv, Next
    PROVE  TypeOK'
<1> USE DEF TypeOK, acceptVars, closeVars, connVars, tableVars, workerVars
<1>1. CASE Listen
  BY <1>1 DEF Listen
<1>2. CASE AcceptLoop
  <2>1. CASE AcceptInsert
    BY <2>1 DEF AcceptInsert, Insert, PartsInv, AdmitInv
  <2>2. CASE AcceptPlus
    BY <2>2 DEF AcceptPlus, Plus
  <2>3. CASE AcceptSpawn
    <3>1. starter' \in [Conns -> {"none", "start", "delete", "minus", "wgdone", "done"}]
      BY <2>3 DEF AcceptSpawn
    <3>2. wg' \in Nat
      BY <2>3 DEF AcceptSpawn
    <3> QED
      BY <2>3, <3>1, <3>2 DEF AcceptSpawn
  <2>4. CASE AcceptExit
    <3>1. wg - 1 \in Nat
      BY <2>4, WgIsExact DEF AcceptExit, PartsInv
    <3> QED
      BY <2>4, <3>1 DEF AcceptExit
  <2>5. ASSUME NEW c \in Conns, AcceptConn(c)
        PROVE  TypeOK'
    BY <2>5 DEF AcceptConn
  <2>6. CASE AcceptGuid
    <3>1. conn' \in [Conns -> {"none", "open", "closed"}] /\ kept' = kept
      BY <2>6 DEF AcceptGuid
    <3>2. accept' \in {"insert", "hung"}
      BY <2>6 DEF AcceptGuid
    <3> QED
      BY <2>6, <3>1, <3>2 DEF AcceptGuid
  <2> QED
    BY <1>2, <2>1, <2>2, <2>3, <2>4, <2>5, <2>6 DEF AcceptLoop
<1>3. CASE Close
  <2>1. CASE CloseListener \/ CloseSnapshot \/ CloseWait \/ CloseReturn
    BY <2>1 DEF CloseListener, CloseSnapshot, CloseWait, CloseReturn
  <2>2. ASSUME NEW c \in Conns, CloseNext(c)
        PROVE  TypeOK'
    BY <2>2 DEF CloseNext, CloseConn
  <2> QED
    BY <1>3, <2>1, <2>2 DEF Close
<1>4. ASSUME NEW c \in Conns, Starter(c)
      PROVE  TypeOK'
  <2>1. CASE StarterStart(c)
    BY <2>1 DEF StarterStart
  <2>2. CASE StarterDelete(c)
    BY <2>2 DEF StarterDelete, Delete
  <2>3. CASE StarterMinus(c)
    BY <2>3 DEF StarterMinus, Minus
  <2>4. CASE StarterDone(c)
    <3>1. wg - 1 \in Nat
      BY <2>4, WgIsExact DEF StarterDone, PartsInv
    <3> QED
      BY <2>4, <3>1 DEF StarterDone
  <2> QED
    BY <1>4, <2>1, <2>2, <2>3, <2>4 DEF Starter
<1>5. ASSUME NEW c \in Conns, ConnEnds(c) \/ SyncFails(c)
      PROVE  TypeOK'
  BY <1>5 DEF ConnEnds, SyncFails, CloseConn
<1>6. ASSUME NEW w \in Adders, TokenInsert(w) \/ TokenPlus(w)
      PROVE  TypeOK'
  <2>1. CASE TokenInsert(w)
    <3>1. target[w] \in Conns
      BY <2>1 DEF TokenInsert, PartsInv, RolesInv, Workers
    <3> QED
      BY <2>1, <3>1 DEF TokenInsert, Insert
  <2>2. CASE TokenPlus(w)
    <3>1. /\ work' \in [Workers -> {"idle", "insert", "plus", "check", "delete", "minus",
                                 "stuck"}]
          /\ target' \in [Workers -> Conns \cup {NoConn}]
      BY <2>2 DEF TokenPlus, Workers
    <3> QED
      BY <2>2, <3>1 DEF TokenPlus, Plus
  <2> QED
    BY <1>6, <2>1, <2>2
<1>7. ASSUME NEW w \in Adders, NEW c \in Conns, TokenFound(w, c) \/ TokenNew(w, c)
      PROVE  TypeOK'
  BY <1>7 DEF TokenFound, TokenNew, CloseConn
<1>8. ASSUME NEW w \in Checkers, CheckSnapshot(w) \/ CheckDelete(w) \/ CheckMinus(w)
      PROVE  TypeOK'
  <2>1. CASE CheckSnapshot(w)
    BY <2>1 DEF CheckSnapshot
  <2>2. CASE CheckDelete(w)
    <3>1. /\ work' \in [Workers -> {"idle", "insert", "plus", "check", "delete", "minus",
                                 "stuck"}]
          /\ target' \in [Workers -> Conns \cup {NoConn}]
      BY <2>2 DEF CheckDelete, Workers
    <3> QED
      BY <2>2, <3>1 DEF CheckDelete, Delete
  <2>3. CASE CheckMinus(w)
    <3>1. /\ work' \in [Workers -> {"idle", "insert", "plus", "check", "delete", "minus",
                                 "stuck"}]
          /\ target' \in [Workers -> Conns \cup {NoConn}]
      BY <2>3 DEF CheckMinus, Workers
    <3> QED
      BY <2>3, <3>1 DEF CheckMinus, Minus
  <2> QED
    BY <1>8, <2>1, <2>2, <2>3
<1>9. ASSUME NEW w \in Checkers, NEW c \in Conns, CheckClose(w, c)
      PROVE  TypeOK'
  BY <1>9 DEF CheckClose, CloseConn
<1> QED
  BY <1>1, <1>2, <1>3, <1>4, <1>5, <1>6, <1>7, <1>8, <1>9 DEF Next

-------------------------------------------------------------------------------
(* A step that closes only what has come, and moves only goroutines that    *)
(* run, keeps everything that is said about connections, as long as what it *)
(* adds to the table has come.                                              *)
LEMMA PlacesKept ==
    ASSUME AdmitInv, MetInv, UNCHANGED acceptVars,
           \A c \in Conns : conn'[c] = "none" <=> conn[c] = "none",
           \A c \in Conns : starter'[c] = "none" <=> starter[c] = "none",
           \A c \in Conns : c \in activeConns' \cup closing' =>
                                c \in activeConns \cup closing \/ conn[c] # "none",
           \A w \in Adders, c \in Conns : work'[w] = "insert" /\ target'[w] = c =>
                (work[w] = "insert" /\ target[w] = c) \/ conn[c] # "none"
    PROVE  AdmitInv' /\ MetInv'
<1> USE DEF acceptVars
<1>1. AdmitInv'
  BY DEF AdmitInv
<1>2. \A c \in Conns : Admitting(c) => Admitting(c)'
  BY DEF Admitting
<1>3. MetInv'
  BY <1>2 DEF MetInv
<1> QED
  BY <1>1, <1>3

(* Every step keeps what is said of roles, hands and connections.           *)
LEMMA NextPlaces ==
    ASSUME TypeOK, RolesInv, AdmitInv, MetInv, RunInv, Next
    PROVE  RolesInv' /\ AdmitInv' /\ MetInv' /\ RunInv'
<1> USE DEF TypeOK, acceptVars, closeVars, connVars, tableVars, workerVars
<1>1. CASE Listen
  BY <1>1 DEF Listen, RolesInv, AdmitInv, MetInv, RunInv, Admitting
<1>2. CASE AcceptLoop
  <2>0. UNCHANGED <<workerVars, closing>> /\ accept # "off" /\ accept' # "off"
    BY <1>2 DEF AcceptLoop, AcceptGuid, AcceptInsert, AcceptPlus, AcceptSpawn, AcceptExit,
                AcceptConn
  <2>1. RolesInv' /\ RunInv'
    BY <2>0 DEF RolesInv, RunInv
  <2>2. CASE AcceptInsert \/ AcceptPlus
    <3>1. PICK c \in Conns : admitting = c /\ conn[c] # "none" /\ starter[c] = "none"
      BY <2>2 DEF AcceptInsert, AcceptPlus, AdmitInv
    <3>2. /\ accept \in {"insert", "plus"} /\ accept' \in {"plus", "spawn"}
          /\ UNCHANGED <<conn, starter, admitting>>
          /\ activeConns' = activeConns \/ activeConns' = activeConns \cup {c}
      BY <2>2, <3>1 DEF AcceptInsert, AcceptPlus, Insert, Plus
    <3>3. AdmitInv'
      BY <2>1, <3>1, <3>2 DEF AdmitInv
    <3>4. MetInv'
      BY <2>0, <3>1, <3>2 DEF MetInv, Admitting
    <3> QED
      BY <2>1, <3>3, <3>4
  <2>3. CASE AcceptSpawn
    <3>1. PICK c \in Conns : admitting = c /\ conn[c] # "none" /\ starter[c] = "none"
      BY <2>3 DEF AcceptSpawn, AdmitInv
    <3>2. starter' = [starter EXCEPT ![c] = "start"] /\ accept' = "accept"
          /\ UNCHANGED <<conn, activeConns>>
      BY <2>3, <3>1 DEF AcceptSpawn
    <3>3. MetInv'
      BY <2>0, <3>1, <3>2 DEF MetInv, Admitting
    <3> QED
      BY <2>1, <3>2, <3>3 DEF AdmitInv
  <2>4. CASE AcceptExit
    <3>1. /\ accept = "accept" /\ accept' = "done"
          /\ UNCHANGED <<conn, starter, activeConns>>
      BY <2>4 DEF AcceptExit
    <3>2. MetInv'
      BY <2>0, <3>1 DEF MetInv, Admitting
    <3> QED
      BY <2>1, <3>1, <3>2 DEF AdmitInv
  <2>5. ASSUME NEW c \in Conns, AcceptConn(c)
        PROVE  AdmitInv' /\ MetInv'
    <3>1. /\ accept = "accept" /\ accept' = "guid" /\ admitting' = c /\ conn[c] = "none"
          /\ UNCHANGED <<conn, activeConns, starter>>
      BY <2>5 DEF AcceptConn
    <3>2. AdmitInv'
      BY <3>1 DEF AdmitInv
    <3>3. MetInv'
      BY <2>0, <3>1 DEF MetInv, Admitting
    <3> QED
      BY <3>2, <3>3
  <2>6. CASE AcceptGuid
    <3>1. PICK c \in Conns : admitting = c /\ conn[c] = "none"
      BY <2>6 DEF AcceptGuid, AdmitInv
    <3>2. /\ accept = "guid" /\ UNCHANGED <<admitting, activeConns, starter>>
          /\ \/ accept' = "insert" /\ conn' = [conn EXCEPT ![c] = "open"]
             \/ accept' = "hung" /\ conn' = conn
      BY <2>6, <3>1 DEF AcceptGuid
    <3>3. AdmitInv'
      BY <3>1, <3>2 DEF AdmitInv, MetInv
    <3>4. MetInv'
      BY <2>0, <3>1, <3>2 DEF MetInv, Admitting
    <3> QED
      BY <2>1, <3>3, <3>4
  <2> QED
    BY <1>2, <2>1, <2>2, <2>3, <2>4, <2>5, <2>6 DEF AcceptLoop
<1>3. CASE Close
  <2>1. UNCHANGED <<acceptVars, activeConns, starter, workerVars>> /\ RunInv'
    BY <1>3 DEF Close, CloseListener, CloseSnapshot, CloseWait, CloseReturn, CloseNext, RunInv
  <2>2. /\ closing' \subseteq closing \cup activeConns
        /\ \A c \in Conns : conn'[c] = "none" <=> conn[c] = "none"
    BY <1>3 DEF Close, CloseListener, CloseSnapshot, CloseWait, CloseReturn, CloseNext,
                CloseConn, MetInv
  <2> QED
    BY <2>1, <2>2, PlacesKept DEF RolesInv
<1>4. ASSUME NEW c \in Conns, Starter(c)
      PROVE  RolesInv' /\ AdmitInv' /\ MetInv' /\ RunInv'
  <2>1. /\ UNCHANGED <<acceptVars, closeVars, conn, workerVars>>
        /\ activeConns' \subseteq activeConns
        /\ \A d \in Conns : starter'[d] = "none" <=> starter[d] = "none"
    BY <1>4 DEF Starter, StarterStart, StarterDelete, StarterMinus, StarterDone, Delete, Minus
  <2> QED
    BY <2>1, PlacesKept DEF RolesInv, RunInv
<1>5. ASSUME NEW c \in Conns, ConnEnds(c) \/ SyncFails(c)
      PROVE  RolesInv' /\ AdmitInv' /\ MetInv' /\ RunInv'
  <2>1. /\ UNCHANGED <<acceptVars, closeVars, starter, workerVars, activeConns>>
        /\ \A d \in Conns : conn'[d] = "none" <=> conn[d] = "none"
    BY <1>5 DEF ConnEnds, SyncFails, CloseConn
  <2> QED
    BY <2>1, PlacesKept DEF RolesInv, RunInv
<1>6. ASSUME NEW w \in Adders, TokenInsert(w) \/ TokenPlus(w)
      PROVE  RolesInv' /\ AdmitInv' /\ MetInv' /\ RunInv'
  <2>0. w \in Workers /\ w \notin Checkers /\ Adders \subseteq Workers
    BY SetsAssumption DEF Workers
  <2>1. /\ UNCHANGED <<acceptVars, closeVars, starter, conn>>
        /\ activeConns' \subseteq activeConns \cup {target[w]}
        /\ activeConns' # activeConns => work[w] = "insert"
        /\ \A v \in Workers : v # w => work'[v] = work[v] /\ target'[v] = target[v]
        /\ work'[w] \in {"idle", "plus"}
    BY <1>6, <2>0 DEF TokenInsert, TokenPlus, Insert, Plus
  <2>2. RolesInv' /\ RunInv'
    BY <2>0, <2>1, SetsAssumption DEF RolesInv, RunInv, Workers
  <2> QED
    BY <2>0, <2>1, <2>2, PlacesKept DEF MetInv
<1>7. ASSUME NEW w \in Adders, NEW c \in Conns, TokenFound(w, c) \/ TokenNew(w, c)
      PROVE  RolesInv' /\ AdmitInv' /\ MetInv' /\ RunInv'
  <2>0. w \in Workers /\ w \notin Checkers /\ Adders \subseteq Workers
    BY SetsAssumption DEF Workers
  <2>1. /\ UNCHANGED <<acceptVars, closeVars, starter, activeConns>>
        /\ \A d \in Conns : conn'[d] = "none" <=> conn[d] = "none"
    BY <1>7 DEF TokenFound, TokenNew, CloseConn, MetInv
  <2>2. CASE TokenFound(w, c)
    <3>1. /\ \A v \in Workers : v # w => work'[v] = work[v]
          /\ work'[w] \in {"idle", "stuck"} /\ UNCHANGED target
      BY <2>0, <2>2 DEF TokenFound
    <3>2. RolesInv' /\ RunInv'
      BY <2>0, <2>1, <3>1, SetsAssumption DEF RolesInv, RunInv, Workers
    <3> QED
      BY <2>0, <2>1, <3>1, <3>2, PlacesKept
  <2>3. CASE TokenNew(w, c)
    <3>1. /\ \A v \in Workers : v # w => work'[v] = work[v] /\ target'[v] = target[v]
          /\ work'[w] = "insert" /\ target'[w] = c /\ conn[c] # "none"
      BY <2>0, <2>3 DEF TokenNew, Reading, MetInv
    <3>2. RolesInv' /\ RunInv'
      BY <2>0, <2>1, <3>1, SetsAssumption DEF RolesInv, RunInv, Workers
    <3> QED
      BY <2>0, <2>1, <3>1, <3>2, PlacesKept
  <2> QED
    BY <1>7, <2>2, <2>3
<1>8. ASSUME NEW w \in Checkers,
             \/ CheckSnapshot(w) \/ CheckDelete(w) \/ CheckMinus(w)
             \/ \E c \in Conns : CheckClose(w, c)
      PROVE  RolesInv' /\ AdmitInv' /\ MetInv' /\ RunInv'
  <2>0. w \in Workers /\ w \notin Adders /\ Adders \subseteq Workers
    BY SetsAssumption DEF Workers
  <2>1. /\ UNCHANGED <<acceptVars, closeVars, starter>>
        /\ activeConns' \subseteq activeConns
        /\ \A d \in Conns : conn'[d] = "none" <=> conn[d] = "none"
    BY <1>8 DEF CheckSnapshot, CheckDelete, CheckMinus, CheckClose, CloseConn, Delete, Minus,
                MetInv
  <2>2. /\ \A v \in Workers : v # w => work'[v] = work[v] /\ target'[v] = target[v]
        /\ work'[w] \in {"idle", "check", "delete", "minus", "stuck"}
        /\ work'[w] = "delete" => target'[w] \in Conns
    BY <1>8, <2>0 DEF CheckSnapshot, CheckDelete, CheckMinus, CheckClose
  <2>3. RolesInv' /\ RunInv'
    BY <2>0, <2>1, <2>2, SetsAssumption DEF RolesInv, RunInv, Workers
  <2> QED
    BY <2>0, <2>1, <2>2, <2>3, PlacesKept
<1> QED
  BY <1>1, <1>2, <1>3, <1>4, <1>5, <1>6, <1>7, <1>8 DEF Next

-------------------------------------------------------------------------------
(* The WaitGroup goes up before a goroutine starts and down when it ends.   *)
LEMMA NextWgInv ==
    ASSUME TypeOK, PartsInv, Next
    PROVE  WgInv'
<1> USE CountsAreNumbers DEF PartsInv, WgInv
<1>0. UNCHANGED starter => Alive' = Alive
  BY DEF Alive
<1>1. CASE AcceptSpawn
  <2>1. PICK c \in Conns : admitting = c /\ starter[c] = "none"
    BY <1>1 DEF AcceptSpawn, AdmitInv
  <2>2. starter' = [starter EXCEPT ![c] = "start"] /\ wg' = wg + 1
        /\ accept = "spawn" /\ accept' = "accept"
    BY <1>1, <2>1 DEF AcceptSpawn
  <2>3. c \notin Alive /\ c \in Alive' /\ \A d \in Conns : d # c => starter'[d] = starter[d]
    BY <2>1, <2>2 DEF Alive, TypeOK
  <2>4. Cardinality(Alive)' = Cardinality(Alive) + 1
    BY <2>3, StarterMoves
  <2> QED
    BY <2>2, <2>4
<1>2. ASSUME NEW c \in Conns, Starter(c)
      PROVE  WgInv'
  <2>1. PICK l \in {"start", "delete", "minus", "wgdone", "done"} :
            /\ starter' = [starter EXCEPT ![c] = l] /\ starter[c] \notin {"none", "done"}
            /\ wg' = IF l = "done" THEN wg - 1 ELSE wg
            /\ UNCHANGED accept
    BY <1>2 DEF Starter, StarterStart, StarterDelete, StarterMinus, StarterDone, acceptVars
  <2>2. Cardinality(Alive)' = Cardinality(Alive) - (IF l = "done" THEN 1 ELSE 0)
    <3>1. c \in Alive /\ (c \in Alive' <=> l # "done")
          /\ \A d \in Conns : d # c => starter'[d] = starter[d]
      BY <2>1 DEF Alive, TypeOK
    <3> QED
      BY <3>1, StarterMoves
  <2> QED
    BY <2>1, <2>2 DEF TypeOK
<1>3. CASE Listen \/ AcceptExit
  BY <1>0, <1>3 DEF Listen, AcceptExit, TypeOK
<1>4. CASE \/ AcceptGuid \/ AcceptInsert \/ AcceptPlus \/ Close
           \/ \E c \in Conns : AcceptConn(c)
  <2>1. UNCHANGED <<starter, wg>>
        /\ (accept \in {"off", "done"} <=> accept' \in {"off", "done"})
    BY <1>4 DEF AcceptGuid, AcceptInsert, AcceptPlus, AcceptConn, Close, CloseListener, CloseSnapshot,
                CloseWait, CloseReturn, CloseNext, acceptVars
  <2> QED
    BY <1>0, <2>1
<1>5. CASE \/ \E c \in Conns : ConnEnds(c) \/ SyncFails(c)
           \/ \E w \in Adders :
                 \/ TokenInsert(w) \/ TokenPlus(w)
                 \/ \E c \in Conns : TokenFound(w, c) \/ TokenNew(w, c)
           \/ \E w \in Checkers :
                 \/ CheckSnapshot(w) \/ CheckDelete(w) \/ CheckMinus(w)
                 \/ \E c \in Conns : CheckClose(w, c)
  <2>1. UNCHANGED <<starter, wg, accept>>
    BY <1>5 DEF ConnEnds, SyncFails, TokenInsert, TokenPlus, TokenFound, TokenNew,
                CheckSnapshot, CheckDelete, CheckMinus, CheckClose, acceptVars
  <2> QED
    BY <1>0, <2>1
<1> QED
  BY <1>1, <1>2, <1>3, <1>4, <1>5 DEF Next, AcceptLoop

(* Success is reported only when the WaitGroup is down to zero, and what    *)
(* ended stays ended: nothing can start a goroutine any more.               *)
LEMMA NextQuiet ==
    ASSUME TypeOK, PartsInv, CloseOkMeansQuiet, Next, TypeOK', PartsInv'
    PROVE  CloseOkMeansQuiet'
<1>0. WgCountsGoroutines'
  BY PTL, WgIsExact DEF PartsInv
<1> SUFFICES ASSUME close' = "ok"
             PROVE  accept' = "done" /\ \A c \in Conns : starter'[c] \in {"none", "done"}
  BY <1>0 DEF CloseOkMeansQuiet, PartsInv, MetInv, Admitting
<1>1. CASE close = "ok"
  <2>1. accept = "done" /\ \A c \in Conns : starter[c] \in {"none", "done"}
    BY <1>1 DEF CloseOkMeansQuiet
  <2>2. UNCHANGED <<accept, starter>>
    BY <1>1, <2>1
       DEF Next, Listen, AcceptLoop, AcceptGuid, AcceptInsert, AcceptPlus, AcceptSpawn, AcceptExit,
           AcceptConn, Close, CloseListener, CloseSnapshot, CloseWait, CloseReturn, CloseNext,
           Starter, StarterStart, StarterDelete, StarterMinus, StarterDone,
           ConnEnds, SyncFails, TokenInsert, TokenPlus, TokenFound, TokenNew,
           CheckSnapshot, CheckDelete, CheckMinus, CheckClose, acceptVars
  <2> QED
    BY <2>1, <2>2
<1>2. CASE close # "ok"
  <2>1. CloseReturn /\ wg = 0
    BY <1>2
       DEF Next, Listen, AcceptLoop, AcceptGuid, AcceptInsert, AcceptPlus, AcceptSpawn, AcceptExit,
           AcceptConn, Close, CloseListener, CloseSnapshot, CloseWait, CloseReturn, CloseNext,
           Starter, StarterStart, StarterDelete, StarterMinus, StarterDone,
           ConnEnds, SyncFails, TokenInsert, TokenPlus, TokenFound, TokenNew,
           CheckSnapshot, CheckDelete, CheckMinus, CheckClose, closeVars
  <2>2. close = "wait" /\ UNCHANGED <<accept, starter>>
    BY <2>1 DEF CloseReturn, acceptVars
  <2>3. Cardinality(Alive) = 0 /\ accept = "done"
    BY <2>1, <2>2, CountsAreNumbers DEF PartsInv, WgInv, RunInv
  <2>4. Alive = {}
    BY <2>3, CountsAreNumbers, FS_EmptySet
  <2> QED
    BY <2>2, <2>3, <2>4 DEF Alive
<1> QED
  BY <1>1, <1>2

(* At first nothing runs. *)
LEMMA InitServerInv == Init => ServerInv
<1> SUFFICES ASSUME Init PROVE ServerInv
  OBVIOUS
<1>1. TypeOK
  <2>1. connCount \in Int /\ missed \in Nat /\ wg \in Nat /\ tokens \in Nat
    BY DEF Init
  <2> QED
    BY <2>1 DEF Init, TypeOK
<1>2. RolesInv /\ AdmitInv /\ MetInv /\ RunInv
  BY DEF Init, RolesInv, AdmitInv, MetInv, RunInv, Workers
<1>3. WgInv
  <2>1. Alive = {}
    BY DEF Init, Alive
  <2> QED
    BY <2>1, FS_EmptySet DEF Init, WgInv
<1> QED
  BY <1>1, <1>2, <1>3, WgIsExact DEF Init, ServerInv, PartsInv, CloseOkMeansQuiet

LEMMA NextServerInv == ServerInv /\ [Next]_vars => ServerInv'
<1> SUFFICES ASSUME ServerInv, [Next]_vars PROVE ServerInv'
  OBVIOUS
<1>1. CASE Next
  <2>1. TypeOK' /\ PartsInv'
    BY <1>1, NextTypeOK, NextPlaces, NextWgInv DEF ServerInv, PartsInv
  <2> QED
    BY <1>1, <2>1, NextQuiet DEF ServerInv
<1>2. CASE UNCHANGED vars
  <2> USE DEF ServerInv, PartsInv, vars, tableVars, workerVars, acceptVars, closeVars, connVars
  <2>1. TypeOK' /\ RolesInv' /\ AdmitInv' /\ MetInv' /\ RunInv'
    BY <1>2 DEF TypeOK, RolesInv, AdmitInv, MetInv, RunInv, Admitting
  <2>2. WgInv' /\ CloseOkMeansQuiet'
    BY <1>2 DEF WgInv, Alive, CloseOkMeansQuiet, WgCountsGoroutines
  <2> QED
    BY <2>1, <2>2
<1> QED
  BY <1>1, <1>2

(* When Close reports success, acceptLoop and every goroutine it started    *)
(* have ended, those included that it was starting while Close waited       *)
(* (server.go:102-115).                                                     *)
THEOREM CloseOkMeansQuietAlways == Spec => []CloseOkMeansQuiet
<1>1. Spec => []ServerInv
  BY InitServerInv, NextServerInv, PTL DEF Spec
<1> QED
  BY <1>1, PTL DEF ServerInv

-------------------------------------------------------------------------------
(* The counter against the table and against the limit.                     *)

Covered ==
    Cardinality(activeConns) + Cardinality(Minusers) + Cardinality(Leavers)
        <= connCount + Cardinality(Plusers) + (IF accept = "plus" THEN 1 ELSE 0) + missed

(* Additions that are under way count: a token's since TokenNew, the accept *)
(* loop's since its test.                                                   *)
Limited ==
    /\ Cardinality(Inserters) <= tokens
    /\ connCount + Cardinality(Inserters)
          + (IF accept \in {"guid", "insert", "plus"} THEN 1 ELSE 0)
          <= MaxConn + tokens

CountInv == Covered /\ Limited

(* The counts that a step leaves alone. *)
LEMMA CountsKept ==
    /\ UNCHANGED work => Inserters' = Inserters /\ Plusers' = Plusers /\ Minusers' = Minusers
    /\ UNCHANGED starter => Leavers' = Leavers
  BY DEF Inserters, Plusers, Minusers, Leavers

(* The two halves of an addition and of a removal on the table's size.      *)
LEMMA TableMoves ==
    ASSUME TypeOK, NEW c \in Conns
    PROVE  /\ Insert(c) => /\ Cardinality(activeConns)' \in Nat
                           /\ Cardinality(activeConns)' <= Cardinality(activeConns) + 1
           /\ Delete(c) => /\ Cardinality(activeConns)' \in Nat
                           /\ Cardinality(activeConns)' + missed
                                 <= Cardinality(activeConns) + missed' - 1
<1>0. IsFiniteSet(activeConns) /\ Cardinality(activeConns) \in Nat /\ missed \in Nat
  BY CountsAreNumbers DEF TypeOK
<1>1. Cardinality(activeConns \cup {c}) =
         IF c \in activeConns THEN Cardinality(activeConns) ELSE Cardinality(activeConns) + 1
  BY <1>0, FS_AddElement
<1>2. /\ IsFiniteSet(activeConns \ {c})
      /\ Cardinality(activeConns \ {c}) =
            IF c \in activeConns THEN Cardinality(activeConns) - 1 ELSE Cardinality(activeConns)
  BY <1>0, FS_RemoveElement
<1>3. Cardinality(activeConns \ {c}) \in Nat
  BY <1>2, FS_CardinalityType
<1>4. ASSUME Insert(c)
      PROVE  /\ Cardinality(activeConns)' \in Nat
             /\ Cardinality(activeConns)' <= Cardinality(activeConns) + 1
  BY <1>0, <1>1, <1>4 DEF Insert
<1>5. ASSUME Delete(c)
      PROVE  /\ Cardinality(activeConns)' \in Nat
             /\ Cardinality(activeConns)' + missed <= Cardinality(activeConns) + missed' - 1
  BY <1>0, <1>2, <1>3, <1>5 DEF Delete
<1> QED
  BY <1>4, <1>5

(* Steps of the accept loop. *)
LEMMA AcceptCounts ==
    ASSUME TypeOK, PartsInv, CountInv, TypeOK', AcceptLoop \/ Listen
    PROVE  CountInv'
<1> USE CountsAreNumbers, CountsKept DEF CountInv, Covered, Limited, workerVars, tableVars
<1>0. MaxConn \in Nat /\ connCount \in Int /\ missed \in Nat /\ tokens \in Nat
  BY BoundsAssumption DEF TypeOK
<1>1. CASE AcceptInsert
  <2>1. PICK c \in Conns : admitting = c
    BY <1>1 DEF AcceptInsert, PartsInv, AdmitInv
  <2>2. /\ Cardinality(activeConns)' \in Nat
        /\ Cardinality(activeConns)' <= Cardinality(activeConns) + 1
    BY <1>1, <2>1, TableMoves DEF AcceptInsert
  <2>3. /\ UNCHANGED <<work, starter, connCount, missed, tokens>>
        /\ accept = "insert" /\ accept' = "plus"
    BY <1>1 DEF AcceptInsert, Insert
  <2> QED
    BY <1>0, <2>2, <2>3
<1>2. CASE AcceptPlus
  <2>1. /\ UNCHANGED <<work, starter, activeConns, missed, tokens>>
        /\ connCount' = connCount + 1 /\ accept = "plus" /\ accept' = "spawn"
    BY <1>2 DEF AcceptPlus, Plus
  <2> QED
    BY <1>0, <2>1
<1>3. CASE AcceptSpawn
  <2>1. PICK c \in Conns : admitting = c /\ starter[c] = "none"
    BY <1>3 DEF AcceptSpawn, PartsInv, AdmitInv
  <2>2. /\ UNCHANGED <<work, activeConns, connCount, missed, tokens>>
        /\ accept = "spawn" /\ accept' = "accept"
        /\ starter' = [starter EXCEPT ![c] = "start"]
    BY <1>3, <2>1 DEF AcceptSpawn
  <2>3. Leavers' = Leavers
    BY <2>1, <2>2 DEF Leavers, TypeOK
  <2> QED
    BY <1>0, <2>2, <2>3
<1>4. CASE AcceptExit \/ Listen
  <2>1. /\ UNCHANGED <<work, starter, activeConns, connCount, missed, tokens>>
        /\ accept \notin {"guid", "insert", "plus"} /\ accept' \notin {"guid", "insert", "plus"}
    BY <1>4 DEF AcceptExit, Listen
  <2> QED
    BY <1>0, <2>1
<1>5. ASSUME NEW c \in Conns, AcceptConn(c)
      PROVE  CountInv'
  <2>1. /\ UNCHANGED <<work, starter, activeConns, connCount, missed, tokens>>
        /\ accept = "accept" /\ accept' = "guid" /\ connCount < MaxConn
    BY <1>5 DEF AcceptConn
  <2> QED
    BY <1>0, <2>1
<1>6. CASE AcceptGuid
  <2>1. /\ UNCHANGED <<work, starter, activeConns, connCount, missed, tokens>>
        /\ accept = "guid" /\ accept' \in {"insert", "hung"}
    BY <1>6 DEF AcceptGuid
  <2> QED
    BY <1>0, <2>1
<1> QED
  BY <1>1, <1>2, <1>3, <1>4, <1>5, <1>6 DEF AcceptLoop

(* Steps of the goroutine of a connection. *)
LEMMA StarterCounts ==
    ASSUME TypeOK, CountInv, TypeOK', NEW c \in Conns, Starter(c)
    PROVE  CountInv'
<1> USE CountsAreNumbers, CountsKept DEF CountInv, Covered, Limited, workerVars, tableVars,
        acceptVars
<1>0. MaxConn \in Nat /\ connCount \in Int /\ missed \in Nat /\ missed' \in Nat /\ tokens \in Nat
  BY BoundsAssumption DEF TypeOK
<1>m. UNCHANGED <<work, tokens, accept>> /\ \A d \in Conns : d # c => starter'[d] = starter[d]
  BY DEF Starter, StarterStart, StarterDelete, StarterMinus, StarterDone, TypeOK
<1>1. CASE StarterStart(c) \/ StarterDone(c)
  <2>1. UNCHANGED <<activeConns, connCount, missed>> /\ c \notin Leavers /\ c \notin Leavers'
    BY <1>1 DEF StarterStart, StarterDone, TypeOK, Leavers
  <2>2. Cardinality(Leavers)' = Cardinality(Leavers)
    BY <1>m, <2>1, StarterMoves
  <2> QED
    BY <1>0, <1>m, <2>1, <2>2
<1>2. CASE StarterDelete(c)
  <2>1. UNCHANGED connCount /\ c \notin Leavers /\ c \in Leavers'
    BY <1>2 DEF StarterDelete, Delete, TypeOK, Leavers
  <2>2. Cardinality(Leavers)' = Cardinality(Leavers) + 1
    BY <1>m, <2>1, StarterMoves
  <2>3. /\ Cardinality(activeConns)' \in Nat
        /\ Cardinality(activeConns)' + missed <= Cardinality(activeConns) + missed' - 1
    BY <1>2, TableMoves DEF StarterDelete
  <2> QED
    BY <1>0, <1>m, <2>1, <2>2, <2>3
<1>3. CASE StarterMinus(c)
  <2>1. /\ UNCHANGED <<activeConns, missed>> /\ connCount' = connCount - 1
        /\ c \in Leavers /\ c \notin Leavers'
    BY <1>3 DEF StarterMinus, Minus, TypeOK, Leavers
  <2>2. Cardinality(Leavers)' = Cardinality(Leavers) - 1
    BY <1>m, <2>1, StarterMoves
  <2> QED
    BY <1>0, <1>m, <2>1, <2>2
<1> QED
  BY <1>1, <1>2, <1>3 DEF Starter

(* Steps of a worker that handles a token. *)
LEMMA AdderCounts ==
    ASSUME TypeOK, RolesInv, CountInv, TypeOK', NEW w \in Adders,
           \/ TokenInsert(w) \/ TokenPlus(w)
           \/ \E c \in Conns : TokenFound(w, c) \/ TokenNew(w, c)
    PROVE  CountInv'
<1> USE CountsAreNumbers, CountsKept DEF CountInv, Covered, Limited, acceptVars, tableVars
<1>0. /\ MaxConn \in Nat /\ connCount \in Int /\ missed \in Nat /\ tokens \in Nat
      /\ w \in Workers
  BY BoundsAssumption DEF TypeOK, Workers
<1>m. /\ UNCHANGED <<starter, accept, missed>>
      /\ \A v \in Workers : v # w => work'[v] = work[v]
  BY <1>0 DEF TokenInsert, TokenPlus, TokenFound, TokenNew, TypeOK, Insert, Plus
<1>1. CASE TokenInsert(w)
  <2>1. /\ w \in Inserters /\ w \in Inserters' /\ w \notin Plusers /\ w \in Plusers'
        /\ UNCHANGED <<connCount, tokens>>
    BY <1>0, <1>1 DEF TokenInsert, Insert, TypeOK, Inserters, Plusers
  <2>2. /\ Cardinality(Inserters)' = Cardinality(Inserters)
        /\ Cardinality(Plusers)' = Cardinality(Plusers) + 1
        /\ Minusers' = Minusers
    BY <1>m, <2>1, AdderMoves
  <2>3. /\ Cardinality(activeConns)' \in Nat
        /\ Cardinality(activeConns)' <= Cardinality(activeConns) + 1
    BY <1>0, <1>1, TableMoves DEF TokenInsert, RolesInv
  <2> QED
    BY <1>0, <1>m, <2>1, <2>2, <2>3
<1>2. CASE TokenPlus(w)
  <2>1. /\ w \in Inserters /\ w \notin Inserters' /\ w \in Plusers /\ w \notin Plusers'
        /\ connCount' = connCount + 1 /\ UNCHANGED <<activeConns, tokens>>
    BY <1>0, <1>2 DEF TokenPlus, Plus, TypeOK, Inserters, Plusers
  <2>2. /\ Cardinality(Inserters)' = Cardinality(Inserters) - 1
        /\ Cardinality(Plusers)' = Cardinality(Plusers) - 1
        /\ Minusers' = Minusers
    BY <1>m, <2>1, AdderMoves
  <2> QED
    BY <1>0, <1>m, <2>1, <2>2
<1>3. ASSUME NEW c \in Conns, TokenFound(w, c)
      PROVE  CountInv'
  <2>1. /\ w \notin Inserters /\ w \notin Inserters' /\ w \notin Plusers /\ w \notin Plusers'
        /\ UNCHANGED <<activeConns, connCount>> /\ tokens' = tokens + 1
    BY <1>0, <1>3 DEF TokenFound, TypeOK, Inserters, Plusers
  <2>2. /\ Cardinality(Inserters)' = Cardinality(Inserters)
        /\ Cardinality(Plusers)' = Cardinality(Plusers)
        /\ Minusers' = Minusers
    BY <1>m, <2>1, AdderMoves
  <2> QED
    BY <1>0, <1>m, <2>1, <2>2
<1>4. ASSUME NEW c \in Conns, TokenNew(w, c)
      PROVE  CountInv'
  <2>1. /\ w \notin Inserters /\ w \in Inserters' /\ w \notin Plusers /\ w \notin Plusers'
        /\ UNCHANGED <<activeConns, connCount>> /\ tokens' = tokens + 1
    BY <1>0, <1>4 DEF TokenNew, TypeOK, Inserters, Plusers
  <2>2. /\ Cardinality(Inserters)' = Cardinality(Inserters) + 1
        /\ Cardinality(Plusers)' = Cardinality(Plusers)
        /\ Minusers' = Minusers
    BY <1>m, <2>1, AdderMoves
  <2> QED
    BY <1>0, <1>m, <2>1, <2>2
<1> QED
  BY <1>1, <1>2, <1>3, <1>4

(* Steps of a worker that looks for idle connections. *)
LEMMA CheckerCounts ==
    ASSUME TypeOK, RolesInv, CountInv, TypeOK', NEW w \in Checkers,
           \/ CheckSnapshot(w) \/ CheckDelete(w) \/ CheckMinus(w)
           \/ \E c \in Conns : CheckClose(w, c)
    PROVE  CountInv'
<1> USE CountsAreNumbers, CountsKept DEF CountInv, Covered, Limited, acceptVars, tableVars
<1>0. /\ MaxConn \in Nat /\ connCount \in Int /\ missed \in Nat /\ missed' \in Nat
      /\ tokens \in Nat /\ w \in Workers
  BY BoundsAssumption DEF TypeOK, Workers
<1>m. /\ UNCHANGED <<starter, accept, tokens>>
      /\ \A v \in Workers : v # w => work'[v] = work[v]
  BY <1>0 DEF CheckSnapshot, CheckDelete, CheckMinus, CheckClose, TypeOK
<1>k. Inserters' = Inserters /\ Plusers' = Plusers
  BY <1>m, CheckerMoves
<1>1. CASE CheckSnapshot(w) \/ \E c \in Conns : CheckClose(w, c)
  <2>1. w \notin Minusers /\ w \notin Minusers' /\ UNCHANGED <<activeConns, connCount, missed>>
    BY <1>0, <1>1 DEF CheckSnapshot, CheckClose, TypeOK, Minusers
  <2>2. Cardinality(Minusers)' = Cardinality(Minusers)
    BY <1>m, <2>1, CheckerMoves
  <2> QED
    BY <1>0, <1>m, <1>k, <2>1, <2>2
<1>2. CASE CheckDelete(w)
  <2>1. w \notin Minusers /\ w \in Minusers' /\ UNCHANGED connCount
    BY <1>0, <1>2 DEF CheckDelete, Delete, TypeOK, Minusers
  <2>2. Cardinality(Minusers)' = Cardinality(Minusers) + 1
    BY <1>m, <2>1, CheckerMoves
  <2>3. /\ Cardinality(activeConns)' \in Nat
        /\ Cardinality(activeConns)' + missed <= Cardinality(activeConns) + missed' - 1
    BY <1>0, <1>2, TableMoves DEF CheckDelete, RolesInv
  <2> QED
    BY <1>0, <1>m, <1>k, <2>1, <2>2, <2>3
<1>3. CASE CheckMinus(w)
  <2>1. /\ w \in Minusers /\ w \notin Minusers' /\ connCount' = connCount - 1
        /\ UNCHANGED <<activeConns, missed>>
    BY <1>0, <1>3 DEF CheckMinus, Minus, TypeOK, Minusers
  <2>2. Cardinality(Minusers)' = Cardinality(Minusers) - 1
    BY <1>m, <2>1, CheckerMoves
  <2> QED
    BY <1>0, <1>m, <1>k, <2>1, <2>2
<1> QED
  BY <1>1, <1>2, <1>3

(* Close and what connections do by themselves count nothing.               *)
LEMMA OtherCounts ==
    ASSUME CountInv,
           \/ Close \/ UNCHANGED vars
           \/ \E c \in Conns : ConnEnds(c) \/ SyncFails(c)
    PROVE  CountInv'
<1>1. UNCHANGED <<work, starter, activeConns, connCount, missed, tokens, accept>>
  BY DEF Close, CloseListener, CloseSnapshot, CloseWait, CloseReturn, CloseNext,
         ConnEnds, SyncFails, vars, tableVars, workerVars, acceptVars
<1> QED
  BY <1>1, CountsKept DEF CountInv, Covered, Limited

(* The counter is too low only by removals of what was gone already, and    *)
(* above the limit only by the tokens that added a connection, whatever     *)
(* interleaves with the two halves of AddConn and RemoveConn                *)
(* (server.go:143-169, 218-236).                                            *)
THEOREM CountCoversTableAlways == Spec => []CountCoversTable
<1>1. Init => CountInv
  <2> SUFFICES ASSUME Init PROVE CountInv
    OBVIOUS
  <2>1. Inserters = {} /\ Plusers = {} /\ Minusers = {} /\ Leavers = {} /\ activeConns = {}
    BY DEF Init, Inserters, Plusers, Minusers, Leavers, Workers
  <2> QED
    BY <2>1, FS_EmptySet, BoundsAssumption DEF Init, CountInv, Covered, Limited
<1>2. ServerInv /\ ServerInv' /\ CountInv /\ [Next]_vars => CountInv'
  BY AcceptCounts, StarterCounts, AdderCounts, CheckerCounts, OtherCounts
     DEF Next, ServerInv, PartsInv
<1>3. ServerInv /\ CountInv => CountCoversTable
  <2> SUFFICES ASSUME TypeOK, CountInv PROVE CountCoversTable
    BY DEF ServerInv
  <2>1. LimitHolds
    BY CountsAreNumbers, BoundsAssumption DEF TypeOK, CountInv, Limited, LimitHolds
  <2>2. Cardinality(activeConns) + Removing <= connCount + Adding + missed
    BY CountsAreNumbers DEF TypeOK, CountInv, Covered
  <2> QED
    BY <2>1, <2>2 DEF CountCoversTable
<1>4. Spec => []ServerInv
  BY InitServerInv, NextServerInv, PTL DEF Spec
<1> QED
  BY <1>1, <1>2, <1>3, <1>4, PTL DEF Spec
===============================================================================
