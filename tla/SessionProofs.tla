----------------------------- MODULE SessionProofs -----------------------------
(***************************************************************************)
(* Theorems about session ids and the handlers that use them, for any       *)
(* number of connections, players, workers, ids and restarts, any limit of  *)
(* the low half and any bounds.                                             *)
(***************************************************************************)
EXTENDS Session, SequenceTheorems, FiniteSetTheorems, TLAPS

-------------------------------------------------------------------------------
(* Guid: ids differ as long as the allocator answers.                       *)

(* What a step keeps true.  A high half in use has been handed out by the   *)
(* allocator; an id that shares it is not above the low half; and, until a  *)
(* request fails, no id has the high half of a process that has none yet.   *)
HighIsOld == highGuid < nextHigh

GivenIsPast ==
    \A i \in 1 .. Len(given) :
        /\ given[i][1] < nextHigh
        /\ ~failed => given[i][1] # 0
        /\ ~failed /\ given[i][1] = highGuid => given[i][2] <= lowGuid

GuidInv == GuidTypeOK /\ HighIsOld /\ GivenIsPast /\ GuidsDiffer

(* The id that GetGuid returns is not one it has returned before. *)
LEMMA NewIdIsNew ==
    ASSUME GuidInv, GetGuid, ~failed'
    PROVE  \A i \in 1 .. Len(given) : given[i] # <<highGuid', lowGuid'>>
<1>1. /\ highGuid \in Nat /\ lowGuid \in Nat /\ nextHigh \in Nat
      /\ \A i \in 1 .. Len(given) : given[i] \in Nat \X Nat
  BY LowMaxAssumption DEF GuidInv, GuidTypeOK
<1>2. ~failed
  BY DEF GetGuid, Refresh, RefreshAnswered, RefreshFails
<1>3. highGuid' = nextHigh \/ (highGuid' = highGuid /\ lowGuid' = lowGuid + 1)
  BY DEF GetGuid, Refresh, RefreshAnswered, RefreshFails
<1> SUFFICES ASSUME NEW i \in 1 .. Len(given)
             PROVE  given[i] # <<highGuid', lowGuid'>>
  OBVIOUS
<1>4. /\ given[i][1] < nextHigh
      /\ given[i][1] = highGuid => given[i][2] <= lowGuid
  BY <1>2 DEF GuidInv, GivenIsPast
<1>5. CASE given[i][1] = highGuid'
  <2>1. highGuid' = highGuid /\ lowGuid' = lowGuid + 1
    BY <1>1, <1>3, <1>4, <1>5
  <2>2. given[i][2] < lowGuid' /\ given[i][2] \in Nat
    BY <2>1, <1>1, <1>4, <1>5
  <2> QED BY <2>2
<1> QED BY <1>5

LEMMA GetGuidKeepsInv ==
    ASSUME GuidInv, GetGuid
    PROVE  GuidInv'
<1> USE LowMaxAssumption DEF GuidInv, GuidTypeOK
<1>1. GuidTypeOK' /\ HighIsOld'
  <2>1. /\ highGuid' \in Nat /\ nextHigh' \in Nat
        /\ highGuid' < nextHigh'
    <3>1. Refresh \/ UNCHANGED <<highGuid, nextHigh>>
      BY DEF GetGuid
    <3>2. CASE RefreshAnswered
      BY <3>2 DEF RefreshAnswered
    <3>3. CASE UNCHANGED <<highGuid, nextHigh>>
      BY <3>3 DEF HighIsOld
    <3> QED BY <3>1, <3>2, <3>3 DEF Refresh, RefreshFails
  <2>4. failed' \in BOOLEAN
    BY DEF GetGuid, Refresh, RefreshAnswered, RefreshFails
  <2>2. lowGuid' \in 0 .. LowMax - 1
    BY DEF GetGuid, Wraps
  <2>3. given' \in Seq(Nat \X Nat)
    BY <2>1, <2>2 DEF GetGuid
  <2> QED BY <2>1, <2>2, <2>3, <2>4 DEF HighIsOld
<1>2. /\ given' = Append(given, <<highGuid', lowGuid'>>)
      /\ Len(given') = Len(given) + 1
      /\ \A i \in 1 .. Len(given) : given'[i] = given[i]
      /\ given'[Len(given) + 1] = <<highGuid', lowGuid'>>
  BY <1>1 DEF GetGuid
<1>3. nextHigh' >= nextHigh /\ (failed => failed')
  BY DEF GetGuid, Refresh, RefreshAnswered, RefreshFails
<1>4. GivenIsPast'
  <2> SUFFICES ASSUME NEW i \in 1 .. Len(given')
               PROVE  /\ given'[i][1] < nextHigh'
                      /\ ~failed' => given'[i][1] # 0
                      /\ ~failed' /\ given'[i][1] = highGuid' => given'[i][2] <= lowGuid'
    BY DEF GivenIsPast
  <2>1. CASE i = Len(given) + 1
    <3>1. ~failed' => highGuid' # 0
      BY DEF GetGuid, Refresh, RefreshAnswered, RefreshFails, HighIsOld
    <3> QED BY <2>1, <3>1, <1>1, <1>2 DEF HighIsOld
  <2>2. CASE i \in 1 .. Len(given)
    <3>1. given'[i] = given[i] /\ given[i] \in Nat \X Nat
      BY <2>2, <1>2
    <3>4. given[i][1] < nextHigh /\ (~failed => given[i][1] # 0)
      BY <2>2 DEF GivenIsPast
    <3>5. given[i][1] \in Nat /\ nextHigh \in Nat /\ nextHigh' \in Nat
      BY <3>1, <1>1
    <3>6. given[i][1] < nextHigh'
      BY <3>4, <3>5, <1>3
    <3>2. given[i][1] < nextHigh' /\ (~failed' => given[i][1] # 0)
      BY <3>4, <3>6, <1>3
    <3>3. ASSUME ~failed', given[i][1] = highGuid' PROVE given[i][2] <= lowGuid'
      BY <2>2, <1>3, <3>1, <3>3 DEF GivenIsPast, GetGuid, Refresh, RefreshAnswered, RefreshFails
    <3> QED BY <3>1, <3>2, <3>3
  <2> QED BY <2>1, <2>2, <1>2
<1>5. GuidsDiffer'
  <2> SUFFICES ASSUME ~failed', NEW i \in 1 .. Len(given'), NEW j \in 1 .. Len(given'), i # j
               PROVE  given'[i] # given'[j]
    BY DEF GuidsDiffer
  <2>1. \A k \in 1 .. Len(given) : given[k] # <<highGuid', lowGuid'>>
    BY NewIdIsNew
  <2>2. i \in 1 .. Len(given) /\ j \in 1 .. Len(given) => given[i] # given[j]
    BY <1>3 DEF GuidsDiffer
  <2>3. \A k \in 1 .. Len(given') : k \in 1 .. Len(given) \/ k = Len(given) + 1
    BY <1>2, SMTT(20)
  <2>4. CASE i \in 1 .. Len(given) /\ j \in 1 .. Len(given)
    BY <2>4, <2>2, <1>2
  <2>5. CASE i = Len(given) + 1
    <3>1. j \in 1 .. Len(given)
      BY <2>3, <2>5
    <3> QED BY <2>5, <3>1, <2>1, <1>2
  <2>6. CASE j = Len(given) + 1
    <3>1. i \in 1 .. Len(given)
      BY <2>3, <2>6
    <3> QED BY <2>6, <3>1, <2>1, <1>2
  <2> QED BY <2>3, <2>4, <2>5, <2>6
<1> QED BY <1>1, <1>4, <1>5

LEMMA RestartKeepsInv ==
    ASSUME GuidInv, GuidRestart
    PROVE  GuidInv'
<1> USE LowMaxAssumption DEF GuidInv
<1>1. GuidTypeOK' /\ HighIsOld'
  BY DEF GuidTypeOK, HighIsOld, GuidRestart
<1>2. given' = given /\ failed' = failed /\ nextHigh' = nextHigh /\ highGuid' = 0
  BY DEF GuidRestart
<1>3. GivenIsPast'
  BY <1>2 DEF GivenIsPast
<1>4. GuidsDiffer'
  BY <1>2 DEF GuidsDiffer
<1> QED BY <1>1, <1>3, <1>4

LEMMA InitHasInv == GuidInit => GuidInv
<1> SUFFICES ASSUME GuidInit PROVE GuidInv
  OBVIOUS
<1>1. given = <<>> /\ Len(given) = 0 /\ 1 .. 0 = {}
  BY DEF GuidInit
<1>2. GuidTypeOK /\ HighIsOld
  <2>1. /\ highGuid = 0 /\ nextHigh = 1 /\ lowGuid = 0
        /\ failed \in BOOLEAN
    BY DEF GuidInit
  <2>2. lowGuid \in 0 .. LowMax - 1
    BY <2>1, LowMaxAssumption
  <2>3. given \in Seq(Nat \X Nat)
    BY <1>1
  <2> QED BY <2>1, <2>2, <2>3 DEF GuidTypeOK, HighIsOld
<1>3. GivenIsPast /\ GuidsDiffer
  BY <1>1 DEF GivenIsPast, GuidsDiffer
<1> QED BY <1>2, <1>3 DEF GuidInv

(* No id is handed out twice, whatever the limit of the low half, over any  *)
(* number of wraps and restarts, unless a request to the allocator failed   *)
(* (guid.go:42-57).                                                         *)
THEOREM GuidsDifferAlways == GuidSpec => []GuidsDiffer
<1>1. GuidInit => GuidInv
  BY InitHasInv
<1>2. GuidInv /\ [GetGuid \/ GuidRestart]_guidVars => GuidInv'
  <2> SUFFICES ASSUME GuidInv, [GetGuid \/ GuidRestart]_guidVars PROVE GuidInv'
    OBVIOUS
  <2>1. CASE UNCHANGED guidVars
    BY <2>1 DEF guidVars, GuidInv, GuidTypeOK, HighIsOld, GivenIsPast, GuidsDiffer
  <2> QED BY <2>1, GetGuidKeepsInv, RestartKeepsInv
<1>3. GuidInv => GuidsDiffer
  BY DEF GuidInv
<1> QED BY <1>1, <1>2, <1>3, PTL DEF GuidSpec

-------------------------------------------------------------------------------
(* Session: players stay apart.                                             *)

Domains ==
    /\ bound \in Bounds
    /\ DOMAIN sessionId = Conns /\ DOMAIN owner = Conns /\ DOMAIN life = Conns
    /\ DOMAIN pc = Workers /\ DOMAIN req = Workers /\ DOMAIN conn = Workers

Met(c) == c \in Conns /\ life[c] # "none"

(* Every connection has an id that GetGuid gave, *)
IdsAreGiven == \A c \in Conns : Met(c) =>
    \E i \in 1 .. Len(given) : given[i] = sessionId[c]

(* and one of its own, unless the allocator failed. *)
IdsAreOwn == ~failed =>
    \A c, d \in Conns : Met(c) /\ Met(d) /\ sessionId[c] = sessionId[d] => c = d

(* The table finds a connection under its id. *)
TableIsById == \A g \in DOMAIN activeConns :
    Met(activeConns[g]) /\ sessionId[activeConns[g]] = g

ToldAreMet == \A c \in told : Met(c)

(* A token names a session of the player who sends it, or none, *)
NamesOwn(r) ==
    /\ Met(r.conn)
    /\ \/ r.guid = NoGuid
       \/ \E d \in Conns : Met(d) /\ sessionId[d] = r.guid /\ owner[d] = owner[r.conn]

TokensNameTheirOwn == \A w \in Workers : pc[w] # "idle" => NamesOwn(req[w])

(* and its handler works on a connection of that player. *)
HandlersKeepToPlayer == \A w \in Workers : pc[w] \in Handling =>
    Met(conn[w]) /\ (~failed => owner[conn[w]] = owner[req[w].conn])

SessionInv ==
    /\ Domains /\ GuidInv
    /\ IdsAreGiven /\ IdsAreOwn /\ TableIsById /\ ToldAreMet
    /\ TokensNameTheirOwn /\ HandlersKeepToPlayer

-------------------------------------------------------------------------------
(* Every step but Accept leaves the connections that are known as they are. *)
Kept ==
    /\ UNCHANGED <<sessionId, owner>>
    /\ \A c \in Conns : Met(c)' <=> Met(c)

(* A behaviour keeps to the bounds it began with. *)
LEMMA BoundKept ==
    ASSUME [Next]_vars
    PROVE  bound' = bound
<1>1. CASE UNCHANGED vars
  BY <1>1 DEF vars, runVars
<1>2. CASE \E s \in Senders : Sender(s)
  BY <1>2 DEF Sender, AsyncSend, Push, Count, Enqueue, runVars
<1>3. CASE \E w \in Workers : Handler(w)
  BY <1>3 DEF Handler, TokenLookup, TokenAdd, TokenClose, TokenAdopt, TokenAssign, TokenResend,
              WindowStep, runVars
<1>4. CASE \E c \in Conns :
              \/ Accept(c) \/ StarterRemoves(c) \/ Break(c)
              \/ Write(c) \/ WriteDrops(c) \/ Logic(c) \/ ClientToken(c)
  BY <1>4 DEF Accept, StarterRemoves, Break, Write, WriteDrops, Logic, ClientToken, ClientSends,
              runVars
<1>5. CASE Visit \/ Restart \/ \E g \in DOMAIN activeConns : Expire(g)
  BY <1>5 DEF Visit, Restart, Expire, runVars
<1> QED
  BY <1>1, <1>2, <1>3, <1>4, <1>5 DEF Next

LEMMA BoundFields ==
    ASSUME bound \in Bounds
    PROVE  /\ bound.players \subseteq Players /\ bound.workers \subseteq Workers
           /\ bound.sends \in Nat /\ bound.logics \in Nat /\ bound.tokens \in Nat
           /\ bound.restarts \in Nat
BY BoundsAssumption DEF Bound

(* A sender leaves everything but the windows, the queues and itself alone. *)
LEMMA SenderFrame ==
    ASSUME NEW s \in Senders, Sender(s)
    PROVE  UNCHANGED <<guidVars, connVars, jobVars, runVars, received>>
BY DEF Sender, AsyncSend, Push, Count, Enqueue

LEMMA GuidSteps ==
    ASSUME [Next]_vars
    PROVE  GetGuid \/ GuidRestart \/ UNCHANGED guidVars
BY DEF Next, vars, Accept, Visit, StarterRemoves, Break, Expire, Restart, Sender, AsyncSend,
       Push, Count, Enqueue, Write, WriteDrops, Logic, ClientToken, ClientSends, Handler, TokenLookup, TokenAdd, TokenClose,
       TokenAdopt, TokenAssign, TokenResend, WindowStep

LEMMA GuidInvStep ==
    ASSUME GuidInv, [Next]_vars
    PROVE  GuidInv' /\ (failed => failed')
<1>1. CASE GetGuid
  <2>1. GuidInv'
    BY <1>1, GetGuidKeepsInv
  <2>2. failed => failed'
    BY <1>1 DEF GetGuid, Refresh, RefreshAnswered, RefreshFails
  <2> QED BY <2>1, <2>2
<1>2. CASE GuidRestart
  BY <1>2, RestartKeepsInv DEF GuidRestart
<1>3. CASE UNCHANGED guidVars
  <2>1. GuidInv'
    BY <1>3 DEF guidVars, GuidInv, GuidTypeOK, HighIsOld, GivenIsPast, GuidsDiffer
  <2>2. failed' = failed
    BY <1>3 DEF guidVars
  <2> QED BY <2>1, <2>2
<1> QED BY <1>1, <1>2, <1>3, GuidSteps

LEMMA OtherStepsKeep ==
    ASSUME Domains, TableIsById, HandlersKeepToPlayer,
           [Next]_vars, ~ \E c \in Conns : Accept(c)
    PROVE  Kept
<1> USE DEF Kept, Met
<1>1. CASE UNCHANGED vars
  BY <1>1 DEF vars, connVars
<1>2. ASSUME NEW c \in Conns, StarterRemoves(c) \/ Write(c) \/ WriteDrops(c) \/ Logic(c) \/ ClientToken(c)
      PROVE  Kept
  BY <1>2 DEF StarterRemoves, Write, WriteDrops, Logic, ClientToken, ClientSends, connVars
<1>3. ASSUME NEW c \in Conns, Break(c) PROVE Kept
  BY <1>3 DEF Break, CloseConn, Domains
<1>4. ASSUME NEW g \in DOMAIN activeConns, Expire(g) PROVE Kept
  BY <1>4 DEF Expire, CloseConn, Domains, TableIsById
<1>5. ASSUME NEW w \in Workers, Handler(w) PROVE Kept
  <2>1. CASE TokenClose(w)
    BY <2>1 DEF TokenClose, CloseConn, Domains, HandlersKeepToPlayer, Handling
  <2> QED
    BY <1>5, <2>1 DEF Handler, TokenLookup, TokenAdd, TokenAdopt, TokenAssign,
                      TokenResend, WindowStep, connVars
<1>6. CASE Visit \/ Restart
  BY <1>6 DEF Visit, Restart, connVars, Domains
<1>7. ASSUME NEW s \in Senders, Sender(s) PROVE Kept
  BY <1>7, SenderFrame DEF connVars
<1> QED BY <1>1, <1>2, <1>3, <1>4, <1>5, <1>6, <1>7 DEF Next

LEMMA DomainsStep ==
    ASSUME Domains, [Next]_vars
    PROVE  Domains'
<1> USE BoundKept DEF Domains
<1>1. CASE UNCHANGED vars
  BY <1>1 DEF vars, connVars, jobVars
<1>2. ASSUME NEW c \in Conns,
             \/ Accept(c) \/ StarterRemoves(c) \/ Break(c)
             \/ Write(c) \/ WriteDrops(c) \/ Logic(c) \/ ClientToken(c)
      PROVE  Domains'
  BY <1>2 DEF Accept, StarterRemoves, Break, Write, WriteDrops, Logic, ClientToken,
              ClientSends, CloseConn, Goto, connVars, jobVars
<1>3. ASSUME NEW g \in DOMAIN activeConns, Expire(g) PROVE Domains'
  BY <1>3 DEF Expire, CloseConn, jobVars
<1>4. ASSUME NEW w \in Workers, Handler(w) PROVE Domains'
  BY <1>4 DEF Handler, TokenLookup, TokenAdd, TokenClose, TokenAdopt, TokenAssign,
              TokenResend, WindowStep, Reply, Return, CloseConn, Goto, connVars
<1>5. CASE Visit \/ Restart
  BY <1>5 DEF Visit, Restart, connVars, jobVars
<1>6. ASSUME NEW s \in Senders, Sender(s) PROVE Domains'
  BY <1>6, SenderFrame DEF connVars, jobVars
<1> QED BY <1>1, <1>2, <1>3, <1>4, <1>5, <1>6 DEF Next

(* given only grows, so an id that was given stays given. *)
LEMMA GivenGrows ==
    ASSUME GuidInv, [Next]_vars, NEW g, \E i \in 1 .. Len(given) : given[i] = g
    PROVE  \E i \in 1 .. Len(given') : given'[i] = g
<1>1. PICK i \in 1 .. Len(given) : given[i] = g
  OBVIOUS
<1>2. CASE GetGuid
  <2>1. i \in 1 .. Len(given') /\ given'[i] = given[i]
    BY <1>2 DEF GetGuid, GuidInv, GuidTypeOK
  <2> QED BY <1>1, <2>1
<1>3. CASE given' = given
  BY <1>1, <1>3
<1> QED BY <1>2, <1>3, GuidSteps DEF GuidRestart, guidVars

-------------------------------------------------------------------------------
(* A connection that is accepted.                                           *)

LEMMA AcceptIds ==
    ASSUME SessionInv, NEW c \in Conns, Accept(c)
    PROVE  IdsAreGiven' /\ IdsAreOwn'
<1> DEFINE g == <<highGuid', lowGuid'>>
<1>1. /\ given' = Append(given, g) /\ given'[Len(given')] = g
      /\ Len(given') \in 1 .. Len(given')
  BY DEF Accept, GetGuid, SessionInv, GuidInv, GuidTypeOK
<1>2. /\ sessionId' = [sessionId EXCEPT ![c] = g]
      /\ life' = [life EXCEPT ![c] = "open"]
      /\ ~Met(c)
  BY <1>1 DEF Accept, Met
<1>3. \A d \in Conns : d # c => (Met(d)' <=> Met(d)) /\ sessionId'[d] = sessionId[d]
  BY <1>2 DEF Met, SessionInv, Domains
<1>4. sessionId'[c] = g
  BY <1>2 DEF SessionInv, Domains
<1>5. IdsAreGiven'
  <2> SUFFICES ASSUME NEW d \in Conns, Met(d)'
               PROVE  \E i \in 1 .. Len(given') : given'[i] = sessionId'[d]
    BY DEF IdsAreGiven
  <2>1. CASE d = c
    BY <2>1, <1>1, <1>4
  <2>2. CASE d # c
    <3>1. \E i \in 1 .. Len(given) : given[i] = sessionId[d]
      BY <2>2, <1>3 DEF SessionInv, IdsAreGiven
    <3>2. [Next]_vars /\ GuidInv
      BY DEF Next, SessionInv
    <3> QED BY <2>2, <1>3, <3>1, <3>2, GivenGrows
  <2> QED BY <2>1, <2>2
<1>6. IdsAreOwn'
  <2> SUFFICES ASSUME ~failed', NEW d \in Conns, NEW e \in Conns,
                      Met(d)', Met(e)', sessionId'[d] = sessionId'[e]
               PROVE  d = e
    BY DEF IdsAreOwn
  <2>1. GetGuid /\ GuidInv
    BY DEF Accept, SessionInv
  <2>2. \A x \in Conns : x # c /\ Met(x) => sessionId[x] # g
    BY <2>1, NewIdIsNew DEF SessionInv, IdsAreGiven
  <2>3. ~failed
    BY <2>1 DEF GetGuid, Refresh, RefreshAnswered, RefreshFails
  <2> QED BY <2>2, <2>3, <1>3, <1>4 DEF SessionInv, IdsAreOwn
<1> QED BY <1>5, <1>6

LEMMA AcceptRest ==
    ASSUME SessionInv, NEW c \in Conns, Accept(c)
    PROVE  TableIsById' /\ ToldAreMet' /\ TokensNameTheirOwn' /\ HandlersKeepToPlayer'
<1> DEFINE g == given'[Len(given')]
<1>1. /\ sessionId' = [sessionId EXCEPT ![c] = g] /\ activeConns' = With(g, c)
      /\ life' = [life EXCEPT ![c] = "open"]
      /\ UNCHANGED <<told, pc, req, conn>> /\ ~Met(c)
  BY DEF Accept, Met, jobVars
<1>2. PICK p \in bound.players : owner' = [owner EXCEPT ![c] = p]
  BY DEF Accept
<1>3. /\ \A d : Met(d) => Met(d)' /\ sessionId'[d] = sessionId[d] /\ owner'[d] = owner[d]
      /\ Met(c)' /\ sessionId'[c] = g
  BY <1>1, <1>2 DEF Met, SessionInv, Domains
<1>4. TableIsById'
  BY <1>1, <1>3 DEF TableIsById, With, SessionInv
<1>5. ToldAreMet'
  BY <1>1, <1>3 DEF ToldAreMet, SessionInv
<1>6. TokensNameTheirOwn'
  <2> SUFFICES ASSUME NEW w \in Workers, pc[w] # "idle" PROVE NamesOwn(req[w])'
    BY <1>1 DEF TokensNameTheirOwn
  <2>1. NamesOwn(req[w])
    BY DEF SessionInv, TokensNameTheirOwn
  <2> QED BY <2>1, <1>1, <1>3 DEF NamesOwn
<1>7. HandlersKeepToPlayer'
  <2> SUFFICES ASSUME NEW w \in Workers, pc[w] \in Handling
               PROVE  Met(conn[w])' /\ (~failed' => owner'[conn[w]] = owner'[req[w].conn])
    BY <1>1 DEF HandlersKeepToPlayer
  <2>1. Met(conn[w]) /\ (~failed => owner[conn[w]] = owner[req[w].conn]) /\ Met(req[w].conn)
    BY DEF SessionInv, HandlersKeepToPlayer, TokensNameTheirOwn, NamesOwn, Handling
  <2>2. failed => failed'
    BY GuidInvStep DEF SessionInv, Next
  <2>3. /\ Met(conn[w])' /\ owner'[conn[w]] = owner[conn[w]]
        /\ owner'[req[w].conn] = owner[req[w].conn]
    BY <2>1, <1>1, <1>3
  <2> QED BY <2>1, <2>2, <2>3
<1> QED BY <1>4, <1>5, <1>6, <1>7

-------------------------------------------------------------------------------
(* Every other step.                                                        *)

LEMMA KeptIds ==
    ASSUME SessionInv, [Next]_vars, Kept
    PROVE  IdsAreGiven' /\ IdsAreOwn'
<1>1. IdsAreGiven'
  <2> SUFFICES ASSUME NEW d \in Conns, Met(d)'
               PROVE  \E i \in 1 .. Len(given') : given'[i] = sessionId'[d]
    BY DEF IdsAreGiven
  <2>1. \E i \in 1 .. Len(given) : given[i] = sessionId[d]
    BY DEF SessionInv, IdsAreGiven, Kept
  <2> QED BY <2>1, GivenGrows DEF SessionInv, Kept
<1>2. IdsAreOwn'
  <2>1. failed => failed'
    BY GuidInvStep DEF SessionInv
  <2> QED BY <2>1 DEF SessionInv, IdsAreOwn, Kept
<1> QED BY <1>1, <1>2

LEMMA KeptNamesOwn ==
    ASSUME Kept, NEW r, NamesOwn(r)
    PROVE  /\ Met(r.conn)'
           /\ \/ r.guid = NoGuid
              \/ \E d \in Conns : /\ Met(d)' /\ sessionId'[d] = r.guid
                                 /\ owner'[d] = owner'[r.conn]
BY DEF Kept, NamesOwn, Met

(* The steps that leave the workers where they are. *)
LEMMA WorkersUntouchedStep ==
    ASSUME SessionInv, [Next]_vars, Kept, UNCHANGED <<told, pc, req, conn>>
    PROVE  ToldAreMet' /\ TokensNameTheirOwn' /\ HandlersKeepToPlayer'
<1>1. ToldAreMet'
  BY DEF SessionInv, ToldAreMet, Kept, Met
<1>2. TokensNameTheirOwn'
  <2> SUFFICES ASSUME NEW w \in Workers, pc[w] # "idle" PROVE NamesOwn(req[w])'
    BY DEF TokensNameTheirOwn
  <2>1. NamesOwn(req[w])
    BY DEF SessionInv, TokensNameTheirOwn
  <2> QED BY <2>1, KeptNamesOwn DEF NamesOwn
<1>3. HandlersKeepToPlayer'
  <2>1. failed => failed'
    BY GuidInvStep DEF SessionInv
  <2> QED BY <2>1 DEF SessionInv, HandlersKeepToPlayer, Kept, Met
<1> QED BY <1>1, <1>2, <1>3

(* and those that leave the table as it is, too. *)
LEMMA UntouchedStep ==
    ASSUME SessionInv, [Next]_vars, Kept, UNCHANGED <<activeConns, told, pc, req, conn>>
    PROVE  TableIsById' /\ ToldAreMet' /\ TokensNameTheirOwn' /\ HandlersKeepToPlayer'
<1>1. TableIsById'
  BY DEF SessionInv, TableIsById, Kept, Met
<1> QED BY <1>1, WorkersUntouchedStep

LEMMA ConnectionSteps ==
    ASSUME SessionInv, Kept, NEW c \in Conns,
           StarterRemoves(c) \/ Break(c) \/ Write(c) \/ WriteDrops(c) \/ Logic(c)
    PROVE  TableIsById' /\ ToldAreMet' /\ TokensNameTheirOwn' /\ HandlersKeepToPlayer'
<1>1. [Next]_vars
  BY DEF Next
<1>2. CASE Break(c) \/ Write(c) \/ WriteDrops(c) \/ Logic(c)
  BY <1>1, <1>2, UntouchedStep DEF Break, Write, WriteDrops, Logic, connVars, jobVars
<1>3. CASE StarterRemoves(c)
  <2>1. activeConns' = Without(sessionId[c]) /\ UNCHANGED <<told, pc, req, conn>>
    BY <1>3 DEF StarterRemoves, jobVars
  <2>2. ToldAreMet' /\ TokensNameTheirOwn' /\ HandlersKeepToPlayer'
    BY <2>1, <1>1, WorkersUntouchedStep
  <2> QED BY <2>1, <2>2 DEF SessionInv, TableIsById, Without, Kept, Met
<1> QED BY <1>2, <1>3

LEMMA OneTokenStep ==
    ASSUME SessionInv, [Next]_vars, Kept, NEW w \in Workers,
           \A x \in Workers \ {w} : UNCHANGED <<pc[x], req[x], conn[x]>>,
           pc'[w] # "idle" => NamesOwn(req[w])',
           pc'[w] \in Handling =>
               Met(conn[w])' /\ (~failed' => owner'[conn'[w]] = owner'[req'[w].conn])
    PROVE  TokensNameTheirOwn' /\ HandlersKeepToPlayer'
<1>1. TokensNameTheirOwn'
  <2> SUFFICES ASSUME NEW x \in Workers, pc'[x] # "idle", x # w PROVE NamesOwn(req[x])'
    BY DEF TokensNameTheirOwn
  <2>1. NamesOwn(req[x]) /\ req'[x] = req[x]
    BY DEF SessionInv, TokensNameTheirOwn
  <2> QED BY <2>1, KeptNamesOwn DEF NamesOwn
<1>2. HandlersKeepToPlayer'
  <2> SUFFICES ASSUME NEW x \in Workers, pc'[x] \in Handling, x # w
               PROVE  Met(conn[x])' /\ (~failed' => owner'[conn'[x]] = owner'[req'[x].conn])
    BY DEF HandlersKeepToPlayer
  <2>1. failed => failed'
    BY GuidInvStep DEF SessionInv
  <2>2. pc'[x] = pc[x] /\ req'[x] = req[x] /\ conn'[x] = conn[x]
    OBVIOUS
  <2>3. Met(conn[x]) /\ (~failed => owner[conn[x]] = owner[req[x].conn])
    BY <2>2 DEF SessionInv, HandlersKeepToPlayer
  <2> QED BY <2>1, <2>2, <2>3 DEF Kept, Met
<1> QED BY <1>1, <1>2

LEMMA TokenSendStep ==
    ASSUME SessionInv, Kept, NEW c \in Conns, ClientToken(c)
    PROVE  TableIsById' /\ ToldAreMet' /\ TokensNameTheirOwn' /\ HandlersKeepToPlayer'
<1>1. PICK job : /\ ClientSends(c, job) /\ job.conn = c
                 /\ \/ job.guid = NoGuid
                    \/ \E d \in told : owner[d] = owner[c] /\ job.guid = sessionId[d]
  <2>1. CASE ClientSends(c, [conn |-> c, guid |-> NoGuid, ack |-> 0, of |-> c])
    <3> DEFINE login == [conn |-> c, guid |-> NoGuid, ack |-> 0, of |-> c]
    <3>1. login.conn = c /\ login.guid = NoGuid /\ ClientSends(c, login)
      BY <2>1
    <3> HIDE DEF login
    <3> QED BY <3>1
  <2>2. ASSUME NEW d \in told, owner[d] = owner[c],
               ClientSends(c, [conn |-> c, guid |-> sessionId[d], ack |-> Has(d), of |-> d])
        PROVE  \E job : /\ ClientSends(c, job) /\ job.conn = c
                        /\ \E e \in told : owner[e] = owner[c] /\ job.guid = sessionId[e]
    <3> DEFINE back == [conn |-> c, guid |-> sessionId[d], ack |-> Has(d), of |-> d]
    <3>1. back.conn = c /\ back.guid = sessionId[d] /\ ClientSends(c, back)
      BY <2>2
    <3> HIDE DEF back
    <3> QED BY <3>1, <2>2
  <2> QED BY <2>1, <2>2 DEF ClientToken
<1>2. PICK w \in Workers : /\ pc[w] = "idle" /\ pc' = [pc EXCEPT ![w] = "token"]
                           /\ req' = [req EXCEPT ![w] = job]
  BY <1>1, BoundFields DEF ClientSends, Goto, SessionInv, Domains
<1>3. UNCHANGED <<told, conn, activeConns, sessionId, owner, life>>
  BY <1>1 DEF ClientSends, connVars
<1>4. Met(c)
  BY <1>1 DEF ClientSends, Met
<1>5. req'[w] = job /\ pc'[w] = "token" /\ "token" \notin Handling
  BY <1>2 DEF SessionInv, Domains, Handling
<1>6. NamesOwn(job)
  BY <1>1, <1>4 DEF NamesOwn, SessionInv, ToldAreMet, Met
<1>7. NamesOwn(req[w])'
  BY <1>5, <1>6, KeptNamesOwn DEF NamesOwn
<1>8. \A x \in Workers \ {w} : UNCHANGED <<pc[x], req[x], conn[x]>>
  BY <1>2, <1>3 DEF SessionInv, Domains
<1>9. TokensNameTheirOwn' /\ HandlersKeepToPlayer'
  BY <1>5, <1>7, <1>8, OneTokenStep DEF Next
<1>10. TableIsById' /\ ToldAreMet'
  BY <1>3 DEF SessionInv, TableIsById, ToldAreMet, Met
<1> QED BY <1>9, <1>10

(* What a lookup finds is the sender's own. *)
LEMMA LookupStep ==
    ASSUME SessionInv, Kept, NEW w \in Workers, TokenLookup(w)
    PROVE  TableIsById' /\ ToldAreMet' /\ TokensNameTheirOwn' /\ HandlersKeepToPlayer'
<1> DEFINE g == req[w].guid
           named == activeConns[g]
<1>1. /\ UNCHANGED <<told, req, activeConns, sessionId, owner, life, failed>>
      /\ pc[w] = "token"
      /\ conn' = [conn EXCEPT ![w] = IF g \in DOMAIN activeConns THEN named ELSE req[w].conn]
      /\ \E label \in Handling : pc' = [pc EXCEPT ![w] = label]
  BY DEF TokenLookup, Goto, Handling, connVars, guidVars
<1>2. NamesOwn(req[w])
  BY <1>1 DEF SessionInv, TokensNameTheirOwn
<1>3. ASSUME g \in DOMAIN activeConns
      PROVE  Met(named) /\ (~failed => owner[named] = owner[req[w].conn])
  <2>1. Met(named) /\ sessionId[named] = g
    BY <1>3 DEF SessionInv, TableIsById
  <2>2. g # NoGuid
    <3>1. PICK i \in 1 .. Len(given) : given[i] = sessionId[named]
      BY <2>1 DEF SessionInv, IdsAreGiven, Met
    <3>2. given[i] \in Nat \X Nat
      BY DEF SessionInv, GuidInv, GuidTypeOK
    <3> QED BY <2>1, <3>1, <3>2, NoneAssumption
  <2>3. PICK d \in Conns : Met(d) /\ sessionId[d] = g /\ owner[d] = owner[req[w].conn]
    BY <1>2, <2>2 DEF NamesOwn
  <2>4. ~failed => d = named
    BY <2>1, <2>3 DEF SessionInv, IdsAreOwn, Met
  <2> QED BY <2>1, <2>3, <2>4
<1>4. /\ conn'[w] = IF g \in DOMAIN activeConns THEN named ELSE req[w].conn
      /\ \A x \in Workers \ {w} : UNCHANGED <<pc[x], req[x], conn[x]>>
  BY <1>1 DEF SessionInv, Domains
<1>5. Met(conn'[w]) /\ (~failed => owner[conn'[w]] = owner[req[w].conn])
  BY <1>2, <1>3, <1>4 DEF NamesOwn
<1>6. NamesOwn(req[w])' /\ Met(conn[w])'
  BY <1>1, <1>2, <1>5 DEF NamesOwn, Met
<1>7. TokensNameTheirOwn' /\ HandlersKeepToPlayer'
  BY <1>1, <1>4, <1>5, <1>6, OneTokenStep DEF Next, Handler
<1>8. TableIsById' /\ ToldAreMet'
  BY <1>1 DEF SessionInv, TableIsById, ToldAreMet, Met
<1> QED BY <1>7, <1>8

(* The steps after the lookup, with or without a return. *)
LEMMA HandlingStep ==
    ASSUME SessionInv, Kept, NEW w \in Workers,
           TokenAdd(w) \/ TokenClose(w) \/ TokenAdopt(w) \/ TokenAssign(w) \/ TokenResend(w)
    PROVE  TableIsById' /\ ToldAreMet' /\ TokensNameTheirOwn' /\ HandlersKeepToPlayer'
<1>1. pc[w] \in Handling /\ [Next]_vars
  BY DEF TokenAdd, TokenClose, TokenAdopt, TokenAssign, TokenResend, Handling, Next, Handler
<1>2. /\ Met(conn[w]) /\ (~failed => owner[conn[w]] = owner[req[w].conn])
      /\ NamesOwn(req[w])
  BY <1>1 DEF SessionInv, HandlersKeepToPlayer, TokensNameTheirOwn, Handling
<1>3. \/ /\ pc' = [pc EXCEPT ![w] = "idle"]
         /\ req' = [req EXCEPT ![w] = NoJob] /\ conn' = [conn EXCEPT ![w] = NoConn]
      \/ (\E label \in Handling : pc' = [pc EXCEPT ![w] = label]) /\ UNCHANGED <<req, conn>>
  BY DEF TokenAdd, TokenClose, TokenAdopt, TokenAssign, TokenResend, WindowStep, Reply,
         Return, Goto, Handling
<1>4. \A x \in Workers \ {w} : UNCHANGED <<pc[x], req[x], conn[x]>>
  BY <1>3 DEF SessionInv, Domains
<1>5. pc'[w] = "idle" \/ UNCHANGED <<req, conn>>
  BY <1>3 DEF SessionInv, Domains
<1>6. pc'[w] # "idle" => NamesOwn(req[w])'
  BY <1>2, <1>5, KeptNamesOwn DEF NamesOwn
<1>7. pc'[w] \in Handling =>
          Met(conn[w])' /\ (~failed' => owner'[conn'[w]] = owner'[req'[w].conn])
  <2>1. failed => failed'
    BY <1>1, GuidInvStep DEF SessionInv
  <2> QED BY <2>1, <1>2, <1>5 DEF Kept, Met, Handling
<1>8. TokensNameTheirOwn' /\ HandlersKeepToPlayer'
  BY <1>1, <1>4, <1>6, <1>7, OneTokenStep
<1>9. TableIsById'
  <2>1. CASE activeConns' = With(sessionId[conn[w]], conn[w])
    BY <2>1, <1>2 DEF SessionInv, TableIsById, With, Kept, Met
  <2>2. CASE activeConns' = activeConns
    BY <2>2 DEF SessionInv, TableIsById, Kept, Met
  <2> QED
    BY <2>1, <2>2 DEF TokenAdd, TokenClose, TokenAdopt, TokenAssign, TokenResend,
                      WindowStep, connVars
<1>10. ToldAreMet'
  <2>1. told' \subseteq told \cup {req[w].conn}
    BY DEF TokenAdd, TokenClose, TokenAdopt, TokenAssign, TokenResend, WindowStep, Reply
  <2> QED BY <2>1, <1>2 DEF SessionInv, ToldAreMet, NamesOwn, Kept, Met
<1> QED BY <1>8, <1>9, <1>10

LEMMA RemainingSteps ==
    ASSUME SessionInv, Kept,
           \/ Visit \/ Restart \/ UNCHANGED vars
           \/ (\E g \in DOMAIN activeConns : Expire(g)) \/ (\E s \in Senders : Sender(s))
    PROVE  TableIsById' /\ ToldAreMet' /\ TokensNameTheirOwn' /\ HandlersKeepToPlayer'
<1>1. CASE Visit
  BY <1>1, UntouchedStep DEF Next, Visit, connVars, jobVars
<1>2. CASE UNCHANGED vars
  BY <1>2, UntouchedStep DEF vars, connVars, jobVars
<1>3. CASE Restart
  <2>1. /\ activeConns' = <<>> /\ told' = told
        /\ \A w \in Workers : pc'[w] = "idle"
    BY <1>3 DEF Restart
  <2>2. DOMAIN activeConns' = {}
    BY <2>1
  <2> QED
    BY <2>1, <2>2 DEF SessionInv, TableIsById, ToldAreMet, TokensNameTheirOwn,
                      HandlersKeepToPlayer, Handling, Kept, Met
<1>4. ASSUME NEW g \in DOMAIN activeConns, Expire(g)
      PROVE  TableIsById' /\ ToldAreMet' /\ TokensNameTheirOwn' /\ HandlersKeepToPlayer'
  <2>1. activeConns' = Without(g) /\ UNCHANGED <<told, pc, req, conn>>
    BY <1>4 DEF Expire, jobVars
  <2>2. ToldAreMet' /\ TokensNameTheirOwn' /\ HandlersKeepToPlayer'
    BY <2>1, <1>4, WorkersUntouchedStep DEF Next
  <2> QED BY <2>1, <2>2 DEF SessionInv, TableIsById, Without, Kept, Met
<1>5. ASSUME NEW s \in Senders, Sender(s)
      PROVE  TableIsById' /\ ToldAreMet' /\ TokensNameTheirOwn' /\ HandlersKeepToPlayer'
  BY <1>5, SenderFrame, UntouchedStep DEF Next, connVars, jobVars
<1> QED BY <1>1, <1>2, <1>3, <1>4, <1>5

-------------------------------------------------------------------------------
LEMMA SessionInvStep ==
    ASSUME SessionInv, [Next]_vars
    PROVE  SessionInv'
<1>1. Domains' /\ GuidInv'
  BY DomainsStep, GuidInvStep DEF SessionInv
<1>2. CASE \E c \in Conns : Accept(c)
  BY <1>1, <1>2, AcceptIds, AcceptRest DEF SessionInv
<1>3. CASE ~ \E c \in Conns : Accept(c)
  <2>1. Kept
    BY <1>3, OtherStepsKeep DEF SessionInv
  <2>2. IdsAreGiven' /\ IdsAreOwn'
    BY <2>1, KeptIds
  <2>3. TableIsById' /\ ToldAreMet' /\ TokensNameTheirOwn' /\ HandlersKeepToPlayer'
    BY <1>3, <2>1, ConnectionSteps, TokenSendStep, LookupStep, HandlingStep, RemainingSteps
       DEF Next, Handler
  <2> QED BY <1>1, <2>2, <2>3 DEF SessionInv
<1> QED BY <1>2, <1>3

LEMMA InitSessionInv == Init => SessionInv
<1> SUFFICES ASSUME Init PROVE SessionInv
  OBVIOUS
<1>1. GuidInv /\ Domains
  BY InitHasInv DEF Init, Domains
<1>2. /\ \A c \in Conns : ~Met(c)
      /\ DOMAIN activeConns = {} /\ told = {} /\ \A w \in Workers : pc[w] = "idle"
  BY DEF Init, Met
<1> QED
  BY <1>1, <1>2 DEF SessionInv, IdsAreGiven, IdsAreOwn, TableIsById, ToldAreMet,
                    TokensNameTheirOwn, HandlersKeepToPlayer, Handling

(* Ids differ in the composed system, too (guid.go:42-57, conn.go:72). *)
THEOREM SessionGuidsDiffer == Spec => []GuidsDiffer
<1>1. SessionInv => GuidsDiffer
  BY DEF SessionInv, GuidInv
<1> QED BY <1>1, InitSessionInv, SessionInvStep, PTL DEF Spec

(* No token ever touches a connection of another player, while the          *)
(* allocator answers, over restarts and for any number of them              *)
(* (service.go:343-369).                                                    *)
THEOREM PlayersStayApartAlways == Spec => []PlayersStayApart
<1>1. SessionInv => PlayersStayApart
  BY DEF SessionInv, HandlersKeepToPlayer, PlayersStayApart
<1> QED BY <1>1, InitSessionInv, SessionInvStep, PTL DEF Spec

-------------------------------------------------------------------------------
(* Session: what is cut was received.                                       *)

(* What one connection holds, whatever tokens did to it: its window w, its   *)
(* queue q, the number n of messages sent on it, and those its client got.   *)
Held(w, q, n, got) ==
    /\ w \in WindowOver(Nat) /\ q \in Seq(1 .. n) /\ Len(q) <= QueueCap
    /\ n \in Nat /\ got \subseteq 1 .. n
    /\ Len(w.pendingMessages) <= n
    /\ \A i \in 1 .. Len(w.pendingMessages) :
          w.pendingMessages[i] = (n - Len(w.pendingMessages)) + i

(* The client has a row of messages without a gap, and the queue goes on     *)
(* where it ends, repeating what it likes; only messages in flight are in    *)
(* neither.                                                                  *)
Gapless(q, n, got, fly) ==
    /\ \A x \in got : \A y \in 1 .. x : y \in got
    /\ \A i \in 1 .. Len(q) : \A y \in 1 .. q[i] - 1 :
          y \in got \/ \E j \in 1 .. i - 1 : q[j] = y
    /\ \A y \in 1 .. n : y \in got \/ y \in fly \/ \E j \in 1 .. Len(q) : q[j] = y

(* The window has cut no more than serverAck says, and the client got that.  *)
CutIsHad(w, n, got) ==
    /\ n - Len(w.pendingMessages) <= w.serverAck
    /\ 1 .. n - Len(w.pendingMessages) \subseteq got

DataInv ==
    \A c \in Conns :
        /\ Held(win[c], sendQueue[c], sent[c], received[c])
        /\ c \in lossy \/ (/\ Gapless(sendQueue[c], sent[c], received[c], Flying(c))
                           /\ CutIsHad(win[c], sent[c], received[c]))

(* A sender is on a connection, and what it has in flight was pushed there.  *)
SendersHold ==
    \A s \in Senders :
        /\ (at[s] # "idle") => on[s] \in Conns
        /\ (at[s] \in InFlight) => msg[s] \in 1 .. sent[on[s]]

(* An ack under way counts messages the client has received. *)
AcksCountReceived ==
    \A w \in Workers : pc[w] # "idle" => req[w] \in Job /\ req[w].ack <= Has(req[w].of)

CutInv == SessionInv /\ TypeOK /\ DataInv /\ SendersHold /\ AcksCountReceived

(* A client that counts k messages has the first k. *)
LEMMA CountedAreFirst ==
    ASSUME NEW n \in Nat, NEW got \in SUBSET (1 .. n),
           \A x \in got : \A y \in 1 .. x : y \in got,
           NEW k \in Nat, k <= Cardinality(got)
    PROVE  1 .. k \subseteq got
<1> SUFFICES ASSUME NEW y \in 1 .. k, y \notin got
             PROVE  FALSE
  OBVIOUS
<1>1. got \subseteq 1 .. y - 1
  <2> SUFFICES ASSUME NEW x \in got PROVE x \in 1 .. y - 1
    OBVIOUS
  <2>1. x \in 1 .. n /\ y \notin 1 .. x
    OBVIOUS
  <2> QED
    BY <2>1
<1>2. Cardinality(got) <= y - 1
  <2>1. IsFiniteSet(1 .. y - 1) /\ Cardinality(1 .. y - 1) = y - 1
    BY FS_Interval
  <2>2. Cardinality(got) <= Cardinality(1 .. y - 1)
    BY <1>1, <2>1, FS_Subset
  <2> QED
    BY <2>1, <2>2
<1>3. Cardinality(got) \in Nat
  <2>1. IsFiniteSet(1 .. n)
    BY FS_Interval
  <2>2. IsFiniteSet(got)
    BY <2>1, FS_Subset
  <2> QED
    BY <2>2, FS_CardinalityType
<1> QED
  BY <1>2, <1>3

LEMMA MoreInFlight ==
    ASSUME NEW q, NEW n, NEW got, NEW fly, NEW more, fly \subseteq more, Gapless(q, n, got, fly)
    PROVE  Gapless(q, n, got, more)
BY DEF Gapless

LEMMA HasIsNat ==
    ASSUME NEW n \in Nat, NEW got \in SUBSET (1 .. n), NEW m \in 1 .. n
    PROVE  /\ IsFiniteSet(got) /\ Cardinality(got) \in Nat
           /\ Cardinality(got) <= Cardinality(got \cup {m})
<1>1. IsFiniteSet(1 .. n)
  BY FS_Interval
<1>2. IsFiniteSet(got) /\ IsFiniteSet(got \cup {m})
  BY <1>1, FS_Subset
<1>3. got \subseteq got \cup {m}
  OBVIOUS
<1> QED
  BY <1>2, <1>3, FS_Subset, FS_CardinalityType

(* AsyncSend pushes a message, *)
LEMMA PushKeepsHeld ==
    ASSUME NEW w, NEW q, NEW n, NEW got, NEW fly, Held(w, q, n, got)
    PROVE  LET v == PushToPendingMessages(w, n + 1)
           IN  /\ Held(v, q, n + 1, got)
               /\ Gapless(q, n, got, fly) => Gapless(q, n + 1, got, fly \cup {n + 1})
               /\ CutIsHad(w, n, got) => CutIsHad(v, n + 1, got)
<1> DEFINE v == PushToPendingMessages(w, n + 1)
<1>1. /\ n \in Nat /\ q \in Seq(1 .. n) /\ w.pendingMessages \in Seq(Nat) /\ QueueCap \in Nat
      /\ w \in WindowOver(Nat) /\ Len(q) <= QueueCap /\ got \subseteq 1 .. n
      /\ Len(w.pendingMessages) <= n
      /\ \A i \in 1 .. Len(w.pendingMessages) :
            w.pendingMessages[i] = (n - Len(w.pendingMessages)) + i
  BY BoundsAssumption DEF Held, WindowOver
<1>2. /\ v.pendingMessages = Append(w.pendingMessages, n + 1) /\ v.serverAck = w.serverAck
      /\ v \in WindowOver(Nat)
  <2> DEFINE s == Append(w.pendingMessages, n + 1)
  <2>1. s \in Seq(Nat)
    BY <1>1
  <2>2. v = [w EXCEPT !.pendingMessages = s]
    BY <1>1 DEF WindowOver, PushToPendingMessages
  <2> HIDE DEF s, v
  <2>3. /\ w = [pendingMessages |-> w.pendingMessages, serverAck |-> w.serverAck,
                hasBeenSentNum |-> w.hasBeenSentNum, clientAck |-> w.clientAck]
        /\ w.serverAck \in Nat /\ w.hasBeenSentNum \in Nat /\ w.clientAck \in Nat
    BY <1>1 DEF WindowOver
  <2>4. v = [pendingMessages |-> s, serverAck |-> w.serverAck,
             hasBeenSentNum |-> w.hasBeenSentNum, clientAck |-> w.clientAck]
    BY <2>2, <2>3
  <2>5. v \in WindowOver(Nat) /\ v.pendingMessages = s /\ v.serverAck = w.serverAck
    BY <2>1, <2>3, <2>4 DEF WindowOver
  <2> QED
    BY <2>5 DEF s
<1> HIDE DEF v
<1>3. Len(v.pendingMessages) = Len(w.pendingMessages) + 1 /\ Len(w.pendingMessages) \in Nat
  BY <1>1, <1>2
<1>4. \A i \in 1 .. Len(v.pendingMessages) :
         v.pendingMessages[i] = ((n + 1) - Len(v.pendingMessages)) + i
  <2> SUFFICES ASSUME NEW i \in 1 .. Len(v.pendingMessages)
               PROVE  v.pendingMessages[i] = ((n + 1) - Len(v.pendingMessages)) + i
    OBVIOUS
  <2>1. CASE i = Len(w.pendingMessages) + 1
    <3>1. v.pendingMessages[i] = n + 1
      BY <1>1, <1>2, <2>1
    <3>2. n \in Nat
      BY <1>1
    <3>3. Len(v.pendingMessages) = i /\ i \in Nat
      BY <1>3, <2>1
    <3>4. ((n + 1) - i) + i = n + 1
      BY <3>2, <3>3
    <3> QED
      BY <3>1, <3>3, <3>4
  <2>2. CASE i \in 1 .. Len(w.pendingMessages)
    <3>1. v.pendingMessages[i] = w.pendingMessages[i]
      BY <1>1, <1>2, <2>2
    <3>2. w.pendingMessages[i] = (n - Len(w.pendingMessages)) + i
      BY <1>1, <2>2
    <3>3. Len(w.pendingMessages) \in Nat
      BY <1>1
    <3> QED
      BY <1>1, <1>3, <2>2, <3>1, <3>2, <3>3
  <2>3. i = Len(w.pendingMessages) + 1 \/ i \in 1 .. Len(w.pendingMessages)
    BY <1>3
  <2> QED
    BY <2>1, <2>2, <2>3
<1>5. q \in Seq(1 .. n + 1)
  <2>1. 1 .. n \subseteq 1 .. n + 1
    BY <1>1
  <2> QED
    BY <1>1, <2>1
<1>6. got \subseteq 1 .. n + 1
  BY <1>1
<1>7. ASSUME Gapless(q, n, got, fly)
      PROVE  Gapless(q, n + 1, got, fly \cup {n + 1})
  <2>1. ASSUME NEW y \in 1 .. n + 1
        PROVE  y \in got \/ y \in fly \cup {n + 1} \/ \E j \in 1 .. Len(q) : q[j] = y
    <3>1. y = n + 1 \/ y \in 1 .. n
      BY <1>1
    <3> QED
      BY <1>7, <3>1 DEF Gapless
  <2> QED
    BY <1>7, <2>1 DEF Gapless
<1>8. CutIsHad(w, n, got) => CutIsHad(v, n + 1, got)
  <2>0. Len(w.pendingMessages) \in Nat
    BY <1>1
  <2>1. (n + 1) - Len(v.pendingMessages) = n - Len(w.pendingMessages)
    BY <1>1, <1>3, <2>0
  <2> QED
    BY <1>1, <1>2, <2>0, <2>1 DEF CutIsHad
<1>9. Held(v, q, n + 1, got)
  <2>1. Len(v.pendingMessages) <= n + 1 /\ n + 1 \in Nat
    BY <1>1, <1>3
  <2> QED
    BY <1>1, <1>2, <1>4, <1>5, <1>6, <2>1 DEF Held
<1> QED
  BY <1>7, <1>8, <1>9 DEF v

(* and queues it, *)
LEMMA AppendKeepsHeld ==
    ASSUME NEW w, NEW q, NEW n, NEW got, Held(w, q, n, got),
           NEW m \in 1 .. n, Len(q) < QueueCap
    PROVE  /\ Held(w, Append(q, m), n, got)
           /\ Len(q) \in Nat /\ Len(Append(q, m)) = Len(q) + 1
           /\ Append(q, m)[Len(q) + 1] = m /\ \A i \in 1 .. Len(q) : Append(q, m)[i] = q[i]
<1> DEFINE p == Append(q, m)
           T == 1 .. n
<1>1. /\ q \in Seq(T) /\ QueueCap \in Nat /\ Len(q) \in Nat /\ m \in T
  BY BoundsAssumption DEF Held
<1> HIDE DEF T
<1>2. /\ p \in Seq(T) /\ Len(p) = Len(q) + 1
      /\ p[Len(q) + 1] = m /\ \A i \in 1 .. Len(q) : p[i] = q[i]
  BY <1>1
<1> HIDE DEF p
<1>3. Len(p) <= QueueCap
  BY <1>1, <1>2
<1>4. Held(w, p, n, got)
  BY <1>2, <1>3 DEF Held, T
<1> QED
  BY <1>1, <1>2, <1>4 DEF p

(* in the order of pushes if it overtakes nobody. *)
LEMMA EnqueueKeepsGapless ==
    ASSUME NEW w, NEW q, NEW n, NEW got, NEW fly, NEW rest, Held(w, q, n, got),
           NEW m \in 1 .. n, Len(q) < QueueCap, fly \subseteq rest \cup {m},
           ~ \E y \in fly : y < m,
           Gapless(q, n, got, fly)
    PROVE  Gapless(Append(q, m), n, got, rest)
<1> DEFINE p == Append(q, m)
<1>1. n \in Nat
  BY DEF Held
<1>2. /\ Len(q) \in Nat /\ Len(p) = Len(q) + 1
      /\ p[Len(q) + 1] = m /\ \A i \in 1 .. Len(q) : p[i] = q[i]
  BY AppendKeepsHeld
<1> HIDE DEF p
<1>3. ASSUME NEW i \in 1 .. Len(p), NEW y \in 1 .. p[i] - 1
      PROVE  y \in got \/ \E j \in 1 .. i - 1 : p[j] = y
  <2>1. CASE i = Len(q) + 1
    <3>1. y \in 1 .. n /\ y < m
      BY <1>1, <1>2, <1>3, <2>1
    <3>2. y \in got \/ \E j \in 1 .. Len(q) : q[j] = y
      BY <3>1 DEF Gapless
    <3> QED
      BY <1>1, <1>2, <2>1, <3>2
  <2>2. CASE i \in 1 .. Len(q)
    <3>1. y \in got \/ \E j \in 1 .. i - 1 : q[j] = y
      BY <1>2, <1>3, <2>2 DEF Gapless
    <3> QED
      BY <1>1, <1>2, <2>2, <3>1
  <2> QED
    BY <1>1, <1>2, <2>1, <2>2
<1>4. ASSUME NEW y \in 1 .. n
      PROVE  y \in got \/ y \in rest \/ \E j \in 1 .. Len(p) : p[j] = y
  <2>1. y \in got \/ y \in rest \/ y = m \/ \E j \in 1 .. Len(q) : q[j] = y
    BY DEF Gapless
  <2>2. \A j \in 1 .. Len(q) : j \in 1 .. Len(p)
    BY <1>1, <1>2
  <2>3. Len(q) + 1 \in 1 .. Len(p)
    BY <1>1, <1>2
  <2> QED
    BY <1>2, <2>1, <2>2, <2>3
<1>5. \A x \in got : \A y \in 1 .. x : y \in got
  BY DEF Gapless
<1>6. Gapless(p, n, got, rest)
  BY <1>3, <1>4, <1>5 DEF Gapless
<1> QED
  BY <1>6 DEF p

(* The write loop. *)
LEMMA WriteKeepsHeld ==
    ASSUME NEW w, NEW q, NEW n, NEW got, NEW fly, Held(w, q, n, got), q # <<>>
    PROVE  /\ Head(q) \in 1 .. n
           /\ Held(w, Tail(q), n, got) /\ Held(w, Tail(q), n, got \cup {Head(q)})
           /\ Gapless(q, n, got, fly) => Gapless(Tail(q), n, got \cup {Head(q)}, fly)
           /\ CutIsHad(w, n, got) => CutIsHad(w, n, got \cup {Head(q)})
<1> DEFINE p == Tail(q)
           had == got \cup {Head(q)}
<1>1. /\ n \in Nat /\ q \in Seq(1 .. n) /\ Len(q) \in Nat /\ Len(q) > 0 /\ q[1] = Head(q)
      /\ Len(q) <= QueueCap /\ QueueCap \in Nat
  BY BoundsAssumption DEF Held
<1>2. Head(q) \in 1 .. n
  BY <1>1
<1>3. /\ p \in Seq(1 .. n) /\ Len(p) = Len(q) - 1
      /\ \A i \in 1 .. Len(p) : p[i] = q[i + 1]
  BY <1>1
<1> HIDE DEF p
<1>4. Held(w, p, n, got) /\ Held(w, p, n, had)
  <2>1. had \subseteq 1 .. n
    BY <1>2 DEF Held
  <2>2. Len(p) <= QueueCap
    BY <1>1, <1>3
  <2> HIDE DEF had
  <2> QED
    BY <1>3, <2>1, <2>2 DEF Held
<1>5. ASSUME Gapless(q, n, got, fly)
      PROVE  Gapless(p, n, had, fly)
  <2>1. \A y \in 1 .. Head(q) : y \in had
    <3> SUFFICES ASSUME NEW y \in 1 .. Head(q), y # Head(q) PROVE y \in got
      OBVIOUS
    <3>1. y \in 1 .. q[1] - 1 /\ 1 \in 1 .. Len(q)
      BY <1>1, <1>2
    <3> QED
      BY <1>5, <3>1 DEF Gapless
  <2>2. \A x \in had : \A y \in 1 .. x : y \in had
    BY <1>5, <2>1 DEF Gapless
  <2>3. ASSUME NEW i \in 1 .. Len(p), NEW y \in 1 .. p[i] - 1
        PROVE  y \in had \/ \E j \in 1 .. i - 1 : p[j] = y
    <3>1. i + 1 \in 1 .. Len(q) /\ p[i] = q[i + 1]
      BY <1>1, <1>3
    <3>2. y \in got \/ \E j \in 1 .. i : q[j] = y
      BY <1>5, <2>3, <3>1 DEF Gapless
    <3>3. ASSUME NEW j \in 1 .. i, q[j] = y, j # 1
          PROVE  \E k \in 1 .. i - 1 : p[k] = y
      <4>1. j - 1 \in 1 .. i - 1 /\ j - 1 \in 1 .. Len(p) /\ (j - 1) + 1 = j
        BY <1>1, <1>3, <3>3
      <4> QED
        BY <1>3, <3>3, <4>1
    <3> QED
      BY <1>1, <3>2, <3>3
  <2>4. ASSUME NEW y \in 1 .. n
        PROVE  y \in had \/ y \in fly \/ \E j \in 1 .. Len(p) : p[j] = y
    <3>1. y \in got \/ y \in fly \/ \E j \in 1 .. Len(q) : q[j] = y
      BY <1>5 DEF Gapless
    <3>2. ASSUME NEW j \in 1 .. Len(q), q[j] = y, j # 1
          PROVE  \E k \in 1 .. Len(p) : p[k] = y
      <4>1. j - 1 \in 1 .. Len(p) /\ (j - 1) + 1 = j
        BY <1>1, <1>3, <3>2
      <4> QED
        BY <1>3, <3>2, <4>1
    <3> QED
      BY <1>1, <3>1, <3>2
  <2> HIDE DEF had
  <2> QED
    BY <2>2, <2>3, <2>4 DEF Gapless
<1>6. CutIsHad(w, n, got) => CutIsHad(w, n, had)
  BY DEF CutIsHad
<1> QED
  BY <1>2, <1>4, <1>5, <1>6 DEF p

(* Steps that leave pendingMessages alone. *)
LEMMA SamePending ==
    ASSUME NEW w, NEW q, NEW n, NEW got, Held(w, q, n, got), NEW v \in WindowOver(Nat),
           v.pendingMessages = w.pendingMessages
    PROVE  /\ Held(v, q, n, got)
           /\ CutIsHad(w, n, got) /\ v.serverAck >= w.serverAck => CutIsHad(v, n, got)
<1>1. Held(v, q, n, got)
  BY DEF Held
<1>2. /\ n \in Nat /\ Len(w.pendingMessages) \in Nat
      /\ v.serverAck \in Nat /\ w.serverAck \in Nat
  BY DEF Held, WindowOver
<1>3. ASSUME CutIsHad(w, n, got), v.serverAck >= w.serverAck
      PROVE  CutIsHad(v, n, got)
  BY <1>2, <1>3 DEF CutIsHad
<1> QED
  BY <1>1, <1>3

LEMMA FieldSteps ==
    ASSUME NEW w \in WindowOver(Nat), NEW ack \in Nat
    PROVE  /\ IncClientAck(w) \in WindowOver(Nat) /\ SetServerAck(w, ack) \in WindowOver(Nat)
           /\ IncHasBeenSendCount(w) \in WindowOver(Nat)
           /\ IncHasBeenSendCount(w).pendingMessages = w.pendingMessages
           /\ IncHasBeenSendCount(w).serverAck = w.serverAck
           /\ IncClientAck(w).pendingMessages = w.pendingMessages
           /\ SetServerAck(w, ack).pendingMessages = w.pendingMessages
           /\ IncClientAck(w).serverAck = w.serverAck
           /\ SetServerAck(w, ack).serverAck = ack
<1>1. /\ w = [pendingMessages |-> w.pendingMessages, serverAck |-> w.serverAck,
              hasBeenSentNum |-> w.hasBeenSentNum, clientAck |-> w.clientAck]
      /\ w.pendingMessages \in Seq(Nat) /\ w.serverAck \in Nat
      /\ w.hasBeenSentNum \in Nat /\ w.clientAck + 1 \in Nat /\ w.clientAck \in Nat
      /\ w.hasBeenSentNum + 1 \in Nat
  BY DEF WindowOver
<1>2. IncClientAck(w) = [pendingMessages |-> w.pendingMessages, serverAck |-> w.serverAck,
                         hasBeenSentNum |-> w.hasBeenSentNum, clientAck |-> w.clientAck + 1]
  BY <1>1 DEF IncClientAck
<1>3. SetServerAck(w, ack) =
          [pendingMessages |-> w.pendingMessages, serverAck |-> ack,
           hasBeenSentNum |-> w.hasBeenSentNum, clientAck |-> w.clientAck]
  BY <1>1 DEF SetServerAck
<1>4. IncHasBeenSendCount(w) =
          [pendingMessages |-> w.pendingMessages, serverAck |-> w.serverAck,
           hasBeenSentNum |-> w.hasBeenSentNum + 1, clientAck |-> w.clientAck]
  BY <1>1 DEF IncHasBeenSendCount
<1> QED
  BY <1>1, <1>2, <1>3, <1>4 DEF WindowOver

(* UpdateServerAck. *)
LEMMA AckKeepsHeld ==
    ASSUME NEW w, NEW q, NEW n, NEW got, NEW fly, Held(w, q, n, got), NEW ack \in Nat
    PROVE  /\ Held(UpdateServerAck(w, ack), q, n, got)
           /\ /\ Gapless(q, n, got, fly) /\ CutIsHad(w, n, got)
              /\ ack <= Cardinality(got) \/ ~IsNewAck(w, ack)
              => CutIsHad(UpdateServerAck(w, ack), n, got)
<1> DEFINE v == UpdateServerAck(w, ack)
           k == ack - w.serverAck
           s == SubSeq(w.pendingMessages, k + 1, Len(w.pendingMessages))
<1>1. /\ n \in Nat /\ w.pendingMessages \in Seq(Nat) /\ w.serverAck \in Nat
      /\ w \in WindowOver(Nat) /\ Len(w.pendingMessages) <= n
      /\ Len(w.pendingMessages) \in Nat
  BY DEF Held, WindowOver
<1>2. CASE ~IsNewAck(w, ack)
  BY <1>2 DEF UpdateServerAck
<1>3. CASE IsNewAck(w, ack)
  <2>1. k \in 1 .. Len(w.pendingMessages)
    BY <1>1, <1>3 DEF IsNewAck
  <2>s. /\ s \in Seq(Nat) /\ Len(s) = Len(w.pendingMessages) - k
        /\ \A i \in 1 .. Len(s) : s[i] = w.pendingMessages[k + i]
    <3> HIDE DEF k
    <3>1. Len(w.pendingMessages) \in Nat /\ w.pendingMessages \in Seq(Nat)
      BY <1>1
    <3>2. k + 1 \in Int /\ \A i \in k + 1 .. Len(w.pendingMessages) : w.pendingMessages[i] \in Nat
      BY <2>1, <3>1
    <3>3. /\ s \in Seq(Nat)
          /\ Len(s) = IF k + 1 <= Len(w.pendingMessages) THEN Len(w.pendingMessages) - (k + 1) + 1 ELSE 0
          /\ \A i \in 1 .. Len(w.pendingMessages) - (k + 1) + 1 : s[i] = w.pendingMessages[(k + 1) + i - 1]
      BY <3>1, <3>2, SubSeqProperties
    <3> HIDE DEF s
    <3>4. Len(s) = Len(w.pendingMessages) - k
      BY <2>1, <3>1, <3>3
    <3>5. \A i \in 1 .. Len(s) : (k + 1) + i - 1 = k + i /\ i \in 1 .. Len(w.pendingMessages) - (k + 1) + 1
      BY <2>1, <3>1, <3>4
    <3> QED
      BY <3>3, <3>4, <3>5
  <2>2. /\ v \in WindowOver(Nat) /\ v.pendingMessages = s /\ v.serverAck = ack
    <3>1. v = [w EXCEPT !.pendingMessages = s, !.serverAck = ack]
      BY <1>1, <1>3 DEF UpdateServerAck, Cut, WindowOver
    <3> HIDE DEF s, v, k
    <3>3. /\ w = [pendingMessages |-> w.pendingMessages, serverAck |-> w.serverAck,
                  hasBeenSentNum |-> w.hasBeenSentNum, clientAck |-> w.clientAck]
          /\ w.hasBeenSentNum \in Nat /\ w.clientAck \in Nat
      BY <1>1 DEF WindowOver
    <3>4. v = [pendingMessages |-> s, serverAck |-> ack,
               hasBeenSentNum |-> w.hasBeenSentNum, clientAck |-> w.clientAck]
      BY <3>1, <3>3
    <3> QED
      BY <2>s, <3>3, <3>4 DEF WindowOver
  <2>3. /\ Len(s) = Len(w.pendingMessages) - k
        /\ \A i \in 1 .. Len(s) : s[i] = w.pendingMessages[k + i]
    BY <2>s
  <2> HIDE DEF k, s, v
  <2>4. Len(s) \in Nat /\ Len(s) <= n
    BY <1>1, <2>1, <2>3
  <2>5. ASSUME NEW i \in 1 .. Len(s)
        PROVE  s[i] = (n - Len(s)) + i
    <3>1. k + i \in 1 .. Len(w.pendingMessages) /\ k \in Nat /\ i \in Nat
      BY <1>1, <2>1, <2>3
    <3>2. w.pendingMessages[k + i] = (n - Len(w.pendingMessages)) + (k + i)
      BY <3>1 DEF Held
    <3>3. (n - Len(s)) + i = (n - Len(w.pendingMessages)) + (k + i)
      BY <1>1, <2>3, <3>1
    <3> QED
      BY <2>3, <3>2, <3>3
  <2>6. Held(v, q, n, got)
    BY <2>2, <2>4, <2>5 DEF Held
  <2>7. ASSUME Gapless(q, n, got, fly), CutIsHad(w, n, got), ack <= Cardinality(got)
        PROVE  CutIsHad(v, n, got)
    <3>1. n - Len(s) <= ack
      <4>1. n - Len(w.pendingMessages) <= w.serverAck
        BY <2>7 DEF CutIsHad
      <4> QED
        BY <1>1, <2>1, <2>3, <4>1 DEF k
    <3>2. 1 .. ack \subseteq got
      <4>1. got \in SUBSET (1 .. n) /\ \A x \in got : \A y \in 1 .. x : y \in got
        BY <2>7 DEF Gapless, Held
      <4> QED
        BY <1>1, <2>7, <4>1, CountedAreFirst
    <3>3. 1 .. n - Len(s) \subseteq 1 .. ack
      BY <1>1, <2>4, <3>1
    <3> QED
      BY <2>2, <3>1, <3>2, <3>3 DEF CutIsHad
  <2> QED
    BY <1>3, <2>6, <2>7 DEF v
<1> QED
  BY <1>2, <1>3

(* What a token makes the server queue again follows what was cut, which     *)
(* the client has.                                                           *)
LEMMA ResendKeepsHeld ==
    ASSUME NEW w, NEW q, NEW n, NEW got, NEW fly, Held(w, q, n, got)
    PROVE  LET p == q \o FirstOf(w.pendingMessages, QueueCap - Len(q))
           IN  /\ Held(w, p, n, got)
               /\ Gapless(q, n, got, fly) /\ CutIsHad(w, n, got) => Gapless(p, n, got, fly)
<1> DEFINE room == QueueCap - Len(q)
           s == FirstOf(w.pendingMessages, room)
           p == q \o s
<1>1. /\ n \in Nat /\ q \in Seq(1 .. n) /\ w.pendingMessages \in Seq(Nat)
      /\ Len(q) \in Nat /\ Len(w.pendingMessages) \in Nat /\ Len(w.pendingMessages) <= n
      /\ room \in Nat
  BY BoundsAssumption DEF Held, WindowOver
<1>2. /\ s \in Seq(Nat) /\ Len(s) \in Nat /\ Len(s) <= room
      /\ Len(s) <= Len(w.pendingMessages)
      /\ \A i \in 1 .. Len(s) : s[i] = w.pendingMessages[i]
  <2> HIDE DEF room
  <2>1. CASE room < Len(w.pendingMessages)
    <3>1. s = SubSeq(w.pendingMessages, 1, room)
      BY <2>1 DEF FirstOf
    <3> HIDE DEF s
    <3> QED
      BY <1>1, <2>1, <3>1
  <2>2. CASE ~(room < Len(w.pendingMessages))
    <3>1. s = SubSeq(w.pendingMessages, 1, Len(w.pendingMessages))
      BY <2>2 DEF FirstOf
    <3> HIDE DEF s
    <3> QED
      BY <1>1, <2>2, <3>1
  <2> QED
    BY <2>1, <2>2
<1> HIDE DEF s
<1>3. \A i \in 1 .. Len(s) : s[i] = (n - Len(w.pendingMessages)) + i /\ s[i] \in 1 .. n
  <2> SUFFICES ASSUME NEW i \in 1 .. Len(s)
               PROVE  s[i] = (n - Len(w.pendingMessages)) + i /\ s[i] \in 1 .. n
    OBVIOUS
  <2>1. i \in 1 .. Len(w.pendingMessages)
    BY <1>1, <1>2
  <2>2. s[i] = (n - Len(w.pendingMessages)) + i
    BY <1>2, <2>1 DEF Held
  <2> QED
    BY <1>1, <2>1, <2>2
<1>4. s \in Seq(1 .. n)
  <2>1. s \in [1 .. Len(s) -> 1 .. n]
    BY <1>2, <1>3
  <2>2. [1 .. Len(s) -> 1 .. n] \in {[1 .. k -> 1 .. n] : k \in Nat}
    BY <1>2
  <2> QED
    BY <2>1, <2>2, SeqDef, Zenon
<1>5. /\ p \in Seq(1 .. n) /\ Len(p) = Len(q) + Len(s)
      /\ \A i \in 1 .. Len(q) : p[i] = q[i]
      /\ \A i \in 1 .. Len(s) : p[Len(q) + i] = s[i]
  <2> HIDE DEF room
  <2>1. q \in Seq(1 .. n) /\ s \in Seq(1 .. n)
    BY <1>1, <1>4
  <2> DEFINE T == 1 .. n
  <2>2. q \in Seq(T) /\ s \in Seq(T)
    BY <2>1
  <2> HIDE DEF T
  <2>3. p \in Seq(T) /\ Len(p) = Len(q) + Len(s)
    BY <2>2
  <2>4. /\ \A i \in 1 .. Len(q) : p[i] = q[i]
        /\ \A i \in 1 .. Len(s) : p[Len(q) + i] = s[i]
    BY <2>2
  <2> QED
    BY <2>3, <2>4 DEF T
<1> HIDE DEF p
<1>6. Held(w, p, n, got)
  <2>1. Len(p) <= QueueCap
    BY <1>1, <1>2, <1>5, BoundsAssumption
  <2> QED
    BY <1>5, <2>1 DEF Held
<1>7. ASSUME Gapless(q, n, got, fly), CutIsHad(w, n, got)
      PROVE  Gapless(p, n, got, fly)
  <2>1. \A x \in got : \A y \in 1 .. x : y \in got
    BY <1>7 DEF Gapless
  <2>2. ASSUME NEW i \in 1 .. Len(p), NEW y \in 1 .. p[i] - 1
        PROVE  y \in got \/ \E j \in 1 .. i - 1 : p[j] = y
    <3>1. CASE i \in 1 .. Len(q)
      <4>1. y \in got \/ \E j \in 1 .. i - 1 : q[j] = y
        BY <1>5, <1>7, <2>2, <3>1 DEF Gapless
      <4>2. \A j \in 1 .. i - 1 : j \in 1 .. Len(q)
        BY <1>1, <3>1
      <4> QED
        BY <1>5, <4>1, <4>2
    <3>2. CASE i \notin 1 .. Len(q)
      <4> DEFINE h == i - Len(q)
                 cut == n - Len(w.pendingMessages)
      <4>1. h \in 1 .. Len(s) /\ i = Len(q) + h /\ cut \in Nat
        BY <1>1, <1>2, <1>5, <3>2
      <4>2. p[i] = cut + h
        BY <1>3, <1>5, <4>1
      <4> HIDE DEF h, cut
      <4>3. CASE y <= cut
        BY <1>7, <4>1, <4>3 DEF CutIsHad, cut
      <4>4. CASE ~(y <= cut)
        <5>1. y \in Nat /\ h \in Nat /\ y <= (cut + h) - 1 /\ y > cut
          BY <1>2, <2>2, <4>1, <4>2, <4>4
        <5>2. y - cut \in 1 .. Len(s) /\ Len(q) + (y - cut) \in 1 .. i - 1
          BY <1>1, <1>2, <4>1, <5>1, SMTT(20)
        <5>3. s[y - cut] = cut + (y - cut)
          BY <1>3, <5>2 DEF cut
        <5>4. p[Len(q) + (y - cut)] = s[y - cut]
          BY <1>5, <5>2
        <5>5. cut + (y - cut) = y
          BY <4>1, <5>1
        <5> QED
          BY <5>2, <5>3, <5>4, <5>5
      <4> QED
        BY <4>3, <4>4
    <3> QED
      BY <3>1, <3>2
  <2>3. ASSUME NEW y \in 1 .. n
        PROVE  y \in got \/ y \in fly \/ \E j \in 1 .. Len(p) : p[j] = y
    <3>1. y \in got \/ y \in fly \/ \E j \in 1 .. Len(q) : q[j] = y
      BY <1>7 DEF Gapless
    <3>2. \A j \in 1 .. Len(q) : j \in 1 .. Len(p)
      BY <1>1, <1>2, <1>5
    <3> QED
      BY <1>5, <3>1, <3>2
  <2> QED
    BY <2>1, <2>2, <2>3 DEF Gapless
<1> QED
  BY <1>6, <1>7 DEF p, s

-------------------------------------------------------------------------------
(* A step that changes what one connection holds. *)
LEMMA OneConnection ==
    ASSUME DataInv, NEW c \in Conns, lossy \subseteq lossy',
           \A d \in Conns \ {c} : UNCHANGED <<win[d], sendQueue[d], sent[d], received[d]>>,
           \A d \in Conns \ {c} : Flying(d) \subseteq Flying(d)',
           Held(win'[c], sendQueue'[c], sent'[c], received'[c]),
           c \in lossy' \/ (/\ Gapless(sendQueue'[c], sent'[c], received'[c], Flying(c)')
                            /\ CutIsHad(win'[c], sent'[c], received'[c]))
    PROVE  DataInv'
<1> SUFFICES ASSUME NEW d \in Conns \ {c}
             PROVE  /\ Held(win'[d], sendQueue'[d], sent'[d], received'[d])
                    /\ \/ d \in lossy'
                       \/ /\ Gapless(sendQueue'[d], sent'[d], received'[d], Flying(d)')
                          /\ CutIsHad(win'[d], sent'[d], received'[d])
  BY DEF DataInv
<1>1. /\ win'[d] = win[d] /\ sendQueue'[d] = sendQueue[d]
      /\ sent'[d] = sent[d] /\ received'[d] = received[d]
  OBVIOUS
<1>2. /\ Held(win[d], sendQueue[d], sent[d], received[d])
      /\ d \in lossy \/ (/\ Gapless(sendQueue[d], sent[d], received[d], Flying(d))
                         /\ CutIsHad(win[d], sent[d], received[d]))
  BY DEF DataInv
<1>3. Gapless(sendQueue[d], sent[d], received[d], Flying(d))
         => Gapless(sendQueue[d], sent[d], received[d], Flying(d)')
  <2>1. Flying(d) \subseteq Flying(d)'
    OBVIOUS
  <2> QED
    BY <2>1, MoreInFlight
<1> QED
  BY <1>1, <1>2, <1>3

(* What the steps of a sender do to what is in flight. *)
LEMMA FlyingMoves ==
    ASSUME CutInv, NEW s \in Senders, NEW d \in Conns
    PROVE  /\ (\E c \in Conns : AsyncSend(s, c)) => Flying(d) \subseteq Flying(d)'
           /\ Push(s) => Flying(d) \cup {m \in {sent[d] + 1} : on[s] = d} \subseteq Flying(d)'
           /\ Count(s) => Flying(d) \subseteq Flying(d)'
           /\ Enqueue(s) => Flying(d) \subseteq Flying(d)' \cup {m \in {msg[s]} : on[s] = d}
<1> USE DEF InFlight
<1>1. /\ at \in [Senders -> {"idle", "push"} \cup InFlight] /\ msg \in [Senders -> Nat]
      /\ on \in [Senders -> Conns \cup {NoConn}]
  BY DEF CutInv, TypeOK
<1>2. ASSUME NEW m \in Flying(d)
      PROVE  \E x \in Senders : on[x] = d /\ at[x] \in InFlight /\ msg[x] = m
  BY <1>2 DEF Flying
<1>3. ASSUME NEW x \in Senders, on'[x] = d, at'[x] \in InFlight
      PROVE  msg'[x] \in Flying(d)'
  BY <1>3 DEF Flying
<1>4. ASSUME NEW c \in Conns, AsyncSend(s, c), NEW x \in Senders, on[x] = d, at[x] \in InFlight
      PROVE  on'[x] = d /\ at'[x] \in InFlight /\ msg'[x] = msg[x]
  BY <1>1, <1>4 DEF AsyncSend
<1>5. ASSUME Push(s), NEW x \in Senders, on[x] = d, at[x] \in InFlight
      PROVE  on'[x] = d /\ at'[x] \in InFlight /\ msg'[x] = msg[x]
  BY <1>1, <1>5 DEF Push
<1>6. ASSUME Push(s), on[s] = d
      PROVE  on'[s] = d /\ at'[s] \in InFlight /\ msg'[s] = sent[d] + 1
  BY <1>1, <1>6 DEF Push
<1>7. ASSUME Count(s), NEW x \in Senders, on[x] = d, at[x] \in InFlight
      PROVE  on'[x] = d /\ at'[x] \in InFlight /\ msg'[x] = msg[x]
  BY <1>1, <1>7 DEF Count
<1>8. ASSUME Enqueue(s), NEW x \in Senders \ {s}, on[x] = d, at[x] \in InFlight
      PROVE  on'[x] = d /\ at'[x] \in InFlight /\ msg'[x] = msg[x]
  BY <1>1, <1>8 DEF Enqueue
<1>9. (\E c \in Conns : AsyncSend(s, c)) => Flying(d) \subseteq Flying(d)'
  BY <1>2, <1>3, <1>4
<1>10. Push(s) => Flying(d) \cup {m \in {sent[d] + 1} : on[s] = d} \subseteq Flying(d)'
  BY <1>2, <1>3, <1>5, <1>6
<1>11. Count(s) => Flying(d) \subseteq Flying(d)'
  BY <1>2, <1>3, <1>7
<1>12. Enqueue(s) => Flying(d) \subseteq Flying(d)' \cup {m \in {msg[s]} : on[s] = d}
  BY <1>2, <1>3, <1>8
<1> QED
  BY <1>9, <1>10, <1>11, <1>12

LEMMA PushStep ==
    ASSUME CutInv, NEW s \in Senders, Push(s)
    PROVE  DataInv'
<1>c. PICK c \in Conns : c = on[s]
  BY DEF CutInv, SendersHold, Push
<1> DEFINE v == PushToPendingMessages(win[c], sent[c] + 1)
<1>1. /\ win \in [Conns -> WindowOver(Nat)] /\ sent \in [Conns -> Nat]
  BY DEF CutInv, TypeOK
<1>2. c \in Conns
  OBVIOUS
<1>3. /\ win' = [win EXCEPT ![c] = v] /\ sent' = [sent EXCEPT ![c] = sent[c] + 1]
      /\ UNCHANGED <<sendQueue, received, lossy>>
  BY <1>c DEF Push
<1>4. \A d \in Conns : Flying(d) \cup {m \in {sent[d] + 1} : c = d} \subseteq Flying(d)'
  BY <1>c, FlyingMoves
<1>5. /\ win'[c] = v /\ sent'[c] = sent[c] + 1 /\ sendQueue'[c] = sendQueue[c]
      /\ received'[c] = received[c]
      /\ \A d \in Conns \ {c} : UNCHANGED <<win[d], sendQueue[d], sent[d], received[d]>>
  BY <1>1, <1>2, <1>3
<1>6. /\ Held(win[c], sendQueue[c], sent[c], received[c])
      /\ c \in lossy \/ (/\ Gapless(sendQueue[c], sent[c], received[c], Flying(c))
                         /\ CutIsHad(win[c], sent[c], received[c]))
  BY <1>2 DEF CutInv, DataInv
<1>7. /\ Held(v, sendQueue[c], sent[c] + 1, received[c])
      /\ Gapless(sendQueue[c], sent[c], received[c], Flying(c)) =>
            Gapless(sendQueue[c], sent[c] + 1, received[c], Flying(c) \cup {sent[c] + 1})
      /\ CutIsHad(win[c], sent[c], received[c]) => CutIsHad(v, sent[c] + 1, received[c])
  BY <1>6, PushKeepsHeld
<1>8. Flying(c) \cup {sent[c] + 1} \subseteq Flying(c)'
  BY <1>2, <1>4
<1>9. Gapless(sendQueue[c], sent[c] + 1, received[c], Flying(c) \cup {sent[c] + 1})
         => Gapless(sendQueue[c], sent[c] + 1, received[c], Flying(c)')
  BY <1>8, MoreInFlight
<1>10. \A d \in Conns \ {c} : Flying(d) \subseteq Flying(d)'
  BY <1>4
<1>11. CutInv /\ lossy \subseteq lossy' /\ lossy' = lossy
  BY <1>3
<1> HIDE DEF v
<1> QED
  BY <1>2, <1>5, <1>6, <1>7, <1>9, <1>10, <1>11, OneConnection DEF CutInv

LEMMA EnqueueStep ==
    ASSUME CutInv, NEW s \in Senders, Enqueue(s)
    PROVE  DataInv'
<1>c. PICK c \in Conns : c = on[s]
  BY DEF CutInv, SendersHold, Enqueue, InFlight
<1> DEFINE m == msg[s]
           room == Len(sendQueue[c]) < QueueCap
           overtakes == \E y \in Flying(c) : y < m
<1>1. sendQueue \in [Conns -> Seq(Nat)]
  BY DEF CutInv, TypeOK
<1>2. c \in Conns /\ m \in 1 .. sent[c]
  BY <1>c DEF CutInv, SendersHold, Enqueue, InFlight
<1>3. /\ sendQueue' = [sendQueue EXCEPT ![c] = IF room THEN Append(sendQueue[c], m) ELSE sendQueue[c]]
      /\ lossy' = IF room /\ ~overtakes THEN lossy ELSE lossy \cup {c}
      /\ UNCHANGED <<win, sent, received>>
  BY <1>c DEF Enqueue
<1>4. \A d \in Conns : Flying(d) \subseteq Flying(d)' \cup {x \in {m} : c = d}
  BY <1>c, FlyingMoves
<1> HIDE DEF m
<1>5. /\ sendQueue'[c] = IF room THEN Append(sendQueue[c], m) ELSE sendQueue[c]
      /\ win'[c] = win[c] /\ sent'[c] = sent[c] /\ received'[c] = received[c]
      /\ \A d \in Conns \ {c} : UNCHANGED <<win[d], sendQueue[d], sent[d], received[d]>>
  BY <1>1, <1>2, <1>3
<1>6. /\ Held(win[c], sendQueue[c], sent[c], received[c])
      /\ c \in lossy \/ (/\ Gapless(sendQueue[c], sent[c], received[c], Flying(c))
                         /\ CutIsHad(win[c], sent[c], received[c]))
  BY <1>2 DEF CutInv, DataInv
<1>7. Flying(c) \subseteq Flying(c)' \cup {m}
  BY <1>2, <1>4
<1>8. \A d \in Conns \ {c} : Flying(d) \subseteq Flying(d)'
  BY <1>4
<1>9. CutInv /\ lossy \subseteq lossy'
  BY <1>3
<1>10. CASE room /\ ~overtakes
  <2>1. /\ Held(win[c], Append(sendQueue[c], m), sent[c], received[c])
        /\ Gapless(sendQueue[c], sent[c], received[c], Flying(c)) =>
              Gapless(Append(sendQueue[c], m), sent[c], received[c], Flying(c)')
    BY <1>2, <1>6, <1>7, <1>10, AppendKeepsHeld, EnqueueKeepsGapless
  <2>2. sendQueue'[c] = Append(sendQueue[c], m) /\ lossy' = lossy
    BY <1>3, <1>5, <1>10
  <2> HIDE DEF room, overtakes
  <2> QED
    BY <1>2, <1>5, <1>6, <1>8, <1>9, <2>1, <2>2, OneConnection DEF CutInv
<1>11. CASE room /\ overtakes
  <2>1. Held(win[c], Append(sendQueue[c], m), sent[c], received[c])
    BY <1>2, <1>6, <1>11, AppendKeepsHeld
  <2>2. sendQueue'[c] = Append(sendQueue[c], m) /\ c \in lossy'
    BY <1>3, <1>5, <1>11
  <2> HIDE DEF room, overtakes
  <2> QED
    BY <1>2, <1>5, <1>8, <1>9, <2>1, <2>2, OneConnection DEF CutInv
<1>12. CASE ~room
  <2>2. sendQueue'[c] = sendQueue[c] /\ c \in lossy'
    BY <1>3, <1>5, <1>12
  <2> HIDE DEF room, overtakes
  <2> QED
    BY <1>2, <1>5, <1>6, <1>8, <1>9, <2>2, OneConnection DEF CutInv
<1> QED
  BY <1>10, <1>11, <1>12

LEMMA WriteStep ==
    ASSUME CutInv, NEW c \in Conns, Write(c) \/ WriteDrops(c)
    PROVE  DataInv'
<1> DEFINE p == Tail(sendQueue[c])
           had == received[c] \cup {Head(sendQueue[c])}
<1>1. /\ sendQueue \in [Conns -> Seq(Nat)] /\ received \in [Conns -> SUBSET Nat]
  BY DEF CutInv, TypeOK
<1>2. /\ sendQueue[c] # <<>> /\ UNCHANGED <<win, sent, sendVars>>
      /\ sendQueue' = [sendQueue EXCEPT ![c] = p]
      /\ \/ lossy' = lossy /\ received' = [received EXCEPT ![c] = had]
         \/ lossy' = lossy \cup {c} /\ received' = received
  BY DEF Write, WriteDrops
<1>3. \A d \in Conns : Flying(d)' = Flying(d)
  BY <1>2 DEF sendVars, Flying
<1>4. /\ Held(win[c], sendQueue[c], sent[c], received[c])
      /\ c \in lossy \/ (/\ Gapless(sendQueue[c], sent[c], received[c], Flying(c))
                         /\ CutIsHad(win[c], sent[c], received[c]))
  BY DEF CutInv, DataInv
<1>5. /\ Held(win[c], p, sent[c], received[c]) /\ Held(win[c], p, sent[c], had)
      /\ Gapless(sendQueue[c], sent[c], received[c], Flying(c))
            => Gapless(p, sent[c], had, Flying(c))
      /\ CutIsHad(win[c], sent[c], received[c]) => CutIsHad(win[c], sent[c], had)
  BY <1>2, <1>4, WriteKeepsHeld
<1> HIDE DEF p, had
<1>6. /\ sendQueue'[c] = p /\ win'[c] = win[c] /\ sent'[c] = sent[c]
      /\ \A d \in Conns \ {c} : UNCHANGED <<win[d], sendQueue[d], sent[d], received[d]>>
      /\ lossy \subseteq lossy'
      /\ \/ lossy' = lossy /\ received'[c] = had
         \/ c \in lossy' /\ received'[c] = received[c]
  BY <1>1, <1>2
<1>7. Flying(c)' = Flying(c) /\ \A d \in Conns \ {c} : Flying(d) \subseteq Flying(d)'
  BY <1>3
<1>8. /\ Held(win'[c], sendQueue'[c], sent'[c], received'[c])
      /\ c \in lossy' \/ (/\ Gapless(sendQueue'[c], sent'[c], received'[c], Flying(c)')
                          /\ CutIsHad(win'[c], sent'[c], received'[c]))
  BY <1>4, <1>5, <1>6, <1>7
<1> QED
  BY <1>6, <1>7, <1>8, OneConnection DEF CutInv

(* The steps that change a window only. *)
LEMMA WindowSteps ==
    ASSUME CutInv, NEW c \in Conns, NEW v, win' = [win EXCEPT ![c] = v],
           UNCHANGED <<sendQueue, sent, received>>, lossy \subseteq lossy',
           \A d \in Conns : Flying(d) \subseteq Flying(d)',
           Held(v, sendQueue[c], sent[c], received[c]),
           \/ c \in lossy'
           \/ Gapless(sendQueue[c], sent[c], received[c], Flying(c)) /\ CutIsHad(win[c], sent[c], received[c])
              => CutIsHad(v, sent[c], received[c])
    PROVE  DataInv'
<1>1. win'[c] = v /\ \A d \in Conns \ {c} : win'[d] = win[d]
  BY DEF CutInv, TypeOK
<1>2. \A d \in Conns \ {c} : UNCHANGED <<win[d], sendQueue[d], sent[d], received[d]>>
  BY <1>1
<1>3. c \in lossy \/ (/\ Gapless(sendQueue[c], sent[c], received[c], Flying(c))
                      /\ CutIsHad(win[c], sent[c], received[c]))
  BY DEF CutInv, DataInv
<1>4. Gapless(sendQueue[c], sent[c], received[c], Flying(c))
         => Gapless(sendQueue[c], sent[c], received[c], Flying(c)')
  <2>1. Flying(c) \subseteq Flying(c)'
    OBVIOUS
  <2> QED
    BY <2>1, MoreInFlight
<1>5. /\ Held(win'[c], sendQueue'[c], sent'[c], received'[c])
      /\ c \in lossy' \/ (/\ Gapless(sendQueue'[c], sent'[c], received'[c], Flying(c)')
                          /\ CutIsHad(win'[c], sent'[c], received'[c]))
  BY <1>1, <1>3, <1>4
<1> QED
  BY <1>2, <1>5, OneConnection DEF CutInv

LEMMA SameInFlight ==
    ASSUME UNCHANGED sendVars
    PROVE  \A d \in Conns : Flying(d)' = Flying(d)
BY DEF sendVars, Flying

LEMMA HasTyped ==
    ASSUME CutInv, NEW c \in Conns
    PROVE  /\ Held(win[c], sendQueue[c], sent[c], received[c])
           /\ win[c] \in WindowOver(Nat)
           /\ Has(c) \in Nat /\ Has(c) = Cardinality(received[c]) /\ IsFiniteSet(received[c])
           /\ sent[c] \in Nat /\ received[c] \subseteq 1 .. sent[c]
<1>1. Held(win[c], sendQueue[c], sent[c], received[c])
  BY DEF CutInv, DataInv
<1>2. win[c] \in WindowOver(Nat) /\ sent[c] \in Nat /\ received[c] \subseteq 1 .. sent[c]
  BY <1>1 DEF Held
<1>3. IsFiniteSet(1 .. sent[c])
  <2>1. 1 \in Int /\ sent[c] \in Int
    BY <1>2
  <2> QED
    BY <2>1, FS_Interval
<1>4. IsFiniteSet(received[c])
  BY <1>2, <1>3, FS_Subset
<1> QED
  BY <1>1, <1>2, <1>4, FS_CardinalityType DEF Has

LEMMA CountStep ==
    ASSUME CutInv, NEW s \in Senders, Count(s)
    PROVE  DataInv'
<1>c. PICK c \in Conns : c = on[s]
  BY DEF CutInv, SendersHold, Count
<1> DEFINE v == IncHasBeenSendCount(win[c])
<1>1. c \in Conns
  OBVIOUS
<1>2. win' = [win EXCEPT ![c] = v] /\ UNCHANGED <<sendQueue, sent, received, lossy>>
  BY <1>c DEF Count
<1>3. \A d \in Conns : Flying(d) \subseteq Flying(d)'
  BY FlyingMoves
<1>4. /\ Held(win[c], sendQueue[c], sent[c], received[c]) /\ win[c] \in WindowOver(Nat)
      /\ win[c].serverAck \in Nat
  BY <1>1, HasTyped DEF WindowOver
<1>5. /\ v \in WindowOver(Nat) /\ v.pendingMessages = win[c].pendingMessages
      /\ v.serverAck = win[c].serverAck /\ v.serverAck >= win[c].serverAck
  BY <1>4, FieldSteps
<1> HIDE DEF v
<1>6. /\ Held(v, sendQueue[c], sent[c], received[c])
      /\ CutIsHad(win[c], sent[c], received[c]) => CutIsHad(v, sent[c], received[c])
  BY <1>4, <1>5, SamePending
<1> QED
  BY <1>1, <1>2, <1>3, <1>6, WindowSteps

LEMMA LogicStep ==
    ASSUME CutInv, NEW c \in Conns, Logic(c)
    PROVE  DataInv'
<1> DEFINE u == IncClientAck(win[c])
           v == UpdateServerAck(u, Has(c))
<1>1. win' = [win EXCEPT ![c] = v] /\ UNCHANGED <<sendQueue, sent, received, lossy, sendVars>>
  BY DEF Logic
<1>2. /\ Held(win[c], sendQueue[c], sent[c], received[c]) /\ win[c] \in WindowOver(Nat)
      /\ Has(c) \in Nat /\ Has(c) = Cardinality(received[c])
  BY HasTyped
<1>3. u \in WindowOver(Nat) /\ u.pendingMessages = win[c].pendingMessages
      /\ u.serverAck = win[c].serverAck /\ u.serverAck >= win[c].serverAck
  <2>1. win[c].serverAck \in Nat
    BY <1>2 DEF WindowOver
  <2> QED
    BY <1>2, <2>1, FieldSteps
<1>4. /\ Held(u, sendQueue[c], sent[c], received[c])
      /\ CutIsHad(win[c], sent[c], received[c]) => CutIsHad(u, sent[c], received[c])
  BY <1>2, <1>3, SamePending
<1>5. Has(c) <= Cardinality(received[c])
  BY <1>2
<1>6. /\ Held(v, sendQueue[c], sent[c], received[c])
      /\ Gapless(sendQueue[c], sent[c], received[c], Flying(c)) /\ CutIsHad(u, sent[c], received[c])
         => CutIsHad(v, sent[c], received[c])
  BY <1>2, <1>4, <1>5, AckKeepsHeld
<1> HIDE DEF u, v
<1>f. \A d \in Conns : Flying(d) \subseteq Flying(d)'
  BY <1>1, SameInFlight
<1> QED
  BY <1>1, <1>f, <1>4, <1>6, WindowSteps

LEMMA AdoptStep ==
    ASSUME CutInv, NEW w \in Workers, TokenAdopt(w)
    PROVE  DataInv'
<1> DEFINE c == req[w].conn
           ack == req[w].ack
           v == UpdateServerAck(win[c], ack)
<1>1. /\ pc[w] = "adopt" /\ win' = [win EXCEPT ![c] = v]
      /\ UNCHANGED <<sendQueue, sent, received, sendVars>>
      /\ lossy' = IF c # req[w].of /\ IsNewAck(win[c], ack) THEN lossy \cup {c} ELSE lossy
  BY DEF TokenAdopt, WindowStep
<1>2. c \in Conns /\ ack \in Nat /\ ack <= Has(req[w].of)
  BY <1>1 DEF CutInv, AcksCountReceived, Job
<1> HIDE DEF c, ack
<1>3. Held(win[c], sendQueue[c], sent[c], received[c]) /\ Has(c) = Cardinality(received[c])
  BY <1>2, HasTyped
<1>4. /\ Held(v, sendQueue[c], sent[c], received[c])
      /\ /\ Gapless(sendQueue[c], sent[c], received[c], Flying(c)) /\ CutIsHad(win[c], sent[c], received[c])
         /\ ack <= Cardinality(received[c]) \/ ~IsNewAck(win[c], ack)
         => CutIsHad(v, sent[c], received[c])
  BY <1>2, <1>3, AckKeepsHeld
<1>5. lossy \subseteq lossy'
      /\ (c \in lossy' \/ ack <= Cardinality(received[c]) \/ ~IsNewAck(win[c], ack))
  BY <1>1, <1>2, <1>3
<1> HIDE DEF v
<1>f. \A d \in Conns : Flying(d) \subseteq Flying(d)'
  BY <1>1, SameInFlight
<1> QED
  BY <1>1, <1>f, <1>2, <1>4, <1>5, WindowSteps

LEMMA AssignStep ==
    ASSUME CutInv, NEW w \in Workers, TokenAssign(w)
    PROVE  DataInv'
<1> DEFINE c == conn[w]
           ack == req[w].ack
           v == SetServerAck(win[c], ack)
<1>1. /\ pc[w] = "assign" /\ win' = [win EXCEPT ![c] = v]
      /\ UNCHANGED <<sendQueue, sent, received, sendVars>>
      /\ lossy' = IF ack < win[c].serverAck THEN lossy \cup {c} ELSE lossy
  BY DEF TokenAssign, WindowStep
<1>2. c \in Conns /\ ack \in Nat
  BY <1>1 DEF CutInv, AcksCountReceived, Job, SessionInv, HandlersKeepToPlayer, Handling, Met
<1> HIDE DEF c, ack
<1>3. /\ Held(win[c], sendQueue[c], sent[c], received[c]) /\ win[c] \in WindowOver(Nat)
      /\ win[c].serverAck \in Nat
  BY <1>2, HasTyped DEF WindowOver
<1>4. v \in WindowOver(Nat) /\ v.pendingMessages = win[c].pendingMessages /\ v.serverAck = ack
  BY <1>2, <1>3, FieldSteps
<1> HIDE DEF v
<1>5. /\ Held(v, sendQueue[c], sent[c], received[c])
      /\ CutIsHad(win[c], sent[c], received[c]) /\ v.serverAck >= win[c].serverAck
            => CutIsHad(v, sent[c], received[c])
  BY <1>3, <1>4, SamePending
<1>6. lossy \subseteq lossy' /\ (c \in lossy' \/ v.serverAck >= win[c].serverAck)
  BY <1>1, <1>2, <1>3, <1>4
<1>f. \A d \in Conns : Flying(d) \subseteq Flying(d)'
  BY <1>1, SameInFlight
<1> QED
  BY <1>1, <1>f, <1>2, <1>5, <1>6, WindowSteps

LEMMA ResendStep ==
    ASSUME CutInv, NEW w \in Workers, TokenResend(w)
    PROVE  DataInv'
<1>c. PICK c \in Conns : c = conn[w]
  BY DEF CutInv, SessionInv, HandlersKeepToPlayer, Handling, Met, TokenResend
<1> DEFINE p == sendQueue[c] \o FirstOf(win[c].pendingMessages, QueueCap - Len(sendQueue[c]))
<1>1. /\ pc[w] = "resend" /\ sendQueue' = [sendQueue EXCEPT ![c] = p]
      /\ UNCHANGED <<win, sent, received, lossy, sendVars>>
  BY <1>c DEF TokenResend
<1>2. c \in Conns
  OBVIOUS
<1>3. Held(win[c], sendQueue[c], sent[c], received[c])
  BY <1>2, HasTyped
<1>4. /\ Held(win[c], p, sent[c], received[c])
      /\ Gapless(sendQueue[c], sent[c], received[c], Flying(c)) /\ CutIsHad(win[c], sent[c], received[c])
         => Gapless(p, sent[c], received[c], Flying(c))
  BY <1>3, ResendKeepsHeld
<1> HIDE DEF p
<1>5. sendQueue'[c] = p /\ \A d \in Conns \ {c} : sendQueue'[d] = sendQueue[d]
  BY <1>1, <1>2 DEF CutInv, TypeOK
<1>6. \A d \in Conns \ {c} : UNCHANGED <<win[d], sendQueue[d], sent[d], received[d]>>
  BY <1>1, <1>5
<1>7. c \in lossy \/ (/\ Gapless(sendQueue[c], sent[c], received[c], Flying(c))
                      /\ CutIsHad(win[c], sent[c], received[c]))
  BY <1>2 DEF CutInv, DataInv
<1>f. Flying(c)' = Flying(c) /\ \A d \in Conns \ {c} : Flying(d) \subseteq Flying(d)'
  BY <1>1, <1>2, SameInFlight
<1> QED
  BY <1>1, <1>f, <1>2, <1>4, <1>5, <1>6, <1>7, OneConnection DEF CutInv

LEMMA DataStep ==
    ASSUME CutInv, [Next]_vars
    PROVE  DataInv'
<1>1. ASSUME UNCHANGED <<win, sendQueue, sent, received, lossy>>,
             \A d \in Conns : Flying(d) \subseteq Flying(d)'
      PROVE  DataInv'
  <2> SUFFICES ASSUME NEW d \in Conns
               PROVE  /\ Held(win[d], sendQueue[d], sent[d], received[d])
                      /\ d \in lossy \/ (/\ Gapless(sendQueue[d], sent[d], received[d], Flying(d)')
                                         /\ CutIsHad(win[d], sent[d], received[d]))
    BY <1>1 DEF DataInv
  <2>1. Flying(d) \subseteq Flying(d)'
    BY <1>1
  <2>2. /\ Held(win[d], sendQueue[d], sent[d], received[d])
        /\ d \in lossy \/ (/\ Gapless(sendQueue[d], sent[d], received[d], Flying(d))
                           /\ CutIsHad(win[d], sent[d], received[d]))
    BY DEF CutInv, DataInv
  <2> QED
    BY <2>1, <2>2, MoreInFlight
<1>2. CASE UNCHANGED dataVars
  BY <1>1, <1>2, SameInFlight DEF dataVars
<1>3. ASSUME NEW c \in Conns,
             \/ Accept(c) \/ StarterRemoves(c) \/ Break(c)
             \/ Write(c) \/ WriteDrops(c) \/ Logic(c) \/ ClientToken(c)
      PROVE  DataInv'
  BY <1>2, <1>3, WriteStep, LogicStep
     DEF Accept, StarterRemoves, Break, ClientToken, ClientSends
<1>4. ASSUME NEW w \in Workers, Handler(w)
      PROVE  DataInv'
  BY <1>2, <1>4, AdoptStep, AssignStep, ResendStep DEF Handler, TokenLookup, TokenAdd, TokenClose
<1>5. ASSUME NEW s \in Senders, Sender(s)
      PROVE  DataInv'
  <2>1. ASSUME NEW c \in Conns, AsyncSend(s, c)
        PROVE  DataInv'
    <3>1. UNCHANGED <<win, sendQueue, sent, received, lossy>>
      BY <2>1 DEF AsyncSend
    <3>2. \A d \in Conns : Flying(d) \subseteq Flying(d)'
      BY <2>1, FlyingMoves
    <3> QED
      BY <1>1, <3>1, <3>2
  <2> QED
    BY <1>5, <2>1, PushStep, CountStep, EnqueueStep DEF Sender
<1>6. CASE Restart
  <2>1. UNCHANGED <<win, sendQueue, sent, received, lossy>>
    BY <1>6 DEF Restart
  <2>2. /\ UNCHANGED <<on, msg>>
        /\ \A s \in Senders : at[s] \in InFlight => at'[s] \in InFlight
    BY <1>6 DEF Restart, InFlight
  <2>3. \A d \in Conns : Flying(d) \subseteq Flying(d)'
    BY <2>2 DEF Flying
  <2> QED
    BY <1>1, <2>1, <2>3
<1> QED
  BY <1>2, <1>3, <1>4, <1>5, <1>6 DEF Next, Expire, Visit, vars

(* Who changes what the connections hold, *)
LEMMA DataMoves ==
    ASSUME [Next]_vars
    PROVE  \/ UNCHANGED dataVars
           \/ \E c \in Conns : Write(c) \/ WriteDrops(c) \/ Logic(c)
           \/ \E s \in Senders : Sender(s)
           \/ \E w \in Workers : TokenAdopt(w) \/ TokenAssign(w) \/ TokenResend(w)
           \/ Restart
<1>1. CASE \E c \in Conns : Accept(c) \/ StarterRemoves(c) \/ Break(c) \/ ClientToken(c)
  BY <1>1 DEF Accept, StarterRemoves, Break, ClientToken, ClientSends
<1>2. CASE \E w \in Workers : TokenLookup(w) \/ TokenAdd(w) \/ TokenClose(w)
  BY <1>2 DEF TokenLookup, TokenAdd, TokenClose
<1>3. CASE Visit \/ UNCHANGED vars \/ \E g \in DOMAIN activeConns : Expire(g)
  BY <1>3 DEF Visit, Expire, vars
<1> QED
  BY <1>1, <1>2, <1>3 DEF Next, Handler

(* and what a worker in a handler has at hand. *)
LEMMA HandlersHave ==
    ASSUME CutInv, NEW w \in Workers, pc[w] \in Handling
    PROVE  conn[w] \in Conns /\ req[w].conn \in Conns /\ req[w] \in Job
  BY DEF CutInv, SessionInv, TokensNameTheirOwn, HandlersKeepToPlayer, NamesOwn, Met,
         AcksCountReceived, Handling

-------------------------------------------------------------------------------
(* What a client has received stays received, and a worker's message is the  *)
(* one it had, or a new one, whose ack counts what was received by then.     *)
LEMMA HasGrows ==
    ASSUME CutInv, [Next]_vars, NEW c \in Conns
    PROVE  Has(c) \in Nat /\ Has(c)' \in Nat /\ Has(c) <= Has(c)'
<1>1. Has(c) \in Nat /\ Has(c) = Cardinality(received[c])
  BY HasTyped
<1>2. CASE received' = received
  BY <1>1, <1>2 DEF Has
<1>3. ASSUME NEW d \in Conns, Write(d)
      PROVE  Has(c)' \in Nat /\ Has(c) <= Has(c)'
  <2>1. received' = [received EXCEPT ![d] = received[d] \cup {Head(sendQueue[d])}]
        /\ sendQueue[d] # <<>>
    BY <1>3 DEF Write
  <2>2. CASE d # c
    <3>1. received'[c] = received[c]
      BY <2>1, <2>2 DEF CutInv, TypeOK
    <3> QED
      BY <1>1, <3>1 DEF Has
  <2>3. CASE d = c
    <3>1. received'[c] = received[c] \cup {Head(sendQueue[c])}
      BY <2>1, <2>3 DEF CutInv, TypeOK
    <3>2. Held(win[c], sendQueue[c], sent[c], received[c]) /\ sent[c] \in Nat
          /\ received[c] \in SUBSET (1 .. sent[c]) /\ sendQueue[c] # <<>>
      BY <2>1, <2>3, HasTyped
    <3>3. Head(sendQueue[c]) \in 1 .. sent[c]
      BY <3>2, WriteKeepsHeld
    <3> DEFINE had == received[c] \cup {Head(sendQueue[c])}
    <3>4. Cardinality(received[c]) <= Cardinality(had)
      BY <3>2, <3>3, HasIsNat
    <3>5. IsFiniteSet(had)
      <4>1. had \in SUBSET (1 .. sent[c])
        BY <3>2, <3>3
      <4>2. IsFiniteSet(1 .. sent[c])
        BY <3>2, FS_Interval
      <4> QED
        BY <4>1, <4>2, FS_Subset
    <3>6. Cardinality(had) \in Nat
      BY <3>5, FS_CardinalityType
    <3>7. Has(c)' = Cardinality(had)
      BY <3>1 DEF Has
    <3> QED
      BY <1>1, <3>4, <3>6, <3>7
  <2> QED
    BY <2>2, <2>3
<1>4. received' = received \/ \E d \in Conns : Write(d)
  BY SenderFrame
     DEF Next, vars, dataVars, Accept, StarterRemoves, Break, WriteDrops, Logic, ClientToken,
         ClientSends, Expire, Restart, Visit, Handler, TokenLookup, TokenAdd, TokenClose,
         TokenAdopt, TokenAssign, TokenResend, WindowStep
<1> QED
  BY <1>1, <1>2, <1>3, <1>4

LEMMA JobsMove ==
    ASSUME CutInv, [Next]_vars, NEW w \in Workers, pc'[w] # "idle"
    PROVE  \/ pc[w] # "idle" /\ req'[w] = req[w]
           \/ req'[w] \in Job /\ req'[w].ack <= Has(req'[w].of)
<1>0. pc \in [Workers -> {"idle", "token"} \cup Handling] /\ DOMAIN req = Workers
  BY DEF CutInv, TypeOK
<1>1. CASE UNCHANGED <<pc, req>>
  BY <1>1
<1>2. ASSUME NEW x \in Workers, Handler(x)
      PROVE  pc[w] # "idle" /\ req'[w] = req[w]
  <2>1. /\ pc[x] # "idle"
        /\ \/ pc' = [pc EXCEPT ![x] = "idle"] /\ req' = [req EXCEPT ![x] = NoJob]
           \/ (\E label \in Handling : pc' = [pc EXCEPT ![x] = label]) /\ UNCHANGED req
    BY <1>2 DEF Handler, TokenLookup, TokenAdd, TokenClose, TokenAdopt, TokenAssign,
                TokenResend, WindowStep, Reply, Return, Goto, Handling
  <2> QED
    BY <1>0, <2>1
<1>3. ASSUME NEW c \in Conns, NEW job \in Job, job.ack <= Has(job.of), ClientSends(c, job)
      PROVE  \/ pc[w] # "idle" /\ req'[w] = req[w]
             \/ req'[w] \in Job /\ req'[w].ack <= Has(req'[w].of)
  BY <1>0, <1>3 DEF ClientSends, Goto
<1>4. ASSUME NEW c \in Conns, ClientToken(c)
      PROVE  \/ pc[w] # "idle" /\ req'[w] = req[w]
             \/ req'[w] \in Job /\ req'[w].ack <= Has(req'[w].of)
  <2>1. CASE ClientSends(c, [conn |-> c, guid |-> NoGuid, ack |-> 0, of |-> c])
    <3> DEFINE login == [conn |-> c, guid |-> NoGuid, ack |-> 0, of |-> c]
    <3>1. Has(c) \in Nat
      BY HasTyped
    <3>2. login \in Job /\ login.ack <= Has(login.of) /\ ClientSends(c, login)
      BY <2>1, <3>1 DEF Job
    <3> HIDE DEF login
    <3> QED
      BY <1>3, <3>2
  <2>2. ASSUME NEW d \in told,
               ClientSends(c, [conn |-> c, guid |-> sessionId[d], ack |-> Has(d), of |-> d])
        PROVE  \/ pc[w] # "idle" /\ req'[w] = req[w]
               \/ req'[w] \in Job /\ req'[w].ack <= Has(req'[w].of)
    <3> DEFINE back == [conn |-> c, guid |-> sessionId[d], ack |-> Has(d), of |-> d]
    <3>1. d \in Conns /\ sessionId[d] \in Id \cup {NoGuid}
      BY DEF CutInv, TypeOK
    <3>2. Has(d) \in Nat
      BY <3>1, HasTyped
    <3>3. back \in Job /\ back.ack <= Has(back.of) /\ ClientSends(c, back)
      BY <2>2, <3>1, <3>2 DEF Job
    <3> HIDE DEF back
    <3> QED
      BY <1>3, <3>3
  <2> QED
    BY <1>4, <2>1, <2>2 DEF ClientToken
<1>5. CASE Restart
  BY <1>5 DEF Restart
<1>6. ASSUME NEW c \in Conns,
             \/ Accept(c) \/ StarterRemoves(c) \/ Break(c)
             \/ Write(c) \/ WriteDrops(c) \/ Logic(c)
      PROVE  UNCHANGED <<pc, req>>
  BY <1>6 DEF Accept, StarterRemoves, Break, Write, WriteDrops, Logic, jobVars
<1>7. ASSUME Visit \/ UNCHANGED vars \/ \E g \in DOMAIN activeConns : Expire(g)
      PROVE  UNCHANGED <<pc, req>>
  BY <1>7 DEF Visit, Expire, vars, jobVars
<1>8. ASSUME NEW s \in Senders, Sender(s)
      PROVE  UNCHANGED <<pc, req>>
  BY <1>8, SenderFrame DEF jobVars
<1> QED
  BY <1>1, <1>2, <1>4, <1>5, <1>6, <1>7, <1>8 DEF Next

LEMMA AcksStep ==
    ASSUME CutInv, [Next]_vars
    PROVE  AcksCountReceived'
<1>1. ASSUME NEW w \in Workers, pc'[w] # "idle"
      PROVE  /\ req'[w] \in Job
             /\ req'[w].ack <= Cardinality(received'[req'[w].of])
  <2>1. req'[w] \in Job /\ req'[w].ack <= Has(req'[w].of)
    BY <1>1, JobsMove DEF CutInv, AcksCountReceived
  <2>2. req'[w].of \in Conns /\ req'[w].ack \in Nat
    BY <2>1 DEF Job
  <2>3. \A c \in Conns : /\ Has(c) \in Nat /\ Cardinality(received'[c]) \in Nat
                         /\ Has(c) <= Cardinality(received'[c])
    BY HasGrows DEF Has
  <2> QED
    BY <2>1, <2>2, <2>3
<1> QED
  BY <1>1 DEF AcksCountReceived, Has

(* A sender goes from step to step with the message it has pushed. *)
LEMMA SendersStep ==
    ASSUME CutInv, [Next]_vars
    PROVE  SendersHold'
<1> USE DEF InFlight
<1>1. /\ at \in [Senders -> {"idle", "push"} \cup InFlight] /\ msg \in [Senders -> Nat]
      /\ on \in [Senders -> Conns \cup {NoConn}] /\ sent \in [Conns -> Nat]
  BY DEF CutInv, TypeOK
<1>2. ASSUME NEW s \in Senders
      PROVE  /\ (at[s] # "idle") => on[s] \in Conns
             /\ (at[s] \in InFlight) => msg[s] \in 1 .. sent[on[s]]
  BY DEF CutInv, SendersHold
<1>3. CASE UNCHANGED <<sent, sendVars>>
  BY <1>2, <1>3 DEF SendersHold, sendVars
<1>4. ASSUME NEW s \in Senders, NEW c \in Conns, AsyncSend(s, c)
      PROVE  SendersHold'
  BY <1>1, <1>2, <1>4 DEF AsyncSend, SendersHold
<1>5. ASSUME NEW s \in Senders, Push(s)
      PROVE  SendersHold'
  <2>1. /\ on[s] \in Conns /\ on' = on /\ at'[s] # "idle"
        /\ sent'[on[s]] = sent[on[s]] + 1 /\ msg'[s] = sent[on[s]] + 1
    BY <1>1, <1>2, <1>5 DEF Push
  <2>3. ASSUME NEW x \in Senders \ {s}
        PROVE  at'[x] = at[x] /\ msg'[x] = msg[x]
    BY <1>1, <1>5 DEF Push
  <2>4. \A c \in Conns : sent'[c] \in Nat /\ sent[c] \in Nat /\ sent[c] <= sent'[c]
    BY <1>1, <1>5, <2>1 DEF Push
  <2>5. msg'[s] \in 1 .. sent'[on'[s]]
    BY <1>1, <2>1
  <2>6. ASSUME NEW x \in Senders \ {s}
        PROVE  /\ (at'[x] # "idle") => on'[x] \in Conns
               /\ (at'[x] \in InFlight) => msg'[x] \in 1 .. sent'[on'[x]]
    BY <1>2, <2>1, <2>3, <2>4
  <2> QED
    BY <2>1, <2>5, <2>6 DEF SendersHold
<1>6. ASSUME NEW s \in Senders, Count(s)
      PROVE  SendersHold'
  BY <1>1, <1>2, <1>6 DEF Count, SendersHold
<1>7. ASSUME NEW s \in Senders, Enqueue(s)
      PROVE  SendersHold'
  BY <1>1, <1>2, <1>7 DEF Enqueue, SendersHold
<1>8. CASE Restart
  BY <1>1, <1>2, <1>8 DEF Restart, SendersHold
<1>9. ASSUME NEW c \in Conns, Write(c) \/ WriteDrops(c) \/ Logic(c)
      PROVE  UNCHANGED <<sent, sendVars>>
  BY <1>9 DEF Write, WriteDrops, Logic
<1>10. ASSUME NEW w \in Workers, TokenAdopt(w) \/ TokenAssign(w) \/ TokenResend(w)
       PROVE  UNCHANGED <<sent, sendVars>>
  BY <1>10 DEF TokenAdopt, TokenAssign, TokenResend, WindowStep
<1> QED
  BY <1>3, <1>4, <1>5, <1>6, <1>7, <1>8, <1>9, <1>10, DataMoves DEF Sender, dataVars

-------------------------------------------------------------------------------
(* The types: what the connections hold, *)
LEMMA HeldTypes ==
    ASSUME CutInv, [Next]_vars, DataInv'
    PROVE  /\ win' \in [Conns -> WindowOver(Nat)] /\ sendQueue' \in [Conns -> Seq(Nat)]
           /\ sent' \in [Conns -> Nat]
           /\ received' \in [Conns -> SUBSET Nat] /\ lossy' \subseteq Conns
<1>1. /\ win \in [Conns -> WindowOver(Nat)] /\ sendQueue \in [Conns -> Seq(Nat)]
      /\ sent \in [Conns -> Nat] /\ lossy \subseteq Conns
      /\ received \in [Conns -> SUBSET Nat]
  BY DEF CutInv, TypeOK
<1> DEFINE Shape == /\ win' = [c \in Conns |-> win'[c]]
                    /\ sendQueue' = [c \in Conns |-> sendQueue'[c]]
                    /\ sent' = [c \in Conns |-> sent'[c]]
                    /\ received' = [c \in Conns |-> received'[c]]
                    /\ lossy' \subseteq Conns
<1>2. Shape
  <2>1. CASE UNCHANGED dataVars \/ Restart
    BY <1>1, <2>1 DEF dataVars, Restart
  <2>2. ASSUME NEW c \in Conns, Write(c) \/ WriteDrops(c) \/ Logic(c)
        PROVE  Shape
    BY <1>1, <2>2 DEF Write, WriteDrops, Logic
  <2>3. ASSUME NEW s \in Senders, Sender(s)
        PROVE  Shape
    <3>1. (at[s] # "idle") => on[s] \in Conns
      BY DEF CutInv, SendersHold
    <3>2. CASE \E c \in Conns : AsyncSend(s, c)
      BY <1>1, <3>2 DEF AsyncSend
    <3>3. CASE Push(s)
      BY <1>1, <3>3 DEF Push
    <3>4. CASE Count(s)
      BY <1>1, <3>4 DEF Count
    <3>5. CASE Enqueue(s)
      BY <1>1, <3>1, <3>5 DEF Enqueue
    <3> QED
      BY <2>3, <3>2, <3>3, <3>4, <3>5 DEF Sender
  <2>4. ASSUME NEW w \in Workers, TokenAdopt(w) \/ TokenAssign(w) \/ TokenResend(w)
        PROVE  Shape
    <3>1. pc[w] \in Handling
      BY <2>4 DEF TokenAdopt, TokenAssign, TokenResend, WindowStep, Handling
    <3>2. conn[w] \in Conns /\ req[w].conn \in Conns
      BY <3>1, HandlersHave
    <3>3. CASE TokenAdopt(w)
      BY <1>1, <3>2, <3>3 DEF TokenAdopt, WindowStep
    <3>4. CASE TokenAssign(w)
      BY <1>1, <3>2, <3>4 DEF TokenAssign, WindowStep
    <3>5. CASE TokenResend(w)
      BY <1>1, <3>5 DEF TokenResend
    <3> QED
      BY <2>4, <3>3, <3>4, <3>5
  <2> QED
    BY <2>1, <2>2, <2>3, <2>4, DataMoves
<1>3. ASSUME NEW c \in Conns
      PROVE  /\ win'[c] \in WindowOver(Nat) /\ sendQueue'[c] \in Seq(Nat)
             /\ sent'[c] \in Nat /\ received'[c] \in SUBSET Nat
  <2> DEFINE q == sendQueue'[c]
             n == sent'[c]
  <2>1. Held(win'[c], q, n, received'[c])
    BY DEF DataInv
  <2>2. n \in Nat /\ 1 .. n \subseteq Nat
    BY <2>1 DEF Held
  <2>3. q \in Seq(1 .. n)
    BY <2>1 DEF Held
  <2>4. q \in Seq(Nat)
    <3> HIDE DEF q, n
    <3>1. Len(q) \in Nat /\ q \in [1 .. Len(q) -> 1 .. n]
      BY <2>3, LenProperties
    <3>2. q \in [1 .. Len(q) -> Nat]
      BY <2>2, <3>1
    <3> QED
      BY <3>1, <3>2, SeqDef, Zenon
  <2> QED
    BY <2>1, <2>2, <2>4 DEF Held
<1> QED
  BY <1>2, <1>3

LEMMA SenderTypes ==
    ASSUME CutInv, [Next]_vars
    PROVE  /\ calls' \in 0 .. bound.sends /\ at' \in [Senders -> {"idle", "push"} \cup InFlight]
           /\ on' \in [Senders -> Conns \cup {NoConn}] /\ msg' \in [Senders -> Nat]
<1> USE DEF InFlight
<1>1. /\ calls \in 0 .. bound.sends /\ at \in [Senders -> {"idle", "push"} \cup InFlight]
      /\ on \in [Senders -> Conns \cup {NoConn}] /\ msg \in [Senders -> Nat]
      /\ bound.sends \in Nat /\ sent \in [Conns -> Nat]
  BY BoundFields DEF CutInv, TypeOK
<1>2. CASE UNCHANGED sendVars
  BY <1>1, <1>2 DEF sendVars
<1>3. CASE Restart
  BY <1>1, <1>3 DEF Restart
<1>4. ASSUME NEW s \in Senders, Sender(s)
      PROVE  /\ calls' \in 0 .. bound.sends /\ at' \in [Senders -> {"idle", "push"} \cup InFlight]
             /\ on' \in [Senders -> Conns \cup {NoConn}] /\ msg' \in [Senders -> Nat]
  <2>1. ASSUME NEW c \in Conns, AsyncSend(s, c)
        PROVE  /\ calls' \in 0 .. bound.sends /\ at' \in [Senders -> {"idle", "push"} \cup InFlight]
               /\ on' \in [Senders -> Conns \cup {NoConn}] /\ msg' \in [Senders -> Nat]
    BY <1>1, <2>1 DEF AsyncSend
  <2>2. CASE Push(s)
    <3>1. on[s] \in Conns
      BY <2>2 DEF CutInv, SendersHold, Push
    <3>2. sent[on[s]] + 1 \in Nat
      BY <1>1, <3>1
    <3> QED
      BY <1>1, <2>2, <3>2 DEF Push
  <2>3. CASE Count(s)
    BY <1>1, <2>3 DEF Count
  <2>4. CASE Enqueue(s)
    BY <1>1, <2>4 DEF Enqueue
  <2> QED
    BY <1>4, <2>1, <2>2, <2>3, <2>4 DEF Sender
<1>5. ASSUME NEW c \in Conns, Write(c) \/ WriteDrops(c) \/ Logic(c)
      PROVE  UNCHANGED sendVars
  BY <1>5 DEF Write, WriteDrops, Logic
<1>6. ASSUME NEW w \in Workers, TokenAdopt(w) \/ TokenAssign(w) \/ TokenResend(w)
      PROVE  UNCHANGED sendVars
  BY <1>6 DEF TokenAdopt, TokenAssign, TokenResend, WindowStep
<1> QED
  BY <1>2, <1>3, <1>4, <1>5, <1>6, DataMoves DEF dataVars

(* what the table and the workers hold, *)
LEMMA TableTypes ==
    ASSUME CutInv, [Next]_vars, SessionInv'
    PROVE  /\ DOMAIN activeConns' \subseteq Id
           /\ \A g \in DOMAIN activeConns' : activeConns'[g] \in Conns
<1>1. /\ DOMAIN activeConns \subseteq Id
      /\ \A g \in DOMAIN activeConns : activeConns[g] \in Conns
  BY DEF CutInv, TypeOK
<1>2. ASSUME NEW g \in Id, NEW c \in Conns, activeConns' = With(g, c)
      PROVE  /\ DOMAIN activeConns' \subseteq Id
             /\ \A h \in DOMAIN activeConns' : activeConns'[h] \in Conns
  BY <1>1, <1>2 DEF With
<1>3. ASSUME NEW g, activeConns' = Without(g)
      PROVE  /\ DOMAIN activeConns' \subseteq Id
             /\ \A h \in DOMAIN activeConns' : activeConns'[h] \in Conns
  BY <1>1, <1>3 DEF Without
<1>4. CASE activeConns' = activeConns \/ activeConns' = <<>>
  BY <1>1, <1>4
<1>5. ASSUME NEW c \in Conns, Accept(c)
      PROVE  \E g \in Id, d \in Conns : activeConns' = With(g, d)
  <2>1. given' \in Seq(Nat \X Nat)
    BY DEF SessionInv, GuidInv, GuidTypeOK
  <2>2. given \in Seq(Nat \X Nat) /\ \E id : given' = Append(given, id)
    BY <1>5 DEF Accept, GetGuid, CutInv, TypeOK, GuidTypeOK
  <2>3. Len(given') \in 1 .. Len(given')
    BY <2>2
  <2>4. given'[Len(given')] \in Id
    BY <2>1, <2>3 DEF Id
  <2> QED
    BY <1>5, <2>4 DEF Accept
<1>6. ASSUME NEW w \in Workers, TokenAdd(w)
      PROVE  \E g \in Id, d \in Conns : activeConns' = With(g, d)
  <2>1. pc[w] = "add" /\ activeConns' = With(sessionId[conn[w]], conn[w])
    BY <1>6 DEF TokenAdd
  <2>2. conn[w] \in Conns /\ Met(conn[w])
    BY <2>1 DEF CutInv, SessionInv, HandlersKeepToPlayer, Met, Handling
  <2>3. PICK i \in 1 .. Len(given) : given[i] = sessionId[conn[w]]
    BY <2>2 DEF CutInv, SessionInv, IdsAreGiven
  <2>4. given \in Seq(Nat \X Nat)
    BY DEF CutInv, TypeOK, GuidTypeOK
  <2>5. sessionId[conn[w]] \in Id
    BY <2>3, <2>4 DEF Id
  <2> QED
    BY <2>1, <2>2, <2>5
<1>7. \/ activeConns' = activeConns \/ activeConns' = <<>>
      \/ \E g : activeConns' = Without(g)
      \/ \E c \in Conns : Accept(c)
      \/ \E w \in Workers : TokenAdd(w)
  BY SenderFrame
     DEF Next, vars, connVars, StarterRemoves, Break, Write, WriteDrops, Logic, ClientToken,
         ClientSends, Expire, Restart, Visit, Handler, TokenLookup, TokenClose, TokenAdopt,
         TokenAssign, TokenResend, WindowStep
<1> QED
  BY <1>2, <1>3, <1>4, <1>5, <1>6, <1>7

LEMMA WorkerTypes ==
    ASSUME CutInv, [Next]_vars
    PROVE  /\ req' \in [Workers -> Job \cup {NoJob}]
           /\ conn' \in [Workers -> Conns \cup {NoConn}]
           /\ pc' \in [Workers -> {"idle", "token"} \cup Handling]
<1>1. /\ req \in [Workers -> Job \cup {NoJob}] /\ conn \in [Workers -> Conns \cup {NoConn}]
      /\ pc \in [Workers -> {"idle", "token"} \cup Handling]
      /\ \A g \in DOMAIN activeConns : activeConns[g] \in Conns
  BY DEF CutInv, TypeOK
<1>2. CASE UNCHANGED <<req, conn, pc>>
  BY <1>1, <1>2
<1>3. ASSUME NEW c \in Conns, NEW job \in Job, ClientSends(c, job)
      PROVE  /\ req' \in [Workers -> Job \cup {NoJob}]
             /\ conn' \in [Workers -> Conns \cup {NoConn}]
             /\ pc' \in [Workers -> {"idle", "token"} \cup Handling]
  BY <1>1, <1>3 DEF ClientSends, Goto
<1>4. ASSUME NEW c \in Conns, ClientToken(c)
      PROVE  \E job \in Job : ClientSends(c, job)
  <2>1. [conn |-> c, guid |-> NoGuid, ack |-> 0, of |-> c] \in Job
    BY DEF Job
  <2>2. ASSUME NEW d \in told
        PROVE  [conn |-> c, guid |-> sessionId[d], ack |-> Has(d), of |-> d] \in Job
    <3>1. d \in Conns /\ sessionId[d] \in Id \cup {NoGuid}
      BY DEF CutInv, TypeOK
    <3>2. Has(d) \in Nat
      BY <3>1, HasTyped
    <3> QED
      BY <3>1, <3>2 DEF Job
  <2> QED
    BY <1>4, <2>1, <2>2 DEF ClientToken
<1>5. ASSUME NEW w \in Workers, Handler(w)
      PROVE  /\ req' \in [Workers -> Job \cup {NoJob}]
             /\ conn' \in [Workers -> Conns \cup {NoConn}]
             /\ pc' \in [Workers -> {"idle", "token"} \cup Handling]
  <2>1. CASE TokenLookup(w)
    <3>1. req[w].conn \in Conns
      BY <2>1 DEF CutInv, AcksCountReceived, Job, TokenLookup
    <3> QED
      BY <1>1, <2>1, <3>1 DEF TokenLookup, Goto, Handling
  <2>2. CASE TokenAdd(w) \/ TokenClose(w) \/ TokenResend(w)
    BY <1>1, <2>2 DEF TokenAdd, TokenClose, TokenResend, Reply, Return, Goto
  <2>3. CASE TokenAdopt(w) \/ TokenAssign(w)
    BY <1>1, <2>3 DEF TokenAdopt, TokenAssign, WindowStep, Goto, Handling
  <2> QED
    BY <1>5, <2>1, <2>2, <2>3 DEF Handler
<1>6. CASE Restart
  BY <1>6 DEF Restart
<1>7. \/ UNCHANGED <<req, conn, pc>> \/ Restart
      \/ \E c \in Conns : ClientToken(c)
      \/ \E w \in Workers : Handler(w)
  BY SenderFrame
     DEF Next, vars, jobVars, Accept, StarterRemoves, Break, Write, WriteDrops, Logic,
         Expire, Visit
<1> QED
  BY <1>2, <1>3, <1>4, <1>5, <1>6, <1>7

(* and the rest. *)
LEMMA OtherTypes ==
    ASSUME CutInv, [Next]_vars, SessionInv'
    PROVE  /\ sessionId' \in [Conns -> Id \cup {NoGuid}]
           /\ owner' \in [Conns -> Players \cup {NoPlayer}]
           /\ life' \in [Conns -> {"none", "open", "closed"}] /\ removing' \subseteq Conns
           /\ told' \subseteq Conns
           /\ logics' \in 0 .. bound.logics /\ tokens' \in 0 .. bound.tokens
           /\ restarts' \in 0 .. bound.restarts
<1> DEFINE Others == /\ sessionId' \in [Conns -> Id \cup {NoGuid}]
                     /\ owner' \in [Conns -> Players \cup {NoPlayer}]
                     /\ life' \in [Conns -> {"none", "open", "closed"}]
                     /\ removing' \subseteq Conns /\ told' \subseteq Conns
                     /\ logics' \in 0 .. bound.logics /\ tokens' \in 0 .. bound.tokens
                     /\ restarts' \in 0 .. bound.restarts
<1>1. /\ sessionId \in [Conns -> Id \cup {NoGuid}]
      /\ owner \in [Conns -> Players \cup {NoPlayer}]
      /\ life \in [Conns -> {"none", "open", "closed"}] /\ removing \subseteq Conns
      /\ told \subseteq Conns
      /\ logics \in 0 .. bound.logics /\ tokens \in 0 .. bound.tokens
      /\ restarts \in 0 .. bound.restarts
      /\ bound.logics \in Nat /\ bound.tokens \in Nat /\ bound.restarts \in Nat
  BY BoundFields DEF CutInv, TypeOK
<1>2. CASE UNCHANGED vars
  BY <1>1, <1>2 DEF vars, connVars, jobVars, runVars
<1>3. ASSUME NEW c \in Conns, Accept(c)
      PROVE  Others
  <2>1. given' \in Seq(Nat \X Nat)
    BY DEF SessionInv, GuidInv, GuidTypeOK
  <2>2. given \in Seq(Nat \X Nat) /\ \E id : given' = Append(given, id)
    BY <1>3 DEF Accept, GetGuid, CutInv, TypeOK, GuidTypeOK
  <2>3. Len(given') \in 1 .. Len(given')
    BY <2>2
  <2>4. given'[Len(given')] \in Id
    BY <2>1, <2>3 DEF Id
  <2>5. bound.players \subseteq Players
    BY BoundFields DEF CutInv, TypeOK
  <2>6. owner' \in [Conns -> Players \cup {NoPlayer}]
    BY <1>1, <1>3, <2>5 DEF Accept
  <2>7. UNCHANGED <<told, logics, tokens, restarts>>
    BY <1>3 DEF Accept, jobVars, runVars
  <2> QED
    BY <1>1, <1>3, <2>4, <2>6, <2>7 DEF Accept
<1>4. ASSUME NEW c \in Conns,
             \/ StarterRemoves(c) \/ Break(c)
             \/ Write(c) \/ WriteDrops(c) \/ Logic(c) \/ ClientToken(c)
      PROVE  Others
  BY <1>1, <1>4 DEF StarterRemoves, Break, Write, WriteDrops, Logic, ClientToken, ClientSends,
                    CloseConn, connVars, jobVars, runVars
<1>5. ASSUME NEW g \in DOMAIN activeConns, Expire(g)
      PROVE  Others
  BY <1>1, <1>5 DEF Expire, CloseConn, jobVars, runVars
<1>6. ASSUME NEW w \in Workers, Handler(w)
      PROVE  Others
  <2>1. CASE TokenLookup(w) \/ TokenAdopt(w) \/ TokenAssign(w)
    BY <1>1, <2>1 DEF TokenLookup, TokenAdopt, TokenAssign, WindowStep, connVars, runVars
  <2>2. CASE TokenClose(w)
    BY <1>1, <2>2 DEF TokenClose, CloseConn, runVars
  <2>3. CASE TokenAdd(w) \/ TokenResend(w)
    <3>1. pc[w] \in Handling
      BY <2>3 DEF TokenAdd, TokenResend, Handling
    <3>2. req[w].conn \in Conns
      BY <3>1, HandlersHave
    <3> QED
      BY <1>1, <2>3, <3>2 DEF TokenAdd, TokenResend, Reply, connVars, runVars
  <2> QED
    BY <1>6, <2>1, <2>2, <2>3 DEF Handler
<1>7. CASE Visit \/ Restart
  BY <1>1, <1>7 DEF Visit, Restart, connVars, jobVars, runVars
<1>8. ASSUME NEW s \in Senders, Sender(s)
      PROVE  Others
  BY <1>1, <1>8, SenderFrame DEF connVars, jobVars, runVars
<1> QED
  BY <1>2, <1>3, <1>4, <1>5, <1>6, <1>7, <1>8 DEF Next

LEMMA TypesStep ==
    ASSUME CutInv, [Next]_vars, SessionInv', DataInv'
    PROVE  TypeOK'
<1>1. GuidTypeOK'
  BY DEF SessionInv, GuidInv
<1>2. bound \in Bounds
  BY DEF CutInv, TypeOK
<1> QED
  BY <1>1, <1>2, BoundKept, HeldTypes, SenderTypes, TableTypes, WorkerTypes, OtherTypes DEF TypeOK

-------------------------------------------------------------------------------
LEMMA InitCutInv == Init => CutInv
<1> SUFFICES ASSUME Init
             PROVE  CutInv
  OBVIOUS
<1>1. SessionInv /\ GuidTypeOK
  BY InitSessionInv DEF SessionInv, GuidInv
<1>2. NewWindow \in WindowOver(Nat) /\ NewWindow.pendingMessages = <<>>
      /\ NewWindow.serverAck = 0
  BY DEF NewWindow, WindowOver
<1>3. /\ bound.sends \in Nat /\ bound.logics \in Nat /\ bound.tokens \in Nat
      /\ bound.restarts \in Nat /\ QueueCap \in Nat
  BY BoundFields, BoundsAssumption DEF Init
<1>4. TypeOK
  BY <1>1, <1>2, <1>3 DEF Init, TypeOK
<1>5. DataInv
  <2>1. Held(NewWindow, <<>>, 0, {})
    BY <1>2, <1>3 DEF Held
  <2>2. CutIsHad(NewWindow, 0, {}) /\ \A c \in Conns : Gapless(<<>>, 0, {}, Flying(c))
    BY <1>2 DEF Gapless, CutIsHad
  <2> QED
    BY <2>1, <2>2 DEF Init, DataInv
<1>6. AcksCountReceived /\ SendersHold
  BY DEF Init, AcksCountReceived, SendersHold, InFlight
<1> QED
  BY <1>1, <1>4, <1>5, <1>6 DEF CutInv

LEMMA CutInvStep == CutInv /\ [Next]_vars => CutInv'
<1> SUFFICES ASSUME CutInv, [Next]_vars
             PROVE  CutInv'
  OBVIOUS
<1>1. SessionInv'
  BY SessionInvStep DEF CutInv
<1>2. DataInv' /\ SendersHold' /\ AcksCountReceived'
  BY DataStep, SendersStep, AcksStep
<1>3. TypeOK'
  BY <1>1, <1>2, TypesStep
<1> QED
  BY <1>1, <1>2, <1>3 DEF CutInv

(* What a connection has pending is the newest part of what was pushed on   *)
(* it, and what has been cut its client has received, for any number of     *)
(* connections, senders, workers, tokens, reconnections and restarts, until *)
(* one of the five events of lossy has come to the connection               *)
(* (service.go:327-371, conn.go:129-155, 248-262, 330-337).                 *)
THEOREM OnlyReceivedIsCutAlways == Spec => []OnlyReceivedIsCut
<1>1. CutInv => OnlyReceivedIsCut
  <2> SUFFICES ASSUME CutInv, NEW c \in Conns
               PROVE  /\ win[c].pendingMessages =
                            [i \in 1 .. sent[c] - Cutoff(c) |-> Cutoff(c) + i]
                      /\ c \in lossy \/ 1 .. Cutoff(c) \subseteq received[c]
    BY DEF OnlyReceivedIsCut, CutInv
  <2> DEFINE p == win[c].pendingMessages
             n == sent[c]
  <2>1. /\ n \in Nat /\ win[c] \in WindowOver(Nat)
        /\ \A i \in 1 .. Len(p) : p[i] = (n - Len(p)) + i
    BY DEF CutInv, DataInv, Held
  <2>2. p \in Seq(Nat)
    BY <2>1 DEF WindowOver
  <2>3. c \in lossy \/ 1 .. n - Len(p) \subseteq received[c]
    BY DEF CutInv, DataInv, CutIsHad
  <2>4. Cutoff(c) = n - Len(p)
    BY DEF Cutoff
  <2> HIDE DEF p, n
  <2>5. Len(p) \in Nat /\ n - (n - Len(p)) = Len(p)
    BY <2>1, <2>2
  <2>6. p = [i \in 1 .. Len(p) |-> (n - Len(p)) + i]
    BY <2>1, <2>2
  <2> QED
    BY <2>3, <2>4, <2>5, <2>6 DEF p, n
<1> QED
  BY <1>1, InitCutInv, CutInvStep, PTL DEF Spec

===============================================================================
