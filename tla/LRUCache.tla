------------------------------- MODULE LRUCache --------------------------------
(***************************************************************************)
(* The player cache, cache/cache_mgr.go: a map and an access list that     *)
(* change together under one mutex, so every method is one step.  A filter *)
(* says which entries may be thrown out, depending on their value; entries *)
(* may expire; a miss is loaded from the database by a hook.               *)
(*                                                                         *)
(* Definitions that the model does not use and that stand before one it    *)
(* does are mutants: slips a property is shown to notice.                  *)
(***************************************************************************)
EXTENDS Naturals, Sequences, FiniteSets, Functions, FiniteSetsExt

CONSTANTS
    Keys, Values,
    Held,        \* values the filter protects ({} when the filter is nil)
    MinSize, CoreSize,
    Durations,   \* expire arguments; 0 is "never"
    MaxClock,    \* bound: the clock
    MaxOps       \* bound: calls that use the cache

ASSUME ParametersAssumption ==
    /\ Held \subseteq Values
    /\ MinSize \in Nat /\ CoreSize \in Nat
    /\ Durations \subseteq Nat /\ MaxClock \in Nat \ {0} /\ MaxOps \in Nat

VARIABLES
    cache,   \* [items: the map, order: accessOrder, front first]
    clock,   \* time.Now(), monotonic
    ops,     \* calls so far
    used,    \* history: at which call each key was last stored or hit
    asked    \* history: keys the last call was to drop

cacheVars == <<cache, clock, ops, used, asked>>

Empty == [items |-> [k \in {} |-> {}], order |-> <<>>]

CacheInit ==
    /\ cache = Empty /\ clock = 1 /\ ops = 0
    /\ used = [k \in Keys |-> 0] /\ asked = {}

Stored(c) == DOMAIN c.items
Size(c)   == Cardinality(Stored(c))

Deadline(expire) == IF expire > 0 THEN clock + expire ELSE 0

Expired(c, k)   == c.items[k].expireTime # 0 /\ clock > c.items[k].expireTime
Evictable(c, k) == c.items[k].value \notin Held

-------------------------------------------------------------------------------
RemoveItemsKeepOrder(c, S) == [c EXCEPT !.items = Restrict(@, Stored(c) \ S)]

(* The list s without the keys of S, what is left in its order.             *)
Without(s, S) ==
    LET kept[i \in 0 .. Len(s)] ==
            IF i = 0 THEN <<>>
            ELSE IF s[i] \in S THEN kept[i - 1] ELSE Append(kept[i - 1], s[i])
    IN  kept[Len(s)]

RemoveItems(c, S) ==
    [ items |-> Restrict(c.items, Stored(c) \ S), order |-> Without(c.order, S) ]

MoveToFrontNot(c, k) == c

MoveToFront(c, k) ==
    [c EXCEPT !.order = <<k>> \o Without(@, {k})]

(* Where the list has entries that may go. *)
Eligible(c) == {i \in 1 .. Len(c.order) : Evictable(c, c.order[i])}

EvictYoungestEligible(c) ==
    IF Eligible(c) = {} THEN c ELSE RemoveItems(c, {c.order[Min(Eligible(c))]})

EvictTail(c) == IF c.order = <<>> THEN c ELSE RemoveItems(c, {c.order[Len(c.order)]})

(* The oldest of them, if there is one: the last of the list. *)
EvictOldestEligible(c) ==
    IF Eligible(c) = {} THEN c ELSE RemoveItems(c, {c.order[Max(Eligible(c))]})

CleanExpiredEligible(c) ==
    RemoveItems(c, {k \in Stored(c) : Expired(c, k) /\ Evictable(c, k)})

(* A new entry: first make room, then add it, then clean up. *)
AddItemOverMin(c, k, v, expire) ==
    LET room  == IF Size(c) > MinSize THEN EvictOldestEligible(c) ELSE c
    IN  [ items |-> [l \in Stored(room) \cup {k} |->
                        IF l = k THEN [value |-> v, expireTime |-> Deadline(expire)]
                                 ELSE room.items[l]],
          order |-> <<k>> \o room.order ]

AddItem(c, k, v, expire) ==
    LET room  == IF Size(c) >= MinSize THEN EvictOldestEligible(c) ELSE c
        added == [ items |-> [l \in Stored(room) \cup {k} |->
                                 IF l = k THEN [value |-> v, expireTime |-> Deadline(expire)]
                                          ELSE room.items[l]],
                   order |-> <<k>> \o room.order ]
    IN  IF Size(added) > CoreSize THEN CleanExpiredEligible(added) ELSE added

-------------------------------------------------------------------------------
CallFor(S) == ops < MaxOps /\ ops' = ops + 1 /\ asked' = S /\ UNCHANGED clock
Call       == CallFor({})
Use(k)     == used' = [used EXCEPT ![k] = ops + 1]

GetHit(k) ==
    /\ Call /\ k \in Stored(cache) /\ ~Expired(cache, k)
    /\ cache' = MoveToFront(cache, k)
    /\ Use(k)

(* An expired entry is a miss; it is dropped if it may be, and not loaded.  *)
GetExpired(k) ==
    /\ Call /\ k \in Stored(cache) /\ Expired(cache, k)
    /\ cache' = IF Evictable(cache, k) THEN RemoveItems(cache, {k}) ELSE cache
    /\ UNCHANGED used

(* A miss the hook finds in the database; one it does not changes nothing.  *)
GetLoad(k, v, expire) ==
    /\ Call /\ k \notin Stored(cache)
    /\ cache' = AddItem(cache, k, v, expire)
    /\ Use(k)

PutUpdate(k, v, expire) ==
    /\ Call /\ k \in Stored(cache)
    /\ cache' = MoveToFront([cache EXCEPT !.items[k] =
                                [value |-> v, expireTime |-> Deadline(expire)]], k)
    /\ Use(k)

PutNew(k, v, expire) ==
    /\ Call /\ k \notin Stored(cache)
    /\ cache' = AddItem(cache, k, v, expire)
    /\ Use(k)

Delete(k) ==
    /\ CallFor({k}) /\ k \in Stored(cache)
    /\ cache' = RemoveItems(cache, {k})
    /\ UNCHANGED used

Clear == CallFor(Stored(cache)) /\ cache' = Empty /\ UNCHANGED used

RemoveEligible ==
    /\ CallFor({k \in Stored(cache) : Evictable(cache, k)})
    /\ cache' = RemoveItems(cache, {k \in Stored(cache) : Evictable(cache, k)})
    /\ UNCHANGED used

CleanExpired == Call /\ cache' = CleanExpiredEligible(cache) /\ UNCHANGED used

Tick ==
    /\ clock < MaxClock /\ clock' = clock + 1 /\ asked' = {}
    /\ UNCHANGED <<cache, ops, used>>

CacheNext ==
    \/ \E k \in Keys : GetHit(k) \/ GetExpired(k) \/ Delete(k)
    \/ \E k \in Keys, v \in Values, d \in Durations :
          GetLoad(k, v, d) \/ PutUpdate(k, v, d) \/ PutNew(k, v, d)
    \/ Clear \/ RemoveEligible \/ CleanExpired \/ Tick

CacheSpec == CacheInit /\ [][CacheNext]_cacheVars

-------------------------------------------------------------------------------
(* Every deadline an entry can have got by now.                             *)
Deadlines == {0} \cup {t + d : t \in 1 .. clock, d \in Durations \ {0}}

(* Every variable has its type, a deadline included: never one that lies    *)
(* before the call that set it.                                             *)
CacheTypeOK ==
    /\ Stored(cache) \subseteq Keys
    /\ \A k \in Stored(cache) :
          cache.items[k] \in [value : Values, expireTime : Deadlines]
    /\ cache.order \in Seq(Keys)
    /\ clock \in 1 .. MaxClock /\ ops \in 0 .. MaxOps
    /\ used \in [Keys -> 0 .. MaxOps] /\ asked \subseteq Keys

(* The map and the list name the same keys, each once, through every path   *)
(* that stores or drops an entry (cache_mgr.go:85-98, 139-165, 263-268): a  *)
(* key missing from the list could never be evicted.                        *)
ListMatchesMap ==
    /\ CacheTypeOK
    /\ Range(cache.order) = Stored(cache)
    /\ Len(cache.order) = Size(cache)

(* The list holds what the map does, in order of last use, an expired or    *)
(* loading Get included: what evictOldestEligible finds from the back is    *)
(* least recently used.                                                     *)
ListIsByRecency ==
    /\ ListMatchesMap
    /\ \A i, j \in 1 .. Len(cache.order) :
          i < j => used[cache.order[i]] > used[cache.order[j]]

Dropped   == Stored(cache) \ Stored(cache)'
Inserting == Stored(cache)' \ Stored(cache) # {}

(* An entry the filter protects leaves the cache only by Delete or Clear.   *)
HeldStays ==
    [][\A k \in Dropped : ~Evictable(cache, k) => k \in asked']_cacheVars

(* An entry that is alive may be dropped for another only if every entry    *)
(* that was used longer ago is protected.                                   *)
DroppedIsOldest ==
    \A k \in Dropped : ~Expired(cache, k) =>
       \A l \in Stored(cache) \ {k} : used[l] < used[k] => ~Evictable(cache, l)

(* Past MinSize the cache grows only when the filter protects everything.   *)
GrowsOnlyWhenHeld ==
    Size(cache)' > Size(cache) /\ Size(cache) >= MinSize
       => \A k \in Stored(cache) : ~Evictable(cache, k)

(* An insert drops the least recently used of what it may, and drops it     *)
(* unless there is room or nothing it may (cache_mgr.go:139-165, 198-233).  *)
InsertDropsLeastRecent ==
    [][Inserting => DroppedIsOldest /\ GrowsOnlyWhenHeld]_cacheVars
===============================================================================
