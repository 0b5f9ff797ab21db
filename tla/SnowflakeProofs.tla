---------------------------- MODULE SnowflakeProofs ----------------------------
(* Theorems about the id generators, for any number of processes, any field *)
(* widths, any ids of the processes and any clocks.                         *)
EXTENDS Snowflake, TLAPS

-------------------------------------------------------------------------------
(* The arithmetic of an id whose fields keep to their widths.               *)

(* The next sequence number keeps to its bits unless the mask makes it 0. *)
LEMMA NextInWidth ==
    ASSUME NEW C \in Nat \ {0}, NEW s \in 0 .. C - 1
    PROVE  /\ (s + 1) % C # 0 => s + 1 \in 0 .. C - 1
           /\ 0 \in 0 .. C - 1
<1>1. C % C = 0
  OBVIOUS
<1> QED
  BY <1>1

(* A positive multiple of a positive number is at least that number. *)
LEMMA AtLeastOnce ==
    ASSUME NEW K \in Nat \ {0}, NEW d \in Nat \ {0}
    PROVE  d * K >= K /\ d * K \in Nat \ {0}
OBVIOUS

(* The high field decides. *)
LEMMA HighFieldDecides ==
    ASSUME NEW K \in Nat \ {0}, NEW a \in Int, NEW b \in Int,
           NEW r \in 0 .. K - 1, NEW q \in 0 .. K - 1,
           a < b
    PROVE  a * K + r < b * K + q
<1> DEFINE x == a * K
           y == b * K
<1>1. (b - a) * K >= K
  BY AtLeastOnce
<1>2. (b - a) * K = y - x
  OBVIOUS
<1>3. x \in Int /\ y \in Int
  OBVIOUS
<1> HIDE DEF x, y
<1>4. x + r < y + q
  BY <1>1, <1>2, <1>3
<1> QED
  BY <1>4 DEF x, y

(* Both fields can be read back. *)
LEMMA FieldsReadBack ==
    ASSUME NEW K \in Nat \ {0}, NEW a \in Int, NEW b \in Int,
           NEW r \in 0 .. K - 1, NEW q \in 0 .. K - 1,
           a * K + r = b * K + q
    PROVE  a = b /\ r = q
<1>1. ~(a < b)
  BY HighFieldDecides
<1>2. ~(b < a)
  BY HighFieldDecides
<1>3. a = b
  BY <1>1, <1>2
<1> QED
  BY <1>3

NodesPerTime == DatacenterCount * WorkerCount
NodeNumber(n) == DatacenterId[n] * WorkerCount + WorkerId[n]
High(n, t)    == (t - Epoch) * NodesPerTime + NodeNumber(n)

(* Time is counted above node numbers that keep to their own bits. *)
LEMMA FieldTypes ==
    /\ NodesPerTime \in Nat \ {0}
    /\ \A n \in Nodes : NodeNumber(n) \in 0 .. NodesPerTime - 1
<1>1. NodesPerTime \in Nat \ {0}
  BY WidthsAssumption, AtLeastOnce DEF NodesPerTime
<1>2. ASSUME NEW n \in Nodes PROVE NodeNumber(n) \in 0 .. NodesPerTime - 1
  <2>1. /\ DatacenterId[n] \in Int /\ 0 <= DatacenterId[n]
        /\ DatacenterId[n] < DatacenterCount
        /\ WorkerId[n] \in 0 .. WorkerCount - 1 /\ WorkerCount \in Nat \ {0}
        /\ DatacenterCount \in Nat
    BY IdsAssumption, WidthsAssumption
  <2>2. NodeNumber(n) < DatacenterCount * WorkerCount + 0
    <3>1. 0 \in 0 .. WorkerCount - 1
      BY <2>1
    <3> QED
      BY <2>1, <3>1, HighFieldDecides DEF NodeNumber
  <2>3. DatacenterId[n] * WorkerCount \in Nat
    BY <2>1
  <2>4. NodeNumber(n) \in Nat
    BY <2>1, <2>3 DEF NodeNumber
  <2>5. DatacenterCount * WorkerCount \in Int
    BY <2>1
  <2> QED
    BY <2>2, <2>4, <2>5 DEF NodesPerTime
<1> QED
  BY <1>1, <1>2

(* An id is a time, a node number and a sequence number, in this order. *)
LEMMA IdIsPacked ==
    ASSUME NEW n \in Nodes, NEW t \in Int, NEW s \in Int
    PROVE  /\ Id(n, t, s) = High(n, t) * SequenceCount + s
           /\ High(n, t) \in Int
           /\ Id(n, t, s) \in Int
<1> DEFINE e == t - Epoch
<1>1. /\ e \in Int /\ NodesPerTime \in Int /\ NodeNumber(n) \in Int
      /\ SequenceCount \in Int
  BY FieldTypes, TimeAssumption, WidthsAssumption
<1>2. TimeUnit = NodesPerTime * SequenceCount
  BY DEF TimeUnit, NodesPerTime
<1>3. NodeBits(n) = NodeNumber(n) * SequenceCount
  BY DEF NodeBits, NodeNumber
<1> HIDE DEF e
<1>4. e * (NodesPerTime * SequenceCount) + NodeNumber(n) * SequenceCount
        = (e * NodesPerTime + NodeNumber(n)) * SequenceCount
  BY <1>1
<1>5. e * NodesPerTime + NodeNumber(n) \in Int
  BY <1>1
<1>6. Id(n, t, s) = e * (NodesPerTime * SequenceCount) + NodeNumber(n) * SequenceCount + s
  BY <1>2, <1>3 DEF Id, e
<1>7. (e * NodesPerTime + NodeNumber(n)) * SequenceCount \in Int
  BY <1>1, <1>5
<1>8. Id(n, t, s) = (e * NodesPerTime + NodeNumber(n)) * SequenceCount + s
  BY <1>4, <1>6
<1>9. Id(n, t, s) \in Int
  BY <1>7, <1>8
<1> QED
  BY <1>5, <1>8, <1>9 DEF e, High

(* A later millisecond gives a larger id, whatever the sequence numbers.    *)
LEMMA LaterIsLarger ==
    ASSUME NEW n \in Nodes, NEW t \in Int, NEW u \in Int, t < u,
           NEW r \in 0 .. SequenceCount - 1, NEW q \in 0 .. SequenceCount - 1
    PROVE  Id(n, t, r) < Id(n, u, q)
<1>1. High(n, t) < High(n, u)
  BY FieldTypes, HighFieldDecides, TimeAssumption DEF High
<1>2. r \in Int /\ q \in Int
  BY WidthsAssumption
<1>3. /\ High(n, t) \in Int /\ High(n, u) \in Int
      /\ Id(n, t, r) = High(n, t) * SequenceCount + r
      /\ Id(n, u, q) = High(n, u) * SequenceCount + q
  BY <1>2, IdIsPacked
<1> QED
  BY <1>1, <1>3, HighFieldDecides, WidthsAssumption

(* In one millisecond the sequence number orders the ids. *)
LEMMA SameTimeOrder ==
    ASSUME NEW n \in Nodes, NEW t \in Int, NEW r \in Int, NEW q \in Int
    PROVE  /\ Id(n, t, r) \in Int /\ Id(n, t, q) \in Int
           /\ r < q => Id(n, t, r) < Id(n, t, q)
<1> DEFINE a == High(n, t) * SequenceCount
<1>1. Id(n, t, r) = a + r /\ Id(n, t, q) = a + q
  BY IdIsPacked
<1>2. a \in Int
  BY IdIsPacked, WidthsAssumption
<1> HIDE DEF a
<1> QED
  BY <1>1, <1>2

(* Equal ids come from equal processes, times and sequence numbers.         *)
LEMMA IdsReadBack ==
    ASSUME NEW m \in Nodes, NEW n \in Nodes, NEW t \in Int, NEW u \in Int,
           NEW r \in 0 .. SequenceCount - 1, NEW q \in 0 .. SequenceCount - 1,
           Id(m, t, r) = Id(n, u, q)
    PROVE  ~OwnIds(m, n)
<1>1. High(m, t) = High(n, u)
  <2>1. r \in Int /\ q \in Int
    BY WidthsAssumption
  <2>2. /\ High(m, t) \in Int /\ High(n, u) \in Int
        /\ High(m, t) * SequenceCount + r = High(n, u) * SequenceCount + q
    BY <2>1, IdIsPacked
  <2> QED
    BY <2>2, FieldsReadBack, WidthsAssumption
<1>2. NodeNumber(m) = NodeNumber(n)
  BY <1>1, FieldTypes, FieldsReadBack, TimeAssumption DEF High
<1>3. /\ DatacenterId[m] \in Int /\ DatacenterId[n] \in Int
      /\ WorkerId[m] \in 0 .. WorkerCount - 1 /\ WorkerId[n] \in 0 .. WorkerCount - 1
  BY IdsAssumption, WidthsAssumption
<1>4. DatacenterId[m] = DatacenterId[n] /\ WorkerId[m] = WorkerId[n]
  <2> DEFINE d == DatacenterId[m]
             e == DatacenterId[n]
             w == WorkerId[m]
             v == WorkerId[n]
  <2>1. d * WorkerCount + w = e * WorkerCount + v
    BY <1>2 DEF NodeNumber
  <2>2. d \in Int /\ e \in Int /\ w \in 0 .. WorkerCount - 1 /\ v \in 0 .. WorkerCount - 1
    BY <1>3
  <2> HIDE DEF d, e, w, v
  <2>3. d = e /\ w = v
    BY <2>1, <2>2, FieldsReadBack, WidthsAssumption
  <2> QED
    BY <2>3 DEF d, e, w, v
<1> QED
  BY <1>4 DEF OwnIds

-------------------------------------------------------------------------------
(* A new generator has the types. *)
LEMMA InitTypeOK == Init => TypeOK
BY WidthsAssumption, TimeAssumption DEF Init, TypeOK, Returned

(* Every step of a generator, its clock or its process keeps the types. *)
LEMMA NextTypeOK == TypeOK /\ [Next]_vars => TypeOK'
<1> SUFFICES ASSUME TypeOK, [Next]_vars PROVE TypeOK'
  OBVIOUS
<1> USE DEF TypeOK
<1>r. ASSUME NEW n \in Nodes, NEW id \in Int, Return(n, id) PROVE issued' \in Seq(Returned)
  BY <1>r DEF Return, Returned
<1>t. 0 \in 0 .. SequenceCount - 1
  BY WidthsAssumption
<1>1. CASE UNCHANGED vars
  BY <1>1 DEF vars, genVars
<1>2. ASSUME NEW n \in Nodes, NextId(n) PROVE TypeOK'
  <2>1. CASE NextIdBackwards(n)
    BY <2>1, <1>r DEF NextIdBackwards, ErrorCode
  <2>2. CASE NextIdFresh(n)
    <3>1. Id(n, clock[n], 0) \in Int
      BY IdIsPacked, TimeAssumption
    <3> QED
      BY <2>2, <3>1, <1>r, <1>t DEF NextIdFresh
  <2>3. CASE NextIdSame(n)
    <3>1. Id(n, clock[n], sequence[n] + 1) \in Int
      BY IdIsPacked, TimeAssumption
    <3>2. sequence[n] + 1 \in 0 .. SequenceCount - 1
      BY <2>3, NextInWidth, WidthsAssumption DEF NextIdSame
    <3> QED
      BY <2>3, <3>1, <3>2, <1>r DEF NextIdSame
  <2>4. CASE NextIdWrap(n)
    BY <2>4, <1>t DEF NextIdWrap
  <2>5. CASE NextIdSpun(n)
    <3>1. Id(n, clock[n], sequence[n]) \in Int
      BY IdIsPacked, TimeAssumption
    <3> QED
      BY <2>5, <3>1, <1>r DEF NextIdSpun
  <2> QED
    BY <1>2, <2>1, <2>2, <2>3, <2>4, <2>5 DEF NextId
<1>3. ASSUME NEW n \in Nodes, Tick(n) \/ SetBack(n) PROVE TypeOK'
  <2>1. clock' \in [Nodes -> Birth .. MaxClock] /\ backs' \in Nat
    <3>1. CASE Tick(n)
      BY <3>1, TimeAssumption DEF Tick
    <3>2. CASE SetBack(n)
      BY <3>2, TimeAssumption DEF SetBack
    <3> QED
      BY <1>3, <3>1, <3>2
  <2>2. UNCHANGED genVars /\ UNCHANGED life
    BY <1>3 DEF Tick, SetBack
  <2> QED
    BY <2>1, <2>2 DEF genVars
<1>4. ASSUME NEW n \in Nodes, Restart(n) PROVE TypeOK'
  BY <1>4, <1>t DEF Restart
<1> QED
  BY <1>1, <1>2, <1>3, <1>4 DEF Next

(* Every variable keeps its type; in particular the sequence number keeps   *)
(* to its bits (snowflake.go:106).                                          *)
THEOREM TypeCorrect == Spec => []TypeOK
BY InitTypeOK, NextTypeOK, PTL DEF Spec

-------------------------------------------------------------------------------
(* What a generator can still give out is larger than all it has given.     *)

Highest(n) == Id(n, lastTimestamp[n], IF waiting[n] THEN SequenceCount - 1
                                                    ELSE sequence[n])

BelowHighest ==
    \A i \in 1 .. Len(issued) :
        \A n \in Nodes : issued[i].node = n =>
            /\ issued[i].life <= life[n]
            /\ issued[i].life = life[n] /\ Real(i) => issued[i].id <= Highest(n)

(* A step that returns a value larger than Highest, which becomes Highest. *)
LEMMA LargerIsIssued ==
    ASSUME TypeOK, BelowHighest, IdsIncrease, NEW n \in Nodes, NEW id \in Int,
           Return(n, id), id # ErrorCode => Highest(n) < id /\ id <= Highest(n)',
           Highest(n) <= Highest(n)', Highest(n) \in Int, Highest(n)' \in Int,
           \A m \in Nodes \ {n} : Highest(m)' = Highest(m), life' = life
    PROVE  BelowHighest' /\ IdsIncrease'
<1> DEFINE new == [node |-> n, life |-> life[n], id |-> id]
<1>0. PICK L \in Nat : L = Len(issued)
  BY DEF TypeOK
<1>1. /\ issued \in Seq(Returned) /\ issued' = Append(issued, new) /\ new \in Returned
      /\ life \in [Nodes -> Nat]
  BY DEF Return, Returned, TypeOK
<1>2. /\ Len(issued') = L + 1 /\ issued'[L + 1] = new
      /\ \A i \in 1 .. L : issued'[i] = issued[i] /\ issued[i] \in Returned
  BY <1>0, <1>1
<1>3. \A i \in 1 .. L : Real(i)' = Real(i)
  BY <1>2 DEF Real, new
<1>4. Real(L + 1)' <=> id # ErrorCode
  BY <1>2 DEF Real, new
<1>5. \A i \in 1 .. L + 1 : i \in 1 .. L \/ i = L + 1
  BY <1>2
<1> HIDE DEF new
<1>6. BelowHighest'
  <2> SUFFICES ASSUME NEW i \in 1 .. L + 1, NEW k \in Nodes, issued'[i].node = k
               PROVE  /\ issued'[i].life <= life[k]
                      /\ issued'[i].life = life[k] /\ Real(i)'
                            => issued'[i].id <= Highest(k)'
    BY <1>2 DEF BelowHighest
  <2>1. CASE i = L + 1
    <3>1. k = n /\ issued'[i].life = life[n] /\ issued'[i].id = id
      BY <2>1, <1>2 DEF new
    <3>2. Real(i)' => id # ErrorCode
      BY <3>1 DEF Real
    <3> QED
      BY <3>1, <3>2, <1>1
  <2>2. CASE i \in 1 .. L
    <3>1. issued[i].id \in Int /\ issued[i].life \in Nat /\ life[k] \in Nat
      BY <1>1, <1>2, <2>2 DEF Returned
    <3>2. /\ issued[i].life <= life[k]
          /\ issued[i].life = life[k] /\ Real(i) => issued[i].id <= Highest(k)
      BY <1>0, <1>2, <2>2 DEF BelowHighest
    <3>3. CASE k = n
      BY <2>2, <1>2, <1>3, <3>1, <3>2, <3>3
    <3>4. CASE k # n
      BY <2>2, <1>2, <1>3, <3>1, <3>2, <3>4
    <3> QED
      BY <3>3, <3>4
  <2> QED
    BY <2>1, <2>2, <1>5
<1>7. IdsIncrease'
  <2> SUFFICES ASSUME NEW i \in 1 .. L + 1, NEW j \in 1 .. L + 1, i < j,
                      SameGenerator(i, j)', Real(i)', Real(j)'
               PROVE  issued'[i].id < issued'[j].id
    BY <1>2 DEF IdsIncrease
  <2>1. i \in 1 .. L
    BY <1>2
  <2>2. CASE j \in 1 .. L
    <3>1. SameGenerator(i, j)
      BY <2>1, <2>2, <1>2 DEF SameGenerator
    <3> QED
      BY <2>1, <2>2, <3>1, <1>0, <1>2, <1>3 DEF IdsIncrease
  <2>3. CASE j = L + 1
    <3>1. issued[i].node = n /\ issued[i].life = life[n]
      BY <2>1, <2>3, <1>2 DEF SameGenerator, new
    <3>2. issued[i].id <= Highest(n) /\ issued[i].id \in Int
      BY <2>1, <3>1, <1>0, <1>2, <1>3 DEF BelowHighest, Returned
    <3>3. Highest(n) < id
      BY <2>3, <1>4
    <3>4. issued[i].id < id
      BY <3>2, <3>3
    <3> QED
      BY <2>1, <2>3, <1>2, <3>4 DEF new
  <2> QED
    BY <2>2, <2>3, <1>5
<1> QED
  BY <1>6, <1>7

Width == 0 .. SequenceCount - 1

(* NextId never lowers Highest, and what it returns becomes Highest.        *)
LEMMA NextIdRaises ==
    ASSUME TypeOK, NEW n \in Nodes
    PROVE  /\ Highest(n) \in Int
           /\ NextIdFresh(n) => /\ Highest(n) < Id(n, clock[n], 0)
                                /\ Highest(n)' = Id(n, clock[n], 0)
           /\ NextIdSame(n)  => /\ Highest(n) < Id(n, clock[n], sequence[n] + 1)
                                /\ Highest(n)' = Id(n, clock[n], sequence[n] + 1)
           /\ NextIdSpun(n)  => /\ Highest(n) < Id(n, clock[n], sequence[n])
                                /\ Highest(n)' = Id(n, clock[n], sequence[n])
           /\ NextIdWrap(n)  => Highest(n) <= Highest(n)' /\ Highest(n)' \in Int
<1>t. /\ clock[n] \in Int /\ lastTimestamp[n] \in Int
      /\ sequence[n] \in Width /\ SequenceCount - 1 \in Width /\ 0 \in Width
      /\ \A s \in Width : s \in Int
  BY TimeAssumption, WidthsAssumption DEF TypeOK, Width
<1>h. PICK s \in Width : /\ Highest(n) = Id(n, lastTimestamp[n], s)
                         /\ waiting[n] => s = SequenceCount - 1
                         /\ ~waiting[n] => s = sequence[n]
  BY <1>t DEF Highest
<1>0. Highest(n) \in Int
  BY <1>t, <1>h, IdIsPacked
<1>1. ASSUME NextIdFresh(n)
      PROVE  Highest(n) < Id(n, clock[n], 0) /\ Highest(n)' = Id(n, clock[n], 0)
  <2>1. lastTimestamp'[n] = clock[n] /\ sequence'[n] = 0 /\ ~waiting'[n]
    BY <1>1 DEF NextIdFresh, Calls, TypeOK
  <2>2. lastTimestamp[n] < clock[n]
    BY <1>1, <1>t DEF NextIdFresh
  <2> QED
    BY <2>1, <2>2, <1>t, <1>h, LaterIsLarger DEF Highest, Width
<1>2. ASSUME NextIdSame(n)
      PROVE  /\ Highest(n) < Id(n, clock[n], sequence[n] + 1)
             /\ Highest(n)' = Id(n, clock[n], sequence[n] + 1)
  <2>1. /\ lastTimestamp'[n] = clock[n] /\ lastTimestamp[n] = clock[n]
        /\ sequence'[n] = sequence[n] + 1 /\ ~waiting'[n] /\ ~waiting[n]
    BY <1>2 DEF NextIdSame, Calls, TypeOK
  <2>2. sequence[n] < sequence[n] + 1 /\ sequence[n] + 1 \in Int /\ sequence[n] \in Int
    BY <1>t
  <2> QED
    BY <2>1, <2>2, <1>t, <1>h, SameTimeOrder DEF Highest
<1>3. ASSUME NextIdSpun(n)
      PROVE  /\ Highest(n) < Id(n, clock[n], sequence[n])
             /\ Highest(n)' = Id(n, clock[n], sequence[n])
  <2>1. lastTimestamp'[n] = clock[n] /\ sequence'[n] = sequence[n] /\ ~waiting'[n]
    BY <1>3 DEF NextIdSpun, TypeOK
  <2>2. lastTimestamp[n] < clock[n]
    BY <1>3, <1>t DEF NextIdSpun
  <2> QED
    BY <2>1, <2>2, <1>t, <1>h, LaterIsLarger DEF Highest, Width
<1>4. ASSUME NextIdWrap(n) PROVE Highest(n) <= Highest(n)' /\ Highest(n)' \in Int
  <2>1. lastTimestamp'[n] = lastTimestamp[n] /\ waiting'[n] /\ ~waiting[n]
    BY <1>4 DEF NextIdWrap, Calls, TypeOK
  <2>2. Highest(n)' = Id(n, lastTimestamp[n], SequenceCount - 1)
    BY <2>1 DEF Highest
  <2>3. s = SequenceCount - 1 \/ s < SequenceCount - 1
    BY <1>t, WidthsAssumption DEF Width
  <2>4. s \in Int /\ SequenceCount - 1 \in Int
    BY <1>t
  <2> QED
    BY <2>2, <2>3, <2>4, <1>0, <1>t, <1>h, SameTimeOrder
<1> QED
  BY <1>0, <1>1, <1>2, <1>3, <1>4

(* A call or a restart of one process touches no other generator. *)
LEMMA OthersKeepHighest ==
    ASSUME TypeOK, NEW n \in Nodes, NextId(n) \/ Restart(n), NEW m \in Nodes \ {n}
    PROVE  Highest(m)' = Highest(m)
<1>1. /\ lastTimestamp'[m] = lastTimestamp[m] /\ sequence'[m] = sequence[m]
      /\ waiting'[m] = waiting[m]
  <2>1. CASE NextIdBackwards(n)
    BY <2>1 DEF NextIdBackwards
  <2>2. CASE NextIdFresh(n) \/ NextIdSame(n)
    BY <2>2 DEF NextIdFresh, NextIdSame, TypeOK
  <2>3. CASE NextIdWrap(n) \/ NextIdSpun(n)
    BY <2>3 DEF NextIdWrap, NextIdSpun, TypeOK
  <2>4. CASE Restart(n)
    BY <2>4 DEF Restart, TypeOK
  <2> QED
    BY <2>1, <2>2, <2>3, <2>4 DEF NextId
<1> QED
  BY <1>1 DEF Highest

(* A step that issues nothing keeps the ids below Highest. *)
LEMMA NothingIssued ==
    ASSUME TypeOK, BelowHighest, IdsIncrease, issued' = issued,
           \A n \in Nodes : /\ life[n] <= life'[n] /\ life'[n] \in Nat
                            /\ life'[n] = life[n] =>
                                  /\ Highest(n) <= Highest(n)'
                                  /\ Highest(n) \in Int /\ Highest(n)' \in Int
    PROVE  BelowHighest' /\ IdsIncrease'
<1>1. IdsIncrease'
  BY DEF IdsIncrease, SameGenerator, Real
<1>2. BelowHighest'
  <2> SUFFICES ASSUME NEW i \in 1 .. Len(issued), NEW n \in Nodes, issued[i].node = n
               PROVE  /\ issued[i].life <= life'[n]
                      /\ issued[i].life = life'[n] /\ Real(i) => issued[i].id <= Highest(n)'
    BY DEF BelowHighest, Real
  <2>1. /\ issued[i].life <= life[n]
        /\ issued[i].life = life[n] /\ Real(i) => issued[i].id <= Highest(n)
    BY DEF BelowHighest
  <2>2. issued[i] \in Returned
    BY DEF TypeOK
  <2>3. issued[i].life \in Nat /\ issued[i].id \in Int /\ life[n] \in Nat
    BY <2>2 DEF Returned, TypeOK
  <2> QED
    BY <2>1, <2>3
<1> QED
  BY <1>1, <1>2

(* Every step keeps what was issued below Highest, and the ids increasing. *)
LEMMA IncreaseStep ==
    TypeOK /\ BelowHighest /\ IdsIncrease /\ [Next]_vars
        => BelowHighest' /\ IdsIncrease'
<1> SUFFICES ASSUME TypeOK, BelowHighest, IdsIncrease, [Next]_vars
             PROVE  BelowHighest' /\ IdsIncrease'
  OBVIOUS
<1>h. \A n \in Nodes : Highest(n) \in Int /\ life[n] \in Nat
  BY NextIdRaises DEF TypeOK
<1>1. ASSUME UNCHANGED <<lastTimestamp, sequence, waiting, issued, life>>
      PROVE  BelowHighest' /\ IdsIncrease'
  <2>1. \A n \in Nodes : Highest(n)' = Highest(n)
    BY <1>1 DEF Highest
  <2>2. \A n \in Nodes : life'[n] = life[n] /\ Highest(n) <= Highest(n)'
    BY <1>1, <1>h, <2>1
  <2> QED
    BY <1>1, <1>h, <2>1, <2>2, NothingIssued
<1>2. ASSUME NEW n \in Nodes, NextId(n) PROVE BelowHighest' /\ IdsIncrease'
  <2>o. \A m \in Nodes \ {n} : Highest(m)' = Highest(m)
    BY <1>2, OthersKeepHighest
  <2>1. CASE NextIdBackwards(n)
    <3>1. Highest(n)' = Highest(n) /\ Return(n, ErrorCode) /\ life' = life
      BY <2>1 DEF NextIdBackwards, Highest
    <3>2. Highest(n) <= Highest(n)' /\ ErrorCode \in Int
      BY <3>1, <1>h DEF ErrorCode
    <3> QED
      BY <3>1, <3>2, <1>h, <2>o, LargerIsIssued
  <2>2. ASSUME NEW t \in Int, NEW s \in Int, Return(n, Id(n, t, s)), life' = life,
               Highest(n) < Id(n, t, s), Highest(n)' = Id(n, t, s)
        PROVE  BelowHighest' /\ IdsIncrease'
    <3> DEFINE id == Id(n, t, s)
    <3>1. id \in Int
      BY IdIsPacked
    <3> HIDE DEF id
    <3>2. /\ Return(n, id) /\ Highest(n) < id /\ Highest(n)' = id
      BY <2>2 DEF id
    <3>3. /\ id <= Highest(n)' /\ Highest(n) <= Highest(n)' /\ Highest(n)' \in Int
      BY <3>1, <3>2, <1>h
    <3> QED
      BY <3>1, <3>2, <3>3, <2>2, <1>h, <2>o, LargerIsIssued
  <2>t. clock[n] \in Int /\ sequence[n] \in Int /\ sequence[n] + 1 \in Int /\ 0 \in Int
    BY TimeAssumption, WidthsAssumption DEF TypeOK
  <2>3. CASE NextIdFresh(n)
    <3>1. Return(n, Id(n, clock[n], 0)) /\ life' = life
      BY <2>3 DEF NextIdFresh
    <3> QED
      BY <2>3, <3>1, <2>t, <2>2, NextIdRaises
  <2>4. CASE NextIdSame(n)
    <3>1. Return(n, Id(n, clock[n], sequence[n] + 1)) /\ life' = life
      BY <2>4 DEF NextIdSame
    <3> QED
      BY <2>4, <3>1, <2>t, <2>2, NextIdRaises
  <2>5. CASE NextIdSpun(n)
    <3>1. Return(n, Id(n, clock[n], sequence[n])) /\ life' = life
      BY <2>5 DEF NextIdSpun
    <3> QED
      BY <2>5, <3>1, <2>t, <2>2, NextIdRaises
  <2>6. CASE NextIdWrap(n)
    <3>1. issued' = issued /\ life' = life
      BY <2>6 DEF NextIdWrap
    <3>2. Highest(n) <= Highest(n)' /\ Highest(n)' \in Int
      BY <2>6, NextIdRaises
    <3>3. \A m \in Nodes : Highest(m) <= Highest(m)' /\ Highest(m)' \in Int
      BY <3>2, <2>o, <1>h
    <3>4. \A m \in Nodes : life[m] <= life'[m] /\ life'[m] \in Nat
      BY <3>1, <1>h
    <3> QED
      BY <3>1, <3>3, <3>4, <1>h, NothingIssued
  <2> QED
    BY <1>2, <2>1, <2>3, <2>4, <2>5, <2>6 DEF NextId
<1>3. ASSUME NEW n \in Nodes, Restart(n) PROVE BelowHighest' /\ IdsIncrease'
  <2>1. \A m \in Nodes \ {n} : Highest(m)' = Highest(m)
    BY <1>3, OthersKeepHighest
  <2>2. issued' = issued /\ life' = [life EXCEPT ![n] = @ + 1]
    BY <1>3 DEF Restart
  <2>3. \A m \in Nodes \ {n} : life'[m] = life[m] /\ Highest(m) <= Highest(m)'
    BY <2>1, <2>2, <1>h DEF TypeOK
  <2>4. life'[n] = life[n] + 1 /\ life[n] \in Nat
    BY <2>2, <1>h DEF TypeOK
  <2>5. life'[n] # life[n] /\ life[n] <= life'[n] /\ life'[n] \in Nat
    BY <2>4
  <2>6. \A m \in Nodes : /\ life[m] <= life'[m] /\ life'[m] \in Nat
                         /\ life'[m] = life[m] =>
                               /\ Highest(m) <= Highest(m)'
                               /\ Highest(m) \in Int /\ Highest(m)' \in Int
    BY <2>1, <2>3, <2>5, <1>h
  <2> QED
    BY <2>2, <2>6, NothingIssued
<1>4. CASE UNCHANGED vars
  BY <1>4, <1>1 DEF vars, genVars
<1>5. ASSUME NEW n \in Nodes, Tick(n) \/ SetBack(n) PROVE BelowHighest' /\ IdsIncrease'
  BY <1>5, <1>1 DEF Tick, SetBack, genVars
<1> QED
  BY <1>2, <1>3, <1>4, <1>5 DEF Next

(* As long as it runs, a generator's ids strictly increase, whatever the    *)
(* clock does (snowflake.go:98-120).                                        *)
THEOREM IdsIncreaseAlways == Spec => []IdsIncrease
<1>1. Init => BelowHighest /\ IdsIncrease
  BY DEF Init, BelowHighest, IdsIncrease
<1> QED
  BY <1>1, InitTypeOK, NextTypeOK, IncreaseStep, PTL DEF Spec

-------------------------------------------------------------------------------
(* Every value returned is the error code or an id of its own process.      *)

OwnId(n, id) == \E t \in Int, s \in Width : id = Id(n, t, s)

IdsAreOwn ==
    \A i \in 1 .. Len(issued) : Real(i) => OwnId(issued[i].node, issued[i].id)

(* Returning an id of one's own keeps all returned ids their owners'. *)
LEMMA OwnIdReturned ==
    ASSUME TypeOK, IdsAreOwn, NEW n \in Nodes, NEW id \in Int, Return(n, id),
           id # ErrorCode => OwnId(n, id)
    PROVE  IdsAreOwn'
<1> DEFINE new == [node |-> n, life |-> life[n], id |-> id]
<1>1. PICK L \in Nat : L = Len(issued)
  BY DEF TypeOK
<1>2. issued \in Seq(Returned) /\ issued' = Append(issued, new) /\ new \in Returned
  BY DEF TypeOK, Return, Returned
<1>3. /\ Len(issued') = L + 1 /\ issued'[L + 1] = new
      /\ \A i \in 1 .. L : issued'[i] = issued[i]
  BY <1>1, <1>2
<1>4. \A i \in 1 .. L + 1 : i \in 1 .. L \/ i = L + 1
  OBVIOUS
<1> SUFFICES ASSUME NEW i \in 1 .. L + 1, issued'[i].id # ErrorCode
             PROVE  OwnId(issued'[i].node, issued'[i].id)
  BY <1>3 DEF IdsAreOwn, Real, OwnId
<1>5. CASE i \in 1 .. L
  BY <1>1, <1>3, <1>5 DEF IdsAreOwn, Real
<1>6. CASE i = L + 1
  BY <1>3, <1>6
<1> QED
  BY <1>4, <1>5, <1>6

(* Every step returns only ids of the process that takes it. *)
LEMMA OwnStep == TypeOK /\ IdsAreOwn /\ [Next]_vars => IdsAreOwn'
<1> SUFFICES ASSUME TypeOK, IdsAreOwn, [Next]_vars PROVE IdsAreOwn'
  OBVIOUS
<1>1. ASSUME issued' = issued PROVE IdsAreOwn'
  BY <1>1 DEF IdsAreOwn, Real, OwnId
<1>2. ASSUME NEW n \in Nodes, NEW t \in Int, NEW s \in Width, Return(n, Id(n, t, s))
      PROVE  IdsAreOwn'
  <2>1. s \in Int
    BY WidthsAssumption DEF Width
  <2>2. Id(n, t, s) \in Int /\ OwnId(n, Id(n, t, s))
    BY <2>1, IdIsPacked DEF OwnId
  <2> QED
    BY <1>2, <2>2, OwnIdReturned
<1>3. ASSUME NEW n \in Nodes, NextId(n) PROVE IdsAreOwn'
  <2>t. clock[n] \in Int /\ sequence[n] \in Width /\ 0 \in Width
    BY TimeAssumption, WidthsAssumption DEF TypeOK, Width
  <2>1. CASE NextIdBackwards(n)
    BY <2>1, OwnIdReturned DEF NextIdBackwards, ErrorCode
  <2>2. CASE NextIdFresh(n)
    BY <2>2, <2>t, <1>2 DEF NextIdFresh
  <2>3. CASE NextIdSame(n)
    <3>1. sequence[n] + 1 \in Width
      BY <2>3, <2>t, NextInWidth, WidthsAssumption DEF NextIdSame, Width
    <3> QED
      BY <2>3, <2>t, <3>1, <1>2 DEF NextIdSame
  <2>4. CASE NextIdWrap(n)
    BY <2>4, <1>1 DEF NextIdWrap
  <2>5. CASE NextIdSpun(n)
    BY <2>5, <2>t, <1>2 DEF NextIdSpun
  <2> QED
    BY <1>3, <2>1, <2>2, <2>3, <2>4, <2>5 DEF NextId
<1>4. ASSUME NEW n \in Nodes, Tick(n) \/ SetBack(n) \/ Restart(n) PROVE IdsAreOwn'
  BY <1>4, <1>1 DEF Tick, SetBack, Restart, genVars
<1>5. CASE UNCHANGED vars
  BY <1>5, <1>1 DEF vars, genVars
<1> QED
  BY <1>3, <1>4, <1>5 DEF Next

(* Ids that are their owners' differ between owners with different ids. *)
LEMMA OwnIdsDiffer == TypeOK /\ IdsAreOwn => NodesNeverClash
<1> SUFFICES ASSUME TypeOK, IdsAreOwn,
                    NEW i \in 1 .. Len(issued), NEW j \in 1 .. Len(issued),
                    OwnIds(issued[i].node, issued[j].node), Real(i), Real(j),
                    issued[i].id = issued[j].id
             PROVE  FALSE
  BY DEF NodesNeverClash
<1>1. issued[i].node \in Nodes /\ issued[j].node \in Nodes
  <2>1. issued[i] \in Returned /\ issued[j] \in Returned
    BY DEF TypeOK
  <2> QED
    BY <2>1 DEF Returned
<1>2. PICK t \in Int, r \in Width : issued[i].id = Id(issued[i].node, t, r)
  BY DEF IdsAreOwn, OwnId
<1>3. PICK u \in Int, q \in Width : issued[j].id = Id(issued[j].node, u, q)
  BY DEF IdsAreOwn, OwnId
<1> QED
  BY <1>1, <1>2, <1>3, IdsReadBack DEF Width

(* Processes that were given different ids never return the same id,        *)
(* however wrong their clocks and however often they restart                *)
(* (snowflake.go:23, 119).                                                  *)
THEOREM NodesNeverClashEver == Spec => []NodesNeverClash
<1>1. Init => IdsAreOwn
  BY DEF Init, IdsAreOwn
<1> QED
  BY <1>1, InitTypeOK, NextTypeOK, OwnStep, OwnIdsDiffer, PTL DEF Spec
===============================================================================
