------------------------- MODULE TrafficGatewayProofs --------------------------
(***************************************************************************)
(* Theorems about TrafficGateway, for every configuration, every workload  *)
(* and any number of failures.                                             *)
(***************************************************************************)
EXTENDS TrafficGateway, TLAPS, FiniteSetTheorems

-------------------------------------------------------------------------------
(***************************************************************************)
(* Sequences.                                                              *)
(***************************************************************************)
LEMMA Joined ==
  ASSUME NEW S, NEW a \in Seq(S), NEW b \in Seq(S)
  PROVE  /\ a \o b \in Seq(S) /\ Len(a \o b) = Len(a) + Len(b)
         /\ \A j \in 1 .. Len(a) : (a \o b)[j] = a[j]
         /\ \A j \in 1 .. Len(b) : (a \o b)[Len(a) + j] = b[j]
PROOF OBVIOUS

LEMMA ElementMeans ==
  ASSUME NEW S, NEW s \in Seq(S), NEW j \in DOMAIN s
  PROVE  s[j] \in S /\ j \in 1 .. Len(s)
PROOF OBVIOUS

\* What is left of a sequence when one place is taken out.
LEMMA RemoveAtMeans ==
  ASSUME NEW S, NEW s \in Seq(S), NEW i \in DOMAIN s
  PROVE  /\ RemoveAt(s, i) \in Seq(S) /\ Len(RemoveAt(s, i)) = Len(s) - 1
         /\ \A j \in 1 .. Len(s) - 1 : RemoveAt(s, i)[j] = IF j < i THEN s[j] ELSE s[j + 1]
<1>1. i \in 1 .. Len(s) /\ Len(s) \in Nat
  OBVIOUS
<1>2. /\ SubSeq(s, 1, i - 1) \in Seq(S) /\ Len(SubSeq(s, 1, i - 1)) = i - 1
      /\ \A j \in 1 .. i - 1 : SubSeq(s, 1, i - 1)[j] = s[j]
  BY <1>1
<1>3. /\ SubSeq(s, i + 1, Len(s)) \in Seq(S) /\ Len(SubSeq(s, i + 1, Len(s))) = Len(s) - i
      /\ \A j \in 1 .. Len(s) - i : SubSeq(s, i + 1, Len(s))[j] = s[j + i]
  BY <1>1
<1> DEFINE a == SubSeq(s, 1, i - 1)
           b == SubSeq(s, i + 1, Len(s))
<1>4. RemoveAt(s, i) = a \o b
  BY DEF RemoveAt
<1>8. a \in Seq(S) /\ b \in Seq(S)
  BY <1>2, <1>3
<1> HIDE DEF a, b
<1>5. /\ a \o b \in Seq(S) /\ Len(a \o b) = Len(a) + Len(b)
      /\ \A j \in 1 .. Len(a) : (a \o b)[j] = a[j]
      /\ \A j \in 1 .. Len(b) : (a \o b)[Len(a) + j] = b[j]
  BY <1>8, Joined
<1>6. /\ Len(a) = i - 1 /\ Len(b) = Len(s) - i
      /\ \A j \in 1 .. i - 1 : a[j] = s[j]
      /\ \A j \in 1 .. Len(s) - i : b[j] = s[j + i]
  BY <1>2, <1>3 DEF a, b
<1>7. ASSUME NEW j \in 1 .. Len(s) - 1 PROVE (a \o b)[j] = IF j < i THEN s[j] ELSE s[j + 1]
  <2>1. CASE j < i
    BY <1>1, <1>5, <1>6, <2>1, SMTT(30)
  <2>2. CASE ~(j < i)
    <3>1. PICK m \in 1 .. Len(s) - i : j = i - 1 + m
      <4>1. j - (i - 1) \in 1 .. Len(s) - i
        BY <1>1, <2>2
      <4> QED
        BY <1>1, <4>1
    <3>2. m + i = j + 1 /\ m \in 1 .. Len(b) /\ j = Len(a) + m
      BY <1>1, <1>6, <3>1
    <3>4. (a \o b)[j] = b[m]
      BY <1>5, <3>2
    <3> QED
      BY <1>6, <2>2, <3>2, <3>4
  <2> QED
    BY <2>1, <2>2
<1>9. Len(a \o b) = Len(s) - 1
  BY <1>1, <1>5, <1>6
<1> QED
  BY <1>4, <1>5, <1>7, <1>9

\* Every place but one of a sequence is a place of what is left, in order.
LEMMA LeftMeans ==
  ASSUME NEW S, NEW s \in Seq(S), NEW i \in DOMAIN s, NEW w, w = RemoveAt(s, i)
  PROVE  /\ w \in Seq(S) /\ Len(w) = Len(s) - 1 /\ Len(s) \in Nat
         /\ DOMAIN w = 1 .. Len(s) - 1 /\ DOMAIN s = 1 .. Len(s)
         /\ \A j \in DOMAIN w : \E m \in DOMAIN s : /\ m # i /\ w[j] = s[m]
                                                 /\ (m = j \/ m = j + 1) /\ (m = j <=> j < i)
         /\ \A m \in DOMAIN s : m # i => \E j \in DOMAIN w : w[j] = s[m]
<1>1. /\ w \in Seq(S) /\ Len(w) = Len(s) - 1
      /\ \A j \in 1 .. Len(s) - 1 : w[j] = IF j < i THEN s[j] ELSE s[j + 1]
  BY RemoveAtMeans
<1>2. /\ Len(s) \in Nat /\ DOMAIN s = 1 .. Len(s) /\ i \in 1 .. Len(s)
      /\ DOMAIN w = 1 .. Len(s) - 1
  BY <1>1
<1>3. ASSUME NEW j \in DOMAIN w
      PROVE  \E m \in DOMAIN s : m # i /\ w[j] = s[m] /\ (m = j \/ m = j + 1) /\ (m = j <=> j < i)
  <2>1. CASE j < i
    BY <1>1, <1>2, <2>1
  <2>2. CASE ~(j < i)
    BY <1>1, <1>2, <2>2
  <2> QED
    BY <2>1, <2>2
<1>4. ASSUME NEW m \in DOMAIN s, m # i PROVE \E j \in DOMAIN w : w[j] = s[m]
  <2>1. CASE m < i
    BY <1>1, <1>2, <2>1
  <2>2. CASE m > i
    <3>1. m - 1 \in 1 .. Len(s) - 1 /\ ~(m - 1 < i) /\ (m - 1) + 1 = m
      BY <1>2, <2>2
    <3>2. w[m - 1] = s[m]
      BY <1>1, <3>1
    <3> QED
      BY <1>2, <3>1, <3>2
  <2> QED
    BY <1>2, <1>4, <2>1, <2>2
<1> QED
  BY <1>1, <1>2, <1>3, <1>4

\* The last items of a sequence.
LEMMA SuffixMeans ==
  ASSUME NEW S, NEW s \in Seq(S), NEW d \in 0 .. Len(s)
  PROVE  /\ SubSeq(s, d + 1, Len(s)) \in Seq(S) /\ Len(SubSeq(s, d + 1, Len(s))) = Len(s) - d
         /\ \A j \in 1 .. Len(s) - d : SubSeq(s, d + 1, Len(s))[j] = s[j + d]
PROOF OBVIOUS

LEMMA AppendMeans ==
  ASSUME NEW S, NEW s \in Seq(S), NEW x \in S
  PROVE  /\ Append(s, x) \in Seq(S) /\ Len(Append(s, x)) = Len(s) + 1
         /\ DOMAIN Append(s, x) = 1 .. Len(s) + 1
         /\ \A j \in 1 .. Len(s) : Append(s, x)[j] = s[j]
         /\ Append(s, x)[Len(s) + 1] = x
PROOF OBVIOUS

LEMMA TailMeans ==
  ASSUME NEW S, NEW s \in Seq(S), s # <<>>
  PROVE  /\ Tail(s) \in Seq(S) /\ Len(Tail(s)) = Len(s) - 1 /\ Head(s) = s[1] /\ Head(s) \in S
         /\ Len(s) \in Nat \ {0}
         /\ \A j \in 1 .. Len(s) - 1 : Tail(s)[j] = s[j + 1]
PROOF OBVIOUS

\* The places of a set put in order number as many as it has.
LEMMA InOrderMeans ==
  ASSUME NEW S, NEW s \in Seq(S), NEW live \in SUBSET DOMAIN s, NEW keep \in InOrder(live)
  PROVE  /\ [n \in DOMAIN keep |-> s[keep[n]]] \in Seq(S)
         /\ Len([n \in DOMAIN keep |-> s[keep[n]]]) <= Len(s)
         /\ DOMAIN keep = 1 .. Len([n \in DOMAIN keep |-> s[keep[n]]])
         /\ {keep[n] : n \in DOMAIN keep} = live
         /\ \A m, n \in DOMAIN keep : keep[m] = keep[n] => m = n
<1>1. DOMAIN s = 1 .. Len(s) /\ Len(s) \in Nat
  OBVIOUS
<1>2. IsFiniteSet(DOMAIN s) /\ Cardinality(DOMAIN s) = Len(s)
  <2>1. IsFiniteSet(1 .. Len(s)) /\ Cardinality(1 .. Len(s)) = IF 1 > Len(s) THEN 0 ELSE Len(s) - 1 + 1
    BY <1>1, FS_Interval
  <2> QED
    BY <1>1, <2>1
<1>3. IsFiniteSet(live) /\ Cardinality(live) <= Len(s)
  BY <1>2, FS_Subset
<1>4. Cardinality(live) \in Nat
  BY <1>3, FS_CardinalityType
<1>5. /\ keep \in [1 .. Cardinality(live) -> live] /\ {keep[n] : n \in DOMAIN keep} = live
      /\ \A m, n \in DOMAIN keep : m < n => keep[m] < keep[n]
  BY DEF InOrder
<1>6. \A m, n \in DOMAIN keep : keep[m] = keep[n] => m = n
  <2> SUFFICES ASSUME NEW m \in DOMAIN keep, NEW n \in DOMAIN keep, keep[m] = keep[n], m # n
               PROVE  FALSE
    OBVIOUS
  <2>1. keep[m] \in Nat /\ m \in Nat /\ n \in Nat
    BY <1>1, <1>4, <1>5
  <2> QED
    BY <1>5, <2>1
<1>7. \A n \in 1 .. Cardinality(live) : s[keep[n]] \in S
  BY <1>1, <1>5
<1> QED
  BY <1>3, <1>4, <1>5, <1>6, <1>7, SMTT(30)

-------------------------------------------------------------------------------
(***************************************************************************)
(* Types, by group of variables.                                           *)
(***************************************************************************)
Scheds == [vtime : Nat, last : [Tenants -> Nat]]
Caches == [l1 : Seq(Items), l2 : Seq(Items), rep : [Semantics -> Keys \cup {None}],
           neg : [Keys -> Nat]]
Bys == {"upstream", "coalesced", "cache_l1", "cache_l2", "cache_semantic"}
Flights == [Keys -> {None} \cup [leader : Nat, waiters : SUBSET Nat]]

ClockOK == config \in Configs /\ now \in 0 .. config.duration /\ phase \in Phases
RequestsOK == rq \in Seq(Requests) /\ Len(rq) <= config.requests
OutcomeOK == outcome \in Seq(Seq(Records)) /\ Len(outcome) = Len(rq)
QueueOK == queue \in Seq(Entries) /\ Len(queue) <= config.capacity /\ sched \in Scheds
UpOK == /\ sem \in [inflight : Nat, limit : Nat]
        /\ up \in [queue : Seq(Entries), active : Seq([entry : Entries, finish : Nat])]
ProtectOK == /\ breaker.state \in {"CLOSED", "OPEN", "HALF_OPEN"}
             /\ budget \in [tokens : Nat, granted : Nat, successes : Nat]
             /\ tokens \in [Buckets(config) -> Nat]
             /\ \A b \in Buckets(config) : tokens[b] <= Limit(config, b).burst
CacheOK == cache \in Caches /\ Len(cache.l1) <= config.l1 /\ Len(cache.l2) <= config.l2
FlightsOK == flights \in Flights /\ leaders \subseteq Nat
RestOK == /\ swept \in Nat /\ fails \in 0 .. MaxFailures
          /\ scaler \in [pending : Nat \cup {None}, until : Nat, shrunk : Nat]

LEMMA TypesParted ==
  /\ TypeOK <=> /\ ClockOK /\ RequestsOK /\ OutcomeOK /\ QueueOK /\ UpOK /\ ProtectOK
                /\ CacheOK /\ FlightsOK /\ RestOK
  /\ TypeOK' <=> /\ ClockOK' /\ RequestsOK' /\ OutcomeOK' /\ QueueOK' /\ UpOK' /\ ProtectOK'
                 /\ CacheOK' /\ FlightsOK' /\ RestOK'
PROOF BY DEF TypeOK, ClockOK, RequestsOK, OutcomeOK, QueueOK, UpOK, ProtectOK, CacheOK, FlightsOK,
             RestOK, Scheds, Caches, Flights

\* Every entry is of a request that has arrived, and the semaphore counts the calls.
Entered ==
  /\ \A j \in DOMAIN queue : queue[j].req \in DOMAIN rq
  /\ \A j \in DOMAIN up.queue : up.queue[j].req \in DOMAIN rq
  /\ \A j \in DOMAIN up.active : up.active[j].entry.req \in DOMAIN rq

Counted == sem.inflight = Len(up.queue) + Len(up.active)

LEMMA ConfigMeans ==
  ASSUME NEW g \in Configs
  PROVE  /\ {g.duration, g.requests, g.capacity, g.concurrency, g.slots, g.room, g.budget, g.l1,
             g.l2, g.negative, g.token, g.initial, g.burst, g.scale_step, g.scale_delay,
             g.retry_base, g.retry_cap} \subseteq Nat
         /\ g.ratio # None => g.ratio \in Nat
         /\ \A b \in Buckets(g) : Limit(g, b).rate \in Nat /\ Limit(g, b).burst \in Nat
PROOF BY TrafficAssumption

LEMMA Bounds ==
  ASSUME NEW a \in Nat, NEW b \in Nat
  PROVE  /\ Least(a, b) \in Nat /\ Least(a, b) <= a /\ Least(a, b) <= b
         /\ Most(a, b) \in Nat /\ Most(a, b - 1) \in Nat
PROOF BY DEF Least, Most

\* _finish() leaves each request its records and adds at most one.
LEMMA FinishTyped ==
  ASSUME OutcomeOK, FlightsOK, NEW S, NEW status \in Statuses, NEW by \in Bys, NEW born \in Nat,
         now \in Nat, UNCHANGED rq, Finish(S, status, by, born)
  PROVE  OutcomeOK' /\ FlightsOK'
<1>1. Record(status, by, born) \in Records /\ Shared(status, by, born) \in Records
  BY DEF Record, Shared, Records, Bys
<1>2. DOMAIN outcome = 1 .. Len(outcome) /\ Len(outcome) \in Nat
      /\ \A i \in DOMAIN outcome : outcome[i] \in Seq(Records)
  BY DEF OutcomeOK
<1>3. \A i \in DOMAIN outcome : /\ Append(outcome[i], Record(status, by, born)) \in Seq(Records)
                                /\ Append(outcome[i], Shared(status, by, born)) \in Seq(Records)
  BY <1>1, <1>2
<1>4. outcome' \in [1 .. Len(outcome) -> Seq(Records)]
  BY <1>2, <1>3 DEF Finish
<1>5. outcome' \in Seq(Seq(Records)) /\ Len(outcome') = Len(outcome)
  BY <1>2, <1>4
<1>6. flights' \in Flights
  BY DEF Finish, FlightsOK, Flights
<1> QED
  BY <1>5, <1>6 DEF OutcomeOK, FlightsOK, Finish

\* The tiers of the cache keep their items and their size.
LEMMA TierTyped ==
  ASSUME NEW tier \in Seq(Items), NEW key, NEW time
  PROVE  /\ Without(tier, key) \in Seq(Items) /\ Len(Without(tier, key)) <= Len(tier)
         /\ Got(tier, key, time) \in Seq(Items) /\ Len(Got(tier, key, time)) <= Len(tier)
<1>1. ASSUME \E j \in DOMAIN tier : tier[j].key = key
      PROVE  /\ Place(tier, key) \in DOMAIN tier /\ Item(tier, key) \in Items
             /\ Without(tier, key) \in Seq(Items) /\ Len(Without(tier, key)) = Len(tier) - 1
  <2>1. Place(tier, key) \in DOMAIN tier
    BY <1>1 DEF Place
  <2>2. Without(tier, key) = RemoveAt(tier, Place(tier, key))
    BY <1>1 DEF Without
  <2> QED
    BY <2>1, <2>2, RemoveAtMeans DEF Item
<1>2. ASSUME ~ \E j \in DOMAIN tier : tier[j].key = key PROVE Without(tier, key) = tier
  BY <1>2 DEF Without
<1>3. Without(tier, key) \in Seq(Items) /\ Len(Without(tier, key)) <= Len(tier)
  BY <1>1, <1>2
<1>4. CASE Holds(tier, key, time)
  <2>1. \E j \in DOMAIN tier : tier[j].key = key
    BY <1>4 DEF Holds
  <2>2. Got(tier, key, time) = Append(Without(tier, key), Item(tier, key))
    BY <1>4 DEF Got
  <2> QED
    BY <1>1, <2>1, <2>2, AppendMeans
<1>5. CASE ~Holds(tier, key, time)
  BY <1>3, <1>5 DEF Got
<1> QED
  BY <1>3, <1>4, <1>5

LEMMA PutTyped ==
  ASSUME NEW tier \in Seq(Items), NEW item \in Items, NEW n \in Nat, Len(tier) <= n
  PROVE  Put(tier, n, item) \in Seq(Items) /\ Len(Put(tier, n, item)) <= n
<1> DEFINE rest == Without(tier, item.key)
           drop == IF Len(rest) >= n THEN Len(rest) - n + 1 ELSE 0
<1>1. rest \in Seq(Items) /\ Len(rest) <= Len(tier) /\ Len(rest) \in Nat
  BY TierTyped
<1>2. CASE n = 0
  BY <1>2 DEF Put
<1>3. CASE n # 0
  <2>1. drop \in 0 .. Len(rest) /\ Len(rest) - drop <= n - 1
    BY <1>1, <1>3
  <2>2. Put(tier, n, item) = Append(SubSeq(rest, drop + 1, Len(rest)), item)
    BY <1>3 DEF Put
  <2> HIDE DEF rest, drop
  <2>3. SubSeq(rest, drop + 1, Len(rest)) \in Seq(Items)
        /\ Len(SubSeq(rest, drop + 1, Len(rest))) = Len(rest) - drop
    BY <1>1, <2>1, SuffixMeans
  <2>4. PICK short : short = SubSeq(rest, drop + 1, Len(rest))
    OBVIOUS
  <2> QED
    BY <2>1, <2>2, <2>3, <2>4, AppendMeans
<1> QED
  BY <1>2, <1>3

\* A tier holds one item per key.
OneEach(tier) == \A a, b \in DOMAIN tier : tier[a].key = tier[b].key => a = b

LEMMA WithoutMeans ==
  ASSUME NEW tier \in Seq(Items), OneEach(tier), NEW key
  PROVE  /\ OneEach(Without(tier, key))
         /\ \A j \in DOMAIN Without(tier, key) :
              /\ Without(tier, key)[j].key # key
              /\ \E m \in DOMAIN tier : Without(tier, key)[j] = tier[m]
<1>1. CASE \E j \in DOMAIN tier : tier[j].key = key
  <2>1. PICK i \in DOMAIN tier : i = Place(tier, key) /\ tier[i].key = key
    BY <1>1 DEF Place
  <2>2. Without(tier, key) = RemoveAt(tier, i)
    BY <1>1, <2>1 DEF Without
  <2>3. PICK w : w = RemoveAt(tier, i)
    OBVIOUS
  <2>5. /\ w \in Seq(Items) /\ Len(w) = Len(tier) - 1 /\ Len(tier) \in Nat
        /\ DOMAIN w = 1 .. Len(tier) - 1 /\ DOMAIN tier = 1 .. Len(tier)
        /\ \A j \in DOMAIN w : \E m \in DOMAIN tier : /\ m # i /\ w[j] = tier[m]
                                                   /\ (m = j \/ m = j + 1) /\ (m = j <=> j < i)
    BY <2>3, LeftMeans
  <2>6. \A j \in DOMAIN w : w[j].key # key
    BY <2>1, <2>5 DEF OneEach
  <2>7. OneEach(w)
    <3> SUFFICES ASSUME NEW a \in DOMAIN w, NEW b \in DOMAIN w, w[a].key = w[b].key PROVE a = b
      BY DEF OneEach
    <3>1. PICK m \in DOMAIN tier : w[a] = tier[m] /\ (m = a \/ m = a + 1) /\ (m = a <=> a < i)
      BY <2>5
    <3>2. PICK n \in DOMAIN tier : w[b] = tier[n] /\ (n = b \/ n = b + 1) /\ (n = b <=> b < i)
      BY <2>5
    <3>3. m = n
      BY <3>1, <3>2 DEF OneEach
    <3> QED
      BY <2>5, <3>1, <3>2, <3>3
  <2> QED
    BY <2>2, <2>3, <2>5, <2>6, <2>7
<1>2. CASE ~ \E j \in DOMAIN tier : tier[j].key = key
  BY <1>2 DEF Without
<1> QED
  BY <1>1, <1>2

\* An item appended to a tier that has none of its key.
LEMMA AddMeans ==
  ASSUME NEW tier \in Seq(Items), OneEach(tier), NEW item \in Items,
         \A j \in DOMAIN tier : tier[j].key # item.key
  PROVE  /\ OneEach(Append(tier, item))
         /\ \A j \in DOMAIN Append(tier, item) :
              Append(tier, item)[j] = item \/ \E m \in DOMAIN tier : Append(tier, item)[j] = tier[m]
<1>1. /\ DOMAIN Append(tier, item) = 1 .. Len(tier) + 1 /\ DOMAIN tier = 1 .. Len(tier)
      /\ Len(tier) \in Nat
      /\ \A j \in 1 .. Len(tier) : Append(tier, item)[j] = tier[j]
      /\ Append(tier, item)[Len(tier) + 1] = item
  BY AppendMeans
<1>2. \A j \in 1 .. Len(tier) + 1 : j \in 1 .. Len(tier) \/ j = Len(tier) + 1
  BY <1>1
<1>3. OneEach(Append(tier, item))
  BY <1>1, <1>2 DEF OneEach
<1> QED
  BY <1>1, <1>2, <1>3

LEMMA GotMeans ==
  ASSUME NEW tier \in Seq(Items), OneEach(tier), NEW key, NEW time
  PROVE  /\ OneEach(Got(tier, key, time))
         /\ \A j \in DOMAIN Got(tier, key, time) : \E m \in DOMAIN tier : Got(tier, key, time)[j] = tier[m]
<1>1. CASE Holds(tier, key, time)
  <2>1. PICK i \in DOMAIN tier : i = Place(tier, key) /\ tier[i].key = key
    BY <1>1 DEF Place, Holds
  <2>2. PICK w, item : w = Without(tier, key) /\ item = tier[i]
    OBVIOUS
  <2>3. Got(tier, key, time) = Append(w, item) /\ item \in Items
    BY <1>1, <2>1, <2>2 DEF Got, Item
  <2>4. /\ w \in Seq(Items) /\ OneEach(w) /\ \A j \in DOMAIN w : w[j].key # item.key
        /\ \A j \in DOMAIN w : \E m \in DOMAIN tier : w[j] = tier[m]
    BY <2>1, <2>2, TierTyped, WithoutMeans
  <2> QED
    BY <2>2, <2>3, <2>4, AddMeans
<1>2. CASE ~Holds(tier, key, time)
  BY <1>2, WithoutMeans DEF Got
<1> QED
  BY <1>1, <1>2

LEMMA PutMeans ==
  ASSUME NEW tier \in Seq(Items), OneEach(tier), NEW item \in Items, NEW n \in Nat
  PROVE  /\ OneEach(Put(tier, n, item))
         /\ \A j \in DOMAIN Put(tier, n, item) :
              Put(tier, n, item)[j] = item \/ \E m \in DOMAIN tier : Put(tier, n, item)[j] = tier[m]
<1>1. CASE n = 0
  BY <1>1 DEF Put
<1>2. CASE n # 0
  <2>1. PICK rest : rest = Without(tier, item.key)
    OBVIOUS
  <2>2. PICK drop : drop = IF Len(rest) >= n THEN Len(rest) - n + 1 ELSE 0
    OBVIOUS
  <2>3. /\ rest \in Seq(Items) /\ OneEach(rest) /\ Len(rest) \in Nat
        /\ DOMAIN rest = 1 .. Len(rest)
        /\ \A j \in DOMAIN rest : /\ rest[j].key # item.key
                                  /\ \E m \in DOMAIN tier : rest[j] = tier[m]
    BY <2>1, TierTyped, WithoutMeans
  <2>4. drop \in 0 .. Len(rest)
    BY <1>2, <2>2, <2>3
  <2>5. PICK short : short = SubSeq(rest, drop + 1, Len(rest))
    OBVIOUS
  <2>6. /\ short \in Seq(Items) /\ DOMAIN short = 1 .. Len(rest) - drop
        /\ \A j \in DOMAIN short : j + drop \in DOMAIN rest /\ short[j] = rest[j + drop]
    BY <2>3, <2>4, <2>5, SuffixMeans
  <2>7. OneEach(short)
    <3> SUFFICES ASSUME NEW a \in DOMAIN short, NEW b \in DOMAIN short, short[a].key = short[b].key
                 PROVE  a = b
      BY DEF OneEach
    <3>1. a + drop = b + drop
      BY <2>3, <2>6 DEF OneEach
    <3> QED
      BY <2>3, <2>4, <2>6, <3>1
  <2>8. \A j \in DOMAIN short : /\ short[j].key # item.key
                                /\ \E m \in DOMAIN tier : short[j] = tier[m]
    BY <2>3, <2>6
  <2>9. Put(tier, n, item) = Append(short, item)
    BY <1>2, <2>1, <2>2, <2>5 DEF Put
  <2>10. PICK put : put = Append(short, item)
    OBVIOUS
  <2>11. OneEach(put) /\ \A j \in DOMAIN put : put[j] = item \/ \E m \in DOMAIN short : put[j] = short[m]
    BY <2>6, <2>7, <2>8, <2>10, AddMeans
  <2> QED
    BY <2>8, <2>9, <2>10, <2>11
<1> QED
  BY <1>1, <1>2

\* What a cache holds.
Held(c, x) == (\E m \in DOMAIN c.l1 : c.l1[m] = x) \/ (\E m \in DOMAIN c.l2 : c.l2[m] = x)

CacheGood(g, c) ==
  /\ c \in Caches /\ Len(c.l1) <= g.l1 /\ Len(c.l2) <= g.l2
  /\ OneEach(c.l1) /\ OneEach(c.l2)

LEMMA ItemMeans ==
  ASSUME NEW tier \in Seq(Items), OneEach(tier), NEW key, NEW time, Holds(tier, key, time)
  PROVE  /\ Item(tier, key) \in Items /\ Item(tier, key).expires > time
         /\ \E m \in DOMAIN tier : tier[m] = Item(tier, key)
<1>1. PICK i \in DOMAIN tier : tier[i].key = key /\ tier[i].expires > time
  BY DEF Holds
<1>2. PICK p \in DOMAIN tier : p = Place(tier, key) /\ tier[p].key = key
  BY <1>1 DEF Place
<1>3. p = i
  BY <1>1, <1>2 DEF OneEach
<1> QED
  BY <1>1, <1>2, <1>3 DEF Item

\* Two tiers that come from those of a good cache make a good cache.
LEMMA TiersMakeCache ==
  ASSUME NEW g \in Configs, NEW c, CacheGood(g, c), NEW d,
         d \in Caches, Len(d.l1) <= g.l1, Len(d.l2) <= g.l2, OneEach(d.l1), OneEach(d.l2),
         NEW item, \A j \in DOMAIN d.l1 : d.l1[j] = item \/ Held(c, d.l1[j]),
         \A j \in DOMAIN d.l2 : d.l2[j] = item \/ Held(c, d.l2[j])
  PROVE  CacheGood(g, d) /\ \A x : Held(d, x) => x = item \/ Held(c, x)
<1>1. CacheGood(g, d)
  BY DEF CacheGood
<1>2. ASSUME NEW x, Held(d, x) PROVE x = item \/ Held(c, x)
  BY <1>2 DEF Held
<1> QED
  BY <1>1, <1>2

\* A look-up puts nothing new into the cache.
LEMMA LookedUpMeans ==
  ASSUME NEW g \in Configs, NEW c, CacheGood(g, c), NEW r \in Requests, NEW time \in Nat
  PROVE  /\ CacheGood(g, LookedUp(g, c, r, time))
         /\ \A x : Held(LookedUp(g, c, r, time), x) => Held(c, x)
<1> DEFINE first == Got(c.l1, r.key, time)
           second == Got(c.l2, r.key, time)
           other == Representative(g, c, r)
           d == LookedUp(g, c, r, time)
<1>0. d = LookedUp(g, c, r, time)
  OBVIOUS
<1>1. /\ c.l1 \in Seq(Items) /\ c.l2 \in Seq(Items) /\ OneEach(c.l1) /\ OneEach(c.l2)
      /\ Len(c.l1) <= g.l1 /\ Len(c.l2) <= g.l2 /\ g.l1 \in Nat /\ g.l2 \in Nat
      /\ c.rep \in [Semantics -> Keys \cup {None}] /\ c.neg \in [Keys -> Nat]
      /\ c = [l1 |-> c.l1, l2 |-> c.l2, rep |-> c.rep, neg |-> c.neg]
      /\ r.semantic \in Semantics
      /\ Len(c.l1) \in Nat /\ Len(c.l2) \in Nat
  BY ConfigMeans DEF CacheGood, Caches, Requests
<1>2. /\ first \in Seq(Items) /\ Len(first) <= g.l1 /\ OneEach(first) /\ Len(first) \in Nat
      /\ \A j \in DOMAIN first : \E m \in DOMAIN c.l1 : first[j] = c.l1[m]
  BY <1>1, TierTyped, GotMeans
<1>3. /\ second \in Seq(Items) /\ Len(second) <= g.l2 /\ OneEach(second) /\ Len(second) \in Nat
      /\ \A j \in DOMAIN second : \E m \in DOMAIN c.l2 : second[j] = c.l2[m]
  BY <1>1, TierTyped, GotMeans
<1>4. ASSUME NEW key
      PROVE  /\ Got(first, key, time) \in Seq(Items) /\ Len(Got(first, key, time)) <= g.l1
             /\ OneEach(Got(first, key, time))
             /\ \A j \in DOMAIN Got(first, key, time) :
                  \E m \in DOMAIN c.l1 : Got(first, key, time)[j] = c.l1[m]
  <2>1. PICK t : t = first
    OBVIOUS
  <2>2. t \in Seq(Items) /\ OneEach(t)
    BY <1>2, <2>1
  <2>3. /\ Got(t, key, time) \in Seq(Items) /\ Len(Got(t, key, time)) <= Len(t)
        /\ OneEach(Got(t, key, time))
        /\ \A j \in DOMAIN Got(t, key, time) : \E m \in DOMAIN t : Got(t, key, time)[j] = t[m]
    BY <2>2, TierTyped, GotMeans
  <2>4. PICK w : w = Got(t, key, time)
    OBVIOUS
  <2>5. w \in Seq(Items) /\ Len(w) <= g.l1
    BY <1>1, <1>2, <2>1, <2>3, <2>4
  <2>6. \A j \in DOMAIN w : \E m \in DOMAIN c.l1 : w[j] = c.l1[m]
    BY <1>2, <2>1, <2>3, <2>4
  <2> QED
    BY <2>1, <2>3, <2>4, <2>5, <2>6
<1>5. ASSUME NEW key
      PROVE  /\ Got(second, key, time) \in Seq(Items) /\ Len(Got(second, key, time)) <= g.l2
             /\ OneEach(Got(second, key, time))
             /\ \A j \in DOMAIN Got(second, key, time) :
                  \E m \in DOMAIN c.l2 : Got(second, key, time)[j] = c.l2[m]
  <2>1. PICK t : t = second
    OBVIOUS
  <2>2. t \in Seq(Items) /\ OneEach(t)
    BY <1>3, <2>1
  <2>3. /\ Got(t, key, time) \in Seq(Items) /\ Len(Got(t, key, time)) <= Len(t)
        /\ OneEach(Got(t, key, time))
        /\ \A j \in DOMAIN Got(t, key, time) : \E m \in DOMAIN t : Got(t, key, time)[j] = t[m]
    BY <2>2, TierTyped, GotMeans
  <2>4. PICK w : w = Got(t, key, time)
    OBVIOUS
  <2>5. w \in Seq(Items) /\ Len(w) <= g.l2
    BY <1>1, <1>3, <2>1, <2>3, <2>4
  <2>6. \A j \in DOMAIN w : \E m \in DOMAIN c.l2 : w[j] = c.l2[m]
    BY <1>3, <2>1, <2>3, <2>4
  <2> QED
    BY <2>1, <2>3, <2>4, <2>5, <2>6
<1>6. PICK f, s : f = first /\ s = second
  OBVIOUS
<1>7. ASSUME NEW l1, NEW l2, NEW rep, d = [l1 |-> l1, l2 |-> l2, rep |-> rep, neg |-> c.neg],
             l1 \in Seq(Items), Len(l1) <= g.l1, OneEach(l1), \A j \in DOMAIN l1 : Held(c, l1[j]),
             l2 \in Seq(Items), Len(l2) <= g.l2, OneEach(l2), \A j \in DOMAIN l2 : Held(c, l2[j]),
             rep \in [Semantics -> Keys \cup {None}]
      PROVE  CacheGood(g, d) /\ \A x : Held(d, x) => Held(c, x)
  <2>1. d \in Caches /\ d.l1 = l1 /\ d.l2 = l2
    BY <1>1, <1>7 DEF Caches
  <2>2. CacheGood(g, d)
    BY <1>7, <2>1 DEF CacheGood
  <2>3. ASSUME NEW x, Held(d, x) PROVE Held(c, x)
    BY <1>7, <2>1, <2>3 DEF Held
  <2> QED
    BY <2>2, <2>3
<1>8. /\ \A j \in DOMAIN first : Held(c, first[j])
      /\ \A j \in DOMAIN second : Held(c, second[j])
      /\ \A j \in DOMAIN c.l1 : Held(c, c.l1[j])
      /\ \A j \in DOMAIN c.l2 : Held(c, c.l2[j])
      /\ \A key : /\ \A j \in DOMAIN Got(first, key, time) : Held(c, Got(first, key, time)[j])
                  /\ \A j \in DOMAIN Got(second, key, time) : Held(c, Got(second, key, time)[j])
  <2>1. \A j \in DOMAIN first : Held(c, first[j])
    BY <1>2 DEF Held
  <2>2. \A j \in DOMAIN second : Held(c, second[j])
    BY <1>3 DEF Held
  <2>3. ASSUME NEW key
        PROVE  /\ \A j \in DOMAIN Got(first, key, time) : Held(c, Got(first, key, time)[j])
               /\ \A j \in DOMAIN Got(second, key, time) : Held(c, Got(second, key, time)[j])
    BY <1>4, <1>5 DEF Held
  <2>4. /\ \A j \in DOMAIN c.l1 : Held(c, c.l1[j])
        /\ \A j \in DOMAIN c.l2 : Held(c, c.l2[j])
    BY DEF Held
  <2> QED
    BY <2>1, <2>2, <2>3, <2>4
<1>9. CASE ServedFrom(g, c, r, time) = "cache_l1"
  <2>1. d = [l1 |-> first, l2 |-> c.l2, rep |-> c.rep, neg |-> c.neg]
    BY <1>1, <1>9 DEF LookedUp
  <2> HIDE DEF first, second, other, d
  <2> QED
    BY <1>0, <1>1, <1>2, <1>7, <1>8, <2>1
<1>10. CASE ServedFrom(g, c, r, time) = "cache_l2"
  <2>1. PICK l1 : l1 = Put(first, g.l1, Item(c.l2, r.key))
    OBVIOUS
  <2>2. d = [l1 |-> l1, l2 |-> second, rep |-> c.rep, neg |-> c.neg]
    <3>1. d = [c EXCEPT !.l1 = Backfilled(g, [c EXCEPT !.l1 = first], r.key, time), !.l2 = second]
      BY <1>10 DEF LookedUp
    <3>2. Backfilled(g, [c EXCEPT !.l1 = first], r.key, time) = l1
      BY <1>1, <2>1 DEF Backfilled
    <3> QED
      BY <1>1, <3>1, <3>2
  <2>3. Holds(c.l2, r.key, time)
    BY <1>10, TrafficAssumption DEF ServedFrom
  <2>4. Item(c.l2, r.key) \in Items /\ Held(c, Item(c.l2, r.key))
    BY <1>1, <2>3, ItemMeans DEF Held
  <2>5. PICK item \in Items : item = Item(c.l2, r.key) /\ Held(c, item)
    BY <2>4
  <2>6. /\ l1 \in Seq(Items) /\ Len(l1) <= g.l1 /\ OneEach(l1)
        /\ \A j \in DOMAIN l1 : l1[j] = item \/ \E m \in DOMAIN f : l1[j] = f[m]
    <3>1. f \in Seq(Items) /\ Len(f) <= g.l1 /\ OneEach(f) /\ l1 = Put(f, g.l1, item)
      BY <1>2, <1>6, <2>1, <2>5
    <3> QED
      BY <1>1, <3>1, PutTyped, PutMeans
  <2>7. \A j \in DOMAIN l1 : Held(c, l1[j])
    BY <1>6, <1>8, <2>5, <2>6
  <2> HIDE DEF first, second, other, d
  <2> QED
    BY <1>0, <1>1, <1>3, <1>7, <1>8, <2>2, <2>6, <2>7
<1>11. CASE ServedFrom(g, c, r, time) = "cache_semantic"
  <2>1. PICK l2 : l2 = IF Holds(c.l1, other, time) THEN second ELSE Got(second, other, time)
    OBVIOUS
  <2>2. d = [l1 |-> Got(first, other, time), l2 |-> l2, rep |-> c.rep, neg |-> c.neg]
    BY <1>1, <1>11, <2>1 DEF LookedUp
  <2> HIDE DEF first, second, other, d
  <2>3. l2 \in Seq(Items) /\ Len(l2) <= g.l2 /\ OneEach(l2) /\ \A j \in DOMAIN l2 : Held(c, l2[j])
    BY <1>3, <1>5, <1>8, <2>1
  <2> QED
    BY <1>0, <1>1, <1>4, <1>7, <1>8, <2>2, <2>3
<1>12. CASE ServedFrom(g, c, r, time) \notin {"cache_l1", "cache_l2", "cache_semantic"}
  <2>1. PICK l1, l2, rep :
          /\ l1 = IF other = None THEN first ELSE Got(first, other, time)
          /\ l2 = IF other = None THEN second ELSE Got(second, other, time)
          /\ rep = [c.rep EXCEPT ![r.semantic] = IF other = None THEN @ ELSE None]
    OBVIOUS
  <2>2. d = [l1 |-> l1, l2 |-> l2, rep |-> rep, neg |-> c.neg]
    BY <1>1, <1>12, <2>1 DEF LookedUp
  <2>3. rep \in [Semantics -> Keys \cup {None}]
    BY <1>1, <2>1
  <2> HIDE DEF first, second, other, d
  <2>4. l1 \in Seq(Items) /\ Len(l1) <= g.l1 /\ OneEach(l1) /\ \A j \in DOMAIN l1 : Held(c, l1[j])
    BY <1>2, <1>4, <1>8, <2>1
  <2>5. l2 \in Seq(Items) /\ Len(l2) <= g.l2 /\ OneEach(l2) /\ \A j \in DOMAIN l2 : Held(c, l2[j])
    BY <1>3, <1>5, <1>8, <2>1
  <2> QED
    BY <1>0, <1>7, <2>2, <2>3, <2>4, <2>5
<1> QED
  BY <1>9, <1>10, <1>11, <1>12

\* What answers a request is in the cache and has not expired.
LEMMA ServedMeans ==
  ASSUME NEW g \in Configs, NEW c, CacheGood(g, c), NEW r \in Requests, NEW time \in Nat,
         ServedFrom(g, c, r, time) # None
  PROVE  /\ ServedFrom(g, c, r, time) \in {"cache_l1", "cache_l2", "cache_semantic"}
         /\ ServedItem(g, c, r, time) \in Items /\ Held(c, ServedItem(g, c, r, time))
         /\ ServedItem(g, c, r, time).expires > time
<1>1. c.l1 \in Seq(Items) /\ c.l2 \in Seq(Items) /\ OneEach(c.l1) /\ OneEach(c.l2)
  BY DEF CacheGood, Caches
<1>2. PICK key : /\ key = IF ServedFrom(g, c, r, time) = "cache_semantic"
                          THEN Representative(g, c, r) ELSE r.key
  OBVIOUS
<1>3. ServedFrom(g, c, r, time) \in {"cache_l1", "cache_l2", "cache_semantic"}
  BY DEF ServedFrom
<1>4. Holds(c.l1, key, time) \/ Holds(c.l2, key, time)
  BY <1>2, TrafficAssumption DEF ServedFrom
<1>5. ServedItem(g, c, r, time) = IF Holds(c.l1, key, time) THEN Item(c.l1, key) ELSE Item(c.l2, key)
  BY <1>2 DEF ServedItem
<1>6. CASE Holds(c.l1, key, time)
  BY <1>1, <1>3, <1>5, <1>6, ItemMeans DEF Held
<1>7. CASE ~Holds(c.l1, key, time)
  BY <1>1, <1>3, <1>4, <1>5, <1>7, ItemMeans DEF Held
<1> QED
  BY <1>6, <1>7

\* An answer is put into both tiers, with its own life.
LEMMA StoredMeans ==
  ASSUME NEW g \in Configs, NEW c, CacheGood(g, c), NEW r \in Requests, NEW time \in Nat,
         NEW ttl \in Nat
  PROVE  LET item == [key |-> r.key, inserted |-> time, expires |-> time + ttl]
         IN  /\ item \in Items
             /\ CacheGood(g, Stored(g, c, r, ttl, time))
             /\ \A x : Held(Stored(g, c, r, ttl, time), x) => x = item \/ Held(c, x)
<1>1. PICK item : item = [key |-> r.key, inserted |-> time, expires |-> time + ttl]
  OBVIOUS
<1>2. PICK l1, l2 : l1 = Put(c.l1, g.l1, item) /\ l2 = Put(c.l2, g.l2, item)
  OBVIOUS
<1>3. /\ c.l1 \in Seq(Items) /\ c.l2 \in Seq(Items) /\ OneEach(c.l1) /\ OneEach(c.l2)
      /\ Len(c.l1) <= g.l1 /\ Len(c.l2) <= g.l2 /\ g.l1 \in Nat /\ g.l2 \in Nat
      /\ c.rep \in [Semantics -> Keys \cup {None}] /\ c.neg \in [Keys -> Nat]
      /\ c = [l1 |-> c.l1, l2 |-> c.l2, rep |-> c.rep, neg |-> c.neg]
      /\ item \in Items
  BY <1>1, ConfigMeans DEF CacheGood, Caches, Requests, Items
<1>4. PICK rep : rep = [c.rep EXCEPT ![r.semantic] = IF g.semantic THEN r.key ELSE @]
  OBVIOUS
<1>5. PICK d : d = Stored(g, c, r, ttl, time)
  OBVIOUS
<1>6. d = [l1 |-> l1, l2 |-> l2, rep |-> rep, neg |-> c.neg]
  BY <1>1, <1>2, <1>3, <1>4, <1>5 DEF Stored
<1>7. rep \in [Semantics -> Keys \cup {None}]
  BY <1>3, <1>4 DEF Requests
<1>8. /\ l1 \in Seq(Items) /\ Len(l1) <= g.l1 /\ OneEach(l1)
      /\ \A j \in DOMAIN l1 : l1[j] = item \/ \E m \in DOMAIN c.l1 : l1[j] = c.l1[m]
  BY <1>2, <1>3, PutTyped, PutMeans
<1>9. /\ l2 \in Seq(Items) /\ Len(l2) <= g.l2 /\ OneEach(l2)
      /\ \A j \in DOMAIN l2 : l2[j] = item \/ \E m \in DOMAIN c.l2 : l2[j] = c.l2[m]
  BY <1>2, <1>3, PutTyped, PutMeans
<1>10. d \in Caches /\ d.l1 = l1 /\ d.l2 = l2
  BY <1>3, <1>6, <1>7, <1>8, <1>9 DEF Caches
<1>11. /\ \A j \in DOMAIN d.l1 : d.l1[j] = item \/ Held(c, d.l1[j])
       /\ \A j \in DOMAIN d.l2 : d.l2[j] = item \/ Held(c, d.l2[j])
  BY <1>8, <1>9, <1>10 DEF Held
<1>12. CacheGood(g, d) /\ \A x : Held(d, x) => x = item \/ Held(c, x)
  <2>1. Len(d.l1) <= g.l1 /\ Len(d.l2) <= g.l2 /\ OneEach(d.l1) /\ OneEach(d.l2)
    BY <1>8, <1>9, <1>10
  <2> QED
    BY <1>10, <1>11, <2>1, TiersMakeCache
<1> QED
  BY <1>1, <1>3, <1>5, <1>12

LEMMA NegativeMeans ==
  ASSUME NEW g \in Configs, NEW c, CacheGood(g, c), NEW r \in Requests, NEW time \in Nat
  PROVE  /\ CacheGood(g, StoredNegative(g, c, r, time))
         /\ \A x : Held(StoredNegative(g, c, r, time), x) => Held(c, x)
<1>1. PICK d : d = StoredNegative(g, c, r, time)
  OBVIOUS
<1>2. /\ c = [l1 |-> c.l1, l2 |-> c.l2, rep |-> c.rep, neg |-> c.neg]
      /\ c.neg \in [Keys -> Nat] /\ time + g.negative \in Nat
  BY ConfigMeans DEF CacheGood, Caches
<1>3. /\ d.l1 = c.l1 /\ d.l2 = c.l2
      /\ d = [l1 |-> c.l1, l2 |-> c.l2, rep |-> c.rep, neg |-> d.neg]
      /\ d.neg \in [Keys -> Nat]
  BY <1>1, <1>2 DEF StoredNegative
<1>4. d \in Caches
  BY <1>3 DEF CacheGood, Caches
<1> QED
  BY <1>1, <1>3, <1>4 DEF CacheGood, Held

-------------------------------------------------------------------------------
(***************************************************************************)
(* A retry or the end of it, and an arrival: what they keep.               *)
(***************************************************************************)
LEMMA RetryTyped ==
  ASSUME NEW e \in Entries, NEW s \in Scheds, NEW g \in Configs, NEW r \in Requests
  PROVE  /\ StartOf(g, s, r) \in Nat /\ Enqueued(g, s, r) \in Scheds /\ Popped(g, s, e) \in Scheds
         /\ [Retried(e) EXCEPT !.start = StartOf(g, s, r)] \in Entries
         /\ [Retried(e) EXCEPT !.start = StartOf(g, s, r)].req = e.req
<1>1. StartOf(g, s, r) \in Nat
  BY DEF StartOf, Most, Scheds, Requests
<1>2. Popped(g, s, e) \in Scheds
  BY DEF Popped, Most, Scheds, Entries
<1>3. Enqueued(g, s, r) \in Scheds
  <2>1. /\ s = [vtime |-> s.vtime, last |-> s.last] /\ s.last \in [Tenants -> Nat] /\ s.vtime \in Nat
        /\ StartOf(g, s, r) + r.cost \in Nat
    BY <1>1 DEF Scheds, Requests
  <2>2. PICK v : v = StartOf(g, s, r) + r.cost
    OBVIOUS
  <2>3. Enqueued(g, s, r) = s
        \/ Enqueued(g, s, r) = [vtime |-> s.vtime, last |-> [s.last EXCEPT ![r.tenant] = v]]
    BY <2>1, <2>2 DEF Enqueued
  <2>4. [s.last EXCEPT ![r.tenant] = v] \in [Tenants -> Nat]
    BY <2>1, <2>2
  <2> QED
    BY <2>1, <2>3, <2>4 DEF Scheds
<1>4. /\ Retried(e) \in Entries /\ Retried(e).req = e.req
  <2>1. /\ e = [req |-> e.req, attempts |-> e.attempts, prio |-> e.prio, degrade |-> e.degrade,
                start |-> e.start]
        /\ Most(0, e.prio - 1) \in Nat /\ e.attempts + 1 \in Nat
    BY DEF Entries, Most
  <2>2. PICK p : p = Most(0, e.prio - 1)
    OBVIOUS
  <2>3. Retried(e) = [req |-> e.req, attempts |-> e.attempts + 1, prio |-> p, degrade |-> e.degrade,
                      start |-> e.start]
    <3>1. Retried(e) = [e EXCEPT !.attempts = e.attempts + 1, !.prio = p]
      BY <2>2 DEF Retried
    <3> QED
      BY <2>1, <3>1
  <2> QED
    BY <2>1, <2>2, <2>3 DEF Entries
<1>5. PICK t : t = Retried(e)
  OBVIOUS
<1>6. [t EXCEPT !.start = StartOf(g, s, r)] \in Entries /\ [t EXCEPT !.start = StartOf(g, s, r)].req = e.req
  BY <1>1, <1>4, <1>5 DEF Entries
<1> QED
  BY <1>1, <1>2, <1>3, <1>5, <1>6

\* A failed call is queued once more, or it ends.
LEMMA FailMeans ==
  ASSUME config \in Configs, RequestsOK, NEW e \in Entries, e.req \in DOMAIN rq,
         NEW q \in Seq(Entries), NEW s \in Scheds, Fail(e, q, s)
  PROVE  /\ \/ /\ \E x \in Entries : x.req = e.req /\ queue' = Append(q, x)
               /\ Len(q) < config.capacity /\ Unfinished
            \/ /\ queue' = q
               /\ \E status \in {"REJECTED", "FAILED"} : Finish({e.req}, status, "upstream", now)
         /\ sched' \in Scheds
         /\ budget' = budget \/ (HasBudget(config, budget) /\ budget' = Granted(config, budget))
         /\ cache' = cache \/ cache' = StoredNegative(config, cache, rq[e.req], now)
<1> DEFINE again(backoff) ==
             ShouldRetry(config, e, rq[e.req], now, backoff) /\ HasBudget(config, budget)
           x == [Retried(e) EXCEPT !.start = StartOf(config, s, rq[e.req])]
<1>1. rq[e.req] \in Requests
  BY DEF RequestsOK
<1>2. x \in Entries /\ x.req = e.req /\ Enqueued(config, s, rq[e.req]) \in Scheds
  BY <1>1, RetryTyped
<1>3. PICK backoff \in Backoffs(config, e.attempts) :
        \/ /\ again(backoff) /\ Len(q) < config.capacity
           /\ budget' = Granted(config, budget)
           /\ queue' = Append(q, x) /\ sched' = Enqueued(config, s, rq[e.req])
           /\ Unfinished /\ UNCHANGED cache
        \/ /\ again(backoff) /\ Len(q) >= config.capacity
           /\ budget' = Granted(config, budget)
           /\ Finish({e.req}, "REJECTED", "upstream", now)
           /\ queue' = q /\ sched' = s /\ UNCHANGED cache
        \/ /\ ~again(backoff)
           /\ cache' = IF HasCache(config) THEN StoredNegative(config, cache, rq[e.req], now)
                       ELSE cache
           /\ Finish({e.req}, "FAILED", "upstream", now)
           /\ queue' = q /\ sched' = s /\ UNCHANGED budget
  BY DEF Fail
<1> HIDE DEF x
<1> QED
  BY <1>2, <1>3

LEMMA GrantedTyped ==
  ASSUME config \in Configs, budget \in [tokens : Nat, granted : Nat, successes : Nat]
  PROVE  /\ HasBudget(config, budget) =>
              Granted(config, budget) \in [tokens : Nat, granted : Nat, successes : Nat]
         /\ Succeeded(config, budget) \in [tokens : Nat, granted : Nat, successes : Nat]
<1>1. /\ budget = [tokens |-> budget.tokens, granted |-> budget.granted, successes |-> budget.successes]
      /\ budget.tokens \in Nat /\ budget.granted \in Nat /\ budget.successes \in Nat
      /\ config.token \in Nat /\ config.burst \in Nat /\ (config.ratio # None => config.ratio \in Nat)
  BY ConfigMeans
<1>2. ASSUME config.ratio # None, budget.tokens >= config.token
      PROVE  Granted(config, budget) \in [tokens : Nat, granted : Nat, successes : Nat]
  <2>1. Granted(config, budget) = [tokens |-> budget.tokens - config.token,
                                   granted |-> budget.granted + 1, successes |-> budget.successes]
    BY <1>1, <1>2 DEF Granted
  <2> QED
    BY <1>1, <1>2, <2>1
<1>3. Succeeded(config, budget) \in [tokens : Nat, granted : Nat, successes : Nat]
  <2>1. CASE config.ratio = None
    <3>1. Succeeded(config, budget) = [tokens |-> budget.tokens, granted |-> budget.granted,
                                       successes |-> budget.successes + 1]
      <4>1. Succeeded(config, budget) =
              [budget EXCEPT !.successes = budget.successes + 1, !.tokens = budget.tokens]
        BY <2>1 DEF Succeeded
      <4> QED
        BY <1>1, <4>1
    <3> QED
      BY <1>1, <3>1
  <2>2. CASE config.ratio # None
    <3>1. PICK n \in Nat : n = Least(config.burst, budget.tokens + config.ratio)
      BY <1>1, <2>2 DEF Least
    <3>2. Succeeded(config, budget) = [tokens |-> n, granted |-> budget.granted,
                                       successes |-> budget.successes + 1]
      <4>1. Succeeded(config, budget) =
              [budget EXCEPT !.successes = budget.successes + 1, !.tokens = n]
        BY <2>2, <3>1 DEF Succeeded
      <4> QED
        BY <1>1, <4>1
    <3> QED
      BY <1>1, <3>2
  <2> QED
    BY <2>1, <2>2
<1> QED
  BY <1>1, <1>2, <1>3 DEF HasBudget, Granted

\* The types after a failed call, whether it came back or was refused.
LEMMA FailTyped ==
  ASSUME ClockOK, RequestsOK, OutcomeOK, FlightsOK, CacheGood(config, cache),
         budget \in [tokens : Nat, granted : Nat, successes : Nat],
         NEW e \in Entries, e.req \in DOMAIN rq, NEW q \in Seq(Entries), Len(q) <= config.capacity,
         \A j \in DOMAIN q : q[j].req \in DOMAIN rq,
         NEW s \in Scheds, Fail(e, q, s), UNCHANGED <<config, rq>>
  PROVE  /\ OutcomeOK' /\ FlightsOK' /\ QueueOK'
         /\ \A j \in DOMAIN queue' : queue'[j].req \in DOMAIN rq
         /\ budget' \in [tokens : Nat, granted : Nat, successes : Nat]
         /\ CacheGood(config, cache') /\ \A x : Held(cache', x) => Held(cache, x)
<1>1. config \in Configs /\ now \in Nat /\ config.capacity \in Nat /\ Len(q) \in Nat
  BY ConfigMeans DEF ClockOK
<1>2. OutcomeOK' /\ FlightsOK'
  <2>1. CASE Unfinished
    BY <2>1 DEF Unfinished, OutcomeOK, FlightsOK
  <2>2. ASSUME NEW status \in {"REJECTED", "FAILED"}, Finish({e.req}, status, "upstream", now)
        PROVE  OutcomeOK' /\ FlightsOK'
    BY <1>1, <2>2, FinishTyped DEF Statuses, Bys
  <2> QED
    BY <1>1, <2>1, <2>2, FailMeans
<1>3. QueueOK'
  <2>1. sched' \in Scheds
    BY <1>1, FailMeans
  <2>2. CASE queue' = q
    BY <2>1, <2>2 DEF QueueOK
  <2>3. ASSUME NEW x \in Entries, queue' = Append(q, x), Len(q) < config.capacity PROVE QueueOK'
    <3>1. queue' \in Seq(Entries) /\ Len(queue') = Len(q) + 1
      BY <2>3, AppendMeans
    <3> QED
      BY <1>1, <2>1, <2>3, <3>1 DEF QueueOK
  <2> QED
    BY <1>1, <2>2, <2>3, FailMeans
<1>4. budget' \in [tokens : Nat, granted : Nat, successes : Nat]
  BY <1>1, FailMeans, GrantedTyped
<1>5. CacheGood(config, cache') /\ \A x : Held(cache', x) => Held(cache, x)
  <2>1. rq[e.req] \in Requests
    BY DEF RequestsOK
  <2>2. PICK d : d = StoredNegative(config, cache, rq[e.req], now)
    OBVIOUS
  <2>3. CacheGood(config, d) /\ \A x : Held(d, x) => Held(cache, x)
    BY <1>1, <2>1, <2>2, NegativeMeans
  <2> QED
    BY <1>1, <2>2, <2>3, FailMeans
<1>6. \A j \in DOMAIN queue' : queue'[j].req \in DOMAIN rq
  <2>1. ASSUME NEW x \in Entries, x.req = e.req, queue' = Append(q, x)
        PROVE  \A j \in DOMAIN queue' : queue'[j].req \in DOMAIN rq
    BY <2>1, AppendMeans
  <2> QED
    BY <1>1, <2>1, FailMeans
<1> QED
  BY <1>2, <1>3, <1>4, <1>5, <1>6

Breakers == {"CLOSED", "OPEN", "HALF_OPEN"}

LEMMA BreakerTyped ==
  ASSUME NEW g, NEW b, NEW ok, NEW time, b.state \in Breakers, "state" \in DOMAIN b
  PROVE  /\ Recorded(g, b, ok, time).state \in Breakers /\ "state" \in DOMAIN Recorded(g, b, ok, time)
         /\ Cooled(g, b, time).state \in Breakers /\ "state" \in DOMAIN Cooled(g, b, time)
<1>1. ASSUME NEW c, "state" \in DOMAIN c, NEW v, NEW w
      PROVE  /\ [c EXCEPT !.probes = v].state = c.state /\ "state" \in DOMAIN [c EXCEPT !.probes = v]
             /\ [c EXCEPT !.events = v].state = c.state /\ "state" \in DOMAIN [c EXCEPT !.events = v]
             /\ Opened(c, v).state = "OPEN" /\ "state" \in DOMAIN Opened(c, v)
             /\ [c EXCEPT !.state = "HALF_OPEN", !.probes = w].state = "HALF_OPEN"
             /\ "state" \in DOMAIN [c EXCEPT !.state = "HALF_OPEN", !.probes = w]
  BY <1>1 DEF Opened
<1>2. ClosedBreaker.state = "CLOSED" /\ "state" \in DOMAIN ClosedBreaker
  BY DEF ClosedBreaker
<1>3. PICK n : n = b.probes + 1
  OBVIOUS
<1>4. \E c : /\ \/ c = b \/ c = ClosedBreaker
                \/ c = [b EXCEPT !.probes = n]
                \/ c = Opened([b EXCEPT !.probes = n], time)
                \/ \E w : c = [b EXCEPT !.events = w] \/ c = Opened([b EXCEPT !.events = w], time)
             /\ c = Recorded(g, b, ok, time)
  BY <1>3 DEF Recorded
<1>5. PICK c : /\ \/ c = b \/ c = ClosedBreaker
                  \/ c = [b EXCEPT !.probes = n]
                  \/ c = Opened([b EXCEPT !.probes = n], time)
                  \/ \E w : c = [b EXCEPT !.events = w] \/ c = Opened([b EXCEPT !.events = w], time)
               /\ c = Recorded(g, b, ok, time)
  BY <1>4
<1>6. c.state \in Breakers /\ "state" \in DOMAIN c
  <2>1. CASE c = b \/ c = ClosedBreaker \/ c = [b EXCEPT !.probes = n]
    BY <1>1, <1>2, <2>1 DEF Breakers
  <2>2. CASE c = Opened([b EXCEPT !.probes = n], time)
    <3>1. PICK d : d = [b EXCEPT !.probes = n]
      OBVIOUS
    <3> QED
      BY <1>1, <2>2, <3>1 DEF Breakers
  <2>3. CASE \E w : c = [b EXCEPT !.events = w] \/ c = Opened([b EXCEPT !.events = w], time)
    <3>1. PICK w : c = [b EXCEPT !.events = w] \/ c = Opened([b EXCEPT !.events = w], time)
      BY <2>3
    <3>2. PICK d : d = [b EXCEPT !.events = w]
      OBVIOUS
    <3> QED
      BY <1>1, <3>1, <3>2 DEF Breakers
  <2> QED
    BY <1>5, <2>1, <2>2, <2>3
<1>7. Cooled(g, b, time).state \in Breakers /\ "state" \in DOMAIN Cooled(g, b, time)
  BY <1>1 DEF Cooled, Breakers
<1> QED
  BY <1>5, <1>6, <1>7

\* A call that returns leaves its slot.
LEMMA ReturnsMeans ==
  ASSUME UpOK, Counted, Entered, NEW j \in DOMAIN up.active, Returns(j)
  PROVE  /\ UpOK' /\ Counted' /\ up'.queue = up.queue /\ up'.active = RemoveAt(up.active, j)
         /\ up.active[j].entry \in Entries /\ up.active[j].entry.req \in DOMAIN rq
         /\ \A m \in DOMAIN up'.active : up'.active[m].entry.req \in DOMAIN rq
<1>1. /\ up = [queue |-> up.queue, active |-> up.active]
      /\ up.queue \in Seq(Entries) /\ up.active \in Seq([entry : Entries, finish : Nat])
      /\ sem = [inflight |-> sem.inflight, limit |-> sem.limit] /\ sem.limit \in Nat
      /\ sem.inflight \in Nat
  BY DEF UpOK
<1>2. PICK w : w = RemoveAt(up.active, j)
  OBVIOUS
<1>3. /\ w \in Seq([entry : Entries, finish : Nat]) /\ Len(w) = Len(up.active) - 1
      /\ \A m \in DOMAIN w : \E n \in DOMAIN up.active : w[m] = up.active[n]
  BY <1>1, <1>2, LeftMeans
<1>4. up' = [queue |-> up.queue, active |-> w]
  BY <1>1, <1>2 DEF Returns
<1>5. sem' = [inflight |-> sem.inflight - 1, limit |-> sem.limit]
  BY <1>1 DEF Returns
<1>6. Len(up.queue) \in Nat /\ Len(up.active) \in Nat /\ DOMAIN up.active = 1 .. Len(up.active)
  BY <1>1, <1>3
<1>7. j \in 1 .. Len(up.active)
  BY <1>6
<1>8. sem.inflight - 1 = Len(up.queue) + Len(w) /\ sem.inflight - 1 \in Nat
  <2>1. PICK a \in Nat, b \in Nat : a = Len(up.queue) /\ b = Len(up.active)
    BY <1>6
  <2>2. sem.inflight = a + b /\ Len(w) = b - 1 /\ b # 0
    BY <1>3, <1>6, <1>7, <2>1 DEF Counted
  <2>3. PICK n \in Nat, m \in Nat : n = Len(w) /\ m = sem.inflight
    BY <1>1, <1>3, <2>1, <2>2
  <2>4. m - 1 = a + n /\ m - 1 \in Nat
    BY <2>2, <2>3
  <2> QED
    BY <2>1, <2>3, <2>4
<1>9. UpOK' /\ Counted'
  <2>1. sem' \in [inflight : Nat, limit : Nat]
    BY <1>1, <1>5, <1>8
  <2>2. up' \in [queue : Seq(Entries), active : Seq([entry : Entries, finish : Nat])]
    BY <1>1, <1>3, <1>4
  <2>3. sem'.inflight = Len(up'.queue) + Len(up'.active)
    BY <1>4, <1>5, <1>8
  <2> QED
    BY <2>1, <2>2, <2>3 DEF UpOK, Counted
<1>10. up'.queue = up.queue /\ up'.active = w
  BY <1>4
<1>11. up.active[j].entry \in Entries /\ up.active[j].entry.req \in DOMAIN rq
  <2>1. up.active[j] \in [entry : Entries, finish : Nat]
    BY <1>1, ElementMeans
  <2>2. up.active[j].entry.req \in DOMAIN rq
    BY DEF Entered
  <2> QED
    BY <2>1, <2>2
<1>12. \A m \in DOMAIN w : w[m].entry.req \in DOMAIN rq
  BY <1>3 DEF Entered
<1> QED
  BY <1>2, <1>9, <1>10, <1>11, <1>12

-------------------------------------------------------------------------------
(***************************************************************************)
(* The types and what they rest on: a request behind every entry, a count  *)
(* of the calls, one item per key in each tier.                            *)
(***************************************************************************)
Sane ==
  /\ ClockOK /\ RequestsOK /\ OutcomeOK /\ QueueOK /\ UpOK
  /\ ProtectOK /\ "state" \in DOMAIN breaker
  /\ CacheGood(config, cache) /\ FlightsOK /\ RestOK
  /\ Entered /\ Counted

LEMMA SaneIsTyped == Sane => TypeOK
PROOF BY TypesParted DEF Sane, CacheGood, CacheOK

LEMMA SaneMeans ==
  ASSUME Sane
  PROVE  /\ config \in Configs /\ now \in Nat /\ Len(rq) \in Nat /\ DOMAIN rq = 1 .. Len(rq)
         /\ Len(outcome) = Len(rq) /\ DOMAIN outcome = DOMAIN rq
         /\ config.capacity \in Nat /\ config.duration \in Nat /\ config.budget \in Nat
         /\ queue \in Seq(Entries) /\ Len(queue) \in Nat /\ DOMAIN queue = 1 .. Len(queue)
         /\ sched \in Scheds /\ flights \in Flights
         /\ \A i \in DOMAIN rq : rq[i] \in Requests
<1>1. config \in Configs /\ now \in 0 .. config.duration
  BY DEF Sane, ClockOK
<1>2. config.capacity \in Nat /\ config.duration \in Nat /\ config.budget \in Nat
  BY <1>1, ConfigMeans
<1>3. now \in Nat
  BY <1>1, <1>2
<1>4. rq \in Seq(Requests) /\ outcome \in Seq(Seq(Records)) /\ Len(outcome) = Len(rq)
  BY DEF Sane, RequestsOK, OutcomeOK
<1>5. Len(rq) \in Nat /\ DOMAIN rq = 1 .. Len(rq) /\ DOMAIN outcome = DOMAIN rq
      /\ \A i \in DOMAIN rq : rq[i] \in Requests
  BY <1>4
<1>6. queue \in Seq(Entries) /\ sched \in Scheds /\ flights \in Flights
  BY DEF Sane, QueueOK, FlightsOK
<1>7. Len(queue) \in Nat /\ DOMAIN queue = 1 .. Len(queue)
  BY <1>6
<1> QED
  BY <1>1, <1>2, <1>3, <1>4, <1>5, <1>6, <1>7

\* A request that arrives is answered at once, waits with a leader, or is queued.
Answered(status, by, born) ==
  /\ status \in Statuses /\ by \in Bys /\ born \in Nat /\ Answers(status, by, born)
  /\ born = now \/ \E x : Held(cache, x) /\ x \in Items /\ x.inserted = born /\ x.expires > now

Boards(r) ==
  /\ flights[r.key] # None
  /\ flights' = [flights EXCEPT ![r.key].waiters = @ \cup {Len(rq) + 1}]
  /\ Pending /\ UNCHANGED <<queue, sched, leaders>>

Lines(r) ==
  /\ \E x \in Entries : x.req = Len(rq) + 1 /\ queue' = Append(queue, x)
  /\ Len(queue) < config.capacity /\ Pending /\ sched' \in Scheds
  /\ \/ UNCHANGED <<flights, leaders>>
     \/ /\ flights[r.key] = None
        /\ flights' = [flights EXCEPT ![r.key] = [leader |-> Len(rq) + 1, waiters |-> {}]]
        /\ leaders' = leaders \cup {Len(rq) + 1}

LEMMA ArrivedTyped ==
  ASSUME Sane, NEW p \in Profiles
  PROVE  Arrived(p) \in Requests
<1>1. now \in Nat /\ config.budget \in Nat
  BY SaneMeans
<1>2. p \in [tenant : Tenants, key : Keys, semantic : Semantics, prio : Nat, cost : Nat,
             coalescable : BOOLEAN]
  BY TrafficAssumption
<1> QED
  BY <1>1, <1>2 DEF Arrived, Requests

LEMMA ArriveMeans ==
  ASSUME Sane, NEW p \in Profiles, Arrive(p)
  PROVE  /\ Arrived(p) \in Requests
         /\ \/ \E status, by, born : Answered(status, by, born)
            \/ Boards(Arrived(p)) \/ Lines(Arrived(p))
         /\ CacheGood(config, cache') /\ \A x : Held(cache', x) => Held(cache, x)
         /\ breaker'.state \in Breakers /\ "state" \in DOMAIN breaker'
<1>1. PICK r : r = Arrived(p)
  OBVIOUS
<1>2. r \in Requests
  BY <1>1, ArrivedTyped
<1>3. config \in Configs /\ now \in Nat /\ sched \in Scheds /\ flights \in Flights /\ Len(rq) \in Nat
      /\ CacheGood(config, cache)
  BY SaneMeans DEF Sane
<1>4. \/ IsLimited(r) \/ IsShortCircuited(r) \/ IsServed(r) \/ IsKnownToFail(r) \/ Joins(r)
      \/ IsRefused(r) \/ Overflows(r) \/ Enqueues(r)
  BY <1>1 DEF Arrive
<1>5. PICK d : d = LookedUp(config, cache, r, now)
  OBVIOUS
<1>6. CacheGood(config, d) /\ \A x : Held(d, x) => Held(cache, x)
  BY <1>2, <1>3, <1>5, LookedUpMeans
<1>7. cache' = cache \/ cache' = d
  BY <1>4, <1>5 DEF IsLimited, IsShortCircuited, IsServed, IsKnownToFail, Joins, IsRefused,
                    Overflows, Enqueues, Asks, Misses
<1>8. CacheGood(config, cache') /\ \A x : Held(cache', x) => Held(cache, x)
  BY <1>3, <1>6, <1>7
<1>9. breaker'.state \in Breakers /\ "state" \in DOMAIN breaker'
  <2>1. breaker' = breaker \/ breaker' = Cooled(config, breaker, now)
    BY <1>4 DEF IsLimited, IsShortCircuited, IsServed, IsKnownToFail, Joins, IsRefused,
                Overflows, Enqueues, Asks, Misses, Passes
  <2>2. breaker.state \in Breakers /\ "state" \in DOMAIN breaker
    BY DEF Sane, ProtectOK, Breakers
  <2> QED
    BY <2>1, <2>2, BreakerTyped
<1>10. CASE IsLimited(r) \/ IsShortCircuited(r) \/ IsRefused(r) \/ Overflows(r)
  <2>1. Answers("REJECTED", "upstream", now)
    BY <1>10 DEF IsLimited, IsShortCircuited, IsRefused, Overflows
  <2>2. Answered("REJECTED", "upstream", now)
    BY <1>3, <2>1 DEF Answered, Statuses, Bys
  <2> QED
    BY <1>1, <1>2, <1>8, <1>9, <2>2
<1>11. CASE IsKnownToFail(r)
  <2>1. Answered("FAILED", "cache_l2", now)
    BY <1>3, <1>11 DEF IsKnownToFail, Answered, Statuses, Bys
  <2> QED
    BY <1>1, <1>2, <1>8, <1>9, <2>1
<1>12. CASE IsServed(r)
  <2>1. PICK from, item : from = ServedFrom(config, cache, r, now)
                          /\ item = ServedItem(config, cache, r, now)
    OBVIOUS
  <2>2. from # None /\ Answers("OK", from, item.inserted)
    BY <1>12, <2>1 DEF IsServed, Passes, Hits
  <2>3. from \in Bys /\ item \in Items /\ Held(cache, item) /\ item.expires > now
    BY <1>2, <1>3, <2>1, <2>2, ServedMeans DEF Bys
  <2>4. Answered("OK", from, item.inserted)
    BY <2>2, <2>3 DEF Answered, Statuses, Items
  <2> QED
    BY <1>1, <1>2, <1>8, <1>9, <2>4
<1>13. CASE Joins(r)
  <2>1. Boards(r)
    BY <1>13 DEF Joins, Boards, HasFlight
  <2> QED
    BY <1>1, <1>2, <1>8, <1>9, <2>1
<1>14. CASE Enqueues(r)
  <2>1. PICK x : x = Entry(r, Len(rq) + 1, Degrades(config, r, Wait))
    OBVIOUS
  <2>2. Degrades(config, r, Wait) \in BOOLEAN /\ StartOf(config, sched, r) \in Nat /\ r.prio \in Nat
    <3>1. StartOf(config, sched, r) \in Nat
      BY <1>2, <1>3 DEF StartOf, Most, Scheds, Requests
    <3>2. Degrades(config, r, Wait) \in BOOLEAN /\ r.prio \in Nat
      BY <1>2 DEF Degrades, Requests
    <3> QED
      BY <3>1, <3>2
  <2>3. x \in Entries /\ x.req = Len(rq) + 1
    BY <1>3, <2>1, <2>2 DEF Entry, Entries
  <2>4. Enqueued(config, sched, r) \in Scheds
    BY <1>2, <1>3, <2>3, RetryTyped
  <2>5. /\ queue' = Append(queue, x) /\ Len(queue) < config.capacity /\ Pending
        /\ sched' = Enqueued(config, sched, r) /\ ~HasFlight(r)
        /\ IF config.coalescing /\ r.coalescable
           THEN /\ flights' = [flights EXCEPT ![r.key] = [leader |-> Len(rq) + 1, waiters |-> {}]]
                /\ leaders' = leaders \cup {Len(rq) + 1}
           ELSE UNCHANGED <<flights, leaders>>
    BY <1>14, <2>1 DEF Enqueues, Asks
  <2>6. Lines(r)
    BY <2>3, <2>4, <2>5 DEF Lines, HasFlight
  <2> QED
    BY <1>1, <1>2, <1>8, <1>9, <2>6
<1> QED
  BY <1>4, <1>10, <1>11, <1>12, <1>13, <1>14

LEMMA SaneInit == Init => Sane
<1> SUFFICES ASSUME Init PROVE Sane
  OBVIOUS
<1> USE DEF Init
<1>1. config \in Configs
  OBVIOUS
<1>2. /\ config.duration \in Nat /\ config.requests \in Nat /\ config.capacity \in Nat
      /\ config.concurrency \in Nat /\ config.initial \in Nat /\ config.l1 \in Nat /\ config.l2 \in Nat
      /\ \A b \in Buckets(config) : Limit(config, b).burst \in Nat
  BY <1>1, ConfigMeans
<1>3. ClockOK /\ RequestsOK
  BY <1>1, <1>2 DEF ClockOK, Phases, RequestsOK
<1>4. OutcomeOK
  BY DEF OutcomeOK
<1>5. QueueOK
  BY <1>2 DEF QueueOK, NoService, Scheds
<1>6. UpOK /\ Counted
  BY <1>2 DEF UpOK, Counted
<1>7. ProtectOK /\ "state" \in DOMAIN breaker
  BY <1>2 DEF ProtectOK, ClosedBreaker, FullBudget
<1>8. CacheGood(config, cache)
  BY <1>2 DEF CacheGood, EmptyCache, Caches, OneEach
<1>9. FlightsOK
  BY DEF FlightsOK, Flights
<1>10. RestOK
  BY TrafficAssumption DEF RestOK
<1>11. Entered
  BY DEF Entered
<1> QED
  BY <1>3, <1>4, <1>5, <1>6, <1>7, <1>8, <1>9, <1>10, <1>11 DEF Sane

\* The groups a step leaves alone.
LEMMA Still ==
  ASSUME Sane
  PROVE  /\ UNCHANGED <<config, now>> /\ phase' \in Phases => ClockOK'
         /\ UNCHANGED <<config, rq>> => RequestsOK'
         /\ UNCHANGED <<rq, outcome>> => OutcomeOK'
         /\ UNCHANGED <<config, queue, sched>> => QueueOK'
         /\ UNCHANGED <<sem, up>> => UpOK' /\ Counted'
         /\ UNCHANGED <<config, breaker, budget, tokens>> => ProtectOK' /\ "state" \in DOMAIN breaker'
         /\ UNCHANGED <<config, cache>> => CacheGood(config, cache)'
         /\ UNCHANGED <<flights, leaders>> => FlightsOK'
         /\ UNCHANGED <<swept, fails, scaler>> => RestOK'
         /\ UNCHANGED <<rq, queue, up>> => Entered'
PROOF BY DEF Sane, ClockOK, RequestsOK, OutcomeOK, QueueOK, UpOK, ProtectOK, FlightsOK, RestOK,
             Entered, Counted

LEMMA SaneTick == ASSUME Sane, Tick PROVE Sane'
<1>1. config \in Configs /\ config.duration \in Nat /\ now \in 0 .. config.duration
  BY SaneMeans DEF Sane, ClockOK
<1>2. ClockOK'
  BY <1>1 DEF Tick, ClockOK, Phases
<1>3. ProtectOK' /\ "state" \in DOMAIN breaker'
  <2>1. tokens \in [Buckets(config) -> Nat] /\ tokens' = Refilled(config, tokens)
    BY DEF Sane, ProtectOK, Tick
  <2>2. ASSUME NEW b \in Buckets(config)
        PROVE  tokens'[b] \in Nat /\ tokens'[b] <= Limit(config, b).burst
    <3>1. PICK n \in Nat, m \in Nat : n = Limit(config, b).burst /\ m = tokens[b] + Limit(config, b).rate
      BY <1>1, <2>1, ConfigMeans
    <3>2. tokens'[b] = Least(n, m)
      BY <2>1, <3>1 DEF Refilled
    <3> QED
      BY <3>1, <3>2, Bounds, ZenonT(60)
  <2>3. tokens' \in [Buckets(config) -> Nat]
    BY <2>1, <2>2 DEF Refilled
  <2> QED
    BY <2>2, <2>3 DEF Sane, ProtectOK, Tick
<1> QED
  BY <1>2, <1>3, Still DEF Sane, Tick

LEMMA SaneSucceeds == ASSUME Sane, NEW j \in DOMAIN up.active, Succeeds(j) PROVE Sane'
<1>1. PICK e : e = up.active[j].entry
  OBVIOUS
<1>2. Returns(j)
  BY DEF Succeeds
<1>3. UpOK' /\ Counted' /\ e \in Entries /\ e.req \in DOMAIN rq /\ up'.queue = up.queue
      /\ \A m \in DOMAIN up'.active : up'.active[m].entry.req \in DOMAIN rq
  BY <1>1, <1>2, ReturnsMeans DEF Sane
<1>4. config \in Configs /\ now \in Nat /\ rq[e.req] \in Requests /\ CacheGood(config, cache)
  BY <1>3, SaneMeans DEF Sane
<1>5. PICK status \in Statuses : Finish({e.req}, status, "upstream", now)
  BY <1>1 DEF Succeeds, Statuses
<1>6. OutcomeOK' /\ FlightsOK'
  BY <1>4, <1>5, FinishTyped DEF Sane, Succeeds, Bys
<1>7. CacheGood(config, cache)'
  <2>1. cache' = cache \/ \E ttl \in Ttls : cache' = Stored(config, cache, rq[e.req], ttl, now)
    BY <1>1 DEF Succeeds
  <2>2. \A ttl \in Ttls : ttl \in Nat
    BY TrafficAssumption
  <2>3. CacheGood(config, cache')
    BY <1>4, <2>1, <2>2, StoredMeans
  <2> QED
    BY <2>3 DEF Succeeds
<1>8. ProtectOK' /\ "state" \in DOMAIN breaker'
  <2>1. breaker'.state \in Breakers /\ "state" \in DOMAIN breaker'
    <3>1. /\ breaker' = Recorded(config, breaker, TRUE, now)
          /\ breaker.state \in Breakers /\ "state" \in DOMAIN breaker
      BY DEF Sane, ProtectOK, Breakers, Succeeds
    <3> QED
      BY <3>1, BreakerTyped
  <2>2. budget' \in [tokens : Nat, granted : Nat, successes : Nat]
    BY <1>4, GrantedTyped DEF Sane, ProtectOK, Succeeds
  <2> QED
    BY <2>1, <2>2 DEF Sane, ProtectOK, Succeeds, Breakers
<1>9. Entered'
  BY <1>3 DEF Sane, Entered, Succeeds
<1> QED
  BY <1>3, <1>6, <1>7, <1>8, <1>9, Still DEF Sane, Succeeds, ClockOK

LEMMA SaneBreaks == ASSUME Sane, NEW j \in DOMAIN up.active, Breaks(j) PROVE Sane'
<1>1. PICK e : e = up.active[j].entry
  OBVIOUS
<1>2. Returns(j) /\ Fail(e, queue, sched) /\ UNCHANGED <<config, now, phase, rq, est, tokens, swept, scaler>>
  BY <1>1 DEF Breaks
<1>3. UpOK' /\ Counted' /\ e \in Entries /\ e.req \in DOMAIN rq /\ up'.queue = up.queue
      /\ \A m \in DOMAIN up'.active : up'.active[m].entry.req \in DOMAIN rq
  BY <1>1, <1>2, ReturnsMeans DEF Sane
<1>4. /\ OutcomeOK' /\ FlightsOK' /\ QueueOK'
      /\ \A m \in DOMAIN queue' : queue'[m].req \in DOMAIN rq
      /\ budget' \in [tokens : Nat, granted : Nat, successes : Nat]
      /\ CacheGood(config, cache')
  <2>1. /\ queue \in Seq(Entries) /\ Len(queue) <= config.capacity /\ sched \in Scheds
        /\ \A m \in DOMAIN queue : queue[m].req \in DOMAIN rq
        /\ budget \in [tokens : Nat, granted : Nat, successes : Nat]
        /\ ClockOK /\ RequestsOK /\ OutcomeOK /\ FlightsOK /\ CacheGood(config, cache)
    BY DEF Sane, QueueOK, Entered, ProtectOK
  <2> QED
    BY <1>2, <1>3, <2>1, FailTyped
<1>5. ProtectOK' /\ "state" \in DOMAIN breaker'
  <2>1. /\ breaker' = Recorded(config, breaker, FALSE, now)
        /\ breaker.state \in Breakers /\ "state" \in DOMAIN breaker
    BY DEF Sane, ProtectOK, Breakers, Breaks
  <2>2. breaker'.state \in Breakers /\ "state" \in DOMAIN breaker'
    BY <2>1, BreakerTyped
  <2> QED
    BY <1>2, <1>4, <2>2 DEF Sane, ProtectOK, Breakers
<1>6. RestOK'
  BY TrafficAssumption DEF Sane, RestOK, Breaks
<1>7. Entered'
  BY <1>2, <1>3, <1>4 DEF Sane, Entered
<1>8. ClockOK' /\ RequestsOK' /\ CacheGood(config, cache)'
  BY <1>2, <1>4 DEF Sane, ClockOK, RequestsOK
<1> QED
  BY <1>3, <1>4, <1>5, <1>6, <1>7, <1>8 DEF Sane

LEMMA SaneStarts == ASSUME Sane, UpstreamStarts PROVE Sane'
<1>1. PICK s \in Services :
        up' = [queue |-> Tail(up.queue),
               active |-> Append(up.active, [entry |-> Head(up.queue), finish |-> now + s])]
  BY DEF UpstreamStarts
<1>2. up.queue \in Seq(Entries) /\ up.active \in Seq([entry : Entries, finish : Nat])
      /\ up.queue # <<>> /\ now \in Nat /\ s \in Nat
  BY TrafficAssumption, SaneMeans DEF Sane, UpOK, UpstreamStarts, CanStart
<1>3. PICK t, h : t = Tail(up.queue) /\ h = Head(up.queue)
  OBVIOUS
<1>4. /\ t \in Seq(Entries) /\ Len(t) = Len(up.queue) - 1 /\ h = up.queue[1] /\ h \in Entries
      /\ Len(up.queue) \in Nat \ {0}
      /\ \A m \in 1 .. Len(up.queue) - 1 : t[m] = up.queue[m + 1]
  BY <1>2, <1>3, TailMeans
<1>5. PICK call : call = [entry |-> h, finish |-> now + s]
  OBVIOUS
<1>6. call \in [entry : Entries, finish : Nat] /\ call.entry = h
  BY <1>2, <1>4, <1>5
<1>7. PICK a : a = Append(up.active, call)
  OBVIOUS
<1>8. /\ a \in Seq([entry : Entries, finish : Nat]) /\ Len(a) = Len(up.active) + 1
      /\ DOMAIN a = 1 .. Len(up.active) + 1 /\ Len(up.active) \in Nat
      /\ \A m \in 1 .. Len(up.active) : a[m] = up.active[m]
      /\ a[Len(up.active) + 1] = call
  BY <1>2, <1>6, <1>7, AppendMeans
<1>9. up' = [queue |-> t, active |-> a]
  BY <1>1, <1>3, <1>5, <1>7
<1>10. UpOK'
  BY <1>4, <1>8, <1>9 DEF Sane, UpOK, UpstreamStarts
<1>11. Counted'
  <2>1. sem' = sem /\ sem.inflight = Len(up.queue) + Len(up.active)
    BY DEF Sane, Counted, UpstreamStarts
  <2>2. Len(t) + Len(a) = Len(up.queue) + Len(up.active)
    <3>1. PICK m \in Nat, n \in Nat : m = Len(up.queue) /\ n = Len(up.active)
      BY <1>4, <1>8
    <3>2. Len(t) = m - 1 /\ Len(a) = n + 1
      BY <1>4, <1>8, <3>1
    <3>3. PICK k \in Nat, l \in Nat : k = Len(t) /\ l = Len(a)
      BY <1>4, <1>8
    <3>4. k = m - 1 /\ l = n + 1
      BY <3>2, <3>3
    <3>5. k + l = m + n
      BY <3>4
    <3> QED
      BY <3>1, <3>3, <3>5
  <2> QED
    BY <1>9, <2>1, <2>2 DEF Counted
<1>12. Entered'
  <2>1. DOMAIN up.queue = 1 .. Len(up.queue) /\ DOMAIN up.active = 1 .. Len(up.active)
        /\ DOMAIN t = 1 .. Len(up.queue) - 1
    BY <1>2, <1>4
  <2>2. \A m \in DOMAIN t : t[m].req \in DOMAIN rq
    BY <1>4, <2>1 DEF Sane, Entered
  <2>3. h.req \in DOMAIN rq
    BY <1>4, <2>1 DEF Sane, Entered
  <2>4. \A m \in DOMAIN a : m \in DOMAIN up.active \/ m = Len(up.active) + 1
    BY <1>8, <2>1
  <2>5. \A m \in DOMAIN a : a[m].entry.req \in DOMAIN rq
    BY <1>6, <1>8, <2>1, <2>3, <2>4 DEF Sane, Entered
  <2> QED
    BY <1>9, <2>2, <2>5 DEF Sane, Entered, UpstreamStarts
<1>13. phase' \in Phases
  BY DEF Sane, ClockOK, UpstreamStarts
<1> QED
  BY <1>10, <1>11, <1>12, <1>13, Still DEF Sane, UpstreamStarts

LEMMA SanePhases ==
  ASSUME Sane, UpstreamIsDone \/ NoMoreArrive \/ DispatchIsDone PROVE Sane'
<1>1. /\ phase' \in Phases
      /\ UNCHANGED <<config, now, rq, outcome, queue, sched, sem, up, breaker, budget, est, cache,
                     tokens, flights, leaders, swept, scaler, fails>>
  BY DEF UpstreamIsDone, NoMoreArrive, DispatchIsDone, Phases
<1> QED
  BY <1>1, Still DEF Sane

LEMMA SaneArrive == ASSUME Sane, NEW p \in Profiles, Arrive(p) PROVE Sane'
<1>1. PICK r : r = Arrived(p)
  OBVIOUS
<1>2. r \in Requests /\ (\/ \E status, by, born : Answered(status, by, born)
                         \/ Boards(r) \/ Lines(r))
  BY <1>1, ArriveMeans
<1>3. /\ rq' = Append(rq, r) /\ Len(rq) < config.requests
      /\ UNCHANGED <<config, now, phase, sem, up, budget, swept, scaler, fails>>
  BY <1>1 DEF Arrive
<1>4. rq \in Seq(Requests) /\ outcome \in Seq(Seq(Records)) /\ Len(outcome) = Len(rq)
      /\ config.requests \in Nat /\ now \in Nat /\ config \in Configs
  BY ConfigMeans, SaneMeans DEF Sane, RequestsOK, OutcomeOK
<1>5. /\ rq' \in Seq(Requests) /\ Len(rq') = Len(rq) + 1
      /\ DOMAIN rq' = 1 .. Len(rq) + 1 /\ Len(rq) \in Nat /\ DOMAIN rq = 1 .. Len(rq)
  BY <1>2, <1>3, <1>4, AppendMeans
<1>6. RequestsOK'
  BY <1>3, <1>4, <1>5 DEF RequestsOK
<1>7. OutcomeOK'
  <2>1. ASSUME NEW o \in Seq(Records), outcome' = Append(outcome, o) PROVE OutcomeOK'
    <3>1. outcome' \in Seq(Seq(Records)) /\ Len(outcome') = Len(outcome) + 1
      BY <1>4, <2>1, AppendMeans
    <3> QED
      BY <1>4, <1>5, <3>1 DEF OutcomeOK
  <2>2. ASSUME NEW status, NEW by, NEW born, Answered(status, by, born) PROVE OutcomeOK'
    <3>1. Record(status, by, born) \in Records
      BY <1>4, <2>2 DEF Answered, Record, Records, Bys
    <3>2. <<Record(status, by, born)>> \in Seq(Records)
      BY <3>1
    <3> QED
      BY <2>1, <2>2, <3>2 DEF Answered, Answers
  <2>3. <<>> \in Seq(Records)
    OBVIOUS
  <2> QED
    BY <1>2, <2>1, <2>2, <2>3 DEF Boards, Lines, Pending
<1>8. QueueOK' /\ \A j \in DOMAIN queue' : queue'[j].req \in DOMAIN rq'
  <2>1. CASE UNCHANGED <<queue, sched>>
    <3>1. DOMAIN rq \subseteq DOMAIN rq'
      BY <1>5
    <3> QED
      BY <1>3, <2>1, <3>1 DEF Sane, QueueOK, Entered
  <2>2. CASE Lines(r)
    <3>1. PICK x \in Entries : x.req = Len(rq) + 1 /\ queue' = Append(queue, x)
      BY <2>2 DEF Lines
    <3>2. queue \in Seq(Entries) /\ config.capacity \in Nat /\ Len(queue) \in Nat
          /\ DOMAIN queue = 1 .. Len(queue)
      BY SaneMeans
    <3>3. queue' \in Seq(Entries) /\ Len(queue') = Len(queue) + 1
          /\ DOMAIN queue' = 1 .. Len(queue) + 1
          /\ \A j \in 1 .. Len(queue) : queue'[j] = queue[j]
          /\ queue'[Len(queue) + 1] = x
      BY <3>1, <3>2, AppendMeans
    <3>4. QueueOK'
      BY <1>3, <2>2, <3>2, <3>3 DEF QueueOK, Lines
    <3>5. \A j \in DOMAIN queue : queue[j].req \in 1 .. Len(rq) + 1
      BY <1>5 DEF Sane, Entered
    <3>6. \A j \in DOMAIN queue' : j \in DOMAIN queue \/ j = Len(queue) + 1
      BY <3>2, <3>3
    <3> QED
      BY <1>5, <3>1, <3>2, <3>3, <3>4, <3>5, <3>6
  <2> QED
    BY <1>2, <2>1, <2>2 DEF Answered, Answers, Boards
<1>9. Entered'
  <2>1. DOMAIN rq \subseteq DOMAIN rq'
    BY <1>5
  <2> QED
    BY <1>3, <1>8, <2>1 DEF Sane, Entered
<1>10. FlightsOK'
  <2>1. CASE UNCHANGED <<flights, leaders>>
    BY <2>1 DEF Sane, FlightsOK
  <2>2. r.key \in Keys /\ Len(rq) + 1 \in Nat /\ flights \in Flights /\ leaders \subseteq Nat
    BY <1>2, <1>5 DEF Sane, FlightsOK, Requests
  <2>3. CASE Boards(r)
    <3>1. PICK f : f = flights[r.key]
      OBVIOUS
    <3>2. f \in [leader : Nat, waiters : SUBSET Nat]
      BY <2>2, <2>3, <3>1 DEF Boards, Flights
    <3>3. PICK n \in Nat : n = Len(rq) + 1
      BY <2>2
    <3>4. f = [leader |-> f.leader, waiters |-> f.waiters] /\ f.waiters \cup {n} \in SUBSET Nat
      BY <3>2
    <3>5. [f EXCEPT !.waiters = f.waiters \cup {n}] \in [leader : Nat, waiters : SUBSET Nat]
      BY <3>2, <3>4
    <3>6. flights' = [flights EXCEPT ![r.key] = [f EXCEPT !.waiters = f.waiters \cup {n}]]
      BY <2>2, <2>3, <3>1, <3>3 DEF Boards, Flights
    <3>7. PICK h \in [leader : Nat, waiters : SUBSET Nat] : h = [f EXCEPT !.waiters = f.waiters \cup {n}]
      BY <3>5
    <3>8. flights' = [flights EXCEPT ![r.key] = h]
      BY <3>6, <3>7
    <3>9. flights' \in Flights
      BY <2>2, <3>8 DEF Flights
    <3> QED
      BY <2>2, <2>3, <3>9 DEF FlightsOK, Boards
  <2>4. CASE Lines(r) /\ ~UNCHANGED <<flights, leaders>>
    <3>1. PICK h \in [leader : Nat, waiters : SUBSET Nat] : h = [leader |-> Len(rq) + 1, waiters |-> {}]
      BY <2>2
    <3>2. flights' = [flights EXCEPT ![r.key] = h] /\ leaders' = leaders \cup {Len(rq) + 1}
      BY <2>4, <3>1 DEF Lines
    <3>3. flights' \in Flights
      BY <2>2, <3>2 DEF Flights
    <3> QED
      BY <2>2, <3>2, <3>3 DEF FlightsOK
  <2> QED
    BY <1>2, <2>1, <2>3, <2>4 DEF Answered, Answers
<1>11. ProtectOK' /\ "state" \in DOMAIN breaker'
  <2>1. breaker'.state \in Breakers /\ "state" \in DOMAIN breaker'
    BY ArriveMeans
  <2>2. tokens' = Spent(config, r, tokens) /\ tokens \in [Buckets(config) -> Nat]
        /\ \A b \in Buckets(config) : tokens[b] <= Limit(config, b).burst
    BY <1>1 DEF Arrive, Sane, ProtectOK
  <2>3. ASSUME NEW b \in Buckets(config)
        PROVE  tokens'[b] \in Nat /\ tokens'[b] <= Limit(config, b).burst
    <3>1. PICK n \in Nat, m \in Nat : n = tokens[b] /\ m = Limit(config, b).burst /\ n <= m
      BY <1>4, <2>2, ConfigMeans
    <3>2. tokens'[b] = n \/ tokens'[b] = Most(0, n - 1)
      BY <2>2, <3>1 DEF Spent
    <3>3. Most(0, n - 1) \in Nat /\ Most(0, n - 1) <= n
      BY DEF Most
    <3> QED
      BY <3>1, <3>2, <3>3
  <2>4. tokens' \in [Buckets(config) -> Nat]
    BY <2>2, <2>3 DEF Spent
  <2> QED
    BY <1>3, <2>1, <2>3, <2>4 DEF Sane, ProtectOK, Breakers
<1>12. CacheGood(config, cache)'
  BY <1>3, ArriveMeans
<1>13. phase' \in Phases
  BY <1>3 DEF Sane, ClockOK
<1> QED
  BY <1>3, <1>6, <1>7, <1>8, <1>9, <1>10, <1>11, <1>12, <1>13, Still DEF Sane

LEMMA SaneSweep == ASSUME Sane, Sweep PROVE Sane'
<1>1. /\ phase' \in Phases
      /\ UNCHANGED <<config, now, rq, sched, sem, up, breaker, budget, est, cache, tokens, scaler,
                     fails>>
  BY DEF Sweep, Phases
<1>2. CASE Unfinished /\ UNCHANGED <<queue, swept>>
  BY <1>1, <1>2, Still DEF Sane, Unfinished
<1>3. ASSUME swept' = now,
             NEW keep \in InOrder({j \in DOMAIN queue : ~Expired(queue[j])}),
             queue' = [n \in DOMAIN keep |-> queue[keep[n]]],
             NEW S, Finish(S, "TIMEOUT", "upstream", now)
      PROVE  Sane'
  <2>1. now \in Nat /\ queue \in Seq(Entries) /\ config.capacity \in Nat /\ Len(queue) \in Nat
        /\ Len(queue) <= config.capacity
    BY SaneMeans DEF Sane, QueueOK
  <2>2. OutcomeOK' /\ FlightsOK'
    BY <1>1, <1>3, <2>1, FinishTyped DEF Sane, Statuses, Bys
  <2>3. PICK live \in SUBSET DOMAIN queue : live = {j \in DOMAIN queue : ~Expired(queue[j])}
    OBVIOUS
  <2>4. keep \in InOrder(live)
    BY <2>3
  <2>5. PICK w : w = [n \in DOMAIN keep |-> queue[keep[n]]]
    OBVIOUS
  <2>6. w \in Seq(Entries) /\ Len(w) <= Len(queue) /\ DOMAIN keep = 1 .. Len(w)
        /\ {keep[n] : n \in DOMAIN keep} = live
    BY <2>1, <2>4, <2>5, InOrderMeans
  <2>7. QueueOK'
    <3>1. Len(w) \in Nat
      BY <2>6
    <3> QED
      BY <1>1, <1>3, <2>1, <2>5, <2>6, <3>1 DEF Sane, QueueOK
  <2>8. Entered'
    <3>1. \A n \in DOMAIN w : keep[n] \in DOMAIN queue /\ w[n] = queue[keep[n]]
      BY <2>3, <2>5, <2>6
    <3> QED
      BY <1>1, <1>3, <2>5, <3>1 DEF Sane, Entered
  <2>9. RestOK'
    BY <1>1, <1>3, <2>1 DEF Sane, RestOK
  <2> QED
    BY <1>1, <2>2, <2>7, <2>8, <2>9, Still DEF Sane
<1> QED
  BY <1>2, <1>3 DEF Sweep

LEMMA SaneDispatch == ASSUME Sane, Dispatch PROVE Sane'
<1>1. PICK j \in Best(config, queue, rq, now) :
        LET e == queue[j]
            rest == RemoveAt(queue, j)
            service == Popped(config, sched, e)
        IN \/ /\ Expired(e)
              /\ Finish({e.req}, "TIMEOUT", "upstream", now)
              /\ queue' = rest /\ sched' = service
              /\ UNCHANGED <<sem, up, budget, cache>>
           \/ /\ ~Expired(e) /\ Len(up.queue) >= config.room
              /\ Fail(e, rest, service)
              /\ UNCHANGED <<sem, up>>
           \/ /\ ~Expired(e) /\ Len(up.queue) < config.room
              /\ up' = [up EXCEPT !.queue = Append(@, e)]
              /\ sem' = [sem EXCEPT !.inflight = @ + 1]
              /\ queue' = rest /\ sched' = service
              /\ Unfinished /\ UNCHANGED <<budget, cache>>
  BY DEF Dispatch
<1>2. j \in DOMAIN queue
  BY DEF Best, Candidates
<1>3. PICK e, rest, service : /\ e = queue[j] /\ rest = RemoveAt(queue, j)
                              /\ service = Popped(config, sched, e)
  OBVIOUS
<1>4. /\ config \in Configs /\ now \in Nat /\ queue \in Seq(Entries) /\ sched \in Scheds
      /\ config.capacity \in Nat /\ Len(queue) \in Nat /\ Len(queue) <= config.capacity
      /\ \A i \in DOMAIN rq : rq[i] \in Requests
  BY SaneMeans DEF Sane, QueueOK
<1>5. e \in Entries /\ e.req \in DOMAIN rq /\ rq[e.req] \in Requests
  BY <1>2, <1>3, <1>4, ElementMeans DEF Sane, Entered
<1>6. service \in Scheds
  BY <1>3, <1>4, <1>5, RetryTyped
<1>7. /\ rest \in Seq(Entries) /\ Len(rest) = Len(queue) - 1
      /\ \A n \in DOMAIN rest : \E m \in DOMAIN queue : rest[n] = queue[m]
  BY <1>2, <1>3, <1>4, LeftMeans
<1>8. Len(rest) <= config.capacity /\ \A n \in DOMAIN rest : rest[n].req \in DOMAIN rq
  <2>1. Len(rest) <= config.capacity
    BY <1>4, <1>7
  <2> QED
    BY <1>7, <2>1 DEF Sane, Entered
<1>9. UNCHANGED <<config, now, phase, rq, breaker, est, tokens, swept, scaler, fails>>
  BY DEF Dispatch
<1>10. /\ phase' \in Phases /\ ClockOK' /\ RequestsOK' /\ RestOK'
  BY <1>9 DEF Sane, ClockOK, RequestsOK, RestOK
<1>11. ASSUME queue' = rest, sched' = service PROVE QueueOK'
  BY <1>6, <1>7, <1>8, <1>9, <1>11 DEF QueueOK
<1>12. CASE /\ Finish({e.req}, "TIMEOUT", "upstream", now)
            /\ queue' = rest /\ sched' = service
            /\ UNCHANGED <<sem, up, budget, cache>>
  <2>1. OutcomeOK' /\ FlightsOK'
    BY <1>4, <1>9, <1>12, FinishTyped DEF Sane, Statuses, Bys
  <2>2. Entered'
    BY <1>8, <1>9, <1>12 DEF Sane, Entered
  <2> QED
    BY <1>9, <1>10, <1>11, <1>12, <2>1, <2>2, Still DEF Sane
<1>13. CASE Fail(e, rest, service) /\ UNCHANGED <<sem, up>>
  <2>1. /\ OutcomeOK' /\ FlightsOK' /\ QueueOK'
        /\ \A n \in DOMAIN queue' : queue'[n].req \in DOMAIN rq
        /\ budget' \in [tokens : Nat, granted : Nat, successes : Nat]
        /\ CacheGood(config, cache')
    <3>1. /\ budget \in [tokens : Nat, granted : Nat, successes : Nat]
          /\ ClockOK /\ RequestsOK /\ OutcomeOK /\ FlightsOK /\ CacheGood(config, cache)
      BY DEF Sane, ProtectOK
    <3> QED
      BY <1>5, <1>6, <1>7, <1>8, <1>9, <1>13, <3>1, FailTyped
  <2>2. Entered'
    BY <1>9, <1>13, <2>1 DEF Sane, Entered
  <2>3. ProtectOK' /\ "state" \in DOMAIN breaker'
    BY <1>9, <2>1 DEF Sane, ProtectOK
  <2>4. CacheGood(config, cache)'
    BY <1>9, <2>1
  <2> QED
    BY <1>10, <1>13, <2>1, <2>2, <2>3, <2>4, Still DEF Sane
<1>14. CASE /\ up' = [up EXCEPT !.queue = Append(@, e)]
            /\ sem' = [sem EXCEPT !.inflight = @ + 1]
            /\ queue' = rest /\ sched' = service
            /\ Unfinished /\ UNCHANGED <<budget, cache>>
  <2>1. /\ up.queue \in Seq(Entries) /\ up.active \in Seq([entry : Entries, finish : Nat])
        /\ up = [queue |-> up.queue, active |-> up.active]
        /\ sem = [inflight |-> sem.inflight, limit |-> sem.limit] /\ sem.inflight \in Nat
        /\ sem.limit \in Nat /\ Len(up.queue) \in Nat /\ Len(up.active) \in Nat
    BY DEF Sane, UpOK
  <2>2. PICK w : w = Append(up.queue, e)
    OBVIOUS
  <2>3. /\ w \in Seq(Entries) /\ Len(w) = Len(up.queue) + 1 /\ DOMAIN w = 1 .. Len(up.queue) + 1
        /\ \A m \in 1 .. Len(up.queue) : w[m] = up.queue[m]
        /\ w[Len(up.queue) + 1] = e
    BY <1>5, <2>1, <2>2, AppendMeans
  <2>4. up' = [queue |-> w, active |-> up.active]
        /\ sem' = [inflight |-> sem.inflight + 1, limit |-> sem.limit]
    BY <1>14, <2>1, <2>2
  <2>5. UpOK'
    BY <2>1, <2>3, <2>4 DEF UpOK
  <2>6. Counted'
    <3>1. PICK m \in Nat, n \in Nat, k \in Nat : m = Len(up.queue) /\ n = Len(up.active) /\ k = Len(w)
      BY <2>1, <2>3
    <3>2. sem.inflight = m + n /\ k = m + 1
      BY <2>3, <3>1 DEF Sane, Counted
    <3>3. PICK x \in Nat : x = sem.inflight
      BY <2>1
    <3>4. x = m + n
      BY <3>2, <3>3
    <3>5. x + 1 = k + n
      BY <3>2, <3>4
    <3> QED
      BY <2>4, <3>1, <3>3, <3>5 DEF Counted
  <2>7. Entered'
    <3>1. \A m \in DOMAIN w : m \in DOMAIN up.queue \/ m = Len(up.queue) + 1
      BY <2>1, <2>3
    <3>2. \A m \in DOMAIN w : w[m].req \in DOMAIN rq
      BY <1>5, <2>1, <2>3, <3>1, SMTT(30) DEF Sane, Entered
    <3> QED
      BY <1>8, <1>9, <1>14, <2>4, <3>2 DEF Sane, Entered
  <2> QED
    BY <1>9, <1>10, <1>11, <1>14, <2>5, <2>6, <2>7, Still DEF Sane, Unfinished
<1> QED
  BY <1>1, <1>3, <1>12, <1>13, <1>14

LEMMA SaneScale == ASSUME Sane, Scale PROVE Sane'
<1>1. /\ config.scale_step \in Nat /\ config.scale_delay \in Nat /\ config.concurrency \in Nat
      /\ now \in Nat
  BY ConfigMeans, SaneMeans
<1>2. /\ sem = [inflight |-> sem.inflight, limit |-> sem.limit] /\ sem.inflight \in Nat
      /\ sem.limit \in Nat
      /\ scaler = [pending |-> scaler.pending, until |-> scaler.until, shrunk |-> scaler.shrunk]
      /\ scaler.pending \in Nat \cup {None} /\ scaler.until \in Nat /\ scaler.shrunk \in Nat
  BY DEF Sane, UpOK, RestOK
<1>3. /\ phase' \in Phases
      /\ UNCHANGED <<config, now, rq, outcome, queue, sched, up, breaker, budget, est, cache,
                     tokens, flights, leaders, swept, fails>>
  BY DEF Scale, Phases
<1>4. /\ sem' \in [inflight : Nat, limit : Nat] /\ sem'.inflight = sem.inflight
      /\ scaler' \in [pending : Nat \cup {None}, until : Nat, shrunk : Nat]
  <2>1. CASE UNCHANGED <<sem, scaler>>
    BY <1>2, <2>1
  <2>2. CASE /\ scaler.pending # None /\ sem' = [sem EXCEPT !.limit = scaler.pending]
             /\ scaler' = [scaler EXCEPT !.pending = None]
    <3>1. /\ sem' = [inflight |-> sem.inflight, limit |-> scaler.pending]
          /\ scaler' = [pending |-> None, until |-> scaler.until, shrunk |-> scaler.shrunk]
      BY <1>2, <2>2
    <3> QED
      BY <1>2, <2>2, <3>1
  <2>3. CASE /\ scaler' = [scaler EXCEPT !.pending = sem.limit + config.scale_step,
                                         !.until = now + config.scale_delay]
             /\ UNCHANGED sem
    <3>1. PICK n \in Nat, m \in Nat : n = sem.limit + config.scale_step /\ m = now + config.scale_delay
      BY <1>1, <1>2
    <3>2. scaler' = [pending |-> n, until |-> m, shrunk |-> scaler.shrunk]
      BY <1>2, <2>3, <3>1
    <3> QED
      BY <1>2, <2>3, <3>2
  <2>4. CASE /\ sem' = [sem EXCEPT !.limit = Most(config.concurrency, @ - config.scale_step)]
             /\ scaler' = [scaler EXCEPT !.shrunk = now]
    <3>1. PICK n \in Nat : n = Most(config.concurrency, sem.limit - config.scale_step)
      BY <1>1, <1>2 DEF Most
    <3>2. /\ sem' = [inflight |-> sem.inflight, limit |-> n]
          /\ scaler' = [pending |-> scaler.pending, until |-> scaler.until, shrunk |-> now]
      BY <1>2, <2>4, <3>1
    <3> QED
      BY <1>1, <1>2, <3>2
  <2> QED
    BY <2>1, <2>2, <2>3, <2>4 DEF Scale
<1>5. UpOK' /\ Counted'
  BY <1>3, <1>4 DEF Sane, UpOK, Counted
<1>6. RestOK'
  BY <1>3, <1>4 DEF Sane, RestOK
<1> QED
  BY <1>3, <1>5, <1>6, Still DEF Sane

LEMMA SaneDrain == ASSUME Sane, Drain PROVE Sane'
<1> DEFINE left == {e.req : e \in ToSet(queue) \cup Calls}
           riders == UNION {flights[k].waiters : k \in {x \in Keys : flights[x] # None}}
<1>1. /\ phase' \in Phases /\ queue' = <<>> /\ leaders' = leaders \ left
      /\ flights' = [k \in Keys |-> None]
      /\ outcome' = [i \in DOMAIN outcome |->
                       IF i \in left \cup riders
                       THEN Append(outcome[i], Record("TIMEOUT", "upstream", now)) ELSE outcome[i]]
      /\ UNCHANGED <<config, now, rq, sched, sem, up, breaker, budget, est, cache, tokens, swept,
                     scaler, fails>>
  BY DEF Drain, Phases
<1> HIDE DEF left, riders
<1>2. now \in Nat /\ config.capacity \in Nat
  BY SaneMeans
<1>3. Record("TIMEOUT", "upstream", now) \in Records
  BY <1>2 DEF Record, Records, Statuses
<1>4. DOMAIN outcome = 1 .. Len(outcome) /\ Len(outcome) \in Nat
      /\ \A i \in DOMAIN outcome : outcome[i] \in Seq(Records)
  BY DEF Sane, OutcomeOK
<1>5. \A i \in DOMAIN outcome : Append(outcome[i], Record("TIMEOUT", "upstream", now)) \in Seq(Records)
  BY <1>3, <1>4
<1>6. outcome' \in [1 .. Len(outcome) -> Seq(Records)]
  BY <1>1, <1>4, <1>5
<1>7. OutcomeOK'
  <2>1. outcome' \in Seq(Seq(Records)) /\ Len(outcome') = Len(outcome)
    BY <1>4, <1>6
  <2> QED
    BY <1>1, <2>1 DEF Sane, OutcomeOK
<1>8. QueueOK'
  BY <1>1, <1>2 DEF Sane, QueueOK
<1>9. FlightsOK'
  BY <1>1 DEF Sane, FlightsOK, Flights
<1>10. Entered'
  BY <1>1 DEF Sane, Entered
<1> QED
  BY <1>1, <1>7, <1>8, <1>9, <1>10, Still DEF Sane

LEMMA SaneNext == ASSUME Sane, [Next]_vars PROVE Sane'
<1>1. CASE Tick
  BY <1>1, SaneTick
<1>2. ASSUME NEW j \in DOMAIN up.active, Succeeds(j) \/ Breaks(j) PROVE Sane'
  BY <1>2, SaneSucceeds, SaneBreaks
<1>3. CASE UpstreamStarts
  BY <1>3, SaneStarts
<1>4. CASE UpstreamIsDone \/ NoMoreArrive \/ DispatchIsDone
  BY <1>4, SanePhases
<1>5. ASSUME NEW p \in Profiles, Arrive(p) PROVE Sane'
  BY <1>5, SaneArrive
<1>6. CASE Sweep
  BY <1>6, SaneSweep
<1>7. CASE Dispatch
  BY <1>7, SaneDispatch
<1>8. CASE Scale
  BY <1>8, SaneScale
<1>9. CASE Drain
  BY <1>9, SaneDrain
<1>10. CASE UNCHANGED vars
  <2>1. phase' \in Phases
    BY <1>10 DEF vars, Sane, ClockOK
  <2> QED
    BY <1>10, <2>1, Still DEF Sane, vars
<1> QED
  BY <1>1, <1>2, <1>3, <1>4, <1>5, <1>6, <1>7, <1>8, <1>9, <1>10 DEF Next

\* Type correctness, for every configuration and every workload: the queue,
\* the tiers of the cache and the buckets keep to their sizes, and no counter
\* of the semaphore, of the retry budget or of a bucket goes below zero.
THEOREM TrafficTypeCorrect == Spec => []TypeOK
<1>1. Init => Sane
  BY SaneInit
<1>2. Sane /\ [Next]_vars => Sane'
  BY SaneNext
<1>3. Sane => TypeOK
  BY SaneIsTyped
<1> QED
  BY <1>1, <1>2, <1>3, PTL DEF Spec

-------------------------------------------------------------------------------
(***************************************************************************)
(* The retry budget: what it holds and what it has paid out came from the  *)
(* initial tokens and the successes.                                       *)
(***************************************************************************)
Paid ==
  config.ratio # None =>
    budget.tokens + budget.granted * config.token <= config.initial + config.ratio * budget.successes

LEMMA OneMore ==
  ASSUME NEW a \in Nat, NEW b \in Nat
  PROVE  (a + 1) * b = a * b + b /\ b * (a + 1) = b * a + b /\ a * b \in Nat
PROOF OBVIOUS

LEMMA BudgetMeans ==
  ASSUME Sane, [Next]_vars
  PROVE  \/ budget' = budget
         \/ HasBudget(config, budget) /\ budget' = Granted(config, budget)
         \/ budget' = Succeeded(config, budget)
<1>1. ASSUME NEW j \in DOMAIN up.active, Breaks(j)
      PROVE  budget' = budget \/ (HasBudget(config, budget) /\ budget' = Granted(config, budget))
  <2>1. PICK e : e = up.active[j].entry
    OBVIOUS
  <2>2. Returns(j) /\ Fail(e, queue, sched)
    BY <1>1, <2>1 DEF Breaks
  <2>3. e \in Entries /\ e.req \in DOMAIN rq
    BY <2>1, <2>2, ReturnsMeans DEF Sane
  <2>4. config \in Configs /\ RequestsOK /\ queue \in Seq(Entries) /\ sched \in Scheds
    BY SaneMeans DEF Sane
  <2> QED
    BY <2>2, <2>3, <2>4, FailMeans
<1>2. CASE Dispatch
  <2>1. PICK j \in Best(config, queue, rq, now) :
          \/ UNCHANGED budget
          \/ Fail(queue[j], RemoveAt(queue, j), Popped(config, sched, queue[j]))
    BY <1>2 DEF Dispatch
  <2>2. j \in DOMAIN queue
    BY DEF Best, Candidates
  <2>3. PICK e, rest, service : /\ e = queue[j] /\ rest = RemoveAt(queue, j)
                                /\ service = Popped(config, sched, e)
    OBVIOUS
  <2>4. /\ config \in Configs /\ RequestsOK /\ queue \in Seq(Entries) /\ sched \in Scheds
        /\ \A i \in DOMAIN rq : rq[i] \in Requests
    BY SaneMeans DEF Sane
  <2>5. e \in Entries /\ e.req \in DOMAIN rq /\ rq[e.req] \in Requests
    BY <2>2, <2>3, <2>4, ElementMeans DEF Sane, Entered
  <2>6. rest \in Seq(Entries) /\ service \in Scheds
    BY <2>2, <2>3, <2>4, <2>5, RemoveAtMeans, RetryTyped
  <2>7. UNCHANGED budget \/ Fail(e, rest, service)
    BY <2>1, <2>3
  <2> QED
    BY <2>4, <2>5, <2>6, <2>7, FailMeans
<1>3. ASSUME NEW j \in DOMAIN up.active, Succeeds(j) PROVE budget' = Succeeded(config, budget)
  BY <1>3 DEF Succeeds
<1>4. CASE \/ Tick \/ UpstreamStarts \/ UpstreamIsDone \/ NoMoreArrive \/ Sweep \/ DispatchIsDone
           \/ Scale \/ Drain \/ UNCHANGED vars \/ \E p \in Profiles : Arrive(p)
  BY <1>4 DEF Tick, UpstreamStarts, UpstreamIsDone, NoMoreArrive, Sweep, DispatchIsDone, Scale,
              Drain, vars, Arrive
<1> QED
  BY <1>1, <1>2, <1>3, <1>4 DEF Next

LEMMA PaidNext == ASSUME Sane, Paid, [Next]_vars PROVE Paid'
<1>1. config' = config
  BY DEF Next, vars, Tick, Succeeds, Breaks, UpstreamStarts, UpstreamIsDone, Arrive, NoMoreArrive,
         Sweep, Dispatch, DispatchIsDone, Scale, Drain
<1> SUFFICES ASSUME config.ratio # None
             PROVE  budget'.tokens + budget'.granted * config.token
                      <= config.initial + config.ratio * budget'.successes
  BY <1>1 DEF Paid
<1>2. PICK t \in Nat, n \in Nat, s \in Nat, price \in Nat, first \in Nat, ratio \in Nat, most \in Nat :
        /\ budget = [tokens |-> t, granted |-> n, successes |-> s]
        /\ price = config.token /\ first = config.initial /\ ratio = config.ratio
        /\ most = config.burst
  BY ConfigMeans, SaneMeans DEF Sane, ProtectOK
<1>3. t + n * price <= first + ratio * s
  BY <1>2 DEF Paid
<1>4. CASE budget' = budget
  BY <1>2, <1>3, <1>4
<1>5. CASE HasBudget(config, budget) /\ budget' = Granted(config, budget)
  <2>1. t >= price
    BY <1>2, <1>5 DEF HasBudget
  <2>2. PICK u \in Nat, m \in Nat : u = t - price /\ m = n + 1
    BY <2>1
  <2>3. budget' = [tokens |-> u, granted |-> m, successes |-> s]
    BY <1>2, <1>5, <2>2 DEF Granted
  <2>4. (n + 1) * price = n * price + price /\ n * price \in Nat /\ ratio * s \in Nat
    BY OneMore
  <2>5. u + m * price <= first + ratio * s
    BY <1>3, <2>1, <2>2, <2>4
  <2> QED
    BY <1>2, <2>2, <2>3, <2>5
<1>6. CASE budget' = Succeeded(config, budget)
  <2>1. PICK m \in Nat : m = Least(most, t + ratio) /\ m <= t + ratio
    BY DEF Least
  <2>2. budget' = [tokens |-> m, granted |-> n, successes |-> s + 1]
    BY <1>2, <1>6, <2>1 DEF Succeeded
  <2>3. ratio * (s + 1) = ratio * s + ratio /\ n * price \in Nat /\ ratio * s \in Nat
    BY OneMore
  <2>4. m + n * price <= first + ratio * (s + 1)
    BY <1>3, <2>1, <2>3
  <2> QED
    BY <1>2, <2>2, <2>4
<1> QED
  BY <1>4, <1>5, <1>6, BudgetMeans

\* With a budget, no run of failures is retried beyond what the initial tokens
\* and the successes pay for, the retries that found the queue full included.
THEOREM TrafficRetriesAreBudgeted == Spec => []RetriesAreBudgeted
<1>1. Init => Sane /\ Paid
  <2>1. Init => Sane
    BY SaneInit
  <2>2. ASSUME Init PROVE Paid
    <3>1. config \in Configs
      BY <2>2 DEF Init
    <3>2. config.initial \in Nat /\ config.token \in Nat /\ (config.ratio # None => config.ratio \in Nat)
      BY <3>1, ConfigMeans
    <3>3. budget.tokens = config.initial /\ budget.granted = 0 /\ budget.successes = 0
      BY <2>2 DEF Init, FullBudget
    <3> QED
      BY <3>2, <3>3 DEF Paid
  <2> QED
    BY <2>1, <2>2
<1>2. Sane /\ Paid /\ [Next]_vars => (Sane /\ Paid)'
  BY SaneNext, PaidNext
<1>3. Sane /\ Paid => RetriesAreBudgeted
  <2> SUFFICES ASSUME Sane, Paid, config.ratio # None
               PROVE  budget.granted * config.token <= config.initial + config.ratio * budget.successes
    BY DEF RetriesAreBudgeted
  <2>1. PICK t \in Nat, n \in Nat, s \in Nat, price \in Nat, first \in Nat, ratio \in Nat :
          /\ budget = [tokens |-> t, granted |-> n, successes |-> s]
          /\ price = config.token /\ first = config.initial /\ ratio = config.ratio
    BY ConfigMeans, SaneMeans DEF Sane, ProtectOK
  <2>2. t + n * price <= first + ratio * s
    BY <2>1 DEF Paid
  <2>3. n * price \in Nat /\ ratio * s \in Nat
    BY OneMore
  <2>4. n * price <= first + ratio * s
    BY <2>2, <2>3
  <2> QED
    BY <2>1, <2>4
<1> QED
  BY <1>1, <1>2, <1>3, PTL DEF Spec

-------------------------------------------------------------------------------
(***************************************************************************)
(* The age of answers: what a tier holds keeps the life it was stored with *)
(* through every copy, and an answer is given out of what is still alive.  *)
(***************************************************************************)
Alive(x) == x.inserted <= now /\ \E ttl \in Ttls : x.expires = x.inserted + ttl

FreshCache == \A x : Held(cache, x) => Alive(x)

\* A failed entry comes from upstream or from the queue.
LEMMA FailsFrom ==
  ASSUME Sane
  PROVE  \A e, q, s :
           \/ \E j \in DOMAIN up.active : Breaks(j) /\ e = up.active[j].entry /\ q = queue /\ s = sched
           \/ \E j \in DOMAIN queue : /\ e = queue[j] /\ q = RemoveAt(queue, j)
                                      /\ s = Popped(config, sched, e)
           => e \in Entries /\ e.req \in DOMAIN rq /\ q \in Seq(Entries) /\ s \in Scheds
<1>1. /\ queue \in Seq(Entries) /\ sched \in Scheds /\ config \in Configs
      /\ \A i \in DOMAIN rq : rq[i] \in Requests
  BY SaneMeans
<1>2. ASSUME NEW j \in DOMAIN up.active, Breaks(j)
      PROVE  up.active[j].entry \in Entries /\ up.active[j].entry.req \in DOMAIN rq
  BY <1>2, ReturnsMeans DEF Sane, Breaks
<1>3. ASSUME NEW j \in DOMAIN queue, NEW e, e = queue[j]
      PROVE  /\ e \in Entries /\ e.req \in DOMAIN rq /\ RemoveAt(queue, j) \in Seq(Entries)
             /\ Popped(config, sched, e) \in Scheds
  <2>1. e \in Entries /\ e.req \in DOMAIN rq
    BY <1>1, <1>3, ElementMeans DEF Sane, Entered
  <2>2. Popped(config, sched, e) \in Scheds
    BY <1>1, <2>1, RetryTyped
  <2> QED
    BY <1>1, <2>1, <2>2, RemoveAtMeans
<1> QED
  BY <1>1, <1>2, <1>3

\* How a step ends requests.
LEMMA EndsMeans ==
  ASSUME Sane, [Next]_vars
  PROVE  \/ UNCHANGED outcome
         \/ \E S : \E status \in Statuses : Finish(S, status, "upstream", now)
         \/ Drain
         \/ \E p \in Profiles : Arrive(p)
<1>1. ASSUME NEW e \in Entries, e.req \in DOMAIN rq, NEW q \in Seq(Entries), NEW s \in Scheds,
             Fail(e, q, s)
      PROVE  UNCHANGED outcome \/ \E S : \E status \in Statuses : Finish(S, status, "upstream", now)
  <2>1. config \in Configs /\ RequestsOK
    BY DEF Sane, ClockOK
  <2>2. Unfinished \/ \E status \in {"REJECTED", "FAILED"} : Finish({e.req}, status, "upstream", now)
    BY <1>1, <2>1, FailMeans
  <2> QED
    BY <2>2 DEF Unfinished, Statuses
<1>2. ASSUME NEW j \in DOMAIN up.active, Breaks(j)
      PROVE  UNCHANGED outcome \/ \E S : \E status \in Statuses : Finish(S, status, "upstream", now)
  <2>1. PICK e : e = up.active[j].entry
    OBVIOUS
  <2>2. Fail(e, queue, sched)
    BY <1>2, <2>1 DEF Breaks
  <2>3. e \in Entries /\ e.req \in DOMAIN rq /\ queue \in Seq(Entries) /\ sched \in Scheds
    BY <1>2, <2>1, FailsFrom
  <2> QED
    BY <1>1, <2>2, <2>3
<1>3. CASE Dispatch
  <2>1. PICK j \in Best(config, queue, rq, now) :
          \/ UNCHANGED outcome
          \/ Finish({queue[j].req}, "TIMEOUT", "upstream", now)
          \/ Fail(queue[j], RemoveAt(queue, j), Popped(config, sched, queue[j]))
    BY <1>3 DEF Dispatch, Unfinished
  <2>2. j \in DOMAIN queue
    BY DEF Best, Candidates
  <2>3. PICK e, rest, service : /\ e = queue[j] /\ rest = RemoveAt(queue, j)
                                /\ service = Popped(config, sched, e)
    OBVIOUS
  <2>4. e \in Entries /\ e.req \in DOMAIN rq /\ rest \in Seq(Entries) /\ service \in Scheds
    BY <2>2, <2>3, FailsFrom
  <2>5. UNCHANGED outcome \/ Finish({e.req}, "TIMEOUT", "upstream", now) \/ Fail(e, rest, service)
    BY <2>1, <2>3
  <2> QED
    BY <1>1, <2>4, <2>5 DEF Statuses
<1>4. ASSUME NEW j \in DOMAIN up.active, Succeeds(j)
      PROVE  \E S : \E status \in Statuses : Finish(S, status, "upstream", now)
  BY <1>4 DEF Succeeds, Statuses
<1>5. CASE Sweep
  BY <1>5 DEF Sweep, Unfinished, Statuses
<1>6. CASE \/ Tick \/ UpstreamStarts \/ UpstreamIsDone \/ NoMoreArrive \/ DispatchIsDone \/ Scale
           \/ UNCHANGED vars
  BY <1>6 DEF Tick, UpstreamStarts, UpstreamIsDone, NoMoreArrive, DispatchIsDone, Scale, vars
<1> QED
  BY <1>2, <1>3, <1>4, <1>5, <1>6 DEF Next

\* Time goes on, and what a step puts into the cache is new.
LEMMA KeepsMeans ==
  ASSUME Sane, [Next]_vars
  PROVE  /\ now \in Nat /\ now' \in Nat /\ now <= now'
         /\ \A x : Held(cache', x) =>
              \/ Held(cache, x)
              \/ x.inserted = now /\ \E ttl \in Ttls : x.expires = x.inserted + ttl
<1>1. /\ now \in Nat /\ config \in Configs /\ CacheGood(config, cache)
      /\ \A i \in DOMAIN rq : rq[i] \in Requests
  BY SaneMeans DEF Sane
<1>2. now' = now \/ now' = now + 1
  BY DEF Next, vars, Tick, Succeeds, Breaks, UpstreamStarts, UpstreamIsDone, Arrive, NoMoreArrive,
         Sweep, Dispatch, DispatchIsDone, Scale, Drain
<1>3. ASSUME NEW e \in Entries, e.req \in DOMAIN rq, NEW q \in Seq(Entries), NEW s \in Scheds,
             Fail(e, q, s), NEW x, Held(cache', x)
      PROVE  Held(cache, x)
  <2>1. RequestsOK /\ rq[e.req] \in Requests
    BY <1>1, <1>3 DEF Sane
  <2>2. cache' = cache \/ cache' = StoredNegative(config, cache, rq[e.req], now)
    BY <1>1, <1>3, <2>1, FailMeans
  <2>3. \A y : Held(StoredNegative(config, cache, rq[e.req], now), y) => Held(cache, y)
    BY <1>1, <2>1, NegativeMeans
  <2> QED
    BY <1>3, <2>2, <2>3
<1>4. ASSUME NEW x, Held(cache', x), ~Held(cache, x)
      PROVE  x.inserted = now /\ \E ttl \in Ttls : x.expires = x.inserted + ttl
  <2>1. ASSUME NEW j \in DOMAIN up.active, Succeeds(j)
        PROVE  x.inserted = now /\ \E ttl \in Ttls : x.expires = x.inserted + ttl
    <3>1. PICK r : r = rq[up.active[j].entry.req]
      OBVIOUS
    <3>2. r \in Requests
      BY <1>1, <2>1, <3>1, ReturnsMeans DEF Sane, Succeeds
    <3>3. cache' # cache
      BY <1>4
    <3>4. PICK ttl \in Ttls : cache' = Stored(config, cache, r, ttl, now)
      BY <2>1, <3>1, <3>3 DEF Succeeds
    <3>5. ttl \in Nat
      BY TrafficAssumption
    <3>6. PICK item : item = [key |-> r.key, inserted |-> now, expires |-> now + ttl]
      OBVIOUS
    <3>7. x = item
      BY <1>1, <1>4, <3>2, <3>4, <3>5, <3>6, StoredMeans
    <3> QED
      BY <3>6, <3>7
  <2>2. ASSUME NEW j \in DOMAIN up.active, Breaks(j) PROVE FALSE
    <3>1. PICK e : e = up.active[j].entry
      OBVIOUS
    <3>2. Fail(e, queue, sched)
      BY <2>2, <3>1 DEF Breaks
    <3>3. e \in Entries /\ e.req \in DOMAIN rq /\ queue \in Seq(Entries) /\ sched \in Scheds
      BY <2>2, <3>1, FailsFrom
    <3> QED
      BY <1>3, <1>4, <3>2, <3>3
  <2>3. ~Dispatch
    <3> SUFFICES ASSUME Dispatch PROVE FALSE
      OBVIOUS
    <3>1. PICK j \in Best(config, queue, rq, now) :
            \/ UNCHANGED cache
            \/ Fail(queue[j], RemoveAt(queue, j), Popped(config, sched, queue[j]))
      BY DEF Dispatch
    <3>2. j \in DOMAIN queue
      BY DEF Best, Candidates
    <3>3. PICK e, rest, service : /\ e = queue[j] /\ rest = RemoveAt(queue, j)
                                  /\ service = Popped(config, sched, e)
      OBVIOUS
    <3>4. e \in Entries /\ e.req \in DOMAIN rq /\ rest \in Seq(Entries) /\ service \in Scheds
      BY <3>2, <3>3, FailsFrom
    <3>5. UNCHANGED cache \/ Fail(e, rest, service)
      BY <3>1, <3>3
    <3> QED
      BY <1>3, <1>4, <3>4, <3>5
  <2>4. ASSUME NEW p \in Profiles, Arrive(p) PROVE FALSE
    BY <1>4, <2>4, ArriveMeans
  <2>5. ~ \/ Tick \/ UpstreamStarts \/ UpstreamIsDone \/ NoMoreArrive \/ Sweep \/ DispatchIsDone
          \/ Scale \/ Drain \/ UNCHANGED vars
    BY <1>4 DEF Tick, UpstreamStarts, UpstreamIsDone, NoMoreArrive, Sweep, DispatchIsDone, Scale,
                Drain, vars
  <2> QED
    BY <2>1, <2>2, <2>3, <2>4, <2>5 DEF Next
<1> QED
  BY <1>1, <1>2, <1>4

LEMMA FreshCacheNext == ASSUME Sane, FreshCache, [Next]_vars PROVE FreshCache'
<1> SUFFICES ASSUME NEW x, Held(cache', x)
             PROVE  x.inserted <= now' /\ \E ttl \in Ttls : x.expires = x.inserted + ttl
  BY DEF FreshCache, Alive
<1>1. now \in Nat /\ now' \in Nat /\ now <= now'
  BY KeepsMeans
<1>2. CASE x.inserted = now /\ \E ttl \in Ttls : x.expires = x.inserted + ttl
  BY <1>1, <1>2
<1>3. CASE Held(cache, x)
  <2>1. x.inserted <= now /\ \E ttl \in Ttls : x.expires = x.inserted + ttl
    BY <1>3 DEF FreshCache, Alive
  <2>2. x \in Items
    BY <1>3, ElementMeans DEF Held, Sane, CacheGood, Caches
  <2>3. x.inserted \in Nat
    BY <2>2 DEF Items
  <2> QED
    BY <1>1, <2>1, <2>3
<1> QED
  BY <1>2, <1>3, KeepsMeans

FreshRecord(x) == \E ttl \in Ttls : x.at - x.born < ttl

LEMMA AtOnceIsFresh ==
  ASSUME now \in Nat, NEW status, NEW by
  PROVE  FreshRecord(Record(status, by, now)) /\ FreshRecord(Shared(status, by, now))
<1>1. PICK ttl \in Ttls : ttl \in Nat \ {0}
  BY TrafficAssumption
<1>2. now - now < ttl
  BY <1>1
<1> QED
  BY <1>2 DEF FreshRecord, Record, Shared

LEMMA FreshAnswersNext == ASSUME Sane, FreshCache, AnswersAreFresh, [Next]_vars PROVE AnswersAreFresh'
<1>1. now \in Nat /\ outcome \in Seq(Seq(Records)) /\ Len(outcome) \in Nat
      /\ DOMAIN outcome = 1 .. Len(outcome) /\ \A i \in DOMAIN outcome : outcome[i] \in Seq(Records)
  BY SaneMeans DEF Sane, OutcomeOK
<1>2. \A i \in DOMAIN outcome : \A j \in DOMAIN outcome[i] : FreshRecord(outcome[i][j])
  BY DEF AnswersAreFresh, FreshRecord
<1>3. SUFFICES \A i \in DOMAIN outcome' : \A j \in DOMAIN outcome'[i] : FreshRecord(outcome'[i][j])
  BY DEF AnswersAreFresh, FreshRecord
<1>4. ASSUME NEW i \in DOMAIN outcome, NEW x \in Records, FreshRecord(x)
      PROVE  \A j \in DOMAIN Append(outcome[i], x) : FreshRecord(Append(outcome[i], x)[j])
  <2>1. PICK s \in Seq(Records) : s = outcome[i]
    BY <1>1
  <2>2. \A j \in DOMAIN s : FreshRecord(s[j])
    BY <1>2, <2>1
  <2>3. /\ DOMAIN Append(s, x) = 1 .. Len(s) + 1 /\ Len(s) \in Nat /\ DOMAIN s = 1 .. Len(s)
        /\ \A j \in 1 .. Len(s) : Append(s, x)[j] = s[j]
        /\ Append(s, x)[Len(s) + 1] = x
    BY AppendMeans
  <2>4. \A j \in 1 .. Len(s) + 1 : j \in 1 .. Len(s) \/ j = Len(s) + 1
    BY <2>3
  <2> QED
    BY <1>4, <2>1, <2>2, <2>3, <2>4
<1>5. ASSUME NEW S, NEW status \in Statuses, Finish(S, status, "upstream", now)
      PROVE  \A i \in DOMAIN outcome' : \A j \in DOMAIN outcome'[i] : FreshRecord(outcome'[i][j])
  <2>1. PICK x, y : x = Record(status, "upstream", now) /\ y = Shared(status, "upstream", now)
    OBVIOUS
  <2>2. x \in Records /\ y \in Records /\ FreshRecord(x) /\ FreshRecord(y)
    BY <1>1, <2>1, AtOnceIsFresh DEF Record, Shared, Records
  <2>3. DOMAIN outcome' = DOMAIN outcome
        /\ \A i \in DOMAIN outcome : \/ outcome'[i] = outcome[i]
                                     \/ outcome'[i] = Append(outcome[i], x)
                                     \/ outcome'[i] = Append(outcome[i], y)
    BY <1>5, <2>1 DEF Finish
  <2> QED
    BY <1>2, <1>4, <2>2, <2>3
<1>6. CASE Drain
  <2>1. PICK x : x = Record("TIMEOUT", "upstream", now)
    OBVIOUS
  <2>2. x \in Records /\ FreshRecord(x)
    BY <1>1, <2>1, AtOnceIsFresh DEF Record, Records, Statuses
  <2>3. DOMAIN outcome' = DOMAIN outcome
        /\ \A i \in DOMAIN outcome : outcome'[i] = outcome[i] \/ outcome'[i] = Append(outcome[i], x)
    BY <1>6, <2>1 DEF Drain
  <2> QED
    BY <1>2, <1>4, <2>2, <2>3
<1>7. ASSUME NEW o \in Seq(Records), outcome' = Append(outcome, o), \A j \in DOMAIN o : FreshRecord(o[j])
      PROVE  \A i \in DOMAIN outcome' : \A j \in DOMAIN outcome'[i] : FreshRecord(outcome'[i][j])
  <2>1. /\ DOMAIN outcome' = 1 .. Len(outcome) + 1
        /\ \A i \in 1 .. Len(outcome) : outcome'[i] = outcome[i]
        /\ outcome'[Len(outcome) + 1] = o
    BY <1>1, <1>7, AppendMeans
  <2>2. \A i \in 1 .. Len(outcome) + 1 : i \in 1 .. Len(outcome) \/ i = Len(outcome) + 1
    BY <1>1
  <2> QED
    BY <1>1, <1>2, <1>7, <2>1, <2>2
<1>8. ASSUME NEW p \in Profiles, Arrive(p)
      PROVE  \A i \in DOMAIN outcome' : \A j \in DOMAIN outcome'[i] : FreshRecord(outcome'[i][j])
  <2>1. ASSUME NEW status, NEW by, NEW born, Answered(status, by, born)
        PROVE  \A i \in DOMAIN outcome' : \A j \in DOMAIN outcome'[i] : FreshRecord(outcome'[i][j])
    <3>1. PICK x : x = Record(status, by, born)
      OBVIOUS
    <3>2. x \in Records
      BY <1>1, <2>1, <3>1 DEF Answered, Record, Records, Bys
    <3>3. FreshRecord(x)
      <4>1. CASE born = now
        BY <1>1, <3>1, <4>1, AtOnceIsFresh
      <4>2. CASE born # now
        <5>1. PICK item : Held(cache, item) /\ item \in Items /\ item.inserted = born /\ item.expires > now
          BY <2>1, <4>2 DEF Answered
        <5>2. PICK ttl \in Ttls : item.expires = item.inserted + ttl
          BY <5>1 DEF FreshCache, Alive
        <5>3. born \in Nat /\ ttl \in Nat /\ born + ttl > now
          BY <2>1, <5>1, <5>2, TrafficAssumption DEF Answered
        <5>4. now - born < ttl
          BY <1>1, <5>3
        <5> QED
          BY <3>1, <5>4 DEF FreshRecord, Record
      <4> QED
        BY <4>1, <4>2
    <3>4. outcome' = Append(outcome, <<x>>) /\ <<x>> \in Seq(Records) /\ \A j \in DOMAIN <<x>> : FreshRecord(<<x>>[j])
      BY <2>1, <3>1, <3>2, <3>3 DEF Answered, Answers
    <3> QED
      BY <1>7, <3>4
  <2>2. CASE Pending
    <3>1. outcome' = Append(outcome, <<>>) /\ <<>> \in Seq(Records) /\ \A j \in DOMAIN << >> : FreshRecord(<< >>[j])
      BY <2>2 DEF Pending
    <3> QED
      BY <1>7, <3>1
  <2> QED
    BY <1>8, <2>1, <2>2, ArriveMeans DEF Boards, Lines
<1>9. CASE UNCHANGED outcome
  BY <1>2, <1>9
<1> QED
  BY <1>5, <1>6, <1>8, <1>9, EndsMeans

\* No answer is older, when it is given, than the longest life an item of the
\* cache may have: neither the copy from L2 into L1, nor the index of
\* meanings, nor a rider's share makes it live longer.
THEOREM TrafficAnswersAreFresh == Spec => []AnswersAreFresh
<1>1. Init => Sane /\ FreshCache /\ AnswersAreFresh
  <2>1. Init => Sane
    BY SaneInit
  <2>2. Init => FreshCache
    BY DEF Init, FreshCache, EmptyCache, Held
  <2>3. Init => AnswersAreFresh
    BY DEF Init, AnswersAreFresh
  <2> QED
    BY <2>1, <2>2, <2>3
<1>2. Sane /\ FreshCache /\ AnswersAreFresh /\ [Next]_vars => (Sane /\ FreshCache /\ AnswersAreFresh)'
  BY SaneNext, FreshCacheNext, FreshAnswersNext
<1> QED
  BY <1>1, <1>2, PTL DEF Spec

-------------------------------------------------------------------------------
(***************************************************************************)
(* Where a request is.  While the simulation runs: an entry is in one of   *)
(* three places; a request has an entry, waits with a leader, or has       *)
(* ended; a leader has an entry and leads the flight of its key.           *)
(***************************************************************************)
Has(i) == In(i, queue) \/ In(i, up.queue) \/ In(i, Active)

Ended(i) == outcome[i] # <<>>

Apart ==
  /\ Once(queue) /\ Once(up.queue) /\ Once(Active)
  /\ \A i : /\ ~(In(i, queue) /\ In(i, up.queue)) /\ ~(In(i, queue) /\ In(i, Active))
            /\ ~(In(i, up.queue) /\ In(i, Active))

Settled ==
  \A i \in DOMAIN rq :
    /\ Len(outcome[i]) <= 1 /\ (Has(i) \/ Waits(i) \/ Ended(i))
    /\ ~(Has(i) /\ Waits(i)) /\ ~(Has(i) /\ Ended(i)) /\ ~(Waits(i) /\ Ended(i))

Led ==
  /\ \A k \in Keys : flights[k] # None =>
       /\ \E l \in leaders : l = flights[k].leader /\ rq[l].key = k /\ Has(l)
       /\ \A i \in flights[k].waiters : i \in DOMAIN rq /\ rq[i].key = k
  /\ \A l \in leaders : /\ l \in DOMAIN rq /\ flights[rq[l].key] # None
                        /\ flights[rq[l].key].leader = l

Over ==
  /\ queue = <<>> /\ Once(up.queue) /\ Once(Active)
  /\ \A k \in Keys : flights[k] = None
  /\ \A i \in DOMAIN rq : Len(outcome[i]) = 1

Placed == IF phase = "over" THEN Over ELSE Apart /\ Settled /\ Led

LEMMA ActiveMeans == \A i : In(i, Active) <=> \E j \in DOMAIN up.active : up.active[j].entry.req = i
PROOF BY DEF In, Active

LEMMA PlacedMeans == ASSUME Sane, Placed PROVE OnePlace
<1>1. sem.inflight = Len(up.queue) + Len(up.active)
  BY DEF Sane, Counted
<1>2. \A i \in DOMAIN rq : outcome[i] \in Seq(Records)
  BY DEF Sane, OutcomeOK, RequestsOK
<1>3. CASE phase = "over"
  <2>1. Over
    BY <1>3 DEF Placed
  <2>2. ASSUME NEW i \in DOMAIN rq
        PROVE  \E p \in Places(i) : Places(i) = {p} /\ Len(outcome[i]) <= 1
    <3>1. outcome[i] # <<>> /\ Len(outcome[i]) = 1
      <4>1. Len(outcome[i]) = 1
        BY <2>1 DEF Over
      <4> QED
        BY <4>1
    <3>2. ~In(i, queue) /\ ~Waits(i)
      BY <2>1 DEF Over, In, Waits
    <3>3. Places(i) = {"ended"}
      BY <1>3, <3>1, <3>2 DEF Places
    <3> QED
      BY <3>1, <3>3
  <2>3. Once(queue)
    BY <2>1 DEF Over, Once
  <2> QED
    BY <1>1, <2>1, <2>2, <2>3 DEF OnePlace, Over
<1>4. CASE phase # "over"
  <2>1. Apart /\ Settled /\ Led
    BY <1>4 DEF Placed
  <2>2. ASSUME NEW i \in DOMAIN rq
        PROVE  \E p \in Places(i) : Places(i) = {p} /\ Len(outcome[i]) <= 1
    <3>1. Len(outcome[i]) <= 1
      BY <2>1 DEF Settled
    <3>2. /\ "queue" \in Places(i) <=> In(i, queue)
          /\ "room" \in Places(i) <=> In(i, up.queue)
          /\ "slot" \in Places(i) <=> In(i, Active)
          /\ "leader" \in Places(i) <=> Waits(i)
          /\ "ended" \in Places(i) <=> Ended(i)
          /\ Places(i) \subseteq {"queue", "room", "slot", "leader", "ended"}
      BY <1>4 DEF Places, Ended
    <3>3. /\ Has(i) \/ Waits(i) \/ Ended(i)
          /\ ~(Has(i) /\ Waits(i)) /\ ~(Has(i) /\ Ended(i)) /\ ~(Waits(i) /\ Ended(i))
      BY <2>1 DEF Settled
    <3>4. /\ ~(In(i, queue) /\ In(i, up.queue)) /\ ~(In(i, queue) /\ In(i, Active))
          /\ ~(In(i, up.queue) /\ In(i, Active))
      BY <2>1 DEF Apart
    <3>5. PICK s : s = Places(i)
      OBVIOUS
    <3>6. \E p \in s : s = {p}
      <4>1. CASE In(i, queue)
        <5>1. s = {"queue"}
          BY <3>2, <3>3, <3>4, <3>5, <4>1 DEF Has
        <5> QED
          BY <5>1
      <4>2. CASE In(i, up.queue)
        <5>1. s = {"room"}
          BY <3>2, <3>3, <3>4, <3>5, <4>2 DEF Has
        <5> QED
          BY <5>1
      <4>3. CASE In(i, Active)
        <5>1. s = {"slot"}
          BY <3>2, <3>3, <3>4, <3>5, <4>3 DEF Has
        <5> QED
          BY <5>1
      <4>4. CASE Waits(i)
        <5>1. s = {"leader"}
          BY <3>2, <3>3, <3>5, <4>4 DEF Has
        <5> QED
          BY <5>1
      <4>5. CASE Ended(i)
        <5>1. s = {"ended"}
          BY <3>2, <3>3, <3>5, <4>5 DEF Has
        <5> QED
          BY <5>1
      <4> QED
        BY <3>3, <4>1, <4>2, <4>3, <4>4, <4>5 DEF Has
    <3> QED
      BY <3>1, <3>5, <3>6
  <2>3. \A k \in Keys : flights[k] # None =>
          LET l == flights[k].leader IN l \in leaders /\ rq[l].key = k /\ HasEntry(l)
    BY <1>4, <2>1 DEF Led, Has, HasEntry
  <2> QED
    BY <1>1, <2>1, <2>2, <2>3 DEF OnePlace, Apart
<1> QED
  BY <1>3, <1>4

-------------------------------------------------------------------------------
(***************************************************************************)
(* Entries come and go.                                                    *)
(***************************************************************************)
LEMMA OutMeans ==
  ASSUME NEW s \in Seq(Entries), Once(s), NEW j \in DOMAIN s, NEW w, w = RemoveAt(s, j)
  PROVE  Once(w) /\ \A i : In(i, w) <=> In(i, s) /\ i # s[j].req
<1>1. /\ Len(s) \in Nat /\ DOMAIN w = 1 .. Len(s) - 1 /\ DOMAIN s = 1 .. Len(s) /\ j \in 1 .. Len(s)
      /\ \A n \in DOMAIN w : \E m \in DOMAIN s : /\ m # j /\ w[n] = s[m]
                                                 /\ (m = n \/ m = n + 1) /\ (m = n <=> n < j)
      /\ \A m \in DOMAIN s : m # j => \E n \in DOMAIN w : w[n] = s[m]
  BY LeftMeans
<1>2. Once(w)
  <2> SUFFICES ASSUME NEW a \in DOMAIN w, NEW b \in DOMAIN w, w[a].req = w[b].req PROVE a = b
    BY DEF Once
  <2>1. PICK m \in DOMAIN s : w[a] = s[m] /\ (m = a \/ m = a + 1) /\ (m = a <=> a < j)
    BY <1>1
  <2>2. PICK n \in DOMAIN s : w[b] = s[n] /\ (n = b \/ n = b + 1) /\ (n = b <=> b < j)
    BY <1>1
  <2>3. m = n
    BY <2>1, <2>2 DEF Once
  <2>4. a \in Int /\ b \in Int /\ j \in Int
    BY <1>1
  <2> QED
    BY <2>1, <2>2, <2>3, <2>4
<1>3. ASSUME NEW i, In(i, w) PROVE In(i, s) /\ i # s[j].req
  BY <1>1, <1>3 DEF In, Once
<1>4. ASSUME NEW i, In(i, s), i # s[j].req PROVE In(i, w)
  <2>1. PICK m \in DOMAIN s : s[m].req = i
    BY <1>4 DEF In
  <2> QED
    BY <1>1, <1>4, <2>1 DEF In
<1> QED
  BY <1>2, <1>3, <1>4

LEMMA InMeans ==
  ASSUME NEW s \in Seq(Entries), Once(s), NEW x \in Entries, ~In(x.req, s), NEW w, w = Append(s, x)
  PROVE  Once(w) /\ \A i : In(i, w) <=> In(i, s) \/ i = x.req
<1>1. /\ DOMAIN w = 1 .. Len(s) + 1 /\ Len(s) \in Nat /\ DOMAIN s = 1 .. Len(s)
      /\ \A n \in 1 .. Len(s) : w[n] = s[n]
      /\ w[Len(s) + 1] = x
  BY AppendMeans
<1>2. \A n \in 1 .. Len(s) + 1 : n \in 1 .. Len(s) \/ n = Len(s) + 1
  BY <1>1
<1>3. Len(s) + 1 \in 1 .. Len(s) + 1 /\ \A n \in 1 .. Len(s) : n \in 1 .. Len(s) + 1
  BY <1>1
<1>4. Once(w)
  BY <1>1, <1>2 DEF Once, In
<1>5. \A i : In(i, w) <=> In(i, s) \/ i = x.req
  BY <1>1, <1>2, <1>3 DEF In
<1> QED
  BY <1>4, <1>5

LEMMA KeptMeans ==
  ASSUME NEW s \in Seq(Entries), Once(s), NEW live \in SUBSET DOMAIN s, NEW keep \in InOrder(live),
         NEW w, w = [n \in DOMAIN keep |-> s[keep[n]]]
  PROVE  Once(w) /\ \A i : In(i, w) <=> \E j \in live : s[j].req = i
<1>1. /\ {keep[n] : n \in DOMAIN keep} = live
      /\ \A m, n \in DOMAIN keep : keep[m] = keep[n] => m = n
  BY InOrderMeans
<1>2. DOMAIN w = DOMAIN keep /\ \A n \in DOMAIN keep : w[n] = s[keep[n]] /\ keep[n] \in DOMAIN s
  BY <1>1
<1>3. Once(w)
  BY <1>1, <1>2 DEF Once
<1>4. \A i : In(i, w) <=> \E j \in live : s[j].req = i
  BY <1>1, <1>2 DEF In
<1> QED
  BY <1>3, <1>4

\* The same for the calls upstream has in its slots.
LEMMA ActiveOutMeans ==
  ASSUME Sane, Once(Active), NEW j \in DOMAIN up.active, up'.active = RemoveAt(up.active, j)
  PROVE  Once(Active)' /\ \A i : In(i, Active)' <=> In(i, Active) /\ i # up.active[j].entry.req
<1>1. up.active \in Seq([entry : Entries, finish : Nat])
  BY DEF Sane, UpOK
<1>2. PICK s, w : s = up.active /\ w = up'.active
  OBVIOUS
<1>3. /\ Len(s) \in Nat /\ DOMAIN w = 1 .. Len(s) - 1 /\ DOMAIN s = 1 .. Len(s) /\ j \in 1 .. Len(s)
      /\ \A n \in DOMAIN w : \E m \in DOMAIN s : /\ m # j /\ w[n] = s[m]
                                                 /\ (m = n \/ m = n + 1) /\ (m = n <=> n < j)
      /\ \A m \in DOMAIN s : m # j => \E n \in DOMAIN w : w[n] = s[m]
  BY <1>1, <1>2, LeftMeans
<1>4. \A a, b \in DOMAIN s : s[a].entry.req = s[b].entry.req => a = b
  BY <1>2 DEF Once, Active
<1>5. Once(Active)'
  <2> SUFFICES ASSUME NEW a \in DOMAIN w, NEW b \in DOMAIN w, w[a].entry.req = w[b].entry.req PROVE a = b
    BY <1>2 DEF Once, Active
  <2>1. PICK m \in DOMAIN s : w[a] = s[m] /\ (m = a \/ m = a + 1) /\ (m = a <=> a < j)
    BY <1>3
  <2>2. PICK n \in DOMAIN s : w[b] = s[n] /\ (n = b \/ n = b + 1) /\ (n = b <=> b < j)
    BY <1>3
  <2>3. m = n
    BY <1>4, <2>1, <2>2
  <2>4. a \in Int /\ b \in Int /\ j \in Int
    BY <1>3
  <2> QED
    BY <2>1, <2>2, <2>3, <2>4
<1>6. \A i : In(i, Active) <=> \E n \in DOMAIN s : s[n].entry.req = i
  BY <1>2, ActiveMeans
<1>7. \A i : In(i, Active)' <=> \E n \in DOMAIN w : w[n].entry.req = i
  BY <1>2 DEF In, Active
<1>8. ASSUME NEW i, In(i, Active)' PROVE In(i, Active) /\ i # s[j].entry.req
  BY <1>3, <1>4, <1>6, <1>7, <1>8
<1>9. ASSUME NEW i, In(i, Active), i # s[j].entry.req PROVE In(i, Active)'
  BY <1>3, <1>6, <1>7, <1>9
<1> QED
  BY <1>2, <1>5, <1>8, <1>9

LEMMA HasMeans == ASSUME Sane, NEW i, Has(i) PROVE i \in DOMAIN rq
PROOF BY ActiveMeans DEF Sane, Entered, Has, In

\* _finish() of requests that have entries: they end, and with them those
\* who wait for a leader among them, and nobody else.
LEMMA FinishMeans ==
  ASSUME Sane, Settled, Led, NEW S, \A i \in S : Has(i), UNCHANGED rq,
         NEW status, NEW by, NEW born, Finish(S, status, by, born),
         \A i : Has(i)' <=> Has(i) /\ i \notin S
  PROVE  Settled' /\ Led'
<1> DEFINE Rides(i) == \E l \in S : i \in Riders(l)
           Closed(k) == \E i \in S \cap leaders : rq[i].key = k
<1>1. /\ DOMAIN outcome = DOMAIN rq /\ \A i \in DOMAIN rq : rq[i] \in Requests
      /\ \A i \in DOMAIN rq : outcome[i] \in Seq(Records)
      /\ \A i \in DOMAIN rq : rq[i].key \in Keys
  BY SaneMeans DEF Sane, OutcomeOK, Requests
<1>2. \A i \in S : i \in DOMAIN rq /\ ~Waits(i) /\ ~Ended(i)
  BY HasMeans DEF Settled
<1>3. \A l \in leaders : /\ l \in DOMAIN rq /\ flights[rq[l].key] # None
                         /\ flights[rq[l].key].leader = l
  BY DEF Led
<1>4. \A k \in Keys : flights[k] # None =>
        /\ \E l \in leaders : l = flights[k].leader /\ rq[l].key = k /\ Has(l)
        /\ \A i \in flights[k].waiters : i \in DOMAIN rq /\ rq[i].key = k
  BY DEF Led
<1>5. \A i : Rides(i) <=> \E l \in S \cap leaders : i \in flights[rq[l].key].waiters
  BY DEF Riders
<1>6. \A i : Rides(i) => Waits(i) /\ i \in DOMAIN rq
  BY <1>1, <1>3, <1>4, <1>5 DEF Waits
<1>7. /\ \A k \in Keys : flights'[k] = IF Closed(k) THEN None ELSE flights[k]
      /\ leaders' = leaders \ S
  BY DEF Finish
<1>8. \A k \in Keys : Closed(k) => flights[k] # None /\ flights[k].leader \in S
  BY <1>3
<1> HIDE DEF Rides
<1>9. ASSUME NEW i PROVE Waits(i)' <=> Waits(i) /\ ~Rides(i)
  <2>1. ASSUME Waits(i)' PROVE Waits(i) /\ ~Rides(i)
    <3>1. PICK k \in Keys : flights'[k] # None /\ i \in flights'[k].waiters
      BY <2>1 DEF Waits
    <3>2. ~Closed(k) /\ flights[k] # None /\ i \in flights[k].waiters
      BY <1>7, <3>1
    <3>3. ~Rides(i)
      <4> SUFFICES ASSUME Rides(i) PROVE FALSE
        OBVIOUS
      <4>1. PICK l \in S \cap leaders : i \in flights[rq[l].key].waiters
        BY <1>5
      <4>2. rq[i].key = rq[l].key /\ rq[i].key = k
        BY <1>1, <1>3, <1>4, <3>2, <4>1
      <4> QED
        BY <3>2, <4>1, <4>2
    <3> QED
      BY <3>2, <3>3 DEF Waits
  <2>2. ASSUME Waits(i), ~Rides(i) PROVE Waits(i)'
    <3>1. PICK k \in Keys : flights[k] # None /\ i \in flights[k].waiters
      BY <2>2 DEF Waits
    <3>2. ~Closed(k)
      BY <1>5, <2>2, <3>1
    <3>3. flights'[k] = flights[k]
      BY <1>7, <3>2
    <3> QED
      BY <3>1, <3>3 DEF Waits
  <2> QED
    BY <2>1, <2>2
<1>10. ASSUME NEW i \in DOMAIN rq
       PROVE  /\ i \in S \/ Rides(i) => \E x : outcome'[i] = Append(outcome[i], x)
              /\ ~(i \in S \/ Rides(i)) => outcome'[i] = outcome[i]
  BY <1>1 DEF Finish, Rides
<1>11. ASSUME NEW i \in DOMAIN rq, i \in S \/ Rides(i)
       PROVE  Len(outcome'[i]) = 1 /\ Ended(i)' /\ ~Waits(i)' /\ ~Has(i)'
  <2>1. outcome[i] = <<>>
    BY <1>2, <1>6, <1>11 DEF Settled, Ended
  <2>2. PICK x : outcome'[i] = <<x>>
    BY <1>10, <1>11, <2>1
  <2>3. Len(outcome'[i]) = 1 /\ outcome'[i] # <<>>
    BY <2>2
  <2>4. ~Waits(i)'
    BY <1>2, <1>9, <1>11
  <2>5. ~Has(i)'
    BY <1>6, <1>11 DEF Settled
  <2> QED
    BY <2>3, <2>4, <2>5 DEF Ended
<1>12. Settled'
  <2> SUFFICES ASSUME NEW i \in DOMAIN rq
               PROVE  /\ Len(outcome'[i]) <= 1 /\ (Has(i)' \/ Waits(i)' \/ Ended(i)')
                      /\ ~(Has(i)' /\ Waits(i)') /\ ~(Has(i)' /\ Ended(i)')
                      /\ ~(Waits(i)' /\ Ended(i)')
    BY DEF Settled
  <2>1. CASE i \in S \/ Rides(i)
    <3>1. Len(outcome'[i]) = 1 /\ Ended(i)' /\ ~Waits(i)' /\ ~Has(i)'
      BY <1>11, <2>1
    <3>2. Len(outcome'[i]) <= 1
      BY <3>1
    <3> QED
      BY <3>1, <3>2
  <2>2. CASE ~(i \in S \/ Rides(i))
    <3>1. outcome'[i] = outcome[i] /\ (Waits(i)' <=> Waits(i)) /\ (Has(i)' <=> Has(i))
      BY <1>9, <1>10, <2>2
    <3>2. Ended(i)' <=> Ended(i)
      BY <3>1 DEF Ended
    <3> QED
      BY <3>1, <3>2 DEF Settled
  <2> QED
    BY <2>1, <2>2
<1>13. ASSUME NEW k \in Keys, flights'[k] # None
       PROVE  /\ \E l \in leaders' : l = flights'[k].leader /\ rq[l].key = k /\ Has(l)'
              /\ \A i \in flights'[k].waiters : i \in DOMAIN rq /\ rq[i].key = k
  <2>1. ~Closed(k) /\ flights'[k] = flights[k]
    BY <1>7, <1>13
  <2>2. PICK l \in leaders : l = flights[k].leader /\ rq[l].key = k /\ Has(l)
    BY <1>4, <1>13, <2>1
  <2>3. \A i \in flights[k].waiters : i \in DOMAIN rq /\ rq[i].key = k
    BY <1>4, <1>13, <2>1
  <2>4. l \notin S
    BY <2>1, <2>2
  <2>5. l \in leaders' /\ Has(l)'
    BY <1>7, <2>2, <2>4
  <2> QED
    BY <2>1, <2>2, <2>3, <2>5
<1>14. ASSUME NEW l \in leaders'
       PROVE  l \in DOMAIN rq /\ flights'[rq[l].key] # None /\ flights'[rq[l].key].leader = l
  <2>1. l \in leaders /\ l \notin S /\ l \in DOMAIN rq /\ rq[l].key \in Keys
        /\ flights[rq[l].key] # None /\ flights[rq[l].key].leader = l
    BY <1>1, <1>3, <1>7
  <2>2. ~Closed(rq[l].key)
    BY <1>8, <2>1
  <2> QED
    BY <1>7, <2>1, <2>2
<1>15. Led'
  BY <1>13, <1>14 DEF Led
<1> QED
  BY <1>12, <1>15

\* A step that ends nobody and takes no entry away.
LEMMA MovesMeans ==
  ASSUME Settled, Led, UNCHANGED <<rq, outcome, flights, leaders>>, \A i : Has(i)' <=> Has(i)
  PROVE  Settled' /\ Led'
<1>1. \A i : (Waits(i)' <=> Waits(i)) /\ (Ended(i)' <=> Ended(i))
  BY DEF Waits, Ended
<1>2. Settled'
  BY <1>1 DEF Settled
<1>3. Led'
  BY DEF Led
<1> QED
  BY <1>2, <1>3

LEMMA ActiveInMeans ==
  ASSUME Sane, Once(Active), NEW call \in [entry : Entries, finish : Nat],
         ~In(call.entry.req, Active), up'.active = Append(up.active, call)
  PROVE  Once(Active)' /\ \A i : In(i, Active)' <=> In(i, Active) \/ i = call.entry.req
<1>1. up.active \in Seq([entry : Entries, finish : Nat])
  BY DEF Sane, UpOK
<1>2. PICK s, w : s = up.active /\ w = up'.active
  OBVIOUS
<1>3. /\ DOMAIN w = 1 .. Len(s) + 1 /\ Len(s) \in Nat /\ DOMAIN s = 1 .. Len(s)
      /\ \A n \in 1 .. Len(s) : w[n] = s[n]
      /\ w[Len(s) + 1] = call
  BY <1>1, <1>2, AppendMeans
<1>4. /\ \A n \in 1 .. Len(s) + 1 : n \in 1 .. Len(s) \/ n = Len(s) + 1
      /\ Len(s) + 1 \in 1 .. Len(s) + 1 /\ \A n \in 1 .. Len(s) : n \in 1 .. Len(s) + 1
  BY <1>3
<1>5. \A a, b \in DOMAIN s : s[a].entry.req = s[b].entry.req => a = b
  BY <1>2 DEF Once, Active
<1>6. \A i : In(i, Active) <=> \E n \in DOMAIN s : s[n].entry.req = i
  BY <1>2, ActiveMeans
<1>7. \A i : In(i, Active)' <=> \E n \in DOMAIN w : w[n].entry.req = i
  BY <1>2 DEF In, Active
<1>8. \A a, b \in DOMAIN w : w[a].entry.req = w[b].entry.req => a = b
  BY <1>3, <1>4, <1>5, <1>6
<1>9. Once(Active)'
  BY <1>2, <1>8 DEF Once, Active
<1>10. \A i : In(i, Active)' <=> In(i, Active) \/ i = call.entry.req
  BY <1>3, <1>4, <1>6, <1>7
<1> QED
  BY <1>9, <1>10

LEMMA HeadOutMeans ==
  ASSUME NEW s \in Seq(Entries), Once(s), s # <<>>, NEW w, w = Tail(s)
  PROVE  /\ Once(w) /\ \A i : In(i, w) <=> In(i, s) /\ i # Head(s).req
         /\ In(Head(s).req, s) /\ Head(s) \in Entries
<1>1. /\ w \in Seq(Entries) /\ Len(w) = Len(s) - 1 /\ Head(s) = s[1] /\ Head(s) \in Entries
      /\ Len(s) \in Nat \ {0}
      /\ \A j \in 1 .. Len(s) - 1 : w[j] = s[j + 1]
  BY TailMeans
<1>2. DOMAIN s = 1 .. Len(s) /\ DOMAIN w = 1 .. Len(s) - 1 /\ 1 \in DOMAIN s
  BY <1>1
<1>3. \A j \in DOMAIN w : j + 1 \in DOMAIN s /\ j + 1 # 1 /\ w[j] = s[j + 1]
  BY <1>1, <1>2
<1>4. \A m \in DOMAIN s : m # 1 => \E j \in DOMAIN w : j + 1 = m
  <2> SUFFICES ASSUME NEW m \in DOMAIN s, m # 1 PROVE \E j \in DOMAIN w : j + 1 = m
    OBVIOUS
  <2>1. m - 1 \in 1 .. Len(s) - 1 /\ (m - 1) + 1 = m
    BY <1>1, <1>2
  <2> QED
    BY <1>2, <2>1
<1>5. Once(w)
  <2> SUFFICES ASSUME NEW a \in DOMAIN w, NEW b \in DOMAIN w, w[a].req = w[b].req PROVE a = b
    BY DEF Once
  <2>1. a + 1 = b + 1
    BY <1>3 DEF Once
  <2>2. a \in Int /\ b \in Int
    BY <1>1, <1>2
  <2> QED
    BY <2>1, <2>2
<1>6. ASSUME NEW i, In(i, w) PROVE In(i, s) /\ i # Head(s).req
  BY <1>1, <1>2, <1>3, <1>6 DEF In, Once
<1>7. ASSUME NEW i, In(i, s), i # Head(s).req PROVE In(i, w)
  <2>1. PICK m \in DOMAIN s : s[m].req = i /\ m # 1
    BY <1>1, <1>7 DEF In
  <2>2. PICK j \in DOMAIN w : j + 1 = m
    BY <1>4, <2>1
  <2> QED
    BY <1>3, <2>1, <2>2 DEF In
<1>8. In(Head(s).req, s)
  BY <1>1, <1>2 DEF In
<1> QED
  BY <1>1, <1>5, <1>6, <1>7, <1>8

-------------------------------------------------------------------------------
(***************************************************************************)
(* Every step leaves each request in one place.                            *)
(***************************************************************************)
LEMMA PlacedStays ==
  ASSUME Placed, UNCHANGED <<rq, outcome, queue, up, flights, leaders>>,
         phase' = "over" <=> phase = "over"
  PROVE  Placed'
<1>1. Active' = Active
  BY DEF Active
<1>2. \A i : (Has(i)' <=> Has(i))
  BY <1>1 DEF Has
<1>3. CASE phase = "over"
  BY <1>1, <1>3 DEF Placed, Over
<1>4. CASE phase # "over"
  <2>1. Apart /\ Settled /\ Led
    BY <1>4 DEF Placed
  <2>2. Settled' /\ Led'
    BY <1>2, <2>1, MovesMeans
  <2>3. Apart'
    BY <1>1, <2>1 DEF Apart
  <2> QED
    BY <1>4, <2>2, <2>3 DEF Placed
<1> QED
  BY <1>3, <1>4

LEMMA PlacedStarts == ASSUME Sane, Placed, UpstreamStarts PROVE Placed'
<1>1. Apart /\ Settled /\ Led
  BY DEF Placed, UpstreamStarts
<1>2. PICK s \in Services :
        up' = [queue |-> Tail(up.queue),
               active |-> Append(up.active, [entry |-> Head(up.queue), finish |-> now + s])]
  BY DEF UpstreamStarts
<1>3. up.queue \in Seq(Entries) /\ up.queue # <<>> /\ now \in Nat /\ s \in Nat
  BY TrafficAssumption, SaneMeans DEF Sane, UpOK, UpstreamStarts, CanStart
<1>4. PICK t, h : t = Tail(up.queue) /\ h = Head(up.queue)
  OBVIOUS
<1>5. /\ Once(t) /\ \A i : In(i, t) <=> In(i, up.queue) /\ i # h.req
      /\ In(h.req, up.queue) /\ h \in Entries
  BY <1>1, <1>3, <1>4, HeadOutMeans DEF Apart
<1>6. PICK call : call = [entry |-> h, finish |-> now + s]
  OBVIOUS
<1>7. call \in [entry : Entries, finish : Nat] /\ call.entry = h
  BY <1>3, <1>5, <1>6
<1>8. up'.active = Append(up.active, call) /\ up'.queue = t /\ queue' = queue
  BY <1>2, <1>4, <1>6 DEF UpstreamStarts
<1>9. ~In(h.req, Active) /\ ~In(h.req, queue)
  BY <1>1, <1>5 DEF Apart
<1>10. Once(Active)' /\ \A i : In(i, Active)' <=> In(i, Active) \/ i = h.req
  BY <1>1, <1>7, <1>8, <1>9, ActiveInMeans DEF Apart
<1>11. \A i : Has(i)' <=> Has(i)
  BY <1>5, <1>8, <1>10 DEF Has
<1>12. Apart'
  BY <1>1, <1>5, <1>8, <1>9, <1>10 DEF Apart
<1>13. Settled' /\ Led'
  BY <1>1, <1>11, MovesMeans DEF UpstreamStarts
<1>14. phase' # "over"
  BY DEF UpstreamStarts
<1> QED
  BY <1>12, <1>13, <1>14 DEF Placed

\* Entries leave and their requests end.
LEMMA PlacedEnds ==
  ASSUME Sane, Settled, Led, UNCHANGED rq, phase' # "over", NEW S, \A i \in S : Has(i),
         NEW status, NEW by, NEW born, Finish(S, status, by, born),
         Once(queue'), Once(up'.queue), Once(Active)',
         \A i : /\ ~(In(i, queue') /\ In(i, up'.queue)) /\ ~(In(i, queue') /\ In(i, Active)')
                /\ ~(In(i, up'.queue) /\ In(i, Active)'),
         \A i : In(i, queue') \/ In(i, up'.queue) \/ In(i, Active)' <=> Has(i) /\ i \notin S
  PROVE  Placed'
<1>1. Apart'
  BY DEF Apart
<1>2. \A i : Has(i)' <=> Has(i) /\ i \notin S
  BY DEF Has
<1>3. Settled' /\ Led'
  BY <1>2, FinishMeans
<1> QED
  BY <1>1, <1>3 DEF Placed

\* An entry fails that has left its place: it is queued again, or it ends.
LEMMA PlacedFails ==
  ASSUME Sane, Settled, Led, UNCHANGED rq, phase' # "over",
         NEW e \in Entries, Has(e.req), NEW q \in Seq(Entries), NEW s \in Scheds, Fail(e, q, s),
         Once(q), Once(up'.queue), Once(Active)',
         \A i : /\ ~(In(i, q) /\ In(i, up'.queue)) /\ ~(In(i, q) /\ In(i, Active)')
                /\ ~(In(i, up'.queue) /\ In(i, Active)'),
         \A i : In(i, q) \/ In(i, up'.queue) \/ In(i, Active)' <=> Has(i) /\ i # e.req
  PROVE  Placed'
<1>1. config \in Configs /\ RequestsOK /\ e.req \in DOMAIN rq
  BY HasMeans DEF Sane, ClockOK
<1>2. ASSUME NEW x \in Entries, x.req = e.req, queue' = Append(q, x), Unfinished PROVE Placed'
  <2>1. PICK w : w = queue'
    OBVIOUS
  <2>2. ~In(x.req, q) /\ ~In(x.req, up'.queue) /\ ~In(x.req, Active)'
    BY <1>2
  <2>3. Once(w) /\ \A i : In(i, w) <=> In(i, q) \/ i = x.req
    BY <1>2, <2>1, <2>2, InMeans
  <2>4. Apart'
    BY <2>1, <2>2, <2>3 DEF Apart
  <2>5. \A i : Has(i)' <=> Has(i)
    BY <1>2, <2>1, <2>3 DEF Has
  <2>6. Settled' /\ Led'
    BY <1>2, <2>5, MovesMeans DEF Unfinished
  <2> QED
    BY <2>4, <2>6 DEF Placed
<1>3. ASSUME queue' = q, NEW status, Finish({e.req}, status, "upstream", now) PROVE Placed'
  <2>1. \A i \in {e.req} : Has(i)
    OBVIOUS
  <2>2. \A i : In(i, queue') \/ In(i, up'.queue) \/ In(i, Active)' <=> Has(i) /\ i \notin {e.req}
    BY <1>3
  <2> QED
    BY <1>3, <2>1, <2>2, PlacedEnds
<1> QED
  BY <1>1, <1>2, <1>3, FailMeans

LEMMA PlacedReturns ==
  ASSUME Sane, Placed, NEW j \in DOMAIN up.active, Succeeds(j) \/ Breaks(j)
  PROVE  Placed'
<1>1. PICK e : e = up.active[j].entry
  OBVIOUS
<1>2. Returns(j) /\ UNCHANGED <<rq, phase>> /\ phase # "over"
  BY DEF Succeeds, Breaks, Returns
<1>3. Apart /\ Settled /\ Led
  BY <1>2 DEF Placed
<1>4. e \in Entries /\ up'.queue = up.queue /\ up'.active = RemoveAt(up.active, j)
  BY <1>1, <1>2, ReturnsMeans DEF Sane
<1>5. Once(Active)' /\ \A i : In(i, Active)' <=> In(i, Active) /\ i # e.req
  BY <1>1, <1>3, <1>4, ActiveOutMeans DEF Apart
<1>6. In(e.req, Active) /\ ~In(e.req, queue) /\ ~In(e.req, up.queue)
  BY <1>1, <1>3, ActiveMeans DEF Apart
<1>7. /\ Once(queue) /\ Once(up'.queue)
      /\ \A i : /\ ~(In(i, queue) /\ In(i, up'.queue)) /\ ~(In(i, queue) /\ In(i, Active)')
                /\ ~(In(i, up'.queue) /\ In(i, Active)')
      /\ \A i : In(i, queue) \/ In(i, up'.queue) \/ In(i, Active)' <=> Has(i) /\ i # e.req
      /\ Has(e.req)
  BY <1>3, <1>4, <1>5, <1>6 DEF Apart, Has
<1>8. CASE Succeeds(j)
  <2>1. queue' = queue /\ \E status : Finish({e.req}, status, "upstream", now)
    BY <1>1, <1>8 DEF Succeeds
  <2>2. \A i : In(i, queue') \/ In(i, up'.queue) \/ In(i, Active)' <=> Has(i) /\ i \notin {e.req}
    BY <1>7, <2>1
  <2> QED
    BY <1>2, <1>3, <1>5, <1>7, <2>1, <2>2, PlacedEnds
<1>9. CASE Breaks(j)
  <2>1. Fail(e, queue, sched)
    BY <1>1, <1>9 DEF Breaks
  <2>2. queue \in Seq(Entries) /\ sched \in Scheds
    BY SaneMeans
  <2> QED
    BY <1>2, <1>3, <1>4, <1>5, <1>7, <2>1, <2>2, PlacedFails
<1> QED
  BY <1>8, <1>9

LEMMA PlacedSweep == ASSUME Sane, Placed, Sweep PROVE Placed'
<1>1. phase # "over" /\ phase' # "over" /\ UNCHANGED <<rq, up>> /\ Active' = Active
  BY DEF Sweep, Active
<1>2. Apart /\ Settled /\ Led
  BY <1>1 DEF Placed
<1>3. CASE UNCHANGED <<queue, outcome, flights, leaders>>
  BY <1>1, <1>3, PlacedStays
<1>4. ASSUME NEW keep \in InOrder({j \in DOMAIN queue : ~Expired(queue[j])}),
             queue' = [n \in DOMAIN keep |-> queue[keep[n]]],
             Finish({e.req : e \in {x \in ToSet(queue) : Expired(x)}}, "TIMEOUT", "upstream", now)
      PROVE  Placed'
  <2>1. queue \in Seq(Entries)
    BY SaneMeans
  <2>2. PICK live \in SUBSET DOMAIN queue : live = {j \in DOMAIN queue : ~Expired(queue[j])}
    OBVIOUS
  <2>3. PICK w : w = queue'
    OBVIOUS
  <2>4. Once(w) /\ \A i : In(i, w) <=> \E j \in live : queue[j].req = i
    BY <1>2, <1>4, <2>1, <2>2, <2>3, KeptMeans DEF Apart
  <2>5. PICK S : S = {e.req : e \in {x \in ToSet(queue) : Expired(x)}}
    OBVIOUS
  <2>6. \A i : i \in S <=> \E j \in DOMAIN queue : Expired(queue[j]) /\ queue[j].req = i
    BY <2>5 DEF ToSet
  <2>7. \A i : In(i, w) <=> In(i, queue) /\ i \notin S
    BY <1>2, <2>2, <2>4, <2>6 DEF In, Apart, Once
  <2>8. \A i \in S : In(i, queue)
    BY <2>6 DEF In
  <2>9. /\ Once(queue') /\ Once(up'.queue) /\ Once(Active)'
        /\ \A i : /\ ~(In(i, queue') /\ In(i, up'.queue)) /\ ~(In(i, queue') /\ In(i, Active)')
                  /\ ~(In(i, up'.queue) /\ In(i, Active)')
        /\ \A i : In(i, queue') \/ In(i, up'.queue) \/ In(i, Active)' <=> Has(i) /\ i \notin S
        /\ \A i \in S : Has(i)
    BY <1>1, <1>2, <2>3, <2>4, <2>7, <2>8 DEF Apart, Has
  <2> QED
    BY <1>1, <1>2, <1>4, <2>5, <2>9, PlacedEnds
<1> QED
  BY <1>3, <1>4 DEF Sweep, Unfinished

LEMMA PlacedDispatch == ASSUME Sane, Placed, Dispatch PROVE Placed'
<1>1. PICK j \in Best(config, queue, rq, now) :
        LET e == queue[j]
            rest == RemoveAt(queue, j)
            service == Popped(config, sched, e)
        IN \/ /\ Expired(e)
              /\ Finish({e.req}, "TIMEOUT", "upstream", now)
              /\ queue' = rest /\ sched' = service
              /\ UNCHANGED <<sem, up, budget, cache>>
           \/ /\ ~Expired(e) /\ Len(up.queue) >= config.room
              /\ Fail(e, rest, service)
              /\ UNCHANGED <<sem, up>>
           \/ /\ ~Expired(e) /\ Len(up.queue) < config.room
              /\ up' = [up EXCEPT !.queue = Append(@, e)]
              /\ sem' = [sem EXCEPT !.inflight = @ + 1]
              /\ queue' = rest /\ sched' = service
              /\ Unfinished /\ UNCHANGED <<budget, cache>>
  BY DEF Dispatch
<1>2. j \in DOMAIN queue
  BY DEF Best, Candidates
<1>3. PICK e, rest, service : /\ e = queue[j] /\ rest = RemoveAt(queue, j)
                              /\ service = Popped(config, sched, e)
  OBVIOUS
<1>4. e \in Entries /\ rest \in Seq(Entries) /\ service \in Scheds /\ queue \in Seq(Entries)
  BY <1>2, <1>3, FailsFrom, SaneMeans
<1>5. phase # "over" /\ phase' # "over" /\ UNCHANGED rq
  BY DEF Dispatch
<1>6. Apart /\ Settled /\ Led
  BY <1>5 DEF Placed
<1>7. Once(rest) /\ \A i : In(i, rest) <=> In(i, queue) /\ i # e.req
  BY <1>2, <1>3, <1>4, <1>6, OutMeans DEF Apart
<1>8. In(e.req, queue) /\ ~In(e.req, up.queue) /\ ~In(e.req, Active)
  BY <1>2, <1>3, <1>6 DEF In, Apart
<1>9. ASSUME UNCHANGED up
      PROVE  /\ Once(up'.queue) /\ Once(Active)'
             /\ \A i : /\ ~(In(i, rest) /\ In(i, up'.queue)) /\ ~(In(i, rest) /\ In(i, Active)')
                       /\ ~(In(i, up'.queue) /\ In(i, Active)')
             /\ \A i : In(i, rest) \/ In(i, up'.queue) \/ In(i, Active)' <=> Has(i) /\ i # e.req
             /\ Has(e.req)
  <2>1. Active' = Active /\ up'.queue = up.queue
    BY <1>9 DEF Active
  <2> QED
    BY <1>6, <1>7, <1>8, <2>1 DEF Apart, Has
<1>10. CASE Finish({e.req}, "TIMEOUT", "upstream", now) /\ queue' = rest /\ UNCHANGED up
  <2>1. \A i : In(i, queue') \/ In(i, up'.queue) \/ In(i, Active)' <=> Has(i) /\ i \notin {e.req}
    BY <1>9, <1>10
  <2>2. \A i \in {e.req} : Has(i)
    BY <1>9, <1>10
  <2> QED
    BY <1>5, <1>6, <1>7, <1>9, <1>10, <2>1, <2>2, PlacedEnds
<1>11. CASE Fail(e, rest, service) /\ UNCHANGED up
  BY <1>4, <1>5, <1>6, <1>7, <1>9, <1>11, PlacedFails
<1>12. CASE up' = [up EXCEPT !.queue = Append(@, e)] /\ queue' = rest /\ Unfinished
  <2>1. up = [queue |-> up.queue, active |-> up.active] /\ up.queue \in Seq(Entries)
    BY DEF Sane, UpOK
  <2>2. PICK w : w = Append(up.queue, e)
    OBVIOUS
  <2>3. up'.queue = w /\ up'.active = up.active
    BY <1>12, <2>1, <2>2
  <2>4. Once(w) /\ \A i : In(i, w) <=> In(i, up.queue) \/ i = e.req
    BY <1>4, <1>6, <1>8, <2>1, <2>2, InMeans, ZenonT(60) DEF Apart
  <2>5. Active' = Active
    BY <2>3 DEF Active
  <2>6. Apart'
    BY <1>6, <1>7, <1>8, <1>12, <2>3, <2>4, <2>5 DEF Apart
  <2>7. \A i : Has(i)' <=> Has(i)
    BY <1>7, <1>8, <1>12, <2>3, <2>4, <2>5 DEF Has
  <2>8. Settled' /\ Led'
    BY <1>5, <1>6, <1>12, <2>7, MovesMeans DEF Unfinished
  <2> QED
    BY <1>5, <2>6, <2>8 DEF Placed
<1> QED
  BY <1>1, <1>3, <1>10, <1>11, <1>12

LEMMA PlacedArrive == ASSUME Sane, Placed, NEW p \in Profiles, Arrive(p) PROVE Placed'
<1>1. PICK r, n : r = Arrived(p) /\ n = Len(rq) + 1
  OBVIOUS
<1>2. r \in Requests /\ (\/ \E status, by, born : Answered(status, by, born)
                         \/ Boards(r) \/ Lines(r))
  BY <1>1, ArriveMeans
<1>3. rq' = Append(rq, r) /\ UNCHANGED <<phase, up>> /\ phase # "over" /\ Active' = Active
  BY <1>1 DEF Arrive, Active
<1>4. Apart /\ Settled /\ Led
  BY <1>3 DEF Placed
<1>5. /\ rq \in Seq(Requests) /\ outcome \in Seq(Seq(Records)) /\ Len(outcome) = Len(rq)
      /\ Len(rq) \in Nat /\ DOMAIN rq = 1 .. Len(rq) /\ queue \in Seq(Entries)
      /\ \A i \in DOMAIN rq : rq[i] \in Requests
  BY SaneMeans DEF Sane, RequestsOK, OutcomeOK
<1>6. /\ DOMAIN rq' = DOMAIN rq \cup {n} /\ n \notin DOMAIN rq
      /\ \A i \in DOMAIN rq : rq'[i] = rq[i]
      /\ rq'[n] = r
  <2>1. /\ DOMAIN rq' = 1 .. Len(rq) + 1 /\ rq'[Len(rq) + 1] = r
        /\ \A i \in 1 .. Len(rq) : rq'[i] = rq[i]
    BY <1>2, <1>3, <1>5, AppendMeans
  <2>2. 1 .. Len(rq) + 1 = (1 .. Len(rq)) \cup {Len(rq) + 1} /\ Len(rq) + 1 \notin 1 .. Len(rq)
    BY <1>5
  <2> QED
    BY <1>1, <1>5, <2>1, <2>2
<1>7. ASSUME NEW o \in Seq(Records), outcome' = Append(outcome, o)
      PROVE  outcome'[n] = o /\ \A i \in DOMAIN rq : outcome'[i] = outcome[i]
  <2>1. /\ outcome'[Len(outcome) + 1] = o
        /\ \A i \in 1 .. Len(outcome) : outcome'[i] = outcome[i]
    BY <1>5, <1>7, AppendMeans
  <2> QED
    BY <1>1, <1>5, <2>1
<1>8. ~Has(n) /\ ~Waits(n) /\ n \notin leaders
  BY <1>4, <1>6, HasMeans DEF Led, Waits
<1>9. \A i : i # n /\ i \in DOMAIN rq' => i \in DOMAIN rq
  BY <1>6
<1>10. ASSUME NEW status, NEW by, NEW born, Answered(status, by, born) PROVE Placed'
  <2>1. PICK x : x = Record(status, by, born)
    OBVIOUS
  <2>2. UNCHANGED <<queue, flights, leaders>> /\ outcome' = Append(outcome, <<x>>)
    BY <1>10, <2>1 DEF Answered, Answers
  <2>3. x \in Records
    BY <1>10, <2>1, SaneMeans DEF Answered, Record, Records, Bys
  <2>4. outcome'[n] = <<x>> /\ \A i \in DOMAIN rq : outcome'[i] = outcome[i]
    <3>1. <<x>> \in Seq(Records)
      BY <2>3
    <3>2. PICK o \in Seq(Records) : o = <<x>>
      BY <3>1
    <3> QED
      BY <1>7, <2>2, <3>2
  <2>5. \A i : (Has(i)' <=> Has(i)) /\ (Waits(i)' <=> Waits(i))
    BY <1>3, <2>2 DEF Has, Waits
  <2>6. Len(outcome'[n]) <= 1 /\ outcome'[n] # <<>>
    BY <2>4
  <2>7. Settled'
    <3> SUFFICES ASSUME NEW i \in DOMAIN rq'
                 PROVE  /\ Len(outcome'[i]) <= 1 /\ (Has(i)' \/ Waits(i)' \/ Ended(i)')
                        /\ ~(Has(i)' /\ Waits(i)') /\ ~(Has(i)' /\ Ended(i)')
                        /\ ~(Waits(i)' /\ Ended(i)')
      BY DEF Settled
    <3>1. CASE i = n
      BY <1>8, <2>5, <2>6, <3>1 DEF Ended
    <3>2. CASE i # n
      <4>1. i \in DOMAIN rq /\ outcome'[i] = outcome[i]
        BY <1>9, <2>4, <3>2
      <4>2. Ended(i)' <=> Ended(i)
        BY <4>1 DEF Ended
      <4> QED
        BY <1>4, <2>5, <4>1, <4>2 DEF Settled
    <3> QED
      BY <3>1, <3>2
  <2>8. Led'
    BY <1>4, <1>6, <2>2, <2>5 DEF Led
  <2>9. Apart'
    BY <1>3, <1>4, <2>2 DEF Apart
  <2> QED
    BY <1>3, <2>7, <2>8, <2>9 DEF Placed
<1>11. CASE Boards(r)
  <2>1. /\ flights[r.key] # None /\ UNCHANGED <<queue, leaders>> /\ outcome' = Append(outcome, <<>>)
        /\ flights' = [flights EXCEPT ![r.key].waiters = @ \cup {n}]
    BY <1>1, <1>11 DEF Boards, Pending
  <2>2. r.key \in Keys /\ flights \in Flights
    BY <1>2 DEF Requests, Sane, FlightsOK
  <2>3. PICK f \in [leader : Nat, waiters : SUBSET Nat] : f = flights[r.key]
    BY <2>1, <2>2 DEF Flights
  <2>4. PICK h : h = [f EXCEPT !.waiters = f.waiters \cup {n}]
    OBVIOUS
  <2>5. h.leader = f.leader /\ h.waiters = f.waiters \cup {n}
    BY <2>3, <2>4
  <2>6. flights' = [flights EXCEPT ![r.key] = h]
    BY <2>1, <2>2, <2>3, <2>4 DEF Flights
  <2>7. h \in [leader : Nat, waiters : SUBSET Nat] /\ h # None
    <3>1. f = [leader |-> f.leader, waiters |-> f.waiters] /\ n \in Nat
      BY <1>1, <1>5, <2>3
    <3>2. h = [leader |-> f.leader, waiters |-> f.waiters \cup {n}]
      BY <2>4, <3>1
    <3>3. h \in [leader : Nat, waiters : SUBSET Nat]
      BY <2>3, <3>1, <3>2
    <3> QED
      BY <3>3, TrafficAssumption
  <2>8. \A i : Has(i)' <=> Has(i)
    BY <1>3, <2>1 DEF Has
  <2>9. /\ \A k \in Keys : k # r.key => flights'[k] = flights[k]
        /\ flights'[r.key] = h
    BY <2>2, <2>6 DEF Flights
  <2>10. \A i : Waits(i)' <=> Waits(i) \/ i = n
    <3>1. ASSUME NEW i, Waits(i)' PROVE Waits(i) \/ i = n
      <4>1. PICK k \in Keys : flights'[k] # None /\ i \in flights'[k].waiters
        BY <3>1 DEF Waits
      <4>2. CASE k = r.key
        BY <2>1, <2>3, <2>5, <2>9, <4>1, <4>2 DEF Waits
      <4>3. CASE k # r.key
        BY <2>9, <4>1, <4>3 DEF Waits
      <4> QED
        BY <4>2, <4>3
    <3>2. ASSUME NEW i, Waits(i) PROVE Waits(i)'
      <4>1. PICK k \in Keys : flights[k] # None /\ i \in flights[k].waiters
        BY <3>2 DEF Waits
      <4>2. flights'[k] # None /\ i \in flights'[k].waiters
        BY <2>3, <2>5, <2>7, <2>9, <4>1
      <4> QED
        BY <4>2 DEF Waits
    <3>3. Waits(n)'
      BY <2>2, <2>5, <2>7, <2>9 DEF Waits
    <3> QED
      BY <3>1, <3>2, <3>3
  <2>11. outcome'[n] = <<>> /\ \A i \in DOMAIN rq : outcome'[i] = outcome[i]
    <3>1. <<>> \in Seq(Records)
      OBVIOUS
    <3>2. PICK o \in Seq(Records) : o = <<>>
      BY <3>1
    <3> QED
      BY <1>7, <2>1, <3>2
  <2>12. Settled'
    <3> SUFFICES ASSUME NEW i \in DOMAIN rq'
                 PROVE  /\ Len(outcome'[i]) <= 1 /\ (Has(i)' \/ Waits(i)' \/ Ended(i)')
                        /\ ~(Has(i)' /\ Waits(i)') /\ ~(Has(i)' /\ Ended(i)')
                        /\ ~(Waits(i)' /\ Ended(i)')
      BY DEF Settled
    <3>1. CASE i = n
      <4>1. Len(outcome'[i]) <= 1 /\ ~Ended(i)'
        BY <2>11, <3>1 DEF Ended
      <4> QED
        BY <1>8, <2>8, <2>10, <3>1, <4>1
    <3>2. CASE i # n
      <4>1. i \in DOMAIN rq /\ outcome'[i] = outcome[i]
        BY <1>9, <2>11, <3>2
      <4>2. Ended(i)' <=> Ended(i)
        BY <4>1 DEF Ended
      <4> QED
        BY <1>4, <2>8, <2>10, <3>2, <4>1, <4>2 DEF Settled
    <3> QED
      BY <3>1, <3>2
  <2>13. Led'
    <3>1. ASSUME NEW k \in Keys, flights'[k] # None
          PROVE  /\ \E l \in leaders' : l = flights'[k].leader /\ rq'[l].key = k /\ Has(l)'
                 /\ \A i \in flights'[k].waiters : i \in DOMAIN rq' /\ rq'[i].key = k
      <4>1. /\ flights[k] # None /\ flights'[k].leader = flights[k].leader
            /\ \A i \in flights'[k].waiters : i \in flights[k].waiters \/ (i = n /\ k = r.key)
        BY <2>1, <2>3, <2>5, <2>9, <3>1
      <4>2. PICK l \in leaders : l = flights[k].leader /\ rq[l].key = k /\ Has(l)
        BY <1>4, <4>1 DEF Led
      <4>3. rq'[l].key = k /\ Has(l)' /\ l \in leaders'
        BY <1>6, <2>1, <2>8, <4>2, HasMeans
      <4>4. \A i \in flights[k].waiters : i \in DOMAIN rq /\ rq[i].key = k
        BY <1>4, <4>1 DEF Led
      <4> QED
        BY <1>6, <4>1, <4>2, <4>3, <4>4
    <3>2. ASSUME NEW l \in leaders'
          PROVE  l \in DOMAIN rq' /\ flights'[rq'[l].key] # None /\ flights'[rq'[l].key].leader = l
      <4>1. l \in leaders /\ l \in DOMAIN rq /\ flights[rq[l].key] # None
            /\ flights[rq[l].key].leader = l
        BY <1>4, <2>1, <3>2 DEF Led
      <4>2. rq'[l] = rq[l] /\ rq[l].key \in Keys
        BY <1>5, <1>6, <4>1 DEF Requests
      <4> QED
        BY <1>6, <2>3, <2>5, <2>7, <2>9, <4>1, <4>2
    <3> QED
      BY <3>1, <3>2 DEF Led
  <2>14. Apart'
    BY <1>3, <1>4, <2>1 DEF Apart
  <2> QED
    BY <1>3, <2>12, <2>13, <2>14 DEF Placed
<1>12. CASE Lines(r)
  <2>1. /\ UNCHANGED up /\ outcome' = Append(outcome, <<>>)
        /\ \E x \in Entries : x.req = n /\ queue' = Append(queue, x)
    BY <1>1, <1>3, <1>12 DEF Lines, Pending
  <2>2. PICK x \in Entries : x.req = n /\ queue' = Append(queue, x)
    BY <2>1
  <2>3. PICK w : w = queue'
    OBVIOUS
  <2>4. ~In(n, queue) /\ ~In(n, up.queue) /\ ~In(n, Active)
    BY <1>8 DEF Has
  <2>5. Once(w) /\ \A i : In(i, w) <=> In(i, queue) \/ i = n
    BY <1>4, <1>5, <2>2, <2>3, <2>4, InMeans DEF Apart
  <2>6. Apart'
    BY <1>3, <1>4, <2>1, <2>3, <2>4, <2>5 DEF Apart
  <2>7. \A i : Has(i)' <=> Has(i) \/ i = n
    BY <1>3, <2>1, <2>3, <2>5 DEF Has
  <2>8. outcome'[n] = <<>> /\ \A i \in DOMAIN rq : outcome'[i] = outcome[i]
    <3>1. <<>> \in Seq(Records)
      OBVIOUS
    <3>2. PICK o \in Seq(Records) : o = <<>>
      BY <3>1
    <3> QED
      BY <1>7, <2>1, <3>2
  <2>9. r.key \in Keys /\ flights \in Flights /\ \A i \in DOMAIN rq : rq[i].key \in Keys
    BY <1>2, <1>5 DEF Requests, Sane, FlightsOK
  <2>10. PICK h : h = [leader |-> n, waiters |-> {}]
    OBVIOUS
  <2>11. h.leader = n /\ h.waiters = {} /\ h # None
    <3>1. n \in Nat
      BY <1>1, <1>5
    <3>2. h \in [leader : Nat, waiters : SUBSET Nat]
      BY <2>10, <3>1
    <3> QED
      BY <2>10, <3>2, TrafficAssumption
  <2>12. \/ UNCHANGED <<flights, leaders>>
         \/ /\ flights[r.key] = None /\ leaders' = leaders \cup {n}
            /\ \A k \in Keys : k # r.key => flights'[k] = flights[k]
            /\ flights'[r.key] = h
    BY <1>1, <1>12, <2>9, <2>10 DEF Lines, Flights
  <2>13. \A i : Waits(i)' <=> Waits(i)
    <3>1. CASE UNCHANGED <<flights, leaders>>
      BY <3>1 DEF Waits
    <3>2. CASE /\ flights[r.key] = None
               /\ \A k \in Keys : k # r.key => flights'[k] = flights[k]
               /\ flights'[r.key] = h
      BY <2>11, <3>2 DEF Waits
    <3> QED
      BY <2>12, <3>1, <3>2
  <2>14. Settled'
    <3> SUFFICES ASSUME NEW i \in DOMAIN rq'
                 PROVE  /\ Len(outcome'[i]) <= 1 /\ (Has(i)' \/ Waits(i)' \/ Ended(i)')
                        /\ ~(Has(i)' /\ Waits(i)') /\ ~(Has(i)' /\ Ended(i)')
                        /\ ~(Waits(i)' /\ Ended(i)')
      BY DEF Settled
    <3>1. CASE i = n
      <4>1. Len(outcome'[i]) <= 1 /\ ~Ended(i)'
        BY <2>8, <3>1 DEF Ended
      <4> QED
        BY <1>8, <2>7, <2>13, <3>1, <4>1
    <3>2. CASE i # n
      <4>1. i \in DOMAIN rq /\ outcome'[i] = outcome[i]
        BY <1>9, <2>8, <3>2
      <4>2. Ended(i)' <=> Ended(i)
        BY <4>1 DEF Ended
      <4> QED
        BY <1>4, <2>7, <2>13, <3>2, <4>1, <4>2 DEF Settled
    <3> QED
      BY <3>1, <3>2
  <2>15. ASSUME NEW k \in Keys, flights'[k] # None
         PROVE  /\ \E l \in leaders' : l = flights'[k].leader /\ rq'[l].key = k /\ Has(l)'
                /\ \A i \in flights'[k].waiters : i \in DOMAIN rq' /\ rq'[i].key = k
    <3>1. CASE flights'[k] = flights[k]
      <4>1. PICK l \in leaders : l = flights[k].leader /\ rq[l].key = k /\ Has(l)
        BY <1>4, <2>15, <3>1 DEF Led
      <4>2. rq'[l].key = k /\ Has(l)' /\ l \in leaders'
        BY <1>6, <2>7, <2>12, <4>1, HasMeans
      <4>3. \A i \in flights[k].waiters : i \in DOMAIN rq /\ rq[i].key = k
        BY <1>4, <2>15, <3>1 DEF Led
      <4> QED
        BY <1>6, <3>1, <4>1, <4>2, <4>3
    <3>2. CASE flights'[k] # flights[k]
      <4>1. k = r.key /\ flights'[k] = h /\ n \in leaders'
        BY <2>12, <3>2
      <4> QED
        BY <1>6, <2>7, <2>11, <4>1
    <3> QED
      BY <3>1, <3>2
  <2>16. ASSUME NEW l \in leaders'
         PROVE  l \in DOMAIN rq' /\ flights'[rq'[l].key] # None /\ flights'[rq'[l].key].leader = l
    <3>1. CASE l \in leaders
      <4>1. l \in DOMAIN rq /\ flights[rq[l].key] # None /\ flights[rq[l].key].leader = l
        BY <1>4, <3>1 DEF Led
      <4>2. flights'[rq[l].key] = flights[rq[l].key]
        BY <2>9, <2>12, <4>1
      <4> QED
        BY <1>6, <4>1, <4>2
    <3>2. CASE l \notin leaders
      <4>1. l = n /\ flights'[r.key] = h
        BY <2>12, <2>16, <3>2
      <4> QED
        BY <1>6, <2>11, <4>1
    <3> QED
      BY <3>1, <3>2
  <2>17. Led'
    BY <2>15, <2>16 DEF Led
  <2> QED
    BY <1>3, <2>6, <2>14, <2>17 DEF Placed
<1> QED
  BY <1>2, <1>10, <1>11, <1>12

LEMMA PlacedDrain == ASSUME Sane, Placed, Drain PROVE Placed'
<1> DEFINE left == {e.req : e \in ToSet(queue) \cup Calls}
           riders == UNION {flights[k].waiters : k \in {x \in Keys : flights[x] # None}}
<1>1. /\ phase # "over" /\ phase' = "over" /\ queue' = <<>> /\ UNCHANGED <<rq, up>>
      /\ flights' = [k \in Keys |-> None]
      /\ outcome' = [i \in DOMAIN outcome |->
                       IF i \in left \cup riders
                       THEN Append(outcome[i], Record("TIMEOUT", "upstream", now)) ELSE outcome[i]]
  BY DEF Drain
<1>2. Apart /\ Settled /\ Led /\ Active' = Active
  BY <1>1 DEF Placed, Active
<1>3. \A i : i \in left <=> Has(i)
  <2>1. \A i : i \in left <=> \E e \in ToSet(queue) \cup Calls : e.req = i
    OBVIOUS
  <2>2. \A e : e \in ToSet(queue) \cup Calls <=>
          \/ \E j \in DOMAIN queue : e = queue[j]
          \/ \E j \in DOMAIN up.queue : e = up.queue[j]
          \/ \E j \in DOMAIN up.active : e = up.active[j].entry
    BY DEF ToSet, Calls
  <2> HIDE DEF left
  <2> QED
    BY <2>1, <2>2, ActiveMeans DEF Has, In
<1>4. \A i : i \in riders <=> Waits(i)
  BY DEF Waits
<1> HIDE DEF left, riders
<1>5. DOMAIN outcome = DOMAIN rq /\ \A i \in DOMAIN rq : outcome[i] \in Seq(Records)
  BY SaneMeans DEF Sane, OutcomeOK
<1>6. ASSUME NEW i \in DOMAIN rq PROVE Len(outcome'[i]) = 1
  <2>1. CASE Has(i) \/ Waits(i)
    <3>1. outcome[i] = <<>>
      BY <1>2, <2>1 DEF Settled, Ended
    <3>2. outcome'[i] = Append(outcome[i], Record("TIMEOUT", "upstream", now))
      BY <1>1, <1>3, <1>4, <1>5, <2>1
    <3> QED
      BY <3>1, <3>2
  <2>2. CASE ~(Has(i) \/ Waits(i))
    <3>1. outcome'[i] = outcome[i]
      BY <1>1, <1>3, <1>4, <1>5, <2>2
    <3>2. outcome[i] # <<>> /\ Len(outcome[i]) <= 1
      BY <1>2, <2>2 DEF Settled, Ended
    <3>3. PICK s \in Seq(Records) : s = outcome[i]
      BY <1>5
    <3>4. s # <<>> /\ Len(s) <= 1
      BY <3>2, <3>3
    <3>5. Len(s) # 0 /\ Len(s) \in Nat
      BY <3>3, <3>4
    <3>6. Len(s) = 1
      <4>1. PICK m \in Nat : m = Len(s)
        BY <3>5
      <4>2. m <= 1 /\ m # 0
        BY <3>4, <3>5, <4>1
      <4> QED
        BY <4>1, <4>2
    <3> QED
      BY <3>1, <3>3, <3>6
  <2> QED
    BY <2>1, <2>2
<1>7. \A k \in Keys : flights'[k] = None
  BY <1>1
<1>8. Over'
  BY <1>1, <1>2, <1>6, <1>7 DEF Over, Apart
<1> QED
  BY <1>1, <1>8 DEF Placed

LEMMA PlacedNext == ASSUME Sane, Placed, [Next]_vars PROVE Placed'
<1>1. CASE Tick \/ UpstreamIsDone \/ NoMoreArrive \/ DispatchIsDone \/ Scale \/ UNCHANGED vars
  <2>1. UNCHANGED <<rq, outcome, queue, up, flights, leaders>>
        /\ (phase' = "over" <=> phase = "over")
    BY <1>1 DEF Tick, UpstreamIsDone, NoMoreArrive, DispatchIsDone, Scale, vars
  <2> QED
    BY <2>1, PlacedStays
<1>2. CASE UpstreamStarts
  BY <1>2, PlacedStarts
<1>3. ASSUME NEW j \in DOMAIN up.active, Succeeds(j) \/ Breaks(j) PROVE Placed'
  BY <1>3, PlacedReturns
<1>4. ASSUME NEW p \in Profiles, Arrive(p) PROVE Placed'
  BY <1>4, PlacedArrive
<1>5. CASE Sweep
  BY <1>5, PlacedSweep
<1>6. CASE Dispatch
  BY <1>6, PlacedDispatch
<1>7. CASE Drain
  BY <1>7, PlacedDrain
<1> QED
  BY <1>1, <1>2, <1>3, <1>4, <1>5, <1>6, <1>7 DEF Next

\* No request is lost, ended twice or in two places at once, whatever retries,
\* sweeps, full queues and late answers come together: the riders of a leader
\* end with it and a leader is always in the queue or upstream.
THEOREM TrafficOnePlace == Spec => []OnePlace
<1>1. Init => Sane /\ Placed
  <2>1. Init => Sane
    BY SaneInit
  <2>2. ASSUME Init PROVE Placed
    <3>1. /\ phase = "tick" /\ rq = <<>> /\ queue = <<>> /\ up.queue = <<>> /\ up.active = <<>>
          /\ leaders = {} /\ \A k \in Keys : flights[k] = None
      BY <2>2 DEF Init
    <3>2. Apart
      BY <3>1 DEF Apart, Once, In, Active
    <3>3. Settled /\ Led
      BY <3>1 DEF Settled, Led
    <3> QED
      BY <3>1, <3>2, <3>3 DEF Placed
  <2> QED
    BY <2>1, <2>2
<1>2. Sane /\ Placed /\ [Next]_vars => (Sane /\ Placed)'
  BY SaneNext, PlacedNext
<1>3. Sane /\ Placed => OnePlace
  BY PlacedMeans
<1> QED
  BY <1>1, <1>2, <1>3, PTL DEF Spec

===============================================================================
