---------------------------- MODULE TrafficPolicies ----------------------------
(***************************************************************************)
(* agent-traffic-gateway: the policies of the gateway as operators on      *)
(* their state.  g is a GatewayConfig, r a request, e an entry of the      *)
(* queue, now the time in ticks.  Ratios are whole numbers: a retry costs  *)
(* g.token units of the budget, a pressure is the wait that makes it.      *)
(***************************************************************************)
EXTENDS Integers, Sequences, FiniteSets, SequencesExt

CONSTANTS Keys, Semantics, Tenants, None

Least(a, b) == IF a <= b THEN a ELSE b
Most(a, b) == IF a >= b THEN a ELSE b

(***************************************************************************)
(* Token buckets: the edge and the tenants that have a quota.              *)
(***************************************************************************)
Buckets(g) == {"edge"} \cup DOMAIN g.tenants

Limit(g, b) == IF b = "edge" THEN g.edge ELSE g.tenants[b]

\* Filled as time passes; the code does it by the time since the last request.
Refilled(g, tokens) ==
    [b \in Buckets(g) |-> Least(Limit(g, b).burst, tokens[b] + Limit(g, b).rate)]

\* The buckets a request takes a token of, the edge first.
Charged(g, r, tokens) ==
    IF tokens["edge"] = 0 THEN {} ELSE {"edge"} \cup ({r.tenant} \cap DOMAIN g.tenants)

PassesLimits(g, r, tokens) ==
    \A b \in {"edge"} \cup ({r.tenant} \cap DOMAIN g.tenants) : tokens[b] > 0

Spent(g, r, tokens) ==
    [b \in Buckets(g) |-> IF b \in Charged(g, r, tokens) THEN Most(0, tokens[b] - 1) ELSE tokens[b]]

(***************************************************************************)
(* The circuit breaker.                                                    *)
(***************************************************************************)
ClosedBreaker == [state |-> "CLOSED", events |-> <<>>, opened |-> 0, probes |-> 0]

\* allow() lets the cool-down end.
Cooled(g, b, now) ==
    IF b.state = "OPEN" /\ now - b.opened >= g.cooldown
    THEN [b EXCEPT !.state = "HALF_OPEN", !.probes = 0] ELSE b

Allows(g, b, now) == ~g.breaker \/ Cooled(g, b, now).state # "OPEN"

Opened(b, now) == [b EXCEPT !.state = "OPEN", !.opened = now, !.probes = 0]

Failures(events) == Len(SelectSeq(events, LAMBDA x : ~x.ok))

Recorded(g, b, ok, now) ==
    LET window == SelectSeq(Append(b.events, [at |-> now, ok |-> ok]),
                            LAMBDA x : x.at > now - g.window)
        seen == [b EXCEPT !.events = window]
    IN CASE ~g.breaker -> b
         [] g.breaker /\ b.state = "HALF_OPEN" ->
              IF ~ok THEN Opened([b EXCEPT !.probes = @ + 1], now)
              ELSE IF b.probes + 1 >= g.probes THEN ClosedBreaker
              ELSE [b EXCEPT !.probes = @ + 1]
         [] OTHER ->
              IF Len(window) >= g.min_samples /\ 2 * Failures(window) > Len(window)
              THEN Opened(seen, now) ELSE seen

(***************************************************************************)
(* The retry budget and the retry planner.                                 *)
(***************************************************************************)
FullBudget(g) == [tokens |-> g.initial, granted |-> 0, successes |-> 0]

Succeeded(g, budget) ==
    [budget EXCEPT !.successes = @ + 1,
                   !.tokens = IF g.ratio = None THEN @ ELSE Least(g.burst, @ + g.ratio)]

\* Mutant of Granted: the token stays in the budget.
GrantedFree(g, budget) == IF g.ratio = None THEN budget ELSE [budget EXCEPT !.granted = @ + 1]

\* Retries are counted where there is a budget.
Granted(g, budget) ==
    IF g.ratio = None THEN budget
    ELSE [budget EXCEPT !.granted = @ + 1, !.tokens = @ - g.token]

HasBudget(g, budget) == g.ratio = None \/ budget.tokens >= g.token

Backoffs(g, attempts) == 0 .. Least(g.retry_cap, g.retry_base * 2 ^ attempts)

ShouldRetry(g, e, r, now, backoff) ==
    g.retry /\ e.attempts + 1 < g.max_attempts /\ now + backoff < r.deadline

\* Mutant of Retried: the attempt is not counted.
RetriedAfresh(e) == [e EXCEPT !.prio = Most(0, @ - 1)]

Retried(e) == [e EXCEPT !.attempts = @ + 1, !.prio = Most(0, @ - 1)]

(***************************************************************************)
(* Throughput, admission and shedding.                                     *)
(***************************************************************************)
NoEstimate == [started |-> None, done |-> <<>>]

\* estimate_per_ms() starts the warm-up and forgets what left the window.
Estimated(g, est, now) ==
    [started |-> IF est.started = None THEN now ELSE est.started,
     done |-> SelectSeq(est.done, LAMBDA t : t > now - g.est_window)]

\* What the queue in front of a new request is expected to take.
PredictedWait(g, est, depth, now) ==
    LET seen == Estimated(g, est, now)
        static == ((depth + 1) * g.service) \div g.concurrency
        warmed == now - seen.started >= g.est_window /\ Len(seen.done) >= g.est_min
    IN IF warmed THEN Most(static, ((depth + 1) * g.est_window) \div Len(seen.done)) ELSE static

Level(g, wait) ==
    CASE ~g.shedding \/ wait < g.soft -> "NORMAL"
      [] g.shedding /\ wait >= g.soft /\ wait < g.hard -> "SOFT"
      [] g.shedding /\ wait >= g.hard /\ wait < g.critical -> "HARD"
      [] g.shedding /\ wait >= g.critical -> "CRITICAL"

Infeasible(g, r, wait, now) == g.admission /\ now + wait + g.service > r.deadline

INTERACTIVE == 3
BATCH == 0

Sheds(g, r, wait) ==
    \/ Level(g, wait) = "CRITICAL"
    \/ Level(g, wait) = "HARD" /\ r.prio < INTERACTIVE
    \/ Level(g, wait) = "SOFT" /\ r.prio = BATCH

Degrades(g, r, wait) == g.degrade /\ wait >= g.degrade_from /\ r.prio # BATCH

(***************************************************************************)
(* The queue: entries in the order they came, each tenant's by itself.     *)
(***************************************************************************)
NoService == [vtime |-> 0, last |-> [t \in Tenants |-> 0]]

\* enqueue(): the virtual start of an entry under WFQ.
StartOf(g, sched, r) == IF g.policy = "WFQ" THEN Most(sched.last[r.tenant], sched.vtime) ELSE 0

Enqueued(g, sched, r) ==
    IF g.policy = "WFQ"
    THEN [sched EXCEPT !.last[r.tenant] = StartOf(g, sched, r) + r.cost] ELSE sched

Popped(g, sched, e) ==
    IF g.policy = "WFQ" THEN [sched EXCEPT !.vtime = Most(@, e.start)] ELSE sched

\* The places of the queue a policy looks at: FIFO and WFQ see the heads only.
Candidates(g, queue, reqs) ==
    IF g.policy = "PRIORITY_AGING" THEN DOMAIN queue
    ELSE {j \in DOMAIN queue :
            \A k \in 1 .. j - 1 : reqs[queue[k].req].tenant # reqs[queue[j].req].tenant}

Rank(g, e, r, now) ==
    CASE g.policy = "PRIORITY_AGING" -> -(e.prio * g.level + g.aging * (now - r.arrived))
      [] g.policy = "FIFO" -> r.arrived
      [] g.policy = "WFQ" -> e.start

\* Rank, then arrival, then request id.
Before(g, d, e, reqs, now) ==
    LET rd == Rank(g, d, reqs[d.req], now)
        re == Rank(g, e, reqs[e.req], now)
    IN \/ rd < re
       \/ rd = re /\ reqs[d.req].arrived < reqs[e.req].arrived
       \/ rd = re /\ reqs[d.req].arrived = reqs[e.req].arrived /\ d.req <= e.req

\* There is one, as every request has one entry.
Best(g, queue, reqs, now) ==
    {j \in Candidates(g, queue, reqs) :
        \A k \in Candidates(g, queue, reqs) : Before(g, queue[j], queue[k], reqs, now)}

(***************************************************************************)
(* The tiers of the cache: one item per key, the latest use at the end.    *)
(***************************************************************************)
EmptyCache ==
    [l1 |-> <<>>, l2 |-> <<>>, rep |-> [s \in Semantics |-> None], neg |-> [k \in Keys |-> 0]]

HasCache(g) == g.l1 > 0 \/ g.l2 > 0

Place(tier, key) == CHOOSE j \in DOMAIN tier : tier[j].key = key
Item(tier, key) == tier[Place(tier, key)]

Without(tier, key) ==
    IF \E j \in DOMAIN tier : tier[j].key = key THEN RemoveAt(tier, Place(tier, key)) ELSE tier

Holds(tier, key, now) == \E j \in DOMAIN tier : tier[j].key = key /\ tier[j].expires > now

\* get(): a hit moves to the end, what has expired is dropped.
Got(tier, key, now) ==
    IF Holds(tier, key, now) THEN Append(Without(tier, key), Item(tier, key))
    ELSE Without(tier, key)

\* put(): the longest unused items make room.
Put(tier, capacity, item) ==
    LET rest == Without(tier, item.key)
        drop == IF Len(rest) >= capacity THEN Len(rest) - capacity + 1 ELSE 0
    IN IF capacity = 0 THEN tier ELSE Append(SubSeq(rest, drop + 1, Len(rest)), item)

\* The key whose answer serves a request of this meaning, if it is another one.
Representative(g, c, r) ==
    IF g.semantic /\ c.rep[r.semantic] # r.key THEN c.rep[r.semantic] ELSE None

ServedFrom(g, c, r, now) ==
    CASE Holds(c.l1, r.key, now) -> "cache_l1"
      [] ~Holds(c.l1, r.key, now) /\ Holds(c.l2, r.key, now) -> "cache_l2"
      [] OTHER -> IF /\ Representative(g, c, r) # None
                     /\ \/ Holds(c.l1, Representative(g, c, r), now)
                        \/ Holds(c.l2, Representative(g, c, r), now)
                  THEN "cache_semantic" ELSE None

\* The item that answers.
ServedItem(g, c, r, now) ==
    LET key == IF ServedFrom(g, c, r, now) = "cache_semantic" THEN Representative(g, c, r)
               ELSE r.key
    IN IF Holds(c.l1, key, now) THEN Item(c.l1, key) ELSE Item(c.l2, key)

\* Mutant of Backfilled: the copy gets a life of its own.
BackfilledAnew(g, c, key, now) ==
    Put(c.l1, g.l1, [Item(c.l2, key) EXCEPT !.expires = now + g.ttl])

\* An item of L2 is copied into L1 as it is.
Backfilled(g, c, key, now) == Put(c.l1, g.l1, Item(c.l2, key))

\* lookup(): what a look-up does to the tiers and to the index of meanings.
LookedUp(g, c, r, now) ==
    LET first == Got(c.l1, r.key, now)
        second == Got(c.l2, r.key, now)
        other == Representative(g, c, r)
    IN CASE ServedFrom(g, c, r, now) = "cache_l1" -> [c EXCEPT !.l1 = first]
         [] ServedFrom(g, c, r, now) = "cache_l2" ->
              [c EXCEPT !.l1 = Backfilled(g, [c EXCEPT !.l1 = first], r.key, now), !.l2 = second]
         [] ServedFrom(g, c, r, now) = "cache_semantic" ->
              [c EXCEPT !.l1 = Got(first, other, now),
                        !.l2 = IF Holds(c.l1, other, now) THEN second ELSE Got(second, other, now)]
         [] OTHER ->
              [c EXCEPT !.l1 = IF other = None THEN first ELSE Got(first, other, now),
                        !.l2 = IF other = None THEN second ELSE Got(second, other, now),
                        !.rep[r.semantic] = IF other = None THEN @ ELSE None]

NegativeHit(c, r, now) == c.neg[r.key] > now

Stored(g, c, r, ttl, now) ==
    LET item == [key |-> r.key, inserted |-> now, expires |-> now + ttl]
    IN [c EXCEPT !.l1 = Put(@, g.l1, item), !.l2 = Put(@, g.l2, item),
                 !.rep[r.semantic] = IF g.semantic THEN r.key ELSE @]

StoredNegative(g, c, r, now) == [c EXCEPT !.neg[r.key] = now + g.negative]
===============================================================================
