---------------------------- MODULE TrafficGateway -----------------------------
(***************************************************************************)
(* agent-traffic-gateway: the gateway in its simulation.  A tick of the    *)
(* clock lets the upstream answer and start calls, lets requests arrive,   *)
(* sweeps the queue, dispatches it and scales; when the time is over, what *)
(* has not ended is counted as late.  The workload, the service times and  *)
(* the failures are free, and so is the configuration, which stays.        *)
(***************************************************************************)
EXTENDS TrafficPolicies

CONSTANTS
    Configs,       \* the gateway's configuration, the upstream's and the length of the workload
    Profiles,      \* the kinds of requests
    Services, Ttls,
    MaxFailures    \* bound on the calls that fail

\* What GatewayConfig and UpstreamConfig allow, in whole numbers.
ASSUME TrafficAssumption ==
    /\ MaxFailures \in Nat
    /\ Services \subseteq Nat \ {0} /\ Ttls \subseteq Nat \ {0} /\ Ttls # {}
    /\ None \notin {"cache_l1", "cache_l2", "cache_semantic"}
    /\ None \notin [leader : Nat, waiters : SUBSET Nat]
    /\ Profiles \subseteq [tenant : Tenants, key : Keys, semantic : Semantics, prio : Nat,
                           cost : Nat, coalescable : BOOLEAN]
    /\ \A g \in Configs :
         /\ {g.duration, g.requests, g.capacity, g.concurrency, g.slots, g.room, g.budget, g.l1,
             g.l2, g.negative, g.token, g.initial, g.burst, g.scale_step, g.scale_delay,
             g.retry_base, g.retry_cap} \subseteq Nat
         /\ g.service < g.budget /\ (g.ratio # None => g.ratio \in Nat)
         /\ DOMAIN g.tenants \subseteq Tenants
         /\ \A b \in Buckets(g) : {Limit(g, b).rate, Limit(g, b).burst} \subseteq Nat

VARIABLES
    config,   \* chosen once
    now, phase,
    rq,       \* the requests in the order they arrived
    outcome,  \* the records emitted for each of them
    queue, sched, sem, up, breaker, budget, est, cache, tokens,
    flights,  \* coalescer._inflight: a key's leader and who waits for it
    leaders,  \* the requests in _leader_key
    swept, scaler,
    fails     \* failures so far

vars == <<config, now, phase, rq, outcome, queue, sched, sem, up, breaker, budget, est, cache,
          tokens, flights, leaders, swept, scaler, fails>>

Phases == {"tick", "upstream", "arrive", "sweep", "dispatch", "scale", "over"}
Statuses == {"OK", "DEGRADED", "REJECTED", "FAILED", "TIMEOUT"}

Init ==
    /\ config \in Configs
    /\ now = 0 /\ phase = "tick"
    /\ rq = <<>> /\ outcome = <<>>
    /\ queue = <<>> /\ sched = NoService
    /\ sem = [inflight |-> 0, limit |-> config.concurrency]
    /\ up = [queue |-> <<>>, active |-> <<>>]
    /\ breaker = ClosedBreaker /\ budget = FullBudget(config)
    /\ est = NoEstimate /\ cache = EmptyCache
    /\ tokens = [b \in Buckets(config) |-> Limit(config, b).burst]
    /\ flights = [k \in Keys |-> None] /\ leaders = {}
    /\ swept = 0 /\ scaler = [pending |-> None, until |-> 0, shrunk |-> 0]
    /\ fails = 0

(***************************************************************************)
(* The one way out.  born is when the answer came from upstream.           *)
(***************************************************************************)
Record(status, by, born) == [status |-> status, by |-> by, at |-> now, born |-> born]

\* What a rider of the leader is told.
Shared(status, by, born) ==
    Record(status, IF status \in {"OK", "DEGRADED"} THEN "coalesced" ELSE by, born)

Riders(i) == IF i \in leaders THEN flights[rq[i].key].waiters ELSE {}

\* Mutant of Finish: the riders of a late leader are forgotten.
FinishAlone(S, status, by, born) ==
    /\ outcome' = [i \in DOMAIN outcome |->
                     IF i \in S THEN Append(outcome[i], Record(status, by, born))
                     ELSE IF status # "TIMEOUT" /\ \E l \in S : i \in Riders(l)
                     THEN Append(outcome[i], Shared(status, by, born)) ELSE outcome[i]]
    /\ flights' = [k \in Keys |-> IF \E i \in S \cap leaders : rq[i].key = k THEN None
                                  ELSE flights[k]]
    /\ leaders' = leaders \ S

\* _finish() of the requests S, and their riders with them.
Finish(S, status, by, born) ==
    /\ outcome' = [i \in DOMAIN outcome |->
                     CASE i \in S -> Append(outcome[i], Record(status, by, born))
                       [] i \notin S /\ (\E l \in S : i \in Riders(l)) ->
                            Append(outcome[i], Shared(status, by, born))
                       [] OTHER -> outcome[i]]
    /\ flights' = [k \in Keys |-> IF \E i \in S \cap leaders : rq[i].key = k THEN None
                                  ELSE flights[k]]
    /\ leaders' = leaders \ S

Unfinished == UNCHANGED <<outcome, flights, leaders>>

Entry(r, i, degrade) ==
    [req |-> i, attempts |-> 0, prio |-> r.prio, degrade |-> degrade,
     start |-> StartOf(config, sched, r)]

\* _on_upstream_failure() of an entry, with the queue and the schedule as they are by now.
Fail(e, q, s) ==
    \E backoff \in Backoffs(config, e.attempts) :
        LET again == ShouldRetry(config, e, rq[e.req], now, backoff) /\ HasBudget(config, budget)
        IN \/ /\ again /\ Len(q) < config.capacity
              /\ budget' = Granted(config, budget)
              /\ queue' = Append(q, [Retried(e) EXCEPT !.start = StartOf(config, s, rq[e.req])])
              /\ sched' = Enqueued(config, s, rq[e.req])
              /\ Unfinished /\ UNCHANGED cache
           \/ /\ again /\ Len(q) >= config.capacity
              /\ budget' = Granted(config, budget)
              /\ Finish({e.req}, "REJECTED", "upstream", now)
              /\ queue' = q /\ sched' = s /\ UNCHANGED cache
           \/ /\ ~again
              /\ cache' = IF HasCache(config) THEN StoredNegative(config, cache, rq[e.req], now)
                          ELSE cache
              /\ Finish({e.req}, "FAILED", "upstream", now)
              /\ queue' = q /\ sched' = s /\ UNCHANGED budget

(***************************************************************************)
(* A tick, and the upstream in it.                                         *)
(***************************************************************************)
Tick ==
    /\ phase = "tick" /\ now < config.duration
    /\ now' = now + 1 /\ tokens' = Refilled(config, tokens)
    /\ phase' = "upstream"
    /\ UNCHANGED <<config, rq, outcome, queue, sched, sem, up, breaker, budget, est, cache,
                   flights, leaders, swept, scaler, fails>>

Due == {j \in DOMAIN up.active : up.active[j].finish <= now}

\* on_upstream_done() of the first call that is due.
Returns(j) ==
    /\ phase = "upstream" /\ j \in Due /\ \A k \in Due : j <= k
    /\ up' = [up EXCEPT !.active = RemoveAt(@, j)]
    /\ sem' = [sem EXCEPT !.inflight = @ - 1]

Timely(e) == now < rq[e.req].deadline

Succeeds(j) ==
    LET e == up.active[j].entry
    IN /\ Returns(j)
       /\ breaker' = Recorded(config, breaker, TRUE, now)
       /\ budget' = Succeeded(config, budget)
       /\ est' = [est EXCEPT !.done = Append(@, now)]
       /\ \/ /\ Timely(e)
             /\ IF HasCache(config)
                THEN \E ttl \in Ttls : cache' = Stored(config, cache, rq[e.req], ttl, now)
                ELSE UNCHANGED cache
             /\ Finish({e.req}, IF e.degrade THEN "DEGRADED" ELSE "OK", "upstream", now)
          \/ /\ ~Timely(e)
             /\ Finish({e.req}, "TIMEOUT", "upstream", now)
             /\ UNCHANGED cache
       /\ UNCHANGED <<config, now, phase, rq, queue, sched, tokens, swept, scaler, fails>>

\* Whether a call fails is drawn on submission; nobody looks before it returns.
Breaks(j) ==
    /\ Returns(j)
    /\ fails < MaxFailures /\ fails' = fails + 1
    /\ breaker' = Recorded(config, breaker, FALSE, now)
    /\ Fail(up.active[j].entry, queue, sched)
    /\ UNCHANGED <<config, now, phase, rq, est, tokens, swept, scaler>>

CanStart == up.queue # <<>> /\ Len(up.active) < config.slots

UpstreamStarts ==
    /\ phase = "upstream" /\ Due = {} /\ CanStart
    /\ \E s \in Services :
         up' = [queue |-> Tail(up.queue),
                active |-> Append(up.active, [entry |-> Head(up.queue), finish |-> now + s])]
    /\ UNCHANGED <<config, now, phase, rq, outcome, queue, sched, sem, breaker, budget, est, cache,
                   tokens, flights, leaders, swept, scaler, fails>>

UpstreamIsDone ==
    /\ phase = "upstream" /\ Due = {} /\ ~CanStart
    /\ phase' = "arrive"
    /\ UNCHANGED <<config, now, rq, outcome, queue, sched, sem, up, breaker, budget, est, cache,
                   tokens, flights, leaders, swept, scaler, fails>>

(***************************************************************************)
(* handle(): where a request's way through the gateway ends.               *)
(***************************************************************************)
Arrived(p) ==
    [tenant |-> p.tenant, key |-> p.key, semantic |-> p.semantic, prio |-> p.prio,
     cost |-> p.cost, coalescable |-> p.coalescable,
     arrived |-> now, deadline |-> now + config.budget]

\* The gateway answers by itself, at once.
Answers(status, by, born) ==
    /\ outcome' = Append(outcome, <<Record(status, by, born)>>)
    /\ UNCHANGED <<queue, sched, flights, leaders>>

Pending == outcome' = Append(outcome, <<>>)

IsLimited(r) ==
    /\ ~PassesLimits(config, r, tokens)
    /\ Answers("REJECTED", "upstream", now)
    /\ UNCHANGED <<breaker, est, cache>>

\* Past the limits, allow() has its effect on the breaker.
IsShortCircuited(r) ==
    /\ PassesLimits(config, r, tokens) /\ ~Allows(config, breaker, now)
    /\ Answers("REJECTED", "upstream", now)
    /\ UNCHANGED <<breaker, est, cache>>

Passes(r) ==
    /\ PassesLimits(config, r, tokens) /\ Allows(config, breaker, now)
    /\ breaker' = IF config.breaker THEN Cooled(config, breaker, now) ELSE breaker

Hits(r) == HasCache(config) /\ ServedFrom(config, cache, r, now) # None

IsServed(r) ==
    /\ Passes(r) /\ Hits(r)
    /\ cache' = LookedUp(config, cache, r, now)
    /\ Answers("OK", ServedFrom(config, cache, r, now), ServedItem(config, cache, r, now).inserted)
    /\ UNCHANGED est

Misses(r) ==
    /\ Passes(r) /\ ~Hits(r)
    /\ cache' = IF HasCache(config) THEN LookedUp(config, cache, r, now) ELSE cache

KnownToFail(r) == HasCache(config) /\ NegativeHit(cache, r, now)

IsKnownToFail(r) ==
    /\ Misses(r) /\ KnownToFail(r)
    /\ Answers("FAILED", "cache_l2", now)
    /\ UNCHANGED est

HasFlight(r) == config.coalescing /\ r.coalescable /\ flights[r.key] # None

Joins(r) ==
    /\ Misses(r) /\ ~KnownToFail(r) /\ HasFlight(r)
    /\ flights' = [flights EXCEPT ![r.key].waiters = @ \cup {Len(rq) + 1}]
    /\ Pending
    /\ UNCHANGED <<queue, sched, leaders, est>>

\* Past the coalescer, decide() reads the estimate of the throughput.
Asks(r) ==
    /\ Misses(r) /\ ~KnownToFail(r) /\ ~HasFlight(r)
    /\ est' = Estimated(config, est, now)

Wait == PredictedWait(config, est, Len(queue), now)

IsRefused(r) ==
    /\ Asks(r)
    /\ Infeasible(config, r, Wait, now) \/ Sheds(config, r, Wait)
    /\ Answers("REJECTED", "upstream", now)

Overflows(r) ==
    /\ Asks(r) /\ ~Infeasible(config, r, Wait, now) /\ ~Sheds(config, r, Wait)
    /\ Len(queue) >= config.capacity
    /\ Answers("REJECTED", "upstream", now)

Enqueues(r) ==
    LET i == Len(rq) + 1
    IN /\ Asks(r) /\ ~Infeasible(config, r, Wait, now) /\ ~Sheds(config, r, Wait)
       /\ Len(queue) < config.capacity
       /\ queue' = Append(queue, Entry(r, i, Degrades(config, r, Wait)))
       /\ sched' = Enqueued(config, sched, r)
       /\ Pending
       /\ IF config.coalescing /\ r.coalescable
          THEN /\ flights' = [flights EXCEPT ![r.key] = [leader |-> i, waiters |-> {}]]
               /\ leaders' = leaders \cup {i}
          ELSE UNCHANGED <<flights, leaders>>

Arrive(p) ==
    /\ phase = "arrive" /\ Len(rq) < config.requests
    /\ rq' = Append(rq, Arrived(p))
    /\ tokens' = Spent(config, Arrived(p), tokens)
    /\ \/ IsLimited(Arrived(p)) \/ IsShortCircuited(Arrived(p)) \/ IsServed(Arrived(p))
       \/ IsKnownToFail(Arrived(p)) \/ Joins(Arrived(p)) \/ IsRefused(Arrived(p))
       \/ Overflows(Arrived(p)) \/ Enqueues(Arrived(p))
    /\ UNCHANGED <<config, now, phase, sem, up, budget, swept, scaler, fails>>

NoMoreArrive ==
    /\ phase = "arrive"
    /\ phase' = "sweep"
    /\ UNCHANGED <<config, now, rq, outcome, queue, sched, sem, up, breaker, budget, est, cache,
                   tokens, flights, leaders, swept, scaler, fails>>

(***************************************************************************)
(* The gateway's tick: sweep, then dispatch.                               *)
(***************************************************************************)
Expired(e) == rq[e.req].deadline <= now

\* The places of S one after the other.
InOrder(S) ==
    {f \in [1 .. Cardinality(S) -> S] :
        /\ {f[n] : n \in DOMAIN f} = S
        /\ \A m, n \in DOMAIN f : m < n => f[m] < f[n]}

Sweep ==
    /\ phase = "sweep"
    /\ phase' = "dispatch"
    /\ IF config.sweeping /\ now - swept >= config.sweep_interval
       THEN /\ swept' = now
            /\ \E keep \in InOrder({j \in DOMAIN queue : ~Expired(queue[j])}) :
                  queue' = [n \in DOMAIN keep |-> queue[keep[n]]]
            /\ Finish({e.req : e \in {x \in ToSet(queue) : Expired(x)}}, "TIMEOUT", "upstream", now)
       ELSE Unfinished /\ UNCHANGED <<queue, swept>>
    /\ UNCHANGED <<config, now, rq, sched, sem, up, breaker, budget, est, cache, tokens, scaler,
                   fails>>

CanDispatch == sem.inflight < sem.limit /\ queue # <<>>

Dispatch ==
    /\ phase = "dispatch" /\ CanDispatch
    /\ \E j \in Best(config, queue, rq, now) :
         LET e == queue[j]
             rest == RemoveAt(queue, j)
             service == Popped(config, sched, e)
         IN \/ /\ Expired(e)
               /\ Finish({e.req}, "TIMEOUT", "upstream", now)
               /\ queue' = rest /\ sched' = service
               /\ UNCHANGED <<sem, up, budget, cache>>
            \/ \* 429: upstream has no room
               /\ ~Expired(e) /\ Len(up.queue) >= config.room
               /\ Fail(e, rest, service)
               /\ UNCHANGED <<sem, up>>
            \/ /\ ~Expired(e) /\ Len(up.queue) < config.room
               /\ up' = [up EXCEPT !.queue = Append(@, e)]
               /\ sem' = [sem EXCEPT !.inflight = @ + 1]
               /\ queue' = rest /\ sched' = service
               /\ Unfinished /\ UNCHANGED <<budget, cache>>
    /\ UNCHANGED <<config, now, phase, rq, breaker, est, tokens, swept, scaler, fails>>

DispatchIsDone ==
    /\ phase = "dispatch" /\ ~CanDispatch
    /\ phase' = "scale"
    /\ UNCHANGED <<config, now, rq, outcome, queue, sched, sem, up, breaker, budget, est, cache,
                   tokens, flights, leaders, swept, scaler, fails>>

(***************************************************************************)
(* The autoscaler on the depth of the queue, and the end.                  *)
(***************************************************************************)
Scale ==
    /\ phase = "scale"
    /\ phase' = "tick"
    /\ \/ \* nothing to do, or more is on its way
          /\ \/ ~config.autoscale
             \/ scaler.pending # None /\ now < scaler.until
             \/ /\ scaler.pending = None /\ Len(queue) <= config.scale_from
                /\ ~(/\ queue = <<>> /\ sem.limit > config.concurrency
                     /\ now - scaler.shrunk > config.scale_rest)
          /\ UNCHANGED <<sem, scaler>>
       \/ \* the cold start is over
          /\ config.autoscale /\ scaler.pending # None /\ now >= scaler.until
          /\ sem' = [sem EXCEPT !.limit = scaler.pending]
          /\ scaler' = [scaler EXCEPT !.pending = None]
       \/ /\ config.autoscale /\ scaler.pending = None /\ Len(queue) > config.scale_from
          /\ scaler' = [scaler EXCEPT !.pending = sem.limit + config.scale_step,
                                      !.until = now + config.scale_delay]
          /\ UNCHANGED sem
       \/ /\ config.autoscale /\ scaler.pending = None /\ queue = <<>>
          /\ sem.limit > config.concurrency /\ now - scaler.shrunk > config.scale_rest
          /\ sem' = [sem EXCEPT !.limit = Most(config.concurrency, @ - config.scale_step)]
          /\ scaler' = [scaler EXCEPT !.shrunk = now]
    /\ UNCHANGED <<config, now, rq, outcome, queue, sched, up, breaker, budget, est, cache,
                   tokens, flights, leaders, swept, fails>>

Calls == ToSet(up.queue) \cup {call.entry : call \in ToSet(up.active)}

\* drain_pending(): the queue, the calls, and the waiters nobody has ended.
Drain ==
    LET left == {e.req : e \in ToSet(queue) \cup Calls}
        riders == UNION {flights[k].waiters : k \in {x \in Keys : flights[x] # None}}
    IN /\ phase = "tick" /\ now = config.duration
       /\ outcome' = [i \in DOMAIN outcome |->
                        IF i \in left \cup riders
                        THEN Append(outcome[i], Record("TIMEOUT", "upstream", now))
                        ELSE outcome[i]]
       /\ queue' = <<>> /\ leaders' = leaders \ left
       /\ flights' = [k \in Keys |-> None]
       /\ phase' = "over"
       /\ UNCHANGED <<config, now, rq, sched, sem, up, breaker, budget, est, cache, tokens, swept,
                      scaler, fails>>

Next ==
    \/ Tick
    \/ \E j \in DOMAIN up.active : Succeeds(j) \/ Breaks(j)
    \/ UpstreamStarts
    \/ UpstreamIsDone
    \/ \E p \in Profiles : Arrive(p)
    \/ NoMoreArrive
    \/ Sweep
    \/ Dispatch
    \/ DispatchIsDone
    \/ Scale
    \/ Drain

\* The simulation is one loop: it goes on as long as it can.
Spec == Init /\ [][Next]_vars /\ WF_vars(Next)
-------------------------------------------------------------------------------
(***************************************************************************)
(* Properties.                                                             *)
(***************************************************************************)

Requests == [tenant : Tenants, key : Keys, semantic : Semantics, prio : Nat, cost : Nat,
             coalescable : BOOLEAN, arrived : Nat, deadline : Nat]

Entries == [req : Nat, attempts : Nat, prio : Nat, degrade : BOOLEAN, start : Nat]

Records == [status : Statuses, at : Nat, born : Nat,
            by : {"upstream", "coalesced", "cache_l1", "cache_l2", "cache_semantic"}]

Items == [key : Keys, inserted : Nat, expires : Nat]

TypeOK ==
    /\ config \in Configs /\ now \in 0 .. config.duration /\ phase \in Phases
    /\ rq \in Seq(Requests) /\ Len(rq) <= config.requests
    /\ outcome \in Seq(Seq(Records)) /\ Len(outcome) = Len(rq)
    /\ queue \in Seq(Entries) /\ Len(queue) <= config.capacity
    /\ sched \in [vtime : Nat, last : [Tenants -> Nat]]
    /\ sem \in [inflight : Nat, limit : Nat]
    /\ up \in [queue : Seq(Entries), active : Seq([entry : Entries, finish : Nat])]
    /\ breaker.state \in {"CLOSED", "OPEN", "HALF_OPEN"}
    /\ budget \in [tokens : Nat, granted : Nat, successes : Nat]
    /\ cache \in [l1 : Seq(Items), l2 : Seq(Items), rep : [Semantics -> Keys \cup {None}],
                  neg : [Keys -> Nat]]
    /\ Len(cache.l1) <= config.l1 /\ Len(cache.l2) <= config.l2
    /\ tokens \in [Buckets(config) -> Nat]
    /\ \A b \in Buckets(config) : tokens[b] <= Limit(config, b).burst
    /\ flights \in [Keys -> {None} \cup [leader : Nat, waiters : SUBSET Nat]]
    /\ leaders \subseteq Nat /\ swept \in Nat /\ fails \in 0 .. MaxFailures
    /\ scaler \in [pending : Nat \cup {None}, until : Nat, shrunk : Nat]

In(i, entries) == \E j \in DOMAIN entries : entries[j].req = i

Once(entries) == \A a, b \in DOMAIN entries : entries[a].req = entries[b].req => a = b

Active == [j \in DOMAIN up.active |-> up.active[j].entry]

Waits(i) == \E k \in Keys : flights[k] # None /\ i \in flights[k].waiters

\* When the simulation is over nobody looks upstream any more.
HasEntry(i) == In(i, queue) \/ (phase # "over" /\ (In(i, up.queue) \/ In(i, Active)))

Places(i) ==
    {p \in {"queue", "room", "slot", "leader", "ended"} :
        \/ p = "queue" /\ In(i, queue)
        \/ p = "room" /\ phase # "over" /\ In(i, up.queue)
        \/ p = "slot" /\ phase # "over" /\ In(i, Active)
        \/ p = "leader" /\ Waits(i)
        \/ p = "ended" /\ outcome[i] # <<>>}

\* A request that has arrived is in one place and stays there once: in the
\* queue, upstream, with a leader that is in one of these, or ended.  The
\* semaphore counts the calls that are out.  (handle, _dispatch,
\* on_upstream_done, _finish and the retries between them, gateway.py:17-23.)
OnePlace ==
    /\ \A i \in DOMAIN rq : \E p \in Places(i) : Places(i) = {p} /\ Len(outcome[i]) <= 1
    /\ Once(queue) /\ Once(up.queue) /\ Once(Active)
    /\ \A k \in Keys : flights[k] # None =>
         LET l == flights[k].leader IN l \in leaders /\ rq[l].key = k /\ HasEntry(l)
    /\ sem.inflight = Len(up.queue) + Len(up.active)

\* With a budget, the retries that were granted are paid for by the initial
\* tokens and the successes (RetryBudget, protect.py), retries that found
\* the queue full included.
RetriesAreBudgeted ==
    config.ratio # None =>
        budget.granted * config.token <= config.initial + config.ratio * budget.successes

\* An answer from the cache, or shared by a rider, is younger than the
\* longest life an item may have, through copies between the tiers and the
\* index of meanings (cache.py).
AnswersAreFresh ==
    \A i \in DOMAIN outcome : \A j \in DOMAIN outcome[i] :
        \E ttl \in Ttls : outcome[i][j].at - outcome[i][j].born < ttl

\* The simulation ends: no tick keeps dispatching what upstream keeps
\* refusing, and the end finds every request an outcome.
SimEnds == <>(phase = "over" /\ \A i \in DOMAIN rq : outcome[i] # <<>>)
===============================================================================
