--------------------------- MODULE MCTrafficGateway ----------------------------
(* TrafficGateway for TLC: the governed gateway, a naive one (FIFO, retries    *)
(* without a budget, no sweep, a small upstream) and one under WFQ with no     *)
(* cache that scales.                                                          *)
EXTENDS TrafficGateway

CONSTANTS t1, t2, k1, k2, s1

Request(t, k, prio, shared) ==
    [tenant |-> t, key |-> k, semantic |-> s1, prio |-> prio, cost |-> 1, coalescable |-> shared]

MCProfiles == {Request(t1, k1, 3, TRUE), Request(t1, k2, 1, FALSE), Request(t2, k1, 0, TRUE)}

Governed ==
    [duration |-> 5, requests |-> 4,
     edge |-> [rate |-> 2, burst |-> 3], tenants |-> t2 :> [rate |-> 0, burst |-> 1],
     capacity |-> 2, policy |-> "PRIORITY_AGING", level |-> 2, aging |-> 1,
     concurrency |-> 2, slots |-> 2, room |-> 2,
     admission |-> TRUE, service |-> 1, est_window |-> 3, est_min |-> 1, budget |-> 3,
     sweeping |-> TRUE, sweep_interval |-> 1,
     l1 |-> 1, l2 |-> 2, semantic |-> TRUE, negative |-> 1, ttl |-> 2,
     coalescing |-> TRUE,
     retry |-> TRUE, max_attempts |-> 3, retry_base |-> 1, retry_cap |-> 1,
     ratio |-> 1, token |-> 2, initial |-> 2, burst |-> 3,
     breaker |-> TRUE, window |-> 4, min_samples |-> 2, cooldown |-> 1, probes |-> 1,
     shedding |-> TRUE, soft |-> 1, hard |-> 2, critical |-> 3,
     degrade |-> TRUE, degrade_from |-> 1,
     autoscale |-> FALSE, scale_from |-> 0, scale_delay |-> 0, scale_step |-> 0, scale_rest |-> 0]

Naive ==
    [Governed EXCEPT !.duration = 4, !.requests = 3, !.edge = [rate |-> 9, burst |-> 9], !.tenants = << >>,
        !.policy = "FIFO", !.capacity = 2, !.concurrency = 2, !.slots = 1, !.room = 1,
        !.admission = FALSE, !.shedding = FALSE, !.degrade = FALSE, !.sweeping = FALSE,
        !.semantic = FALSE, !.l1 = 0, !.l2 = 0, !.coalescing = FALSE,
        !.ratio = None, !.breaker = FALSE]

Scaling ==
    [Naive EXCEPT !.requests = 4, !.policy = "WFQ", !.retry = FALSE, !.coalescing = TRUE, !.concurrency = 1,
        !.sweeping = TRUE, !.sweep_interval = 2,
        !.autoscale = TRUE, !.scale_delay = 1, !.scale_step = 1, !.scale_rest = 1]

MCConfigs == {Governed, Naive, Scaling}
===============================================================================
