----------------------------- MODULE EventFanout ------------------------------
(***************************************************************************)
(* agent-event-fanout: processes that each run an outbox worker, a fan-out *)
(* consumer and a webhook worker over one store, with the requests that    *)
(* create events, change subscribers, and replay or cancel dead deliveries.*)
(*                                                                         *)
(* A stall is a claim that times out under the worker that holds it.       *)
(***************************************************************************)
EXTENDS FanoutWebhook

CONSTANTS
    Durable,      \* the queues are Redis lists; otherwise they die with the process
    MaxRequests,  \* bound: requests that change a subscriber, replay or cancel
    MaxFailures,  \* bound: queue failures, unexpected exceptions, ends of a process
    MaxStalls     \* bound: stalls

ASSUME EventFanoutAssumption ==
    /\ Durable \in BOOLEAN
    /\ ~Durable => \A p, q \in Procs : p = q
    /\ {MaxRequests, MaxFailures, MaxStalls} \subseteq Nat

VARIABLES requests, faults, crashes, stalls   \* what was used of the bounds

budgetVars == <<requests, faults, crashes, stalls>>

vars == <<storeVars, outboxVars, consumerVars, webhookVars, adminVars, arrived, raced, budgetVars>>

Init ==
    /\ StoreInit
    /\ OutboxInit
    /\ WebhookInit
    /\ requests = 0 /\ faults = 0 /\ crashes = 0 /\ stalls = 0

(***************************************************************************)
(* The tasks.                                                              *)
(***************************************************************************)
OutboxMove(p) ==
    /\ OutboxStep(p)
    /\ UNCHANGED <<consumerVars, webhookVars, adminVars, arrived, raced, budgetVars>>

ConsumerMove(p) ==
    /\ ConsumerStep(p)
    /\ UNCHANGED <<outboxVars, webhookVars, adminVars, arrived, raced, budgetVars>>

WorkerMove(p) ==
    /\ WorkerStep(p)
    /\ UNCHANGED <<outboxVars, consumerVars, adminVars, raced, budgetVars>>

AdminMove(a) ==
    /\ AdminStep(a)
    /\ UNCHANGED <<outboxVars, consumerVars, webhookVars, arrived, budgetVars>>

(***************************************************************************)
(* The requests.                                                           *)
(***************************************************************************)
Creates(e) ==
    /\ CreateEvent(e)
    /\ UNCHANGED <<row, matching, events, deliveries, outboxVars, consumerVars, webhookVars,
                   adminVars, arrived, raced, budgetVars>>

\* update_subscriber: its status or its list of events.
UpdatesSubscriber(s) ==
    /\ requests < MaxRequests
    /\ requests' = requests + 1
    /\ matching' = IF s \in matching THEN matching \ {s} ELSE matching \cup {s}
    /\ UNCHANGED <<outbox, row, events, deliveries, outboxVars, consumerVars, webhookVars,
                   adminVars, arrived, raced, faults, crashes, stalls>>

AdminStarts(a) ==
    /\ requests < MaxRequests
    /\ requests' = requests + 1
    /\ \E d \in DeliveryIds, step \in {"replay", "cancel"} : AdminReads(a, d, step)
    /\ UNCHANGED <<outboxVars, consumerVars, webhookVars, arrived,
                   faults, crashes, stalls>>

(***************************************************************************)
(* Failures and time.                                                      *)
(***************************************************************************)
Fails(p) ==
    /\ faults + crashes < MaxFailures
    /\ faults' = faults + 1
    /\ \/ OutboxPublishFails(p) /\ UNCHANGED <<consumerVars, webhookVars, arrived>>
       \/ ConsumerPublishFails(p) /\ UNCHANGED <<outboxVars, webhookVars, arrived>>
       \/ WorkerPostRaises(p) /\ UNCHANGED <<outboxVars, consumerVars>>
    /\ UNCHANGED <<adminVars, raced, requests, crashes, stalls>>

AdminFails(a) ==
    /\ faults + crashes < MaxFailures
    /\ faults' = faults + 1
    /\ AdminPublishFails(a)
    /\ UNCHANGED <<outboxVars, consumerVars, webhookVars, arrived, requests, crashes, stalls>>

\* The process ends, with the requests it serves, and starts again.  Told to
\* stop, the outbox worker still gives back the entry it is publishing.
Ends(p) ==
    /\ faults + crashes < MaxFailures
    /\ crashes' = crashes + 1
    /\ \/ UNCHANGED outbox
       \/ \E e \in obatch[p] : /\ opc[p] = "publish" \/ (opc[p] = "mark" /\ oevt[p] = e)
                              /\ MarkOutbox(e, "PENDING")
    /\ IF Durable THEN UNCHANGED <<events, deliveries>>
                  ELSE events' = <<>> /\ deliveries' = <<>>
    /\ opc' = [opc EXCEPT ![p] = "idle"]
    /\ obatch' = [obatch EXCEPT ![p] = {}]
    /\ oevt' = [oevt EXCEPT ![p] = None]
    /\ cpc' = [cpc EXCEPT ![p] = "idle"]
    /\ cevt' = [cevt EXCEPT ![p] = None]
    /\ ctodo' = [ctodo EXCEPT ![p] = {}]
    /\ csub' = [csub EXCEPT ![p] = None]
    /\ wpc' = [wpc EXCEPT ![p] = "idle"]
    /\ wbatch' = [wbatch EXCEPT ![p] = {}]
    /\ wcur' = [wcur EXCEPT ![p] = None]
    /\ wout' = [wout EXCEPT ![p] = "none"]
    /\ \E A \in SUBSET Admins :
          /\ apc' = [a \in Admins |-> IF a \in A THEN "idle" ELSE apc[a]]
          /\ acopy' = [a \in Admins |-> IF a \in A THEN None ELSE acopy[a]]
    /\ UNCHANGED <<row, matching, arrived, raced, requests, faults, stalls>>

\* Somebody alive works on the entry, or on the delivery.
EntryHeld(e) == \E p \in Procs : e \in obatch[p]

Held(d) == \E p \in Procs : \E c \in wbatch[p] : c.id = d

Stall(held) == IF held THEN stalls < MaxStalls /\ stalls' = stalls + 1 ELSE UNCHANGED stalls

EntryTimesOut(e) ==
    /\ outbox[e].st = "PROCESSING"
    /\ ~outbox[e].ripe
    /\ Stall(EntryHeld(e))
    /\ outbox' = [outbox EXCEPT ![e].ripe = TRUE]
    /\ UNCHANGED <<row, matching, events, deliveries, outboxVars, consumerVars, webhookVars,
                   adminVars, arrived, raced, requests, faults, crashes>>

\* The claim of a delivery times out, or its back-off is over.
DeliveryRipens(d) ==
    /\ Status(d) \in {"DELIVERING", "RETRYING"}
    /\ ~row[d].ripe
    /\ Stall(Status(d) = "DELIVERING" /\ Held(d))
    /\ row' = [row EXCEPT ![d].ripe = TRUE]
    /\ UNCHANGED <<outbox, matching, events, deliveries, outboxVars, consumerVars, webhookVars,
                   adminVars, arrived, raced, requests, faults, crashes>>

Next ==
    \/ \E p \in Procs : \/ OutboxMove(p) \/ ConsumerMove(p) \/ WorkerMove(p)
                        \/ Fails(p) \/ Ends(p)
    \/ \E a \in Admins : AdminMove(a) \/ AdminStarts(a) \/ AdminFails(a)
    \/ \E e \in Events : Creates(e) \/ EntryTimesOut(e)
    \/ \E s \in Subs : UpdatesSubscriber(s)
    \/ \E d \in DeliveryIds : DeliveryRipens(d)

Spec == Init /\ [][Next]_vars

\* The tasks of a process take their turns, the sender's time-out ends every
\* POST, and time passes for what nobody holds.  Nobody has to create an event,
\* change a subscriber or ask for a replay, and nothing has to fail.
Fairness ==
    /\ \A p \in Procs : WF_vars(OutboxMove(p)) /\ WF_vars(ConsumerMove(p))
                        /\ WF_vars(WorkerMove(p))
    /\ \A a \in Admins : WF_vars(AdminMove(a))
    /\ \A e \in Events : WF_vars(~EntryHeld(e) /\ EntryTimesOut(e))
    /\ \A d \in DeliveryIds : WF_vars(~Held(d) /\ DeliveryRipens(d))

FairSpec == Spec /\ Fairness

(***************************************************************************)
(* Properties.                                                             *)
(***************************************************************************)
\* Every variable of the fan-out has its type.
TypeOK ==
    /\ StoreTypeOK
    /\ OutboxTypeOK
    /\ WebhookTypeOK
    /\ {requests, faults, crashes, stalls} \subseteq Nat

\* Unless a claim timed out under a live worker, or a request wrote over what
\* another one had opened again, a delivery in a worker's hands is in nobody
\* else's, and its row is still the one the worker claimed: so every outcome
\* written by id alone lands on the attempt it belongs to.
ClaimIsExclusive ==
    stalls = 0 /\ ~raced =>
       \A p \in Procs : \A c \in wbatch[p] :
          /\ Status(c.id) = "DELIVERING" /\ row[c.id].att = c.att
          /\ \A q \in Procs \ {p} : \A b \in wbatch[q] : b.id # c.id

\* Every delivery follows the abstract life cycle: created once, delivered only
\* after it reached its subscriber, and settled for good afterwards.
Promise == INSTANCE WebhookDelivery WITH
    Ids <- DeliveryIds,
    received <- arrived,
    phase <- [d \in DeliveryIds |->
                 CASE Status(d) = "ABSENT" -> "none"
                   [] Status(d) = "SUCCESS" -> "delivered"
                   [] Status(d) = "DLQ" -> "dead"
                   [] Status(d) = "CANCELLED" -> "cancelled"
                   [] OTHER -> "open"]

KeepsPromise == Promise!DeliverySpec

\* While no process ends, every subscriber that goes on matching a stored event
\* gets a delivery.
FanoutIsComplete ==
    \A e \in Events, s \in Subs :
       outbox[e].st # "ABSENT" /\ s \in matching
          ~> s \notin matching \/ Status(<<e, s>>) # "ABSENT" \/ crashes > 0

\* A delivery that was created is settled in the end, over crashes between its
\* claim and its outcome: nothing stays DELIVERING for ever.
DeliverySettles ==
    \A d \in DeliveryIds : Status(d) # "ABSENT"
                              ~> Status(d) \in {"SUCCESS", "DLQ", "CANCELLED"}

===============================================================================
