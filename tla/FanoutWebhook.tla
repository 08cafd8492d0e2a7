---------------------------- MODULE FanoutWebhook -----------------------------
(***************************************************************************)
(* Who works on the deliveries: the WebhookWorker of every process, with   *)
(* its two ways to claim, and the replay and cancel requests of DLQService.*)
(* The subscriber's answer is any the sender distinguishes.                *)
(***************************************************************************)
EXTENDS FanoutOutbox

CONSTANTS Admins   \* the requests on dead deliveries served at a time

VARIABLES
    wpc, wbatch, wcur, wout,  \* WebhookWorker: its step, claimed copies, current one, outcome
    apc, acopy,               \* a request: its step, the delivery it read
    arrived,                  \* history: the deliveries a subscriber accepted
    raced                     \* history: a request wrote over a delivery that was no
                              \* longer dead, for another request had been there first

webhookVars == <<wpc, wbatch, wcur, wout>>

adminVars == <<apc, acopy>>

Outcomes == {"success", "retryable", "permanent"}

WebhookTypeOK ==
    /\ wpc \in [Procs -> {"idle", "claim", "post", "write"}]
    /\ wbatch \in [Procs -> SUBSET Copies]
    /\ wcur \in [Procs -> Copies \cup {None}]
    /\ wout \in [Procs -> Outcomes \cup {"none"}]
    /\ apc \in [Admins -> {"idle", "replay", "publish", "cancel"}]
    /\ acopy \in [Admins -> Copies \cup {None}]
    /\ arrived \subseteq DeliveryIds
    /\ raced \in BOOLEAN

WebhookInit ==
    /\ wpc = [p \in Procs |-> "idle"]
    /\ wbatch = [p \in Procs |-> {}]
    /\ wcur = [p \in Procs |-> None]
    /\ wout = [p \in Procs |-> "none"]
    /\ apc = [a \in Admins |-> "idle"]
    /\ acopy = [a \in Admins |-> None]
    /\ arrived = {}
    /\ raced = FALSE

(***************************************************************************)
(* WebhookWorker.                                                          *)
(***************************************************************************)
\* deliver_delivery, first half: an id from the queue.
WorkerPops(p) ==
    /\ wpc[p] = "idle"
    /\ PopDelivery
    /\ wcur' = [wcur EXCEPT ![p] = [id |-> Head(deliveries), att |-> 0]]
    /\ wpc' = [wpc EXCEPT ![p] = "claim"]
    /\ UNCHANGED <<wbatch, wout, outbox, row, matching, events, arrived>>

\* claim_delivery: somebody else's delivery, or a settled one, is let go.
WorkerClaims(p) ==
    /\ wpc[p] = "claim"
    /\ LET d == wcur[p].id
       IN IF Claimable(d)
          THEN /\ ClaimRows({d})
               /\ wbatch' = [wbatch EXCEPT ![p] = Claimed({d})]
               /\ wpc' = [wpc EXCEPT ![p] = "post"]
          ELSE wpc' = [wpc EXCEPT ![p] = "idle"] /\ UNCHANGED <<row, wbatch>>
    /\ wcur' = [wcur EXCEPT ![p] = None]
    /\ UNCHANGED <<wout, outbox, matching, events, deliveries, arrived>>

\* process_due: a batch of due deliveries, oldest first; any of them here.
WorkerScans(p) ==
    /\ wpc[p] = "idle"
    /\ \E D \in SUBSET {d \in DeliveryIds : Due(d)} :
          /\ D # {}
          /\ Cardinality(D) <= Batch
          /\ Cardinality(D) = Batch \/ \A d \in DeliveryIds : Due(d) => d \in D
          /\ ClaimRows(D)
          /\ wbatch' = [wbatch EXCEPT ![p] = Claimed(D)]
    /\ wpc' = [wpc EXCEPT ![p] = "post"]
    /\ UNCHANGED <<wcur, wout, outbox, matching, events, deliveries, arrived>>

\* deliver_claimed up to the answer.  A time-out or a broken connection is
\* retryable, and the subscriber may have accepted the event before it.
WorkerPosts(p) ==
    \E c \in wbatch[p], outcome \in Outcomes :
       /\ wpc[p] = "post"
       /\ \/ outcome # "permanent" /\ arrived' = arrived \cup {c.id}
          \/ outcome # "success" /\ UNCHANGED arrived
       /\ wcur' = [wcur EXCEPT ![p] = c]
       /\ wout' = [wout EXCEPT ![p] = outcome]
       /\ wpc' = [wpc EXCEPT ![p] = "write"]
       /\ UNCHANGED <<wbatch, storeVars>>

\* An exception the sender does not expect, as for a URL httpx rejects: logged,
\* and the delivery stays in work.
WorkerPostRaises(p) ==
    \E c \in wbatch[p] :
       /\ wpc[p] = "post"
       /\ wbatch' = [wbatch EXCEPT ![p] = @ \ {c}]
       /\ wpc' = [wpc EXCEPT ![p] = IF wbatch'[p] = {} THEN "idle" ELSE "post"]
       /\ UNCHANGED <<wcur, wout, storeVars, arrived>>

Exhausted(c) == c.att >= MaxAttempts

\* Mutant of Verdict: a lost answer counts as delivered.
VerdictHopeful(c, outcome) == IF outcome = "permanent" THEN "DLQ" ELSE "SUCCESS"

\* What becomes of the delivery: mark_success, schedule_retry or dead_letter.
Verdict(c, outcome) ==
    IF outcome = "success" THEN "SUCCESS"
    ELSE IF outcome = "retryable" /\ ~Exhausted(c) THEN "RETRYING"
    ELSE "DLQ"

WorkerWrites(p) ==
    /\ wpc[p] = "write"
    /\ UpdateDelivery(wcur[p], Verdict(wcur[p], wout[p]))
    /\ wbatch' = [wbatch EXCEPT ![p] = @ \ {wcur[p]}]
    /\ wcur' = [wcur EXCEPT ![p] = None]
    /\ wout' = [wout EXCEPT ![p] = "none"]
    /\ wpc' = [wpc EXCEPT ![p] = IF wbatch'[p] = {} THEN "idle" ELSE "post"]
    /\ UNCHANGED <<outbox, matching, events, deliveries, arrived>>

WorkerStep(p) ==
    WorkerPops(p) \/ WorkerClaims(p) \/ WorkerScans(p) \/ WorkerPosts(p) \/ WorkerWrites(p)

(***************************************************************************)
(* DLQService.                                                             *)
(***************************************************************************)
\* _require_dlq: the request has read a dead delivery.
AdminReads(a, d, step) ==
    /\ apc[a] = "idle"
    /\ Status(d) = "DLQ"
    /\ acopy' = [acopy EXCEPT ![a] = [id |-> d, att |-> row[d].att]]
    /\ apc' = [apc EXCEPT ![a] = step]
    /\ UNCHANGED <<raced, storeVars>>

\* Nothing looks again at what the request read.
Overwrites(a) == raced' = (raced \/ Status(acopy[a].id) # "DLQ")

AdminReplays(a) ==
    /\ apc[a] = "replay"
    /\ Overwrites(a)
    /\ UpdateDelivery(acopy[a], "PENDING")
    /\ apc' = [apc EXCEPT ![a] = "publish"]
    /\ UNCHANGED <<acopy, outbox, matching, events, deliveries>>

AdminPublishes(a) ==
    /\ apc[a] = "publish"
    /\ PublishDelivery(acopy[a].id)
    /\ apc' = [apc EXCEPT ![a] = "idle"]
    /\ acopy' = [acopy EXCEPT ![a] = None]
    /\ UNCHANGED <<raced, outbox, row, matching, events>>

\* publish raises: the request fails, and the scan will find the row.
AdminPublishFails(a) ==
    /\ apc[a] = "publish"
    /\ apc' = [apc EXCEPT ![a] = "idle"]
    /\ acopy' = [acopy EXCEPT ![a] = None]
    /\ UNCHANGED <<raced, storeVars>>

AdminCancels(a) ==
    /\ apc[a] = "cancel"
    /\ Overwrites(a)
    /\ UpdateDelivery(acopy[a], "CANCELLED")
    /\ apc' = [apc EXCEPT ![a] = "idle"]
    /\ acopy' = [acopy EXCEPT ![a] = None]
    /\ UNCHANGED <<outbox, matching, events, deliveries>>

AdminStep(a) == AdminReplays(a) \/ AdminPublishes(a) \/ AdminCancels(a)

===============================================================================
