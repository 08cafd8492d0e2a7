----------------------------- MODULE FanoutStore ------------------------------
(***************************************************************************)
(* The store of agent-event-fanout: the tables outbox_events and           *)
(* webhook_deliveries, what match_subscribers answers, and the two queues. *)
(* Each operator is one SQL statement or transaction, or one queue command.*)
(*                                                                         *)
(* Time stamps are kept as one flag, ripe: the back-off of a RETRYING row, *)
(* or the claim of a row in work, is over, so that a scan may take it.     *)
(***************************************************************************)
EXTENDS Integers, Sequences, FiniteSets

CONSTANTS
    Events,       \* event ids; an event has one outbox entry
    Subs,         \* subscriber ids
    MaxAttempts,  \* max_attempts of the retry policy
    Batch         \* webhook_batch_size

ASSUME FanoutAssumption == MaxAttempts \in Nat \ {0} /\ Batch \in Nat \ {0}

VARIABLES
    outbox,    \* the outbox entry of an event
    row,       \* the delivery of an event to a subscriber
    matching,  \* the active subscribers of the events' type
    events,    \* the queue of event ids
    deliveries \* the queue of delivery ids

storeVars == <<outbox, row, matching, events, deliveries>>

\* UNIQUE (event_id, subscriber_id): the pair stands for the delivery's id.
DeliveryIds == Events \X Subs

Entries == [st : {"ABSENT", "PENDING", "PROCESSING", "PUBLISHED"}, ripe : BOOLEAN]

Rows == [st : {"ABSENT", "PENDING", "DELIVERING", "RETRYING", "SUCCESS", "DLQ", "CANCELLED"},
         att : Nat, ripe : BOOLEAN]

\* A delivery as a worker or a request read it.
Copies == [id : DeliveryIds, att : Nat]

StoreTypeOK ==
    /\ outbox \in [Events -> Entries]
    /\ row \in [DeliveryIds -> Rows]
    /\ matching \subseteq Subs
    /\ events \in Seq(Events)
    /\ deliveries \in Seq(DeliveryIds)

StoreInit ==
    /\ outbox = [e \in Events |-> [st |-> "ABSENT", ripe |-> FALSE]]
    /\ row = [d \in DeliveryIds |-> [st |-> "ABSENT", att |-> 0, ripe |-> FALSE]]
    /\ matching = Subs
    /\ events = <<>>
    /\ deliveries = <<>>

(***************************************************************************)
(* The outbox.                                                             *)
(***************************************************************************)
\* create_event_with_outbox: the event and its entry in one transaction.
CreateEvent(e) ==
    /\ outbox[e].st = "ABSENT"
    /\ outbox' = [outbox EXCEPT ![e].st = "PENDING"]

\* The entries claim_outbox_entries takes: pending, or claimed too long ago.
ClaimableEntries ==
    {e \in Events : \/ outbox[e].st = "PENDING"
                    \/ outbox[e].st = "PROCESSING" /\ outbox[e].ripe}

ClaimOutbox(E) ==
    outbox' = [e \in Events |-> IF e \in E THEN [st |-> "PROCESSING", ripe |-> FALSE]
                                ELSE outbox[e]]

\* mark_outbox writes by id, whatever the entry says by now.
MarkOutbox(e, status) == outbox' = [outbox EXCEPT ![e] = [st |-> status, ripe |-> FALSE]]

(***************************************************************************)
(* The deliveries.                                                         *)
(***************************************************************************)
Status(d) == row[d].st

\* The INSERT; the caller's ConflictError is Status(d) # "ABSENT".
CreateDelivery(d) ==
    row' = [row EXCEPT ![d] = [st |-> "PENDING", att |-> 0, ripe |-> TRUE]]

\* Mutant of Claimable: the UPDATE without its condition on the status.
ClaimableAny(d) == Status(d) # "ABSENT"

\* The condition of claim_delivery: the back-off is not looked at.
Claimable(d) == Status(d) \in {"PENDING", "RETRYING"}

\* Mutant of Due: claims never time out.
DueOnce(d) == Status(d) \in {"PENDING", "RETRYING"} /\ row[d].ripe

\* The condition of claim_due_deliveries.
Due(d) == Status(d) \in {"PENDING", "RETRYING", "DELIVERING"} /\ row[d].ripe

\* UPDATE ... SET status=DELIVERING, attempt_count=attempt_count+1 of both claims.
ClaimRows(D) ==
    row' = [d \in DeliveryIds |->
              IF d \in D THEN [st |-> "DELIVERING", att |-> row[d].att + 1, ripe |-> FALSE]
              ELSE row[d]]

\* What RETURNING * hands to the claimer.
Claimed(D) == {[id |-> d, att |-> row[d].att + 1] : d \in D}

\* update_delivery writes the whole copy by id, whatever the row says by now.
UpdateDelivery(c, status) ==
    row' = [row EXCEPT ![c.id] = [st |-> status, att |-> c.att, ripe |-> status = "PENDING"]]

(***************************************************************************)
(* The queues: RPUSH and BLPOP, or the deque of MemoryQueue.               *)
(***************************************************************************)
PublishEvent(e) == events' = Append(events, e)

PublishDelivery(d) == deliveries' = Append(deliveries, d)

PopEvent == events # <<>> /\ events' = Tail(events)

PopDelivery == deliveries # <<>> /\ deliveries' = Tail(deliveries)

===============================================================================
