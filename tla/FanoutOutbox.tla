----------------------------- MODULE FanoutOutbox -----------------------------
(***************************************************************************)
(* The two tasks of every process that turn a stored event into            *)
(* deliveries: OutboxWorker, from the outbox to the queue of events, and   *)
(* FanoutConsumer, from that queue to one delivery per subscriber.         *)
(***************************************************************************)
EXTENDS FanoutStore

CONSTANTS
    Procs,   \* the processes that share the store
    None     \* no event, no subscriber

ASSUME NoneAssumption == None \notin Events \cup Subs

VARIABLES
    opc, obatch, oevt,        \* OutboxWorker: its step, the claimed entries, the current one
    cpc, cevt, ctodo, csub    \* FanoutConsumer: its step, event, subscribers left, current one

outboxVars == <<opc, obatch, oevt>>

consumerVars == <<cpc, cevt, ctodo, csub>>

OutboxTypeOK ==
    /\ opc \in [Procs -> {"idle", "publish", "mark", "rollback"}]
    /\ obatch \in [Procs -> SUBSET Events]
    /\ oevt \in [Procs -> Events \cup {None}]
    /\ cpc \in [Procs -> {"idle", "match", "create", "publish"}]
    /\ cevt \in [Procs -> Events \cup {None}]
    /\ ctodo \in [Procs -> SUBSET Subs]
    /\ csub \in [Procs -> Subs \cup {None}]

OutboxInit ==
    /\ opc = [p \in Procs |-> "idle"]
    /\ obatch = [p \in Procs |-> {}]
    /\ oevt = [p \in Procs |-> None]
    /\ cpc = [p \in Procs |-> "idle"]
    /\ cevt = [p \in Procs |-> None]
    /\ ctodo = [p \in Procs |-> {}]
    /\ csub = [p \in Procs |-> None]

(***************************************************************************)
(* OutboxWorker.drain_once.                                                *)
(***************************************************************************)
OutboxClaims(p) ==
    /\ opc[p] = "idle"
    /\ ClaimableEntries # {}
    /\ ClaimOutbox(ClaimableEntries)
    /\ obatch' = [obatch EXCEPT ![p] = ClaimableEntries]
    /\ opc' = [opc EXCEPT ![p] = "publish"]
    /\ UNCHANGED <<oevt, row, matching, events, deliveries>>

\* The next entry of the batch reaches the queue.
OutboxPublishes(p) ==
    \E e \in obatch[p] :
       /\ opc[p] = "publish"
       /\ PublishEvent(e)
       /\ oevt' = [oevt EXCEPT ![p] = e]
       /\ opc' = [opc EXCEPT ![p] = "mark"]
       /\ UNCHANGED <<obatch, outbox, row, matching, deliveries>>

\* publish raises; the command may have reached the queue all the same.
OutboxPublishFails(p) ==
    \E e \in obatch[p], reached \in BOOLEAN :
       /\ opc[p] = "publish"
       /\ IF reached THEN PublishEvent(e) ELSE UNCHANGED events
       /\ oevt' = [oevt EXCEPT ![p] = e]
       /\ opc' = [opc EXCEPT ![p] = "rollback"]
       /\ UNCHANGED <<obatch, outbox, row, matching, deliveries>>

\* Mutant of AfterFailure: the entry counts as published.
AfterFailureDone(p) == MarkOutbox(oevt[p], "PUBLISHED")

\* The except branch: the entry is PENDING again.
AfterFailure(p) == MarkOutbox(oevt[p], "PENDING")

OutboxMarks(p) ==
    /\ \/ opc[p] = "mark" /\ MarkOutbox(oevt[p], "PUBLISHED")
       \/ opc[p] = "rollback" /\ AfterFailure(p)
    /\ obatch' = [obatch EXCEPT ![p] = @ \ {oevt[p]}]
    /\ oevt' = [oevt EXCEPT ![p] = None]
    /\ opc' = [opc EXCEPT ![p] = IF obatch'[p] = {} THEN "idle" ELSE "publish"]
    /\ UNCHANGED <<row, matching, events, deliveries>>

OutboxStep(p) == OutboxClaims(p) \/ OutboxPublishes(p) \/ OutboxMarks(p)

(***************************************************************************)
(* FanoutConsumer.drain_once and FanoutService.fanout_event.               *)
(***************************************************************************)
ConsumerPops(p) ==
    /\ cpc[p] = "idle"
    /\ PopEvent
    /\ cevt' = [cevt EXCEPT ![p] = Head(events)]
    /\ cpc' = [cpc EXCEPT ![p] = "match"]
    /\ UNCHANGED <<ctodo, csub, outbox, row, matching, deliveries>>

\* The loop over the subscribers goes on with todo, or the event is done.
GoOn(p, todo) ==
    /\ ctodo' = [ctodo EXCEPT ![p] = todo]
    /\ csub' = [csub EXCEPT ![p] = None]
    /\ IF todo = {} THEN /\ cpc' = [cpc EXCEPT ![p] = "idle"]
                         /\ cevt' = [cevt EXCEPT ![p] = None]
                    ELSE /\ cpc' = [cpc EXCEPT ![p] = "create"]
                         /\ UNCHANGED cevt

\* get_event finds the event; match_subscribers reads who gets it.
ConsumerMatches(p) ==
    /\ cpc[p] = "match"
    /\ GoOn(p, matching)
    /\ UNCHANGED storeVars

Conflict(d) == Status(d) # "ABSENT"

\* The INSERT of the next subscriber's delivery.
ConsumerCreates(p) ==
    \E s \in ctodo[p] :
       /\ cpc[p] = "create"
       /\ IF Conflict(<<cevt[p], s>>)
          THEN GoOn(p, ctodo[p] \ {s}) /\ UNCHANGED row
          ELSE /\ CreateDelivery(<<cevt[p], s>>)
               /\ csub' = [csub EXCEPT ![p] = s]
               /\ cpc' = [cpc EXCEPT ![p] = "publish"]
               /\ UNCHANGED <<cevt, ctodo>>
       /\ UNCHANGED <<outbox, matching, events, deliveries>>

ConsumerPublishes(p) ==
    /\ cpc[p] = "publish"
    /\ PublishDelivery(<<cevt[p], csub[p]>>)
    /\ GoOn(p, ctodo[p] \ {csub[p]})
    /\ UNCHANGED <<outbox, row, matching, events>>

\* publish raises: the loop goes on, the scan of the table will find the row.
ConsumerPublishFails(p) ==
    /\ cpc[p] = "publish"
    /\ GoOn(p, ctodo[p] \ {csub[p]})
    /\ UNCHANGED storeVars

ConsumerStep(p) ==
    ConsumerPops(p) \/ ConsumerMatches(p) \/ ConsumerCreates(p) \/ ConsumerPublishes(p)

===============================================================================
