-------------------------- MODULE EventFanoutProofs --------------------------
(***************************************************************************)
(* Proofs about EventFanout for every set of events, subscribers,          *)
(* processes and requests, both kinds of queue and every bound.            *)
(***************************************************************************)
EXTENDS EventFanout, TLAPS, SequenceTheorems

(***************************************************************************)
(* Types.  What a task is about to write has to be a real entry, delivery  *)
(* or outcome: TypeOK alone does not say so and is not inductive.          *)
(***************************************************************************)
OutboxTyped == \A p \in Procs : opc[p] \in {"mark", "rollback"} => oevt[p] \in obatch[p]

ConsumerTyped ==
    \A p \in Procs : /\ cpc[p] # "idle" => cevt[p] \in Events
                     /\ cpc[p] = "publish" => csub[p] \in ctodo[p]

WorkerTyped ==
    \A p \in Procs : /\ wpc[p] = "claim" => wcur[p] \in Copies
                     /\ wpc[p] = "write" => wcur[p] \in wbatch[p] /\ wout[p] \in Outcomes

AdminTyped == \A a \in Admins : apc[a] # "idle" => acopy[a] \in Copies

Typed == TypeOK /\ OutboxTyped /\ ConsumerTyped /\ WorkerTyped /\ AdminTyped

LEMMA TypedInit == Init => Typed
<1> SUFFICES ASSUME Init PROVE Typed
  OBVIOUS
<1>1. StoreTypeOK
  BY DEF Init, StoreInit, StoreTypeOK, Entries, Rows
<1>2. OutboxTypeOK /\ WebhookTypeOK
  BY DEF Init, OutboxInit, OutboxTypeOK, WebhookInit, WebhookTypeOK
<1>3. OutboxTyped /\ ConsumerTyped /\ WorkerTyped /\ AdminTyped
  BY DEF Init, OutboxInit, WebhookInit, OutboxTyped, ConsumerTyped, WorkerTyped, AdminTyped
<1> QED
  BY <1>1, <1>2, <1>3 DEF Init, Typed, TypeOK

\* The queues only hold what was put in.
LEMMA EventQueued ==
    ASSUME events \in Seq(Events), NEW e \in Events, PublishEvent(e)
    PROVE  events' \in Seq(Events)
BY AppendProperties DEF PublishEvent

LEMMA DeliveryQueued ==
    ASSUME deliveries \in Seq(DeliveryIds), NEW d \in DeliveryIds, PublishDelivery(d)
    PROVE  deliveries' \in Seq(DeliveryIds)
BY AppendProperties DEF PublishDelivery

\* The statements that write an entry or whole rows.
LEMMA EntryMarked ==
    ASSUME outbox \in [Events -> Entries], NEW e \in Events, NEW st \in {"PENDING", "PUBLISHED"},
           MarkOutbox(e, st)
    PROVE  outbox' \in [Events -> Entries]
BY DEF MarkOutbox, Entries

LEMMA RowCreated ==
    ASSUME row \in [DeliveryIds -> Rows], NEW d \in DeliveryIds, CreateDelivery(d)
    PROVE  /\ row' \in [DeliveryIds -> Rows]
           /\ row'[d].st = "PENDING"
           /\ \A c \in DeliveryIds : c # d => row'[c] = row[c]
BY DEF CreateDelivery, Rows

LEMMA RowsUpdated ==
    ASSUME row \in [DeliveryIds -> Rows], NEW c \in Copies,
           NEW st \in {"PENDING", "RETRYING", "SUCCESS", "DLQ", "CANCELLED"},
           UpdateDelivery(c, st)
    PROVE  /\ row' \in [DeliveryIds -> Rows]
           /\ row'[c.id].st = st
           /\ \A d \in DeliveryIds : d # c.id => row'[d] = row[d]
BY DEF UpdateDelivery, Copies, Rows

LEMMA RowsClaimed ==
    ASSUME row \in [DeliveryIds -> Rows], NEW D \in SUBSET DeliveryIds, ClaimRows(D)
    PROVE  /\ row' \in [DeliveryIds -> Rows]
           /\ Claimed(D) \subseteq Copies
BY DEF ClaimRows, Claimed, Copies, Rows

LEMMA RowRipened ==
    ASSUME row \in [DeliveryIds -> Rows], NEW d \in DeliveryIds,
           row' = [row EXCEPT ![d].ripe = TRUE]
    PROVE  /\ row' \in [DeliveryIds -> Rows]
           /\ \A c \in DeliveryIds : /\ row'[c].st = row[c].st /\ row'[c].att = row[c].att
                                     /\ c # d => row'[c] = row[c]
<1>1. row[d] \in Rows
  OBVIOUS
<1>2. [row[d] EXCEPT !.ripe = TRUE] \in Rows
  BY <1>1 DEF Rows
<1>3. row' = [row EXCEPT ![d] = [row[d] EXCEPT !.ripe = TRUE]]
  OBVIOUS
<1>4. row' \in [DeliveryIds -> Rows]
  BY <1>2, <1>3
<1>5. \A c \in DeliveryIds : c # d => row'[c] = row[c]
  BY <1>3
<1>6. row'[d].st = row[d].st /\ row'[d].att = row[d].att
  BY <1>1, <1>3 DEF Rows
<1> QED
  BY <1>4, <1>5, <1>6

LEMMA OutboxStepTyped ==
    ASSUME Typed, NEW p \in Procs, OutboxMove(p)
    PROVE  Typed'
<1> USE DEF OutboxMove, Typed, TypeOK, StoreTypeOK, OutboxTypeOK, WebhookTypeOK, OutboxTyped,
        ConsumerTyped, WorkerTyped, AdminTyped, consumerVars, webhookVars, adminVars, budgetVars
<1>1. CASE OutboxClaims(p)
  BY <1>1 DEF OutboxClaims, ClaimOutbox, ClaimableEntries, Entries
<1>2. CASE OutboxPublishes(p)
  BY <1>2, EventQueued DEF OutboxPublishes
<1>3. CASE OutboxMarks(p)
  <2>1. oevt[p] \in Events
    BY <1>3 DEF OutboxMarks
  <2>2. outbox' \in [Events -> Entries]
    BY <1>3, <2>1, EntryMarked DEF OutboxMarks, AfterFailure
  <2> QED
    BY <1>3, <2>2 DEF OutboxMarks
<1> QED
  BY <1>1, <1>2, <1>3 DEF OutboxStep

LEMMA GoOnTyped ==
    ASSUME Typed, NEW p \in Procs, NEW todo \in SUBSET Subs, GoOn(p, todo), cpc[p] # "idle"
    PROVE  /\ cpc' \in [Procs -> {"idle", "match", "create", "publish"}]
           /\ cevt' \in [Procs -> Events \cup {None}]
           /\ ctodo' \in [Procs -> SUBSET Subs]
           /\ csub' \in [Procs -> Subs \cup {None}]
           /\ ConsumerTyped'
BY DEF GoOn, Typed, TypeOK, OutboxTypeOK, ConsumerTyped

LEMMA ConsumerStepTyped ==
    ASSUME Typed, NEW p \in Procs, ConsumerMove(p)
    PROVE  Typed'
<1> USE DEF ConsumerMove, Typed, TypeOK, StoreTypeOK, OutboxTypeOK, WebhookTypeOK, OutboxTyped,
        WorkerTyped, AdminTyped, outboxVars, webhookVars, adminVars, budgetVars
<1>1. CASE ConsumerPops(p)
  <2>1. Head(events) \in Events /\ events' \in Seq(Events)
    BY <1>1, HeadTailProperties DEF ConsumerPops, PopEvent
  <2> QED
    BY <1>1, <2>1 DEF ConsumerPops, ConsumerTyped
<1>2. CASE ConsumerMatches(p)
  BY <1>2, GoOnTyped DEF ConsumerMatches, storeVars
<1>3. CASE ConsumerCreates(p)
  <2> PICK s \in ctodo[p] : cpc[p] = "create" /\ ConsumerCreates(p)!(s)
    BY <1>3 DEF ConsumerCreates
  <2>1. <<cevt[p], s>> \in DeliveryIds
    BY DEF DeliveryIds, ConsumerTyped
  <2>2. CASE Conflict(<<cevt[p], s>>)
    <3>1. ctodo[p] \ {s} \in SUBSET Subs
      OBVIOUS
    <3> QED
      BY <2>2, <3>1, GoOnTyped
  <2>3. CASE ~Conflict(<<cevt[p], s>>)
    <3>1. row' \in [DeliveryIds -> Rows]
      BY <2>1, <2>3, RowCreated
    <3>2. /\ csub' = [csub EXCEPT ![p] = s] /\ cpc' = [cpc EXCEPT ![p] = "publish"]
          /\ UNCHANGED <<cevt, ctodo, outbox, matching, events, deliveries>>
      BY <2>3
    <3>3. s \in Subs /\ ConsumerTyped'
      BY <3>2 DEF ConsumerTyped
    <3> QED
      BY <3>1, <3>2, <3>3
  <2> QED
    BY <2>2, <2>3
<1>4. CASE ConsumerPublishes(p)
  <2>1. <<cevt[p], csub[p]>> \in DeliveryIds /\ ctodo[p] \ {csub[p]} \in SUBSET Subs
    BY <1>4 DEF ConsumerPublishes, DeliveryIds, ConsumerTyped
  <2>2. deliveries' \in Seq(DeliveryIds)
    BY <1>4, <2>1, DeliveryQueued DEF ConsumerPublishes
  <2> QED
    BY <1>4, <2>1, <2>2, GoOnTyped DEF ConsumerPublishes
<1> QED
  BY <1>1, <1>2, <1>3, <1>4 DEF ConsumerStep

LEMMA WorkerStepTyped ==
    ASSUME Typed, NEW p \in Procs, WorkerMove(p)
    PROVE  Typed'
<1> USE DEF WorkerMove, Typed, TypeOK, StoreTypeOK, OutboxTypeOK, WebhookTypeOK, OutboxTyped,
        ConsumerTyped, AdminTyped, outboxVars, consumerVars, adminVars, budgetVars
<1>1. CASE WorkerPops(p)
  <2>1. Head(deliveries) \in DeliveryIds /\ deliveries' \in Seq(DeliveryIds)
    BY <1>1, HeadTailProperties DEF WorkerPops, PopDelivery
  <2>2. [id |-> Head(deliveries), att |-> 0] \in Copies
    BY <2>1 DEF Copies
  <2> QED
    BY <1>1, <2>1, <2>2 DEF WorkerPops, WorkerTyped
<1>2. CASE WorkerClaims(p)
  <2>1. {wcur[p].id} \in SUBSET DeliveryIds
    BY <1>2 DEF WorkerClaims, WorkerTyped, Copies
  <2>2. row' \in [DeliveryIds -> Rows] /\ wbatch' \in [Procs -> SUBSET Copies]
    BY <1>2, <2>1, RowsClaimed, ZenonT(60) DEF WorkerClaims
  <2>3. /\ wpc' = [wpc EXCEPT ![p] = IF Claimable(wcur[p].id) THEN "post" ELSE "idle"]
        /\ wcur' = [wcur EXCEPT ![p] = None]
        /\ \A q \in Procs \ {p} : wbatch'[q] = wbatch[q]
        /\ UNCHANGED <<wout, outbox, matching, events, deliveries, arrived>>
    BY <1>2 DEF WorkerClaims
  <2> QED
    BY <2>2, <2>3 DEF WorkerTyped
<1>3. CASE WorkerScans(p)
  <2>1. PICK D \in SUBSET {d \in DeliveryIds : Due(d)} :
           ClaimRows(D) /\ wbatch' = [wbatch EXCEPT ![p] = Claimed(D)]
    BY <1>3 DEF WorkerScans
  <2>2. row' \in [DeliveryIds -> Rows] /\ wbatch' \in [Procs -> SUBSET Copies]
    BY <2>1, RowsClaimed
  <2> QED
    BY <1>3, <2>1, <2>2 DEF WorkerScans, WorkerTyped
<1>4. CASE WorkerPosts(p)
  <2>1. PICK c \in wbatch[p], outcome \in Outcomes : WorkerPosts(p)!(c, outcome)
    BY <1>4 DEF WorkerPosts
  <2>2. c \in Copies /\ arrived' \subseteq DeliveryIds
    BY <2>1 DEF Copies
  <2> QED
    BY <2>1, <2>2 DEF WorkerTyped, storeVars
<1>5. CASE WorkerWrites(p)
  <2>1. wcur[p] \in Copies
    BY <1>5 DEF WorkerWrites, WorkerTyped
  <2>2. row' \in [DeliveryIds -> Rows]
    BY <1>5, <2>1, RowsUpdated DEF WorkerWrites, Verdict
  <2> QED
    BY <1>5, <2>2 DEF WorkerWrites, WorkerTyped
<1> QED
  BY <1>1, <1>2, <1>3, <1>4, <1>5 DEF WorkerStep

LEMMA AdminStepTyped ==
    ASSUME Typed, NEW a \in Admins, AdminMove(a) \/ AdminStarts(a) \/ AdminFails(a)
    PROVE  Typed'
<1> USE DEF Typed, TypeOK, StoreTypeOK, OutboxTypeOK, WebhookTypeOK, OutboxTyped, ConsumerTyped,
        WorkerTyped, AdminTyped, outboxVars, consumerVars, webhookVars, budgetVars
<1>1. CASE AdminMove(a) /\ AdminReplays(a)
  <2>1. acopy[a] \in Copies
    BY <1>1 DEF AdminReplays
  <2>2. row' \in [DeliveryIds -> Rows]
    BY <1>1, <2>1, RowsUpdated DEF AdminReplays
  <2> QED
    BY <1>1, <2>2 DEF AdminMove, AdminReplays, Overwrites
<1>2. CASE AdminMove(a) /\ AdminPublishes(a)
  <2>1. acopy[a].id \in DeliveryIds
    BY <1>2 DEF AdminPublishes, Copies
  <2>2. deliveries' \in Seq(DeliveryIds)
    BY <1>2, <2>1, DeliveryQueued DEF AdminPublishes
  <2> QED
    BY <1>2, <2>2 DEF AdminMove, AdminPublishes
<1>3. CASE AdminMove(a) /\ AdminCancels(a)
  <2>1. acopy[a] \in Copies
    BY <1>3 DEF AdminCancels
  <2>2. row' \in [DeliveryIds -> Rows]
    BY <1>3, <2>1, RowsUpdated DEF AdminCancels
  <2> QED
    BY <1>3, <2>2 DEF AdminMove, AdminCancels, Overwrites
<1>4. CASE AdminStarts(a)
  <2>1. PICK d \in DeliveryIds, step \in {"replay", "cancel"} : AdminReads(a, d, step)
    BY <1>4 DEF AdminStarts
  <2>2. [id |-> d, att |-> row[d].att] \in Copies
    BY DEF Copies, Rows
  <2> QED
    BY <1>4, <2>1, <2>2 DEF AdminStarts, AdminReads, storeVars
<1>5. CASE AdminFails(a)
  BY <1>5 DEF AdminFails, AdminPublishFails, storeVars
<1> QED
  BY <1>1, <1>2, <1>3, <1>4, <1>5 DEF AdminMove, AdminStep

LEMMA FailsTyped ==
    ASSUME Typed, NEW p \in Procs, Fails(p)
    PROVE  Typed'
<1> USE DEF Typed, TypeOK, StoreTypeOK, OutboxTypeOK, WebhookTypeOK, OutboxTyped, WorkerTyped,
        AdminTyped, outboxVars, consumerVars, webhookVars, adminVars
<1>0. {requests, faults, crashes, stalls}' \subseteq Nat /\ UNCHANGED adminVars /\ raced' = raced
  BY DEF Fails
<1>1. CASE OutboxPublishFails(p) /\ UNCHANGED <<consumerVars, webhookVars, arrived>>
  <2>1. PICK e \in obatch[p], reached \in BOOLEAN : OutboxPublishFails(p)!(e, reached)
    BY <1>1 DEF OutboxPublishFails
  <2>2. events' \in Seq(Events)
    BY <2>1, EventQueued
  <2> QED
    BY <1>0, <1>1, <2>1, <2>2 DEF ConsumerTyped
<1>2. CASE ConsumerPublishFails(p) /\ UNCHANGED <<outboxVars, webhookVars, arrived>>
  <2>1. ctodo[p] \ {csub[p]} \in SUBSET Subs
    OBVIOUS
  <2> QED
    BY <1>0, <1>2, <2>1, GoOnTyped DEF ConsumerPublishFails, storeVars
<1>3. CASE WorkerPostRaises(p) /\ UNCHANGED <<outboxVars, consumerVars>>
  BY <1>0, <1>3 DEF WorkerPostRaises, storeVars, ConsumerTyped
<1> QED
  BY <1>1, <1>2, <1>3 DEF Fails

LEMMA EndsTyped ==
    ASSUME Typed, NEW p \in Procs, Ends(p)
    PROVE  Typed'
<1> USE DEF Typed, TypeOK, StoreTypeOK, OutboxTypeOK, WebhookTypeOK, OutboxTyped, ConsumerTyped,
        WorkerTyped, AdminTyped
<1>1. outbox' \in [Events -> Entries]
  <2>1. CASE UNCHANGED outbox
    BY <2>1
  <2>2. CASE \E e \in obatch[p] : MarkOutbox(e, "PENDING")
    BY <2>2, EntryMarked
  <2> QED
    BY <2>1, <2>2 DEF Ends
<1>2. events' \in Seq(Events) /\ deliveries' \in Seq(DeliveryIds)
  BY EmptySeq DEF Ends
<1>3. OutboxTypeOK' /\ OutboxTyped' /\ ConsumerTyped'
  BY DEF Ends
<1>4. /\ wpc' \in [Procs -> {"idle", "claim", "post", "write"}]
      /\ wbatch' \in [Procs -> SUBSET Copies]
      /\ wcur' \in [Procs -> Copies \cup {None}]
      /\ wout' \in [Procs -> Outcomes \cup {"none"}]
      /\ WorkerTyped'
  BY DEF Ends
<1>5. /\ apc' \in [Admins -> {"idle", "replay", "publish", "cancel"}]
      /\ acopy' \in [Admins -> Copies \cup {None}]
      /\ AdminTyped'
  BY DEF Ends
<1> QED
  BY <1>1, <1>2, <1>3, <1>4, <1>5 DEF Ends

LEMMA TypedNext == Typed /\ [Next]_vars => Typed'
<1> SUFFICES ASSUME Typed, [Next]_vars PROVE Typed'
  OBVIOUS
<1> USE DEF Typed, TypeOK, StoreTypeOK, OutboxTypeOK, WebhookTypeOK, OutboxTyped, ConsumerTyped,
        WorkerTyped, AdminTyped, outboxVars, consumerVars, webhookVars, adminVars, budgetVars
<1>1. ASSUME NEW e \in Events, Creates(e)
      PROVE  Typed'
  BY <1>1, ZenonT(60) DEF Creates, CreateEvent, Entries
<1>2. ASSUME NEW e \in Events, EntryTimesOut(e)
      PROVE  Typed'
  <2>1. outbox' \in [Events -> Entries]
    BY <1>2, ZenonT(60) DEF EntryTimesOut, Entries
  <2>2. stalls' \in Nat
    BY <1>2 DEF EntryTimesOut, Stall
  <2> QED
    BY <1>2, <2>1, <2>2 DEF EntryTimesOut
<1>3. ASSUME NEW s \in Subs, UpdatesSubscriber(s)
      PROVE  Typed'
  BY <1>3 DEF UpdatesSubscriber
<1>4. ASSUME NEW d \in DeliveryIds, DeliveryRipens(d)
      PROVE  Typed'
  <2>1. row' \in [DeliveryIds -> Rows]
    BY <1>4, RowRipened DEF DeliveryRipens
  <2>2. stalls' \in Nat
    BY <1>4 DEF DeliveryRipens, Stall
  <2> QED
    BY <1>4, <2>1, <2>2 DEF DeliveryRipens
<1>5. CASE UNCHANGED vars
  BY <1>5 DEF vars, storeVars
<1> QED
  BY <1>1, <1>2, <1>3, <1>4, <1>5, OutboxStepTyped, ConsumerStepTyped, WorkerStepTyped,
     AdminStepTyped, FailsTyped, EndsTyped DEF Next

LEMMA AlwaysTyped == Spec => []Typed
<1> QED
  BY TypedInit, TypedNext, PTL DEF Spec

\* Every variable of the fan-out has its type, whatever fails and whoever asks.
THEOREM FanoutTypeCorrect == Spec => []TypeOK
<1>1. Typed => TypeOK
  BY DEF Typed
<1> QED
  BY <1>1, AlwaysTyped, PTL

(***************************************************************************)
(* Claims.  Nothing but the worker writes a row it has claimed: the claims *)
(* skip it, its time has not run out, and a request only has hold of a     *)
(* dead one.                                                               *)
(***************************************************************************)
Owns(p, c) ==
    /\ Status(c.id) = "DELIVERING"
    /\ row[c.id].att = c.att
    /\ ~row[c.id].ripe
    /\ \A q \in Procs \ {p} : \A b \in wbatch[q] : b.id # c.id

Exclusive == stalls = 0 /\ ~raced => \A p \in Procs : \A c \in wbatch[p] : Owns(p, c)

\* A step that leaves the rows in work as they are, and hands out none, keeps
\* every claim.
LEMMA OwnsKept ==
    ASSUME Typed, Exclusive,
           \A p \in Procs : wbatch'[p] \subseteq wbatch[p],
           stalls' = 0 /\ ~raced' =>
              /\ stalls = 0 /\ ~raced
              /\ \A p \in Procs : \A c \in wbatch'[p] : row'[c.id] = row[c.id]
    PROVE  Exclusive'
<1> SUFFICES ASSUME stalls' = 0, ~raced', NEW p \in Procs, NEW c \in wbatch'[p]
             PROVE  Owns(p, c)'
  BY DEF Exclusive
<1>1. Owns(p, c) /\ row'[c.id] = row[c.id]
  BY DEF Exclusive
<1> QED
  BY <1>1 DEF Owns, Status

\* A worker that claims rows which nobody works on owns them.
LEMMA ClaimsOwned ==
    ASSUME Typed, Exclusive, NEW p \in Procs, NEW D \in SUBSET DeliveryIds,
           ClaimRows(D), wbatch' = [wbatch EXCEPT ![p] = Claimed(D)],
           UNCHANGED <<stalls, raced>>,
           \A d \in D : Status(d) # "DELIVERING" \/ row[d].ripe
    PROVE  Exclusive'
<1> USE DEF Typed, TypeOK, StoreTypeOK, WebhookTypeOK
<1> SUFFICES ASSUME stalls = 0, ~raced, NEW q \in Procs, NEW c \in wbatch'[q]
             PROVE  Owns(q, c)'
  BY DEF Exclusive
<1>1. \A r \in Procs : \A b \in wbatch[r] : Owns(r, b) /\ b.id \in DeliveryIds /\ b.id \notin D
  BY DEF Exclusive, Owns, Copies
<1>2. wbatch'[p] = Claimed(D) /\ \A r \in Procs \ {p} : wbatch'[r] = wbatch[r]
  OBVIOUS
<1>3. \A b \in Claimed(D) : /\ b.id \in D
                            /\ row'[b.id] = [st |-> "DELIVERING", att |-> b.att, ripe |-> FALSE]
  <2> TAKE b \in Claimed(D)
  <2>1. PICK d \in D : b = [id |-> d, att |-> row[d].att + 1]
    BY DEF Claimed
  <2>2. b.id = d /\ b.att = row[d].att + 1
    BY <2>1
  <2> QED
    BY <2>2 DEF ClaimRows
<1>4. CASE q = p
  <2>1. c.id \in D /\ row'[c.id] = [st |-> "DELIVERING", att |-> c.att, ripe |-> FALSE]
    BY <1>2, <1>3, <1>4
  <2> QED
    BY <1>1, <1>2, <1>4, <2>1 DEF Owns, Status
<1>5. CASE q # p
  <2>1. c \in wbatch[q] /\ Owns(q, c) /\ c.id \in DeliveryIds \ D
    BY <1>1, <1>2, <1>5
  <2>2. row'[c.id] = row[c.id]
    BY <2>1 DEF ClaimRows
  <2>3. \A r \in Procs \ {q} : \A b \in wbatch'[r] : b.id # c.id
    BY <1>2, <1>3, <2>1 DEF Owns
  <2> QED
    BY <2>1, <2>2, <2>3 DEF Owns, Status
<1> QED
  BY <1>4, <1>5

LEMMA SameCopy == \A b, c \in Copies : b.id = c.id /\ b.att = c.att => b = c
BY DEF Copies

LEMMA WorkerStepOwns ==
    ASSUME Typed, Exclusive, NEW p \in Procs, WorkerMove(p)
    PROVE  Exclusive'
<1> USE DEF WorkerMove, Typed, TypeOK, StoreTypeOK, WebhookTypeOK, WorkerTyped, budgetVars
<1>1. CASE WorkerPops(p)
  BY <1>1, OwnsKept DEF WorkerPops
<1>2. CASE WorkerClaims(p)
  <2>1. wcur[p].id \in DeliveryIds
    BY <1>2 DEF WorkerClaims, Copies
  <2>2. CASE Claimable(wcur[p].id)
    <3>1. {wcur[p].id} \in SUBSET DeliveryIds /\ \A d \in {wcur[p].id} : Status(d) # "DELIVERING"
      BY <2>1, <2>2 DEF Claimable
    <3> QED
      BY <1>2, <2>2, <3>1, ClaimsOwned DEF WorkerClaims
  <2>3. CASE ~Claimable(wcur[p].id)
    BY <1>2, <2>3, OwnsKept DEF WorkerClaims
  <2> QED
    BY <2>2, <2>3
<1>3. CASE WorkerScans(p)
  <2>1. PICK D \in SUBSET {d \in DeliveryIds : Due(d)} :
           ClaimRows(D) /\ wbatch' = [wbatch EXCEPT ![p] = Claimed(D)]
    BY <1>3 DEF WorkerScans
  <2>2. D \in SUBSET DeliveryIds /\ \A d \in D : row[d].ripe
    BY DEF Due
  <2> QED
    BY <2>1, <2>2, ClaimsOwned
<1>4. CASE WorkerPosts(p)
  BY <1>4, OwnsKept DEF WorkerPosts, storeVars
<1>5. CASE WorkerWrites(p)
  <2>1. wcur[p] \in wbatch[p] /\ wcur[p].id \in DeliveryIds
    BY <1>5 DEF WorkerWrites, Copies
  <2>2. /\ wbatch'[p] = wbatch[p] \ {wcur[p]}
        /\ \A q \in Procs \ {p} : wbatch'[q] = wbatch[q]
        /\ UNCHANGED <<stalls, raced>>
    BY <1>5 DEF WorkerWrites
  <2>3. ASSUME stalls = 0, ~raced, NEW q \in Procs, NEW c \in wbatch'[q]
        PROVE  c.id \in DeliveryIds /\ c.id # wcur[p].id
    <3>1. c \in wbatch[q] /\ c \in Copies /\ wcur[p] \in Copies /\ Owns(q, c) /\ Owns(p, wcur[p])
      BY <2>1, <2>2, <2>3 DEF Exclusive
    <3>2. CASE q = p
      <4>1. c # wcur[p] /\ row[c.id].att = c.att /\ row[wcur[p].id].att = wcur[p].att
        BY <2>2, <2>3, <3>1, <3>2 DEF Owns
      <4> QED
        BY <3>1, <4>1, SameCopy DEF Copies
    <3>3. CASE q # p
      BY <2>1, <3>1, <3>3 DEF Owns, Copies
    <3> QED
      BY <3>2, <3>3
  <2>4. \A d \in DeliveryIds : d # wcur[p].id => row'[d] = row[d]
    BY <1>5 DEF WorkerWrites, UpdateDelivery
  <2>5. \A q \in Procs : wbatch'[q] \subseteq wbatch[q]
    BY <2>2
  <2>6. stalls = 0 /\ ~raced => \A q \in Procs : \A c \in wbatch'[q] : row'[c.id] = row[c.id]
    BY <2>3, <2>4
  <2> QED
    BY <2>2, <2>5, <2>6, OwnsKept
<1> QED
  BY <1>1, <1>2, <1>3, <1>4, <1>5 DEF WorkerStep

\* A request that writes a dead delivery writes none that is in work.
LEMMA AdminStepOwns ==
    ASSUME Typed, Exclusive, NEW a \in Admins, AdminMove(a) \/ AdminStarts(a) \/ AdminFails(a)
    PROVE  Exclusive'
<1> USE DEF Typed, TypeOK, WebhookTypeOK, StoreTypeOK, webhookVars, budgetVars
<1>1. CASE AdminMove(a) /\ (AdminReplays(a) \/ AdminCancels(a))
  <2>1. /\ UNCHANGED <<wbatch, stalls>>
        /\ raced' = (raced \/ Status(acopy[a].id) # "DLQ")
        /\ \A d \in DeliveryIds : d # acopy[a].id => row'[d] = row[d]
    BY <1>1 DEF AdminMove, AdminReplays, AdminCancels, Overwrites, UpdateDelivery
  <2>2. ASSUME stalls' = 0, ~raced', NEW p \in Procs, NEW c \in wbatch[p]
        PROVE  row'[c.id] = row[c.id]
    <3>1. stalls = 0 /\ ~raced /\ Status(acopy[a].id) = "DLQ"
      BY <2>1, <2>2
    <3>2. c.id \in DeliveryIds /\ Status(c.id) = "DELIVERING"
      BY <2>2, <3>1 DEF Exclusive, Owns, Copies
    <3> QED
      BY <2>1, <3>1, <3>2
  <2> QED
    BY <2>1, <2>2, OwnsKept
<1>2. CASE ~(AdminMove(a) /\ (AdminReplays(a) \/ AdminCancels(a)))
  <2>1. UNCHANGED <<row, wbatch, stalls, raced>>
    BY <1>2 DEF AdminMove, AdminStep, AdminPublishes, AdminStarts, AdminReads, AdminFails,
                AdminPublishFails, storeVars
  <2> QED
    BY <2>1, OwnsKept
<1> QED
  BY <1>1, <1>2

LEMMA OthersOwn ==
    ASSUME Typed, Exclusive, NEW p \in Procs,
           OutboxMove(p) \/ ConsumerMove(p) \/ Fails(p) \/ Ends(p)
    PROVE  Exclusive'
<1> USE DEF Typed, TypeOK, WebhookTypeOK, StoreTypeOK, webhookVars, budgetVars
<1>1. CASE OutboxMove(p)
  BY <1>1, OwnsKept DEF OutboxMove, OutboxStep, OutboxClaims, OutboxPublishes, OutboxMarks
<1>2. CASE ConsumerMove(p)
  <2>1. UNCHANGED <<wbatch, stalls, raced>>
    BY <1>2 DEF ConsumerMove
  <2>2. \A d \in DeliveryIds : row[d].st = "DELIVERING" => row'[d] = row[d]
    <3>1. CASE UNCHANGED row
      BY <3>1
    <3>2. CASE ConsumerCreates(p) /\ ~UNCHANGED row
      <4>1. PICK s \in ctodo[p] : ~Conflict(<<cevt[p], s>>) /\ CreateDelivery(<<cevt[p], s>>)
        BY <3>2 DEF ConsumerCreates
      <4> QED
        BY <4>1 DEF Conflict, CreateDelivery, Status
    <3> QED
      BY <1>2, <3>1, <3>2 DEF ConsumerMove, ConsumerStep, ConsumerPops, ConsumerMatches,
                              ConsumerPublishes, storeVars
  <2> QED
    BY <2>1, <2>2, OwnsKept DEF Exclusive, Owns, Status, Copies
<1>3. CASE Fails(p)
  <2>1. UNCHANGED <<row, stalls, raced>> /\ \A q \in Procs : wbatch'[q] \subseteq wbatch[q]
    BY <1>3 DEF Fails, OutboxPublishFails, ConsumerPublishFails, WorkerPostRaises, storeVars
  <2> QED
    BY <2>1, OwnsKept
<1>4. CASE Ends(p)
  <2>1. UNCHANGED <<row, stalls, raced>> /\ \A q \in Procs : wbatch'[q] \subseteq wbatch[q]
    BY <1>4 DEF Ends
  <2> QED
    BY <2>1, OwnsKept
<1> QED
  BY <1>1, <1>2, <1>3, <1>4

\* The claim that runs out under a live worker is what stalls counts.
LEMMA RipensOwns ==
    ASSUME Typed, Exclusive, NEW d \in DeliveryIds, DeliveryRipens(d)
    PROVE  Exclusive'
<1> USE DEF Typed, TypeOK, WebhookTypeOK, StoreTypeOK, webhookVars
<1>1. /\ \A c \in DeliveryIds : c # d => row'[c] = row[c]
      /\ UNCHANGED <<wbatch, raced>>
  BY RowRipened DEF DeliveryRipens
<1>2. stalls \in Nat /\ stalls' = 0 => stalls = 0
  BY DEF DeliveryRipens, Stall
<1>3. ASSUME stalls' = 0, ~raced', NEW p \in Procs, NEW c \in wbatch[p]
      PROVE  row'[c.id] = row[c.id]
  <2>1. stalls = 0 /\ Owns(p, c) /\ c.id \in DeliveryIds
    BY <1>1, <1>2, <1>3 DEF Exclusive, Copies
  <2>2. d # c.id
    BY <1>3, <2>1 DEF DeliveryRipens, Stall, Held, Owns
  <2> QED
    BY <1>1, <2>1, <2>2
<1> QED
  BY <1>1, <1>2, <1>3, OwnsKept

LEMMA ExclusiveNext == Typed /\ Exclusive /\ [Next]_vars => Exclusive'
<1> SUFFICES ASSUME Typed, Exclusive, [Next]_vars PROVE Exclusive'
  OBVIOUS
<1>1. ASSUME NEW e \in Events, Creates(e) \/ EntryTimesOut(e)
      PROVE  Exclusive'
  <2>1. UNCHANGED <<row, wbatch, raced>> /\ (stalls' = 0 => stalls = 0)
    BY <1>1 DEF Creates, EntryTimesOut, Stall, webhookVars, budgetVars, Typed, TypeOK
  <2> QED
    BY <2>1, OwnsKept
<1>2. ASSUME NEW s \in Subs, UpdatesSubscriber(s)
      PROVE  Exclusive'
  BY <1>2, OwnsKept DEF UpdatesSubscriber, webhookVars
<1>3. CASE UNCHANGED vars
  BY <1>3, OwnsKept DEF vars, storeVars, webhookVars, budgetVars
<1> QED
  BY <1>1, <1>2, <1>3, WorkerStepOwns, AdminStepOwns, OthersOwn, RipensOwns DEF Next

LEMMA AlwaysExclusive == Spec => []Exclusive
<1>1. Init => Exclusive
  BY DEF Init, WebhookInit, Exclusive
<1> QED
  BY <1>1, ExclusiveNext, AlwaysTyped, PTL DEF Spec

\* Unless a claim timed out under a live worker or two requests raced, what a
\* worker writes by the id of a delivery lands on the attempt it claimed.
THEOREM ClaimsExclude == Spec => []ClaimIsExclusive
<1>1. Exclusive => ClaimIsExclusive
  BY DEF Exclusive, Owns, ClaimIsExclusive
<1> QED
  BY <1>1, AlwaysExclusive, PTL

(***************************************************************************)
(* The promise.  Every step of the fan-out is a step of WebhookDelivery on *)
(* one delivery, or changes no phase: a claim only turns one open status   *)
(* into another.                                                           *)
(***************************************************************************)
PhaseOf(st) ==
    CASE st = "ABSENT" -> "none"
      [] st = "SUCCESS" -> "delivered"
      [] st = "DLQ" -> "dead"
      [] st = "CANCELLED" -> "cancelled"
      [] OTHER -> "open"

Phase == [d \in DeliveryIds |-> PhaseOf(Status(d))]

\* A worker about to write a success has seen the event reach its subscriber.
Reached == \A p \in Procs : wpc[p] = "write" /\ wout[p] = "success" => wcur[p].id \in arrived

LEMMA ReachedNext == Typed /\ Reached /\ [Next]_vars => Reached'
<1> SUFFICES ASSUME Typed, Reached, [Next]_vars PROVE Reached'
  OBVIOUS
<1> USE DEF Reached, Typed, TypeOK, WebhookTypeOK
<1>1. ASSUME NEW p \in Procs, WorkerMove(p)
      PROVE  Reached'
  <2>1. CASE WorkerPosts(p)
    <3>1. PICK c \in wbatch[p], outcome \in Outcomes : WorkerPosts(p)!(c, outcome)
      BY <2>1 DEF WorkerPosts
    <3>2. arrived \subseteq arrived' /\ (outcome = "success" => c.id \in arrived')
      BY <3>1
    <3> QED
      BY <3>1, <3>2
  <2>2. CASE ~WorkerPosts(p)
    <3>1. arrived' = arrived /\ wpc'[p] # "write" /\ \A q \in Procs \ {p} :
             wpc'[q] = wpc[q] /\ wout'[q] = wout[q] /\ wcur'[q] = wcur[q]
      BY <1>1, <2>2 DEF WorkerMove, WorkerStep, WorkerPops, WorkerClaims, WorkerScans, WorkerWrites
    <3> QED
      BY <3>1
  <2> QED
    BY <2>1, <2>2
<1>2. ASSUME NEW p \in Procs, Fails(p) \/ Ends(p)
      PROVE  Reached'
  <2>1. arrived' = arrived /\ \A q \in Procs : wpc'[q] = "write" =>
           wpc[q] = "write" /\ wout'[q] = wout[q] /\ wcur'[q] = wcur[q]
    BY <1>2 DEF Fails, OutboxPublishFails, ConsumerPublishFails, WorkerPostRaises, Ends, webhookVars
  <2> QED
    BY <2>1
<1>3. CASE UNCHANGED <<webhookVars, arrived>>
  BY <1>3 DEF webhookVars
<1>4. \/ \E p \in Procs : WorkerMove(p) \/ Fails(p) \/ Ends(p)
      \/ UNCHANGED <<webhookVars, arrived>>
  BY DEF Next, vars, OutboxMove, ConsumerMove, AdminMove, AdminStarts, AdminFails, Creates,
         EntryTimesOut, UpdatesSubscriber, DeliveryRipens
<1> QED
  BY <1>1, <1>2, <1>3, <1>4

LEMMA AlwaysReached == Spec => []Reached
<1>1. Init => Reached
  BY DEF Init, WebhookInit, Reached
<1> QED
  BY <1>1, ReachedNext, AlwaysTyped, PTL DEF Spec

LEMMA PromiseInit == Init => Promise!DeliveryInit
BY DEF Init, StoreInit, WebhookInit, Promise!DeliveryInit, Status

\* One row changes its phase.
LEMMA PhaseMoves ==
    ASSUME NEW d \in DeliveryIds, NEW st,
           row'[d].st = st, \A c \in DeliveryIds : c # d => row'[c] = row[c],
           UNCHANGED arrived
    PROVE  Promise!Moves(d, PhaseOf(Status(d)), PhaseOf(st))
<1>1. Phase[d] = PhaseOf(Status(d))
  BY DEF Phase
<1>2. Phase' = [Phase EXCEPT ![d] = PhaseOf(st)]
  BY DEF Phase, Status
<1> QED
  BY <1>1, <1>2 DEF Promise!Moves, Phase, PhaseOf

\* No row does.
LEMMA PhaseStays ==
    ASSUME \A d \in DeliveryIds : PhaseOf(Status(d)') = PhaseOf(Status(d)), UNCHANGED arrived
    PROVE  UNCHANGED Promise!DeliveryVars
<1>1. Phase' = Phase
  BY DEF Phase
<1> QED
  BY <1>1 DEF Promise!DeliveryVars, Phase, PhaseOf

LEMMA WorkerKeepsPromise ==
    ASSUME Typed, Exclusive, Reached, stalls = 0, ~raced, NEW p \in Procs, WorkerMove(p)
    PROVE  [Promise!DeliveryNext]_(Promise!DeliveryVars)
<1> USE DEF Typed, TypeOK, StoreTypeOK, WebhookTypeOK, WorkerTyped
<1>1. CASE WorkerPops(p)
  BY <1>1, PhaseStays DEF WorkerPops, Status
<1>2. ASSUME NEW D \in SUBSET DeliveryIds, ClaimRows(D), UNCHANGED arrived,
             \A d \in D : Status(d) \in {"PENDING", "RETRYING", "DELIVERING"}
      PROVE  UNCHANGED Promise!DeliveryVars
  <2>1. \A d \in D : PhaseOf(Status(d)) = "open"
    BY <1>2 DEF PhaseOf
  <2>2. \A d \in DeliveryIds : Status(d)' = IF d \in D THEN "DELIVERING" ELSE Status(d)
    BY <1>2 DEF ClaimRows, Status
  <2>3. \A d \in DeliveryIds : PhaseOf(Status(d)') = PhaseOf(Status(d))
    BY <2>1, <2>2 DEF PhaseOf
  <2> QED
    BY <1>2, <2>3, PhaseStays
<1>3. CASE WorkerClaims(p)
  <2>1. CASE Claimable(wcur[p].id)
    <3>1. {wcur[p].id} \in SUBSET DeliveryIds
      BY <1>3 DEF WorkerClaims, Copies
    <3> QED
      BY <1>2, <1>3, <2>1, <3>1 DEF WorkerClaims, Claimable
  <2>2. CASE ~Claimable(wcur[p].id)
    BY <1>3, <2>2, PhaseStays DEF WorkerClaims, Status
  <2> QED
    BY <2>1, <2>2
<1>4. CASE WorkerScans(p)
  <2>1. PICK D \in SUBSET {d \in DeliveryIds : Due(d)} : ClaimRows(D)
    BY <1>4 DEF WorkerScans
  <2> QED
    BY <1>2, <1>4, <2>1 DEF WorkerScans, Due
<1>5. CASE WorkerPosts(p)
  <2>1. PICK c \in wbatch[p], outcome \in Outcomes : WorkerPosts(p)!(c, outcome)
    BY <1>5 DEF WorkerPosts
  <2>2. c.id \in DeliveryIds /\ PhaseOf(Status(c.id)) = "open"
    BY DEF Exclusive, Owns, Copies, PhaseOf
  <2>3. row' = row /\ arrived' \in {arrived, arrived \cup {c.id}}
    BY <2>1 DEF storeVars
  <2>4. CASE arrived' = arrived
    BY <2>3, <2>4, PhaseStays DEF Status
  <2>5. CASE arrived' = arrived \cup {c.id}
    <3>1. Phase[c.id] = "open" /\ Phase' = Phase
      BY <2>2, <2>3 DEF Phase, Status
    <3>2. Promise!Arrives(c.id)
      BY <2>5, <3>1 DEF Promise!Arrives, Phase, PhaseOf
    <3> QED
      BY <2>2, <3>2 DEF Promise!DeliveryNext
  <2> QED
    BY <2>3, <2>4, <2>5
<1>6. CASE WorkerWrites(p)
  <2>0. wcur[p] \in wbatch[p] /\ wcur[p].id \in DeliveryIds
    BY <1>6 DEF WorkerWrites, Copies
  <2> PICK d \in DeliveryIds : d = wcur[p].id
    BY <2>0
  <2> PICK st \in {"SUCCESS", "RETRYING", "DLQ"} : st = Verdict(wcur[p], wout[p])
    BY DEF Verdict
  <2>1. wcur[p] \in wbatch[p]
    BY <2>0
  <2>2. PhaseOf(Status(d)) = "open"
    BY <2>1 DEF Exclusive, Owns, PhaseOf
  <2>3. /\ row'[d].st = st
        /\ \A c \in DeliveryIds : c # d => row'[c] = row[c]
        /\ UNCHANGED arrived
    BY <1>6 DEF WorkerWrites, UpdateDelivery
  <2>4. Promise!Moves(d, "open", PhaseOf(st))
    BY <2>1, <2>2, <2>3, PhaseMoves
  <2>5. CASE st = "SUCCESS"
    <3>1. d \in arrived
      BY <1>6, <2>5 DEF WorkerWrites, Verdict, Reached
    <3>2. Promise!Delivered(d)
      BY <2>4, <2>5, <3>1 DEF Promise!Delivered, PhaseOf
    <3> QED
      BY <2>1, <3>2 DEF Promise!DeliveryNext
  <2>6. CASE st = "DLQ"
    BY <2>1, <2>4, <2>6 DEF Promise!DeliveryNext, PhaseOf
  <2>7. CASE st = "RETRYING"
    <3>1. PhaseOf(st) = "open"
      BY <2>7 DEF PhaseOf
    <3>2. \A c \in DeliveryIds : PhaseOf(Status(c)') = PhaseOf(Status(c))
      BY <2>2, <2>3, <3>1 DEF Status
    <3> QED
      BY <2>3, <3>2, PhaseStays
  <2> QED
    BY <2>5, <2>6, <2>7
<1> QED
  BY <1>1, <1>3, <1>4, <1>5, <1>6 DEF WorkerMove, WorkerStep

LEMMA AdminKeepsPromise ==
    ASSUME Typed, ~raced', NEW a \in Admins, AdminMove(a) \/ AdminStarts(a) \/ AdminFails(a)
    PROVE  [Promise!DeliveryNext]_(Promise!DeliveryVars)
<1> USE DEF Typed, TypeOK, StoreTypeOK, WebhookTypeOK, AdminTyped
<1>1. CASE AdminMove(a) /\ (AdminReplays(a) \/ AdminCancels(a))
  <2>1. acopy[a].id \in DeliveryIds
    BY <1>1 DEF AdminReplays, AdminCancels, Copies
  <2> PICK d \in DeliveryIds : d = acopy[a].id
    BY <2>1
  <2>2. Status(d) = "DLQ" /\ UNCHANGED arrived
    BY <1>1 DEF AdminMove, AdminReplays, AdminCancels, Overwrites
  <2>3. PICK st \in {"PENDING", "CANCELLED"} : UpdateDelivery(acopy[a], st)
    BY <1>1 DEF AdminReplays, AdminCancels
  <2>4. row'[d].st = st /\ \A c \in DeliveryIds : c # d => row'[c] = row[c]
    BY <2>3 DEF UpdateDelivery
  <2>5. Promise!Moves(d, "dead", PhaseOf(st))
    BY <2>1, <2>2, <2>4, PhaseMoves DEF PhaseOf
  <2>6. PhaseOf(st) \in {"open", "cancelled"}
    BY DEF PhaseOf
  <2> QED
    BY <2>1, <2>5, <2>6 DEF Promise!DeliveryNext
<1>2. CASE ~(AdminMove(a) /\ (AdminReplays(a) \/ AdminCancels(a)))
  <2>1. UNCHANGED <<row, arrived>>
    BY <1>2 DEF AdminMove, AdminStep, AdminPublishes, AdminStarts, AdminReads, AdminFails,
                AdminPublishFails, storeVars
  <2> QED
    BY <2>1, PhaseStays DEF Status
<1> QED
  BY <1>1, <1>2

LEMMA ConsumerKeepsPromise ==
    ASSUME Typed, NEW p \in Procs, ConsumerMove(p)
    PROVE  [Promise!DeliveryNext]_(Promise!DeliveryVars)
<1> USE DEF Typed, TypeOK, StoreTypeOK, OutboxTypeOK, ConsumerTyped
<1>1. CASE UNCHANGED row
  BY <1>1, PhaseStays DEF ConsumerMove, Status
<1>2. CASE ConsumerCreates(p) /\ ~UNCHANGED row
  <2>1. PICK s \in ctodo[p] :
           /\ cpc[p] = "create"
           /\ ~Conflict(<<cevt[p], s>>)
           /\ CreateDelivery(<<cevt[p], s>>)
    BY <1>2 DEF ConsumerCreates
  <2>2. <<cevt[p], s>> \in DeliveryIds
    BY <2>1 DEF DeliveryIds
  <2> PICK d \in DeliveryIds : d = <<cevt[p], s>>
    BY <2>2
  <2>3. Status(d) = "ABSENT" /\ row'[d].st = "PENDING"
        /\ \A c \in DeliveryIds : c # d => row'[c] = row[c]
    BY <2>1, <2>2, RowCreated DEF Conflict, Status
  <2>4. Promise!Moves(d, PhaseOf("ABSENT"), PhaseOf("PENDING"))
    BY <2>2, <2>3, PhaseMoves DEF ConsumerMove
  <2> QED
    BY <2>2, <2>4 DEF Promise!DeliveryNext, PhaseOf
<1> QED
  BY <1>1, <1>2 DEF ConsumerMove, ConsumerStep, ConsumerPops, ConsumerMatches, ConsumerPublishes,
                    storeVars

LEMMA PromiseNext ==
    ASSUME Typed, Exclusive, Reached, stalls = 0, ~raced, ~raced', [Next]_vars
    PROVE  [Promise!DeliveryNext]_(Promise!DeliveryVars)
<1>1. CASE UNCHANGED <<row, arrived>>
  BY <1>1, PhaseStays DEF Status
<1>2. ASSUME NEW p \in Procs, Fails(p) \/ Ends(p)
      PROVE  UNCHANGED <<row, arrived>>
  BY <1>2 DEF Fails, OutboxPublishFails, ConsumerPublishFails, WorkerPostRaises, Ends, storeVars
<1>3. ASSUME NEW d \in DeliveryIds, DeliveryRipens(d)
      PROVE  UNCHANGED Promise!DeliveryVars
  BY <1>3, RowRipened, PhaseStays
     DEF DeliveryRipens, Status, Typed, TypeOK, StoreTypeOK
<1>4. \/ \E p \in Procs : ConsumerMove(p) \/ WorkerMove(p) \/ Fails(p) \/ Ends(p)
      \/ \E a \in Admins : AdminMove(a) \/ AdminStarts(a) \/ AdminFails(a)
      \/ \E d \in DeliveryIds : DeliveryRipens(d)
      \/ UNCHANGED <<row, arrived>>
  BY DEF Next, vars, storeVars, OutboxMove, OutboxStep, OutboxClaims, OutboxPublishes, OutboxMarks,
         Creates, EntryTimesOut, UpdatesSubscriber
<1> QED
  BY <1>1, <1>2, <1>3, <1>4, WorkerKeepsPromise, AdminKeepsPromise, ConsumerKeepsPromise

\* As long as no claim times out under a live worker and no two requests race,
\* the fan-out implements the life cycle of WebhookDelivery.
THEOREM PromiseKept == Spec /\ [](stalls = 0 /\ ~raced) => KeepsPromise
<1>1. /\ Typed /\ Exclusive /\ Reached /\ stalls = 0 /\ ~raced /\ (stalls = 0 /\ ~raced)'
      /\ [Next]_vars
      => [Promise!DeliveryNext]_(Promise!DeliveryVars)
  BY PromiseNext
<1>2. Spec /\ [](stalls = 0 /\ ~raced) => [][Promise!DeliveryNext]_(Promise!DeliveryVars)
  BY <1>1, AlwaysTyped, AlwaysExclusive, AlwaysReached, PTL DEF Spec
<1> QED
  BY <1>2, PromiseInit, PTL DEF Spec, KeepsPromise, Promise!DeliverySpec

=============================================================================
